------------------------------ MODULE LogView ------------------------------
(***************************************************************************)
(* What a client of consensus/raft.hpp sees of it: the log of one node, of *)
(* which the committed part stays and the rest may be replaced by another  *)
(* leader. (How the nodes agree is the subject of Raft; compacted entries  *)
(* are kept here, so that properties can speak of them.)                   *)
(***************************************************************************)
EXTENDS Naturals, Sequences, SequencesExt, FiniteSets

CONSTANTS
    MaxRequests,    \* bound: writes submitted to this node
    MaxTerm,        \* bound: terms
    MaxLog          \* bound: length of the log

ASSUME LogViewAssumption == {MaxRequests, MaxTerm, MaxLog} \subseteq Nat

VARIABLES
    leading,    \* role_ = LEADER
    term,       \* current_term_
    log,        \* entries [term, cmd], from index 1
    commit,     \* commit_index_
    snap,       \* snap_index_
    agreed      \* how many entries are committed, whether the node knows it or not

raftVars == <<leading, term, log, commit, snap, agreed>>

\* Commands: a request of this node's clients by its number, the no-op of a new leader, or a
\* command that came through another node.
NoOp == 0
Other == MaxRequests + 1

Entry(t, cmd) == [term |-> t, cmd |-> cmd]

\* The entries up to an index that the state machine is given: no-ops are passed over.
Given(n) == {k \in 1..n : log[k].cmd # NoOp}

Ascending(s) == \A j, k \in DOMAIN s : j < k => s[j] <= s[k]

GivenUpTo(n) ==
    CHOOSE s \in [1..Cardinality(Given(n)) -> Given(n)] : Ascending(s) /\ Range(s) = Given(n)

Elected ==
    /\ ~leading /\ term < MaxTerm /\ Len(log) < MaxLog
    /\ leading' = TRUE
    /\ term' = term + 1
    /\ log' = Append(log, Entry(term + 1, NoOp))
    /\ UNCHANGED <<commit, snap, agreed>>

\* Another node is elected in a later term.
Deposed ==
    /\ leading /\ term < MaxTerm
    /\ leading' = FALSE
    /\ term' = term + 1
    /\ UNCHANGED <<log, commit, snap, agreed>>

\* The log after an entry of the other leader, the first of which is a no-op, was put behind k.
Overwrites ==
    {SubSeq(log, 1, k) \o <<Entry(term, cmd)>> : k \in agreed..Len(log), cmd \in {NoOp, Other}}

\* A follower replaces what conflicts with the log of the leader of its term.
Overwritten ==
    /\ ~leading /\ term > 0 /\ (log # <<>> => Last(log).term < term)
    /\ \E l \in Overwrites : Len(l) <= MaxLog /\ Last(l).cmd = NoOp /\ log' = l
    /\ UNCHANGED <<leading, term, commit, snap, agreed>>

\* A follower that has heard of the leader of its term gets more from it.
Extended ==
    /\ ~leading /\ log # <<>> /\ Last(log).term = term /\ Len(log) < MaxLog
    /\ log' = Append(log, Entry(term, Other))
    /\ UNCHANGED <<leading, term, commit, snap, agreed>>

\* Entries are committed with one of the current term behind or among them.
Committed ==
    /\ log # <<>> /\ Last(log).term = term
    /\ \E n \in (agreed + 1)..Len(log) :
          /\ leading => log[n].term = term
          /\ commit' = n /\ agreed' = n
    /\ UNCHANGED <<leading, term, log, snap>>

\* A node that was restarted learns again what is committed.
LearnCommit ==
    /\ commit < agreed
    /\ \E n \in (commit + 1)..agreed : (leading => log[n].term = term) /\ commit' = n
    /\ UNCHANGED <<leading, term, log, snap, agreed>>

\* A snapshot of the other leader takes the place of entries the node has or has not.
SnapshotInstalled ==
    /\ ~leading /\ term > 0
    /\ \E l \in {log} \cup Overwrites, n \in (commit + 1)..MaxLog :
          /\ n <= Len(l) /\ Len(l) <= MaxLog
          /\ n = Len(l) \/ (l = log /\ n <= agreed)
          /\ log' = l /\ commit' = n /\ snap' = n
          /\ agreed' = IF n > agreed THEN n ELSE agreed
    /\ UNCHANGED <<leading, term>>

\* A write at the leader.
Submitted(cmd) ==
    /\ leading /\ Len(log) < MaxLog
    /\ log' = Append(log, Entry(term, cmd))
    /\ UNCHANGED <<leading, term, commit, snap, agreed>>

\* 0 if there is no entry, or it went into a snapshot.
term_at(idx) == IF idx \in DOMAIN log /\ idx >= snap THEN log[idx].term ELSE 0
=============================================================================
