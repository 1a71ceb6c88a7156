----------------------------- MODULE RaftSafety -----------------------------
(***************************************************************************)
(* What Raft (consensus/raft.hpp) has to guarantee, and what its comments  *)
(* say it guarantees.                                                      *)
(***************************************************************************)
EXTENDS Raft

\* Every variable keeps its type: in particular no handler indexes a log out of
\* range, and an index is never negative.
TypeOK ==
    /\ currentTerm \in [Server -> Nat]
    /\ votedFor \in [Server -> Server \cup {Nil}]
    /\ disk \in [Server -> Meta]
    /\ role \in [Server -> {"FOLLOWER", "CANDIDATE", "LEADER"}]
    /\ prevotes \in [Server -> SUBSET Server]
    /\ votes \in [Server -> SUBSET Server]
    /\ asked \in [Server -> SUBSET Server]
    /\ contact \in [Server -> BOOLEAN]
    /\ log \in [Server -> Seq(LogEntry)]
    /\ snap \in [Server -> Snapshot]
    /\ commitIndex \in [Server -> Nat]
    /\ lastApplied \in [Server -> Nat]
    /\ snapping \in [Server -> Nat]
    /\ nextIndex \in [Server -> [Server -> Nat]]
    /\ matchIndex \in [Server -> [Server -> Nat]]
    /\ learners \in [Server -> SUBSET Server]
    /\ adds \in [Server -> SUBSET (Nat \X Server \X Nat)]
    /\ call \in [Server -> [Server -> Request \cup {Nil}]]
    /\ reply \in [Server -> [Server -> Reply \cup {Nil}]]
    /\ stale \in SUBSET [from: Server, to: Server, req: Request]
    /\ diskFull \in [Server -> BOOLEAN]
    /\ restarts \in Nat /\ faults \in Nat /\ changes \in Nat
    /\ elected \in SUBSET (Nat \X Server)
    /\ decided \in Seq([entry: LogEntry, at: Nat])

Indexes(i)    == (snap[i].idx + 1)..LastIndex(i)
EntryAt(i, n) == log[i][n - snap[i].idx]

\* Node i has entry n of the committed sequence, in its log or its snapshot.
Holds(i, n) ==
    /\ n <= LastIndex(i)
    /\ n > snap[i].idx => EntryAt(i, n) = decided[n].entry

-----------------------------------------------------------------------------
\* "SINGLE LEADER per term": two nodes never become leader in the same term,
\* whatever crashes, full disks and late requests do to votes.
ElectionSafety ==
    \A p, q \in elected : p[1] = q[1] => p[2] = q[2]

\* "LOG MATCHING": where two logs have an entry of the same term at the same
\* index they are the same up to there, as far as both still have the entries.
LogMatching ==
    \A i, j \in Server : \A n \in Indexes(i) \cap Indexes(j) :
        TermAt(i, n) = TermAt(j, n) =>
            \A m \in Indexes(i) \cap Indexes(j) : m <= n => EntryAt(i, m) = EntryAt(j, m)

\* "ELECTION RESTRICTION": a leader has every entry that was committed in its
\* term or an earlier one.
LeaderCompleteness ==
    \A i \in Server : role[i] = "LEADER" =>
        \A n \in DOMAIN decided : decided[n].at <= currentTerm[i] => Holds(i, n)

\* Nothing is taken for committed that no leader has committed: not by a commit
\* index, an applied entry or a snapshot, on a node or in a request on its way.
Decided(n) == n <= Len(decided)
DecidedBy(q) ==
    /\ q.type = "append" => Decided(q.commit)
    /\ q.type = "snapshot" => Decided(q.snap.idx)
CommitBound ==
    /\ \A i \in Server :
         /\ Decided(commitIndex[i]) /\ Decided(lastApplied[i])
         /\ Decided(snapping[i]) /\ Decided(snap[i].idx)
    /\ \A i, j \in Server : call[i][j] # Nil => DecidedBy(call[i][j])
    /\ \A m \in stale : DecidedBy(m.req)

\* What a node regards as committed is the committed sequence, and it applies
\* nothing else.
CommittedAgree ==
    \A i \in Server :
        /\ \A n \in 1..commitIndex[i] : Decided(n) /\ Holds(i, n)
        /\ lastApplied[i] <= commitIndex[i]

\* The configuration in force at index n of the committed sequence.
ConfigAt(n) ==
    LET cfgs == {m \in 1..n : decided[m].entry.op = "CONFIG"}
    IN IF cfgs = {} THEN InitConfig ELSE decided[Max(cfgs)].entry.cfg

\* A snapshot stands for the committed prefix it replaces: it carries the term
\* of its last entry and the configuration in force there. A node that joined
\* knows no configuration before the first CONFIG entry.
SnapshotFaithful ==
    \A i \in Server : snap[i].idx > 0 =>
        /\ snap[i].idx <= Len(decided)
        /\ snap[i].term = decided[snap[i].idx].entry.term
        /\ \/ snap[i].cfg = ConfigAt(snap[i].idx)
           \/ snap[i].cfg = {} /\ ConfigAt(snap[i].idx) = InitConfig

\* A committed entry stays on a majority: no minority of disks can lose it. (For
\* a fixed configuration.)
CommittedOnMajority ==
    \A n \in DOMAIN decided : Quorum(InitConfig, {i \in Server : Holds(i, n)})

\* "AppendEntries acknowledged" means stored: what a leader believes a follower
\* to hold (match_index), a follower of its term does hold.
MatchInLog ==
    \A i, j \in Server :
        role[i] = "LEADER" /\ currentTerm[j] = currentTerm[i] =>
            /\ matchIndex[i][j] <= LastIndex(j)
            /\ \A n \in (snap[i].idx + 1)..matchIndex[i][j] :
                  n > snap[j].idx => EntryAt(j, n) = EntryAt(i, n)

\* "only one change may be pending": the log of a leader never holds two CONFIG
\* entries that are not committed.
OneChangePending ==
    \A i \in Server : role[i] = "LEADER" =>
        Cardinality({n \in Indexes(i) : n > commitIndex[i] /\ EntryAt(i, n).op = "CONFIG"}) <= 1

\* raft_meta never goes back: terms grow, and the vote of a term is never changed.
VoteIsFinal ==
    [][\A i \in Server :
         \/ disk'[i].term > disk[i].term
         \/ disk'[i].term = disk[i].term /\ disk[i].vote \in {Nil, disk'[i].vote}]_disk

-----------------------------------------------------------------------------
\* "currentTerm, votedFor, the log and the latest snapshot are fsync'ed before
\* any reply that depends on them": the term of a reply is in raft_meta.
ReplyAfterPersist ==
    \A i, j \in Server : reply[i][j] # Nil => reply[i][j].term <= disk[j].term

\* "Idempotent if the member already exists": no configuration names a node twice.
NoDuplicateMember ==
    \A i \in Server : Cardinality(Config(i)) = Cardinality(Members(Config(i)))

\* "configuration as of last_included_index": no snapshot comes without one.
SnapshotHasConfig ==
    \A i \in Server : snap[i].idx > 0 => snap[i].cfg = ConfigAt(snap[i].idx)

-----------------------------------------------------------------------------
\* The refinement mapping to ReplicatedLog.
Chosen == [n \in DOMAIN decided |-> decided[n].entry]
Known  == [i \in Server |-> [n \in 1..commitIndex[i] |->
             IF n <= snap[i].idx THEN Chosen[n] ELSE EntryAt(i, n)]]

Abstract == INSTANCE ReplicatedLog WITH
    Value <- LogEntry, chosen <- Chosen, known <- Known, applied <- lastApplied

\* The consensus core implements the replicated log.
ImplementsReplicatedLog == Abstract!Spec
=============================================================================
