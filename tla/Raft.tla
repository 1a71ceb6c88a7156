-------------------------------- MODULE Raft --------------------------------
(***************************************************************************)
(* The consensus core of TideVec: RaftNode in consensus/raft.hpp.          *)
(*                                                                         *)
(* A server is one RaftNode. Every method of RaftNode runs under one mutex *)
(* and gives it up only around an outgoing RPC, so each handler, and each  *)
(* stretch of a thread between two RPCs, is one action here.               *)
(*                                                                         *)
(* There is one replicator thread per (node, peer). It has at most one RPC *)
(* outstanding: call[i][j] holds the arguments it waits with, reply[i][j]  *)
(* the answer on its way back. A call may be given up at any moment (the   *)
(* transport returned nullopt); the request it sent may still be executed  *)
(* later, out of order: it is then in stale.                               *)
(*                                                                         *)
(* Abstracted: payloads (a CMD entry is its term and index), addresses,    *)
(* the clock (a timer may fire whenever the code lets it be armed), and    *)
(* the log file, taken to hold what log holds (RaftStore is about that     *)
(* file). The file raft_meta is kept apart, in disk: the code lets memory  *)
(* run ahead of it.                                                        *)
(***************************************************************************)
EXTENDS Integers, Sequences, FiniteSets, FiniteSetsExt

CONSTANTS
    Server,              \* node ids
    InitMembers,         \* the bootstrap configuration; the others `join`
    Nil,
    PreVote,             \* RaftConfig::pre_vote
    CheckQuorum,         \* RaftConfig::check_quorum
    SnapshotThreshold,   \* RaftConfig::snapshot_threshold, 0 = never
    MaxEntriesPerRpc,    \* RaftConfig::max_log_entries_per_rpc
    \* Bounds of the model, none of them in the code.
    MaxTerm,             \* no election starts above this term
    MaxLog,              \* no client entry is appended beyond this index
    MaxApplied,          \* entries a state machine applies
    MaxRestarts,         \* crashes, all nodes together
    MaxFaults,           \* times a disk becomes full
    MaxCalls,            \* RPCs outstanding at once, all nodes together
    MaxStale,            \* abandoned requests in flight at once
    MaxChanges           \* membership changes attempted

ASSUME MembersAssumption == InitMembers \subseteq Server /\ IsFiniteSet(Server)
ASSUME NilAssumption == Nil \notin Server
ASSUME SwitchAssumption == PreVote \in BOOLEAN /\ CheckQuorum \in BOOLEAN
ASSUME ThresholdAssumption == SnapshotThreshold \in Nat /\ MaxEntriesPerRpc \in Nat \ {0}
ASSUME BoundAssumption ==
    {MaxTerm, MaxLog, MaxApplied, MaxRestarts, MaxFaults, MaxCalls, MaxStale,
     MaxChanges} \subseteq Nat

VARIABLES
    currentTerm, votedFor,   \* in memory
    disk,                    \* raft_meta: [term, vote]
    role,
    prevotes,                \* of the running pre-vote round, {} if prevoting_ is false
    votes,                   \* of a candidate, else {}
    asked,                   \* peers sent this round's (pre-)vote request, else {}
    contact,                 \* heard a leader within the minimum election timeout
    log,                     \* entries after the snapshot
    snap,                    \* latest snapshot: [idx, term, cfg]
    commitIndex,
    lastApplied,
    snapping,                \* index of the snapshot being serialised, 0 if none
    nextIndex,               \* 0: no PeerState for that node yet
    matchIndex,
    learners,                \* learners_
    adds,                    \* add_server calls waiting for catch-up: <<id, node, term>>
    call, reply, stale,
    diskFull,                \* every write of the node fails
    restarts, faults, changes,
    elected,                 \* history: <<term, leader>>
    decided                  \* history: entries a leader committed, in order

durable  == <<currentTerm, votedFor, disk>>
ballot   == <<role, prevotes, votes, asked>>
machine  == <<lastApplied, snapping>>
progress == <<nextIndex, matchIndex>>
change   == <<learners, adds>>
net      == <<call, reply, stale>>
env      == <<diskFull, restarts, faults, changes>>
history  == <<elected, decided>>
vars == <<durable, ballot, contact, log, snap, commitIndex, machine,
          progress, change, net, env, history>>

-----------------------------------------------------------------------------
\* Data

Op == {"NOOP", "CMD", "CONFIG"}

\* A Membership is a vector and may hold a node twice: each member is paired with
\* the index of the entry that added it.
Membership == SUBSET (Server \X Nat)
LogEntry   == [term: Nat, op: Op, cfg: Membership]
Snapshot   == [idx: Nat, term: Nat, cfg: Membership]
Meta       == [term: Nat, vote: Server \cup {Nil}]

Entry(t, op, cfg) == [term |-> t, op |-> op, cfg |-> cfg]

InitConfig == InitMembers \X {0}

VoteRequest     == [type: {"prevote", "vote"}, term: Nat, lastIndex: Nat, lastTerm: Nat]
AppendRequest   == [type: {"append"}, term: Nat, prev: Nat, prevTerm: Nat,
                    entries: Seq(LogEntry), commit: Nat]
SnapshotRequest == [type: {"snapshot"}, term: Nat, snap: Snapshot]
Request == VoteRequest \cup AppendRequest \cup SnapshotRequest
Reply   == [term: Nat, ok: BOOLEAN, conflictIndex: Nat, conflictTerm: Nat]
Answer(t, ok) == [term |-> t, ok |-> ok, conflictIndex |-> 0, conflictTerm |-> 0]

Members(cfg) == {m[1] : m \in cfg}

\* Mutant: half of the members are enough.
Quorum_Half(cfg, S) == 2 * Cardinality({m \in cfg : m[1] \in S}) >= Cardinality(cfg)

\* _quorum: a strict majority of the entries of the configuration.
Quorum(cfg, S) == 2 * Cardinality({m \in cfg : m[1] \in S}) > Cardinality(cfg)

LastIndex(i) == snap[i].idx + Len(log[i])

\* _term over the snapshot s and the log l: defined from s.idx to the last index.
TermIn(s, l, n) == IF n = s.idx THEN s.term ELSE l[n - s.idx].term
TermAt(i, n)    == TermIn(snap[i], log[i], n)
LastTerm(i)     == TermAt(i, LastIndex(i))

\* The latest CONFIG entry of the log decides, committed or not.
ConfigsIn(l) == {k \in DOMAIN l : l[k].op = "CONFIG"}
ConfigOf(s, l) ==
    IF ConfigsIn(l) = {} THEN s.cfg ELSE l[Max(ConfigsIn(l))].cfg
ConfigIndexOf(s, l) ==
    IF ConfigsIn(l) = {} THEN s.idx ELSE s.idx + Max(ConfigsIn(l))
Config(i)      == ConfigOf(snap[i], log[i])
ConfigIndex(i) == ConfigIndexOf(snap[i], log[i])
Voter(i, j)    == j \in Members(Config(i))

\* Nodes that have a running replicator thread on i.
Wanted(i) == (Members(Config(i)) \cup learners[i]) \ {i}

\* _reconcile_peers: a node seen for the first time gets a PeerState; one seen
\* before keeps what is recorded of it.
Reconcile(i, known, s, l, lrn) ==
    [j \in Server |->
        IF known[j] = 0 /\ j \in (Members(ConfigOf(s, l)) \cup lrn) \ {i}
        THEN s.idx + Len(l) + 1 ELSE known[j]]

\* _leader_recent
LeaderRecent(i) == role[i] = "LEADER" \/ contact[i]

\* Mutant: any candidate is good enough.
UpToDate_Always(i, q) == TRUE

\* The log of the candidate is at least as up-to-date as the log of i.
UpToDate(i, q) ==
    \/ q.lastTerm > LastTerm(i)
    \/ q.lastTerm = LastTerm(i) /\ q.lastIndex >= LastIndex(i)

-----------------------------------------------------------------------------
\* Steps shared by the actions

\* Votes and pre-votes are counted only while a round runs.
StopCampaign(i) ==
    /\ prevotes' = [prevotes EXCEPT ![i] = {}]
    /\ votes' = [votes EXCEPT ![i] = {}]
    /\ asked' = [asked EXCEPT ![i] = {}]

\* Mutant: the vote of the running term is cleared as well.
StepDown_SameTerm(i, t) ==
    /\ currentTerm' = [currentTerm EXCEPT ![i] = t]
    /\ votedFor' = [votedFor EXCEPT ![i] = Nil]
    /\ disk' = IF diskFull[i] THEN disk ELSE [disk EXCEPT ![i] = [term |-> t, vote |-> Nil]]
    /\ role' = [role EXCEPT ![i] = "FOLLOWER"]
    /\ StopCampaign(i)

\* _step_down: a term that cannot be persisted is adopted all the same.
StepDown(i, t) ==
    /\ IF t > currentTerm[i]
       THEN /\ currentTerm' = [currentTerm EXCEPT ![i] = t]
            /\ votedFor' = [votedFor EXCEPT ![i] = Nil]
            /\ disk' = IF diskFull[i] THEN disk
                       ELSE [disk EXCEPT ![i] = [term |-> t, vote |-> Nil]]
       ELSE UNCHANGED durable
    /\ role' = [role EXCEPT ![i] = "FOLLOWER"]
    /\ StopCampaign(i)

\* Mutant: an entry of an earlier term is committed by counting its copies.
Committable_AnyTerm(i, t, l, match) ==
    {n \in (commitIndex[i] + 1)..(snap[i].idx + Len(l)) :
       Quorum(ConfigOf(snap[i], l), {i} \cup {j \in Server : match[j] >= n})}

\* The indexes the loop of _advance_commit accepts: from n to the end the log is
\* of the leader's own term, and a majority is known to hold n.
Committable(i, t, l, match) ==
    LET s    == snap[i]
        last == s.idx + Len(l)
    IN {n \in (commitIndex[i] + 1)..last :
          /\ \A m \in n..last : TermIn(s, l, m) = t
          /\ Quorum(ConfigOf(s, l), {i} \cup {j \in Server : match[j] >= n})}

\* _advance_commit of leader i, of term t, whose log is now l. A leader that the
\* committed configuration does not name stops leading.
AdvanceCommit(i, t, l, match) ==
    LET new == Committable(i, t, l, match)
        c   == IF new = {} THEN commitIndex[i] ELSE Max(new)
        out == /\ ConfigIndexOf(snap[i], l) <= c
               /\ i \notin Members(ConfigOf(snap[i], l))
    IN /\ commitIndex' = [commitIndex EXCEPT ![i] = c]
       /\ role' = [role EXCEPT ![i] = IF out THEN "FOLLOWER" ELSE "LEADER"]
       /\ decided' = decided \o [n \in 1..Max({0, c - Len(decided)}) |->
             [entry |-> l[Len(decided) + n - snap[i].idx], at |-> t]]

\* _become_leader of term t: a leader that cannot append its NOOP gives up.
BecomeLeader(i, t) ==
    LET l == Append(log[i], Entry(t, "NOOP", {}))
        none == [j \in Server |-> 0]
    IN /\ nextIndex' = [nextIndex EXCEPT ![i] =
              [j \in Server |-> IF @[j] = 0 THEN 0 ELSE LastIndex(i) + 1]]
       /\ matchIndex' = [matchIndex EXCEPT ![i] = none]
       /\ StopCampaign(i)
       /\ IF diskFull[i]
          THEN /\ role' = [role EXCEPT ![i] = "FOLLOWER"]
               /\ UNCHANGED <<log, commitIndex, history>>
          ELSE /\ log' = [log EXCEPT ![i] = l]
               /\ AdvanceCommit(i, t, l, none)
               /\ elected' = elected \cup {<<t, i>>}

\* The new term and vote can be persisted (MaxTerm: the model's last term).
CanStartElection(i) == ~diskFull[i] /\ currentTerm[i] < MaxTerm

\* _start_election, once raft_meta is written.
StartElection(i) ==
    LET t == currentTerm[i] + 1
    IN /\ currentTerm' = [currentTerm EXCEPT ![i] = t]
       /\ votedFor' = [votedFor EXCEPT ![i] = i]
       /\ disk' = [disk EXCEPT ![i] = [term |-> t, vote |-> i]]
       /\ IF Quorum(Config(i), {i})
          THEN BecomeLeader(i, t)
          ELSE /\ role' = [role EXCEPT ![i] = "CANDIDATE"]
               /\ prevotes' = [prevotes EXCEPT ![i] = {}]
               /\ votes' = [votes EXCEPT ![i] = {i}]
               /\ asked' = [asked EXCEPT ![i] = {}]
               /\ UNCHANGED <<log, commitIndex, progress, history>>

-----------------------------------------------------------------------------
\* Election timer thread

\* Mutant: a candidate goes back to probing, which only followers do.
Probes_CandidateToo(i) ==
    PreVote /\ Cardinality(Config(i)) > 1 /\ currentTerm[i] < MaxTerm

\* A follower probes before it starts an election, a candidate does not.
Probes(i) ==
    /\ PreVote /\ Cardinality(Config(i)) > 1 /\ role[i] = "FOLLOWER"
    /\ currentTerm[i] < MaxTerm

\* _election_loop: the timer of a voter that does not lead runs out: no leader was
\* heard for the minimum timeout.
Timeout(i) ==
    /\ role[i] # "LEADER"
    /\ Voter(i, i)
    /\ contact' = [contact EXCEPT ![i] = FALSE]
    /\ IF Probes(i)
       THEN /\ prevotes' = [prevotes EXCEPT ![i] = {i}]
            /\ asked' = [asked EXCEPT ![i] = {}]
            /\ UNCHANGED <<durable, role, votes, log, commitIndex, progress, history>>
       ELSE IF CanStartElection(i) THEN StartElection(i)
       ELSE UNCHANGED <<durable, ballot, log, commitIndex, progress, history>>
    /\ UNCHANGED <<snap, machine, change, net, env>>

\* The leader was last heard longer ago than the minimum election timeout.
ContactExpires(i) ==
    /\ contact[i]
    /\ contact' = [contact EXCEPT ![i] = FALSE]
    /\ UNCHANGED <<durable, ballot, log, snap, commitIndex, machine, progress,
                   change, net, env, history>>

\* _election_loop of a leader: no majority answered for the maximum timeout.
CheckQuorumFails(i) ==
    /\ CheckQuorum
    /\ role[i] = "LEADER"
    /\ ~Quorum(Config(i), {i})
    /\ role' = [role EXCEPT ![i] = "FOLLOWER"]
    /\ UNCHANGED <<durable, prevotes, votes, asked, contact, log, snap, commitIndex,
                   machine, progress, change, net, env, history>>

-----------------------------------------------------------------------------
\* Replicator threads: sending

Send(i, j, q) ==
    /\ j \in Wanted(i)
    /\ call[i][j] = Nil
    /\ Cardinality({p \in Server \X Server : call[p[1]][p[2]] # Nil}) < MaxCalls
    /\ call' = [call EXCEPT ![i][j] = q]
    /\ UNCHANGED <<durable, role, prevotes, votes, contact, log, snap, commitIndex,
                   machine, progress, change, reply, stale, env, history>>

\* Mutant: off by one.
BallotRequest_OffByOne(i, type, t) ==
    [type |-> type, term |-> t, lastIndex |-> LastIndex(i) - 1, lastTerm |-> LastTerm(i)]

BallotRequest(i, type, t) ==
    [type |-> type, term |-> t, lastIndex |-> LastIndex(i), lastTerm |-> LastTerm(i)]

SendPreVote(i, j) ==
    /\ prevotes[i] # {} /\ role[i] = "FOLLOWER"
    /\ Voter(i, j) /\ j \notin asked[i]
    /\ asked' = [asked EXCEPT ![i] = @ \cup {j}]
    /\ Send(i, j, BallotRequest(i, "prevote", currentTerm[i] + 1))

SendVote(i, j) ==
    /\ role[i] = "CANDIDATE"
    /\ Voter(i, j) /\ j \notin asked[i]
    /\ asked' = [asked EXCEPT ![i] = @ \cup {j}]
    /\ Send(i, j, BallotRequest(i, "vote", currentTerm[i]))

\* The batch starts at next_index, clamped to what the log holds.
SendAppend(i, j) ==
    LET ni   == Min({nextIndex[i][j], LastIndex(i) + 1})
        from == ni - snap[i].idx
    IN /\ role[i] = "LEADER"
       /\ nextIndex[i][j] > snap[i].idx
       /\ Send(i, j, [type |-> "append", term |-> currentTerm[i],
                      prev |-> ni - 1, prevTerm |-> TermAt(i, ni - 1),
                      entries |-> SubSeq(log[i], from,
                                         Min({Len(log[i]), from + MaxEntriesPerRpc - 1})),
                      commit |-> commitIndex[i]])
       /\ UNCHANGED asked

SendSnapshot(i, j) ==
    /\ role[i] = "LEADER"
    /\ nextIndex[i][j] \in 1..snap[i].idx
    /\ Send(i, j, [type |-> "snapshot", term |-> currentTerm[i], snap |-> snap[i]])
    /\ UNCHANGED asked

-----------------------------------------------------------------------------
\* RPC handlers: the effect on the receiver j, and the reply

\* on_request_vote, pre-vote branch: changes nothing.
HandlePreVote(j, q) ==
    /\ q.type = "prevote"
    /\ UNCHANGED <<durable, ballot, contact, log, commitIndex, snap, nextIndex>>

PreVoteReply(j, q) ==
    Answer(currentTerm[j], q.term > currentTerm[j] /\ UpToDate(j, q) /\ ~LeaderRecent(j))

\* Mutant: a request of an old term is served.
IgnoresVote_OnlyLive(j, q) == q.term > currentTerm[j] /\ CheckQuorum /\ LeaderRecent(j)

\* A vote request is ignored if it is of an old term, or if it would disturb a
\* live leader.
IgnoresVote(j, q) ==
    \/ q.term < currentTerm[j]
    \/ q.term > currentTerm[j] /\ CheckQuorum /\ LeaderRecent(j)

\* Mutant: the vote given in this term is forgotten.
VoteIn_Forgets(j, t) == Nil

\* The vote of j in term t >= currentTerm[j].
VoteIn(j, t) == IF t > currentTerm[j] THEN Nil ELSE votedFor[j]

\* Mutant: the vote is given whether or not it could be persisted.
Grants_Unpersisted(i, j, q) ==
    ~IgnoresVote(j, q) /\ UpToDate(j, q) /\ VoteIn(j, q.term) \in {i, Nil}

\* The vote is given only once it is in raft_meta.
Grants(i, j, q) ==
    /\ ~IgnoresVote(j, q)
    /\ UpToDate(j, q)
    /\ \/ VoteIn(j, q.term) = i
       \/ VoteIn(j, q.term) = Nil /\ ~diskFull[j]

\* on_request_vote for candidate i.
HandleVote(i, j, q) ==
    LET vote == IF Grants(i, j, q) THEN i ELSE VoteIn(j, q.term)
        new  == q.term > currentTerm[j]
    IN /\ q.type = "vote"
       /\ IF IgnoresVote(j, q)
          THEN UNCHANGED durable
          ELSE /\ currentTerm' = [currentTerm EXCEPT ![j] = q.term]
               /\ votedFor' = [votedFor EXCEPT ![j] = vote]
               /\ disk' = IF ~diskFull[j] /\ (new \/ vote # votedFor[j])
                          THEN [disk EXCEPT ![j] = [term |-> q.term, vote |-> vote]]
                          ELSE disk
       /\ IF new /\ ~IgnoresVote(j, q)
          THEN role' = [role EXCEPT ![j] = "FOLLOWER"] /\ StopCampaign(j)
          ELSE UNCHANGED ballot
       /\ UNCHANGED <<contact, log, commitIndex, snap, nextIndex>>

VoteReply(i, j, q) ==
    Answer(IF IgnoresVote(j, q) THEN currentTerm[j] ELSE q.term, Grants(i, j, q))

\* What on_append_entries and on_install_snapshot do first for a current leader.
HearLeader(j, t) ==
    /\ StepDown(j, t)
    /\ contact' = [contact EXCEPT ![j] = PreVote \/ CheckQuorum]

\* Mutant: a request that is not about the end of the log cuts it.
KeepTo_Cuts(j, q) == Max({snap[j].idx, Min({LastIndex(j), q.prev})})

\* The last entry j keeps of its own log when it merges the entries of q: up to
\* the first one whose term differs, if there is one.
KeepTo(j, q) ==
    LET first == Max({q.prev, snap[j].idx}) + 1
        last  == Min({LastIndex(j), q.prev + Len(q.entries)})
        clash == {n \in first..last : TermAt(j, n) # q.entries[n - q.prev].term}
    IN IF clash = {} THEN LastIndex(j) ELSE Min(clash) - 1

\* Mutant: the entry before the batch is not compared.
PrevMatches_Always(j, q) == TRUE

PrevMatches(j, q) == q.prev < snap[j].idx \/ TermAt(j, q.prev) = q.prevTerm

\* The way on_append_entries returns.
AppendVerdict(j, q) ==
    LET end == q.prev + Len(q.entries)
    IN IF q.term < currentTerm[j] THEN "old term"
       ELSE IF q.prev < snap[j].idx /\ end <= snap[j].idx THEN "covered"
       ELSE IF q.prev > LastIndex(j) THEN "gap"
       ELSE IF ~PrevMatches(j, q) THEN "mismatch"
       ELSE IF KeepTo(j, q) < commitIndex[j] THEN "refused"
       ELSE IF diskFull[j] /\ end > KeepTo(j, q) THEN "io error"
       ELSE "accepted"

\* Mutant: bounded by the follower's log, not by what this request has verified.
CommitUpTo_OwnLog(j, q) == Max({commitIndex[j], Min({q.commit, LastIndex(j)})})

CommitUpTo(j, q) == Max({commitIndex[j], Min({q.commit, q.prev + Len(q.entries)})})

\* on_append_entries
HandleAppend(j, q) ==
    LET verdict == AppendVerdict(j, q)
        keep    == KeepTo(j, q)
        l       == SubSeq(log[j], 1, keep - snap[j].idx)
                     \o SubSeq(q.entries, keep - q.prev + 1, Len(q.entries))
    IN /\ q.type = "append"
       /\ IF verdict = "old term"
          THEN UNCHANGED <<durable, ballot, contact>>
          ELSE HearLeader(j, q.term)
       /\ IF verdict = "accepted"
          THEN /\ log' = [log EXCEPT ![j] = l]
               /\ commitIndex' = [commitIndex EXCEPT ![j] = CommitUpTo(j, q)]
               /\ nextIndex' = [nextIndex EXCEPT ![j] = Reconcile(j, @, snap[j], l, learners[j])]
          ELSE UNCHANGED <<log, commitIndex, nextIndex>>
       /\ UNCHANGED snap

\* The first index of the run of entries that ends at p and is of p's term.
FirstOfTerm(j, p) ==
    IF p <= snap[j].idx + 1 THEN p
    ELSE Min({n \in (snap[j].idx + 1)..p :
                \A m \in n..p : TermAt(j, m) = TermAt(j, p)})

\* Mutant: entries that could not be written are acknowledged.
Acknowledges_IoError(verdict) == verdict \in {"covered", "accepted", "io error"}

Acknowledges(verdict) == verdict \in {"covered", "accepted"}

AppendReply(j, q) ==
    LET verdict == AppendVerdict(j, q)
    IN [term |-> IF verdict = "old term" THEN currentTerm[j] ELSE q.term,
        ok   |-> Acknowledges(verdict),
        conflictIndex |-> CASE verdict = "gap"      -> LastIndex(j) + 1
                            [] verdict = "mismatch" -> FirstOfTerm(j, q.prev)
                            [] verdict = "io error" -> q.prev + 1
                            [] OTHER                -> 0,
        conflictTerm  |-> IF verdict = "mismatch" THEN TermAt(j, q.prev) ELSE 0]

\* The way on_install_snapshot returns (the snapshot comes as one chunk).
SnapshotVerdict(j, q) ==
    IF q.term < currentTerm[j] THEN "old term"
    ELSE IF q.snap.idx <= Max({snap[j].idx, lastApplied[j]}) THEN "covered"
    ELSE IF diskFull[j] THEN "io error"
    ELSE "installed"

\* Mutant: the snapshot always replaces the whole log.
KeepsSuffix_Never(j, q) == FALSE

\* The entries after the snapshot are kept only if the log holds its last entry.
KeepsSuffix(j, q) ==
    q.snap.idx <= LastIndex(j) /\ TermAt(j, q.snap.idx) = q.snap.term

\* on_install_snapshot
HandleSnapshot(j, q) ==
    LET verdict == SnapshotVerdict(j, q)
        l       == IF KeepsSuffix(j, q)
                   THEN SubSeq(log[j], q.snap.idx - snap[j].idx + 1, Len(log[j]))
                   ELSE << >>
    IN /\ q.type = "snapshot"
       /\ IF verdict = "old term"
          THEN UNCHANGED <<durable, ballot, contact>>
          ELSE HearLeader(j, q.term)
       /\ IF verdict = "installed"
          THEN /\ snap' = [snap EXCEPT ![j] = q.snap]
               /\ log' = [log EXCEPT ![j] = l]
               /\ commitIndex' = [commitIndex EXCEPT ![j] = Max({@, q.snap.idx})]
               /\ nextIndex' = [nextIndex EXCEPT ![j] =
                                  Reconcile(j, @, q.snap, l, learners[j])]
          ELSE UNCHANGED <<snap, log, commitIndex, nextIndex>>

SnapshotReply(j, q) ==
    Answer(Max({q.term, currentTerm[j]}),
           SnapshotVerdict(j, q) \in {"covered", "installed"})

-----------------------------------------------------------------------------
\* RPC handlers: delivery

Handle(i, j, q) ==
    /\ \/ HandlePreVote(j, q)
       \/ HandleVote(i, j, q)
       \/ HandleAppend(j, q)
       \/ HandleSnapshot(j, q)
    /\ UNCHANGED <<machine, matchIndex, change, env, history>>

ReplyTo(i, j, q) ==
    CASE q.type = "prevote"  -> PreVoteReply(j, q)
      [] q.type = "vote"     -> VoteReply(i, j, q)
      [] q.type = "append"   -> AppendReply(j, q)
      [] q.type = "snapshot" -> SnapshotReply(j, q)

\* The request of i reaches j while i waits for the answer.
Deliver(i, j) ==
    /\ call[i][j] # Nil /\ reply[i][j] = Nil
    /\ Handle(i, j, call[i][j])
    /\ reply' = [reply EXCEPT ![i][j] = ReplyTo(i, j, call[i][j])]
    /\ UNCHANGED <<call, stale>>

\* An abandoned request is executed after all; nobody reads the answer.
DeliverStale ==
    \E m \in stale :
        /\ Handle(m.from, m.to, m.req)
        /\ stale' = stale \ {m}
        /\ UNCHANGED <<call, reply>>

\* The call of i to j is over. Its request may still be on its way.
HangUp(i, j) ==
    /\ call' = [call EXCEPT ![i][j] = Nil]
    /\ reply' = [reply EXCEPT ![i][j] = Nil]

\* The transport gives up, or the answer is one that changes nothing.
AbandonCall(i, j) ==
    /\ call[i][j] # Nil
    /\ HangUp(i, j)
    /\ \/ UNCHANGED stale
       \/ /\ reply[i][j] = Nil
          /\ Cardinality(stale) < MaxStale
          /\ stale' = stale \cup {[from |-> i, to |-> j, req |-> call[i][j]]}
    /\ UNCHANGED <<durable, ballot, contact, log, snap, commitIndex, machine,
                   progress, change, env, history>>

-----------------------------------------------------------------------------
\* Replicator threads: answers

Answered(i, j, type) == call[i][j] # Nil /\ reply[i][j] # Nil /\ call[i][j].type = type

\* An answer of a higher term, unless it is a granted pre-vote.
ReceiveHigherTerm(i, j) ==
    /\ call[i][j] # Nil /\ reply[i][j] # Nil
    /\ reply[i][j].term > currentTerm[i]
    /\ ~(call[i][j].type = "prevote" /\ reply[i][j].ok)
    /\ StepDown(i, reply[i][j].term)
    /\ HangUp(i, j)
    /\ UNCHANGED <<contact, log, snap, commitIndex, machine, progress, change, stale,
                   env, history>>

\* A pre-vote of the running round (j was asked in it).
ReceivePreVote(i, j) ==
    LET got == prevotes[i] \cup {j}
    IN /\ Answered(i, j, "prevote") /\ reply[i][j].ok
       /\ prevotes[i] # {} /\ j \in asked[i]
       /\ IF Quorum(Config(i), got) /\ CanStartElection(i)
          THEN StartElection(i)
          ELSE /\ prevotes' = [prevotes EXCEPT ![i] =
                                IF Quorum(Config(i), got) THEN {} ELSE got]
               /\ UNCHANGED <<durable, role, votes, asked, log, commitIndex, progress,
                              history>>
       /\ HangUp(i, j)
       /\ UNCHANGED <<contact, snap, machine, change, stale, env>>

ReceiveVote(i, j) ==
    LET got == votes[i] \cup {j}
    IN /\ Answered(i, j, "vote") /\ reply[i][j].ok
       /\ reply[i][j].term <= currentTerm[i]
       /\ role[i] = "CANDIDATE" /\ currentTerm[i] = call[i][j].term
       /\ IF Quorum(Config(i), got)
          THEN BecomeLeader(i, currentTerm[i])
          ELSE /\ votes' = [votes EXCEPT ![i] = got]
               /\ UNCHANGED <<role, prevotes, asked, log, commitIndex, progress, history>>
       /\ HangUp(i, j)
       /\ UNCHANGED <<durable, contact, snap, machine, change, stale, env>>

\* j holds everything up to m: only news if it raises match_index.
Acknowledge(i, j, m) ==
    LET match == [matchIndex[i] EXCEPT ![j] = Max({@, m})]
    IN /\ matchIndex' = [matchIndex EXCEPT ![i] = match]
       /\ nextIndex' = [nextIndex EXCEPT ![i][j] = match[j] + 1]
       /\ AdvanceCommit(i, currentTerm[i], log[i], match)
       /\ UNCHANGED <<elected, log>>

\* The answer is to a request of the term i still leads.
StillLeads(i, j) ==
    /\ reply[i][j].term <= currentTerm[i]
    /\ role[i] = "LEADER" /\ currentTerm[i] = call[i][j].term

ReceiveAppendOk(i, j) ==
    /\ Answered(i, j, "append") /\ reply[i][j].ok
    /\ StillLeads(i, j)
    /\ Acknowledge(i, j, call[i][j].prev + Len(call[i][j].entries))
    /\ HangUp(i, j)
    /\ UNCHANGED <<durable, prevotes, votes, asked, contact, snap, machine,
                   change, stale, env>>

ReceiveSnapshotOk(i, j) ==
    /\ Answered(i, j, "snapshot") /\ reply[i][j].ok
    /\ StillLeads(i, j)
    /\ Acknowledge(i, j, call[i][j].snap.idx)
    /\ HangUp(i, j)
    /\ UNCHANGED <<durable, prevotes, votes, asked, contact, snap, machine,
                   change, stale, env>>

\* The logs diverge: back up to the leader's last entry of the conflicting term,
\* else to where the follower says. (conflict 0 / prev + 1 means retry.)
ReceiveAppendConflict(i, j) ==
    LET q == call[i][j]
        r == reply[i][j]
        own == {n \in (snap[i].idx + 1)..Min({q.prev, LastIndex(i)}) :
                  r.conflictTerm > 0 /\ TermAt(i, n) = r.conflictTerm}
        back == IF own = {} THEN r.conflictIndex ELSE Max(own) + 1
    IN /\ Answered(i, j, "append") /\ ~r.ok
       /\ StillLeads(i, j)
       /\ ~(r.conflictTerm = 0 /\ r.conflictIndex = q.prev + 1)
       /\ nextIndex' = [nextIndex EXCEPT ![i][j] = Max({1, Min({back, q.prev})})]
       /\ HangUp(i, j)
       /\ UNCHANGED <<durable, ballot, contact, log, snap, commitIndex, machine,
                      matchIndex, change, stale, env, history>>

-----------------------------------------------------------------------------
\* Clients and membership

\* _append_local of entry e by leader i, then _advance_commit.
AppendLocal(i, e, lrn) ==
    LET l == Append(log[i], e)
    IN /\ log' = [log EXCEPT ![i] = l]
       /\ nextIndex' = [nextIndex EXCEPT ![i] = Reconcile(i, @, snap[i], l, lrn)]
       /\ AdvanceCommit(i, currentTerm[i], l, matchIndex[i])

Submit(i) ==
    /\ role[i] = "LEADER" /\ ~diskFull[i]
    /\ LastIndex(i) < MaxLog
    /\ AppendLocal(i, Entry(currentTerm[i], "CMD", {}), learners[i])
    /\ UNCHANGED <<durable, prevotes, votes, asked, contact, snap, machine,
                   matchIndex, change, net, env, elected>>

\* Appends have failed for longer than the minimum election timeout.
SubmitFails(i) ==
    /\ role[i] = "LEADER" /\ diskFull[i]
    /\ StepDown(i, currentTerm[i])
    /\ UNCHANGED <<contact, log, snap, commitIndex, machine, progress, change, net, env,
                   history>>

\* Mutant: a change in flight does not hold up the next one.
ChangeSlotFree_Pending(i) ==
    role[i] = "LEADER" /\ TermAt(i, commitIndex[i]) = currentTerm[i]

\* _change_blocker is empty: i leads, no change is uncommitted, and an entry of
\* its own term is committed.
ChangeSlotFree(i) ==
    /\ role[i] = "LEADER"
    /\ ConfigIndex(i) <= commitIndex[i]
    /\ TermAt(i, commitIndex[i]) = currentTerm[i]

\* The learner j is within one batch of the log of i.
CaughtUp(i, j) == matchIndex[i][j] + MaxEntriesPerRpc >= LastIndex(i)

\* add_server up to the wait for catch-up, when there is something to wait for: j
\* becomes a learner, and the lock is free until the wait ends.
AddServerBegin(i, j) ==
    /\ changes < MaxChanges
    /\ ChangeSlotFree(i)
    /\ ~Voter(i, j) /\ ~CaughtUp(i, j)
    /\ learners' = [learners EXCEPT ![i] = @ \cup {j}]
    /\ adds' = [adds EXCEPT ![i] = @ \cup {<<changes, j, currentTerm[i]>>}]
    /\ nextIndex' = [nextIndex EXCEPT ![i] =
                       Reconcile(i, @, snap[i], log[i], learners[i] \cup {j})]
    /\ changes' = changes + 1
    /\ UNCHANGED <<durable, ballot, contact, log, snap, commitIndex, machine, matchIndex,
                   net, diskFull, restarts, faults, history>>

\* add_server of a node that has caught up when the wait begins: the lock is kept, and
\* j is a peer from before the entry on. When the disk is full this is RemoveLearner.
AddServerAtOnce(i, j) ==
    LET cfg   == Config(i) \cup {<<j, LastIndex(i) + 1>>}
        l     == Append(log[i], Entry(currentTerm[i], "CONFIG", cfg))
        known == Reconcile(i, nextIndex[i], snap[i], log[i], learners[i] \cup {j})
    IN /\ changes < MaxChanges
       /\ ChangeSlotFree(i)
       /\ ~Voter(i, j) /\ CaughtUp(i, j) /\ ~diskFull[i]
       /\ learners' = [learners EXCEPT ![i] = @ \ {j}]
       /\ log' = [log EXCEPT ![i] = l]
       /\ nextIndex' = [nextIndex EXCEPT ![i] =
                          Reconcile(i, known, snap[i], l, learners[i] \ {j})]
       /\ AdvanceCommit(i, currentTerm[i], l, matchIndex[i])
       /\ changes' = changes + 1
       /\ UNCHANGED <<durable, prevotes, votes, asked, contact, snap, machine,
                      matchIndex, adds, net, diskFull, restarts, faults, elected>>

\* add_server after the wait: only the slot is checked again.
AddServerFinish(i, a) ==
    LET j   == a[2]
        cfg == Config(i) \cup {<<j, LastIndex(i) + 1>>}
        lrn == learners[i] \ {j}
    IN /\ a \in adds[i] /\ a[3] = currentTerm[i]
       /\ ChangeSlotFree(i) /\ CaughtUp(i, j) /\ ~diskFull[i]
       /\ adds' = [adds EXCEPT ![i] = @ \ {a}]
       /\ learners' = [learners EXCEPT ![i] = lrn]
       /\ AppendLocal(i, Entry(currentTerm[i], "CONFIG", cfg), lrn)
       /\ UNCHANGED <<durable, prevotes, votes, asked, contact, snap, machine,
                      matchIndex, net, env, elected>>

\* add_server gives up: leadership lost, no catch-up in time, slot taken, disk full.
AddServerAbandon(i, a) ==
    /\ a \in adds[i]
    /\ adds' = [adds EXCEPT ![i] = @ \ {a}]
    /\ learners' = [learners EXCEPT ![i] = @ \ {a[2]}]
    /\ UNCHANGED <<durable, ballot, contact, log, snap, commitIndex, machine, progress,
                   net, env, history>>

\* remove_server of a member.
RemoveServer(i, j) ==
    LET cfg == {m \in Config(i) : m[1] # j}
        lrn == learners[i] \ {j}
    IN /\ changes < MaxChanges
       /\ ChangeSlotFree(i)
       /\ Voter(i, j) /\ Cardinality(Config(i)) # 1 /\ ~diskFull[i]
       /\ learners' = [learners EXCEPT ![i] = lrn]
       /\ AppendLocal(i, Entry(currentTerm[i], "CONFIG", cfg), lrn)
       /\ changes' = changes + 1
       /\ UNCHANGED <<durable, prevotes, votes, asked, contact, snap, machine,
                      matchIndex, adds, net, diskFull, restarts, faults, elected>>

\* remove_server of a learner, or one that then finds no free slot: the learner is
\* dropped, whoever waits for it to catch up.
RemoveLearner(i, j) ==
    /\ j \in learners[i]
    /\ learners' = [learners EXCEPT ![i] = @ \ {j}]
    /\ UNCHANGED <<durable, ballot, contact, log, snap, commitIndex, machine, progress,
                   adds, net, env, history>>

-----------------------------------------------------------------------------
\* Apply thread

\* Mutant: whatever the log holds is applied.
HasToApply_All(i) == lastApplied[i] < LastIndex(i)

HasToApply(i) == lastApplied[i] < commitIndex[i]

\* _apply_loop, one round: the next entry is applied, or the snapshot restored
\* if the entry is gone. Then _maybe_snapshot starts to serialise the machine.
Apply(i) ==
    LET n == IF lastApplied[i] < snap[i].idx THEN snap[i].idx ELSE lastApplied[i] + 1
    IN /\ snapping[i] = 0
       /\ HasToApply(i)
       /\ n <= MaxApplied
       /\ lastApplied' = [lastApplied EXCEPT ![i] = n]
       /\ snapping' = [snapping EXCEPT ![i] =
             IF /\ lastApplied[i] >= snap[i].idx
                /\ SnapshotThreshold > 0 /\ n >= snap[i].idx + SnapshotThreshold
             THEN n ELSE @]
       /\ UNCHANGED <<durable, ballot, contact, log, snap, commitIndex, progress,
                      change, net, env, history>>

\* Mutant: term and configuration are those of the end of the log.
SnapshotOf_Latest(i, n) == [idx |-> n, term |-> LastTerm(i), cfg |-> Config(i)]

\* The snapshot of the entries up to n, and the configuration in force there.
SnapshotOf(i, n) ==
    [idx |-> n, term |-> TermAt(i, n),
     cfg |-> ConfigOf(snap[i], SubSeq(log[i], 1, n - snap[i].idx))]

\* The serialised machine replaces the log prefix (_compact), unless the snapshot
\* failed, could not be written, or a newer one was installed meanwhile. (The code
\* reads the term of the entry when it starts: an applied entry never changes.)
FinishSnapshot(i) ==
    LET n == snapping[i]
        k == n - snap[i].idx
    IN /\ n > 0
       /\ snapping' = [snapping EXCEPT ![i] = 0]
       /\ IF diskFull[i] \/ n <= snap[i].idx \/ n > LastIndex(i)
          THEN UNCHANGED <<snap, log>>
          ELSE /\ snap' = [snap EXCEPT ![i] = SnapshotOf(i, n)]
               /\ log' = [log EXCEPT ![i] = SubSeq(@, k + 1, Len(@))]
       /\ UNCHANGED <<durable, ballot, contact, commitIndex, lastApplied, progress,
                      change, net, env, history>>

-----------------------------------------------------------------------------
\* Faults

\* A crash and the restart: raft_meta, the log and the snapshot are loaded; the
\* machine may have kept less than it applied (initial_applied).
Restart(i) ==
    /\ restarts < MaxRestarts
    /\ restarts' = restarts + 1
    /\ currentTerm' = [currentTerm EXCEPT ![i] = disk[i].term]
    /\ votedFor' = [votedFor EXCEPT ![i] = disk[i].vote]
    /\ role' = [role EXCEPT ![i] = "FOLLOWER"]
    /\ StopCampaign(i)
    /\ contact' = [contact EXCEPT ![i] = FALSE]
    /\ \E n \in 0..lastApplied[i] :
         /\ lastApplied' = [lastApplied EXCEPT ![i] = n]
         /\ commitIndex' = [commitIndex EXCEPT ![i] = Max({snap[i].idx, n})]
    /\ snapping' = [snapping EXCEPT ![i] = 0]
    /\ nextIndex' = [nextIndex EXCEPT ![i] =
                       Reconcile(i, [j \in Server |-> 0], snap[i], log[i], {})]
    /\ matchIndex' = [matchIndex EXCEPT ![i] = [j \in Server |-> 0]]
    /\ learners' = [learners EXCEPT ![i] = {}]
    /\ adds' = [adds EXCEPT ![i] = {}]
    /\ \E kept \in SUBSET {j \in Server : call[i][j] # Nil /\ reply[i][j] = Nil} :
         /\ kept = {} \/ Cardinality(stale) + Cardinality(kept) <= MaxStale
         /\ stale' = stale \cup {[from |-> i, to |-> j, req |-> call[i][j]] : j \in kept}
    /\ call' = [call EXCEPT ![i] = [j \in Server |-> Nil]]
    /\ reply' = [reply EXCEPT ![i] = [j \in Server |-> Nil]]
    /\ UNCHANGED <<disk, log, snap, diskFull, faults, changes, history>>

DiskFills(i) ==
    /\ ~diskFull[i] /\ faults < MaxFaults
    /\ diskFull' = [diskFull EXCEPT ![i] = TRUE]
    /\ faults' = faults + 1
    /\ UNCHANGED <<durable, ballot, contact, log, snap, commitIndex, machine, progress,
                   change, net, restarts, changes, history>>

DiskDrains(i) ==
    /\ diskFull[i]
    /\ diskFull' = [diskFull EXCEPT ![i] = FALSE]
    /\ UNCHANGED <<durable, ballot, contact, log, snap, commitIndex, machine, progress,
                   change, net, restarts, faults, changes, history>>

-----------------------------------------------------------------------------
Init ==
    /\ currentTerm = [i \in Server |-> 0]
    /\ votedFor = [i \in Server |-> Nil]
    /\ disk = [i \in Server |-> [term |-> 0, vote |-> Nil]]
    /\ role = [i \in Server |-> "FOLLOWER"]
    /\ prevotes = [i \in Server |-> {}]
    /\ votes = [i \in Server |-> {}]
    /\ asked = [i \in Server |-> {}]
    /\ contact = [i \in Server |-> FALSE]
    /\ log = [i \in Server |-> << >>]
    /\ snap = [i \in Server |-> [idx |-> 0, term |-> 0,
                                 cfg |-> IF i \in InitMembers THEN InitConfig ELSE {}]]
    /\ commitIndex = [i \in Server |-> 0]
    /\ lastApplied = [i \in Server |-> 0]
    /\ snapping = [i \in Server |-> 0]
    /\ nextIndex = [i \in Server |-> [j \in Server |->
                      IF {i, j} \subseteq InitMembers /\ i # j THEN 1 ELSE 0]]
    /\ matchIndex = [i \in Server |-> [j \in Server |-> 0]]
    /\ learners = [i \in Server |-> {}]
    /\ adds = [i \in Server |-> {}]
    /\ call = [i \in Server |-> [j \in Server |-> Nil]]
    /\ reply = [i \in Server |-> [j \in Server |-> Nil]]
    /\ stale = {}
    /\ diskFull = [i \in Server |-> FALSE]
    /\ restarts = 0 /\ faults = 0 /\ changes = 0
    /\ elected = {}
    /\ decided = << >>

Step(i) ==
    \/ Timeout(i)
    \/ ContactExpires(i)
    \/ CheckQuorumFails(i)
    \/ Submit(i)
    \/ SubmitFails(i)
    \/ Apply(i)
    \/ FinishSnapshot(i)
    \/ Restart(i)
    \/ DiskFills(i)
    \/ DiskDrains(i)
    \/ \E a \in adds[i] : AddServerFinish(i, a) \/ AddServerAbandon(i, a)

PairStep(i, j) ==
    \/ SendPreVote(i, j)
    \/ SendVote(i, j)
    \/ SendAppend(i, j)
    \/ SendSnapshot(i, j)
    \/ Deliver(i, j)
    \/ AbandonCall(i, j)
    \/ ReceiveHigherTerm(i, j)
    \/ ReceivePreVote(i, j)
    \/ ReceiveVote(i, j)
    \/ ReceiveAppendOk(i, j)
    \/ ReceiveAppendConflict(i, j)
    \/ ReceiveSnapshotOk(i, j)
    \/ AddServerBegin(i, j)
    \/ AddServerAtOnce(i, j)
    \/ RemoveServer(i, j)
    \/ RemoveLearner(i, j)

Next ==
    \/ \E i \in Server : Step(i)
    \/ \E i, j \in Server : PairStep(i, j)
    \/ DeliverStale

Spec == Init /\ [][Next]_vars
=============================================================================
