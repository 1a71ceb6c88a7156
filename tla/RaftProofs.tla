----------------------------- MODULE RaftProofs -----------------------------
(***************************************************************************)
(* The types of RaftNode's state, for any number of nodes and any value of *)
(* the bounds; what raft_meta keeps; and one leader per term.              *)
(*                                                                         *)
(* TypeOK is not inductive by itself: a leader extends decided from the    *)
(* entries of its own log beyond Len(decided), which it holds only if its  *)
(* snapshot ends before them; CommitBound says so. The two together, IInv, *)
(* are inductive. One lemma per action shows that it keeps IInv.           *)
(*                                                                         *)
(* raft_meta never goes back (VoteFinal), and one leader per term, for a   *)
(* group whose membership stays fixed (SingleLeader).                      *)
(*                                                                         *)
(* Memory may run ahead of raft_meta (_step_down goes on when the write    *)
(* fails), but then no vote is remembered for the newer term: Persisted.   *)
(* That is what a granted vote rests on.                                   *)
(*                                                                         *)
(* The configuration is InitConfig wherever it is not unknown: no log,     *)
(* snapshot or request holds another (StaticInv). A vote that is counted   *)
(* or on its way is in the voter's raft_meta, or that file is past its     *)
(* term (BackedByDisk), so a voter backs one candidate per term (OneVote), *)
(* and behind each elected node stands a quorum none of which can back     *)
(* another one (AllWon). raft_meta never going back (MetaGrows) keeps all  *)
(* of this through crashes; that quorums intersect gives the theorem.      *)
(***************************************************************************)
EXTENDS RaftSafety, TLAPS, FiniteSetTheorems, SequenceTheorems, WellFoundedInduction

\* The least element of a set of naturals, and the greatest of a bounded one.
LEMMA MinExists ==
    ASSUME NEW S \in SUBSET Nat, S # {}
    PROVE  /\ Min(S) \in S
           /\ \A n \in S : Min(S) <= n
<1>. DEFINE R == OpToRel(<, Nat)
<1>1. IsWellFoundedOn(R, Nat)
  BY NatLessThanWellFounded
<1>2. PICK x \in S : \A y \in S : ~(<<y, x>> \in R)
  <2>. HIDE DEF R
  <2>. QED  BY <1>1, WFMin
<1>3. \A y \in S : x <= y
  <2>1. SUFFICES ASSUME NEW y \in S, y < x PROVE FALSE
    OBVIOUS
  <2>2. <<y, x>> \in R
    BY <2>1 DEF OpToRel
  <2>. QED
    BY <1>2, <2>2
<1>. QED
  BY <1>3 DEF Min

LEMMA MaxExists ==
    ASSUME NEW b \in Nat, NEW S \in SUBSET (0..b), S # {}
    PROVE  /\ Max(S) \in S
           /\ \A n \in S : n <= Max(S)
<1>. DEFINE T == {n \in 0..b : b - n \in S}
<1>1. T \in SUBSET Nat
  OBVIOUS
<1>2. T # {}
  <2>1. PICK n \in S : TRUE
    OBVIOUS
  <2>2. b - (b - n) = n /\ b - n \in 0..b
    OBVIOUS
  <2>. QED
    BY <2>1, <2>2
<1>3. PICK m \in T : \A n \in T : m <= n
  <2>. HIDE DEF T
  <2>. QED  BY <1>1, <1>2, MinExists
<1>4. m \in 0..b /\ b - m \in S
  BY <1>3
<1>5. \A y \in S : b - m >= y
  <2>1. SUFFICES ASSUME NEW y \in S PROVE b - m >= y
    OBVIOUS
  <2>2. y \in 0..b
    OBVIOUS
  <2>3. b - y \in 0..b /\ b - (b - y) = y
    BY <2>2
  <2>4. m <= b - y
    BY <1>3, <2>3
  <2>. QED
    BY <1>4, <2>2, <2>4
<1>. QED
  BY <1>4, <1>5 DEF Max

\* Max and Min of two numbers, as the code uses them.
LEMMA MaxPair ==
    ASSUME NEW a \in Int, NEW b \in Int
    PROVE  Max({a, b}) = IF a >= b THEN a ELSE b
<1>1. \E x \in {a, b} : \A y \in {a, b} : x >= y
  OBVIOUS
<1>. QED
  BY <1>1 DEF Max

LEMMA MinPair ==
    ASSUME NEW a \in Int, NEW b \in Int
    PROVE  Min({a, b}) = IF a <= b THEN a ELSE b
<1>1. \E x \in {a, b} : \A y \in {a, b} : x <= y
  OBVIOUS
<1>. QED
  BY <1>1 DEF Min

-----------------------------------------------------------------------------
-----------------------------------------------------------------------------
\* The parts of the inductive invariant. First the state of elections,
VoteType ==
    /\ currentTerm \in [Server -> Nat]
    /\ votedFor \in [Server -> Server \cup {Nil}]
    /\ disk \in [Server -> Meta]
    /\ role \in [Server -> {"FOLLOWER", "CANDIDATE", "LEADER"}]
    /\ prevotes \in [Server -> SUBSET Server]
    /\ votes \in [Server -> SUBSET Server]
    /\ asked \in [Server -> SUBSET Server]
    /\ contact \in [Server -> BOOLEAN]

\* then the log and what is known of it,
LogType ==
    /\ log \in [Server -> Seq(LogEntry)]
    /\ snap \in [Server -> Snapshot]
    /\ commitIndex \in [Server -> Nat]
    /\ lastApplied \in [Server -> Nat]
    /\ snapping \in [Server -> Nat]
    /\ nextIndex \in [Server -> [Server -> Nat]]
    /\ matchIndex \in [Server -> [Server -> Nat]]
    /\ decided \in Seq([entry: LogEntry, at: Nat])

\* then membership changes and the environment.
RestType ==
    /\ learners \in [Server -> SUBSET Server]
    /\ adds \in [Server -> SUBSET (Nat \X Server \X Nat)]
    /\ diskFull \in [Server -> BOOLEAN]
    /\ restarts \in Nat /\ faults \in Nat /\ changes \in Nat
    /\ elected \in SUBSET (Nat \X Server)

NodeType == VoteType /\ LogType /\ RestType

\* Requests and answers on their way.
NetType ==
    /\ call \in [Server -> [Server -> Request \cup {Nil}]]
    /\ reply \in [Server -> [Server -> Reply \cup {Nil}]]
    /\ stale \in SUBSET [from: Server, to: Server, req: Request]

\* CommitBound, of the nodes and of the requests.
NodeBound ==
    \A i \in Server :
      /\ commitIndex[i] <= Len(decided) /\ lastApplied[i] <= Len(decided)
      /\ snapping[i] <= Len(decided) /\ snap[i].idx <= Len(decided)

NetBound ==
    /\ \A i, j \in Server : call[i][j] # Nil => DecidedBy(call[i][j])
    /\ \A m \in stale : DecidedBy(m.req)

\* The inductive invariant.
IInv == NodeType /\ NetType /\ NodeBound /\ NetBound

\* It says what the two invariants the runs check say, grouped by variable.
LEMMA Split == IInv <=> TypeOK /\ CommitBound
  BY DEF IInv, TypeOK, CommitBound, NodeType, VoteType, LogType, RestType, NetType, NodeBound, NetBound, Decided

\* Sequences, entries, configurations and terms read from a log.
LEMMA ConcatType ==
    ASSUME NEW S, NEW s \in Seq(S), NEW t \in Seq(S)
    PROVE  s \o t \in Seq(S) /\ Len(s \o t) = Len(s) + Len(t)
  OBVIOUS

LEMMA ConfigsBound ==
    ASSUME NEW l \in Seq(LogEntry), ConfigsIn(l) # {}
    PROVE  Max(ConfigsIn(l)) \in 1..Len(l)
<1>1. ConfigsIn(l) \in SUBSET (1..Len(l))
  BY DEF ConfigsIn
<1>2. ConfigsIn(l) \in SUBSET (0..Len(l)) /\ Len(l) \in Nat
  BY <1>1
<1>3. Max(ConfigsIn(l)) \in ConfigsIn(l)
  BY <1>2, MaxExists
<1>. QED
  BY <1>1, <1>3

LEMMA EntryType ==
    ASSUME NEW l \in Seq(LogEntry), NEW k \in 1..Len(l)
    PROVE  /\ l[k] \in LogEntry
           /\ l[k].term \in Nat
           /\ l[k].cfg \in Membership
<1>1. l[k] \in LogEntry
  OBVIOUS
<1>. QED
  BY <1>1 DEF LogEntry

LEMMA ConfigOfType ==
    ASSUME NEW s \in Snapshot, NEW l \in Seq(LogEntry)
    PROVE  /\ ConfigOf(s, l) \in Membership
           /\ ConfigIndexOf(s, l) \in Nat
<1>1. s.cfg \in Membership /\ s.idx \in Nat
  BY DEF Snapshot
<1>2. \A k \in 1..Len(l) : l[k].cfg \in Membership
  BY EntryType
<1>. QED
  BY <1>1, <1>2, ConfigsBound DEF ConfigOf, ConfigIndexOf

LEMMA TermInType ==
    ASSUME NEW s \in Snapshot, NEW l \in Seq(LogEntry), NEW n \in s.idx..(s.idx + Len(l))
    PROVE  TermIn(s, l, n) \in Nat
<1>1. s.idx \in Nat /\ s.term \in Nat
  BY DEF Snapshot
<1>2. \A k \in 1..Len(l) : l[k].term \in Nat
  BY EntryType
<1>. QED
  BY <1>1, <1>2 DEF TermIn

\* What the shared steps of the actions return.
LEMMA ReconcileType ==
    ASSUME NEW i \in Server, NEW known \in [Server -> Nat], NEW s \in Snapshot,
           NEW l \in Seq(LogEntry), NEW lrn
    PROVE  Reconcile(i, known, s, l, lrn) \in [Server -> Nat]
  BY DEF Reconcile, Snapshot

\* A leader commits no further than its log.
LEMMA CommittableBound ==
    ASSUME NodeType, NEW i \in Server, NEW l \in Seq(LogEntry), NEW t, NEW match,
           Committable(i, t, l, match) # {}
    PROVE  Max(Committable(i, t, l, match)) \in (commitIndex[i] + 1)..(snap[i].idx + Len(l))
<1>. DEFINE S == Committable(i, t, l, match)
            b == snap[i].idx + Len(l)
<1>1. b \in Nat /\ commitIndex[i] \in Nat
  BY DEF NodeType, LogType, Snapshot
<1>2. S \in SUBSET ((commitIndex[i] + 1)..b)
  BY DEF Committable
<1>. HIDE DEF S, b
<1>3. S \in SUBSET (0..b) /\ S # {}
  BY <1>1, <1>2 DEF S
<1>4. Max(S) \in S
  BY <1>1, <1>3, MaxExists
<1>. QED
  BY <1>2, <1>4 DEF S, b

\* AdvanceCommit indexes the log of the leader only where it has entries.
LEMMA AdvanceCommitType ==
    ASSUME NodeType, NodeBound, NEW i \in Server, NEW t \in Nat, NEW l \in Seq(LogEntry),
           NEW match, AdvanceCommit(i, t, l, match)
    PROVE  /\ commitIndex' \in [Server -> Nat]
           /\ role' \in [Server -> {"FOLLOWER", "CANDIDATE", "LEADER"}]
           /\ decided' \in Seq([entry: LogEntry, at: Nat])
           /\ Len(decided') >= Len(decided)
           /\ \A j \in Server : commitIndex'[j] <= Len(decided')
<1>. DEFINE new == Committable(i, t, l, match)
            c   == IF new = {} THEN commitIndex[i] ELSE Max(new)
            k   == Max({0, c - Len(decided)})
            add == [n \in 1..k |-> [entry |-> l[Len(decided) + n - snap[i].idx], at |-> t]]
            D   == [entry: LogEntry, at: Nat]
<1>1. /\ commitIndex \in [Server -> Nat] /\ decided \in Seq(D) /\ Len(decided) \in Nat
      /\ role \in [Server -> {"FOLLOWER", "CANDIDATE", "LEADER"}]
      /\ snap[i].idx \in Nat /\ snap[i].idx <= Len(decided) /\ Len(l) \in Nat
      /\ \A j \in Server : commitIndex[j] \in Nat /\ commitIndex[j] <= Len(decided)
  BY DEF NodeType, VoteType, LogType, NodeBound, Snapshot
<1>2. /\ commitIndex' = [commitIndex EXCEPT ![i] = c]
      /\ decided' = decided \o add
      /\ role' \in [Server -> {"FOLLOWER", "CANDIDATE", "LEADER"}]
  BY <1>1 DEF AdvanceCommit
<1>3. c \in Nat /\ (c <= Len(decided) \/ c <= snap[i].idx + Len(l))
  BY <1>1, CommittableBound
<1>. HIDE DEF new, c
<1>4. k = IF 0 >= c - Len(decided) THEN 0 ELSE c - Len(decided)
  <2>. DEFINE d == c - Len(decided)
  <2>1. d \in Int
    BY <1>1, <1>3
  <2>. HIDE DEF d
  <2>2. Max({0, d}) = IF 0 >= d THEN 0 ELSE d
    BY <2>1, MaxPair
  <2>. QED
    BY <2>2 DEF d
<1>. HIDE DEF k
<1>5. \A n \in 1..k : [entry |-> l[Len(decided) + n - snap[i].idx], at |-> t] \in D
  <2>1. \A n \in 1..k : Len(decided) + n - snap[i].idx \in 1..Len(l)
    BY SMTT(30), <1>1, <1>3, <1>4
  <2>. QED
    BY <2>1
<1>6. add \in Seq(D) /\ Len(add) = k
  BY <1>1, <1>3, <1>4, <1>5
<1>. HIDE DEF add, D
<1>7. decided' \in Seq(D) /\ Len(decided') = Len(decided) + k
  BY <1>1, <1>2, <1>6, ConcatType
<1>. QED
  BY <1>1, <1>2, <1>3, <1>4, <1>7 DEF D
\* A request has the fields its type promises.
LEMMA RequestFields ==
    ASSUME NEW q \in Request
    PROVE  /\ q.term \in Nat
           /\ q.type \in {"prevote", "vote", "append", "snapshot"}
           /\ q.type \in {"prevote", "vote"} => q.lastIndex \in Nat /\ q.lastTerm \in Nat
           /\ q.type = "append" =>
                q.prev \in Nat /\ q.prevTerm \in Nat /\ q.commit \in Nat
                /\ q.entries \in Seq(LogEntry)
           /\ q.type = "snapshot" => q.snap \in Snapshot
<1>1. CASE q \in VoteRequest
  BY <1>1 DEF VoteRequest
<1>2. CASE q \in AppendRequest
  BY <1>2 DEF AppendRequest
<1>3. CASE q \in SnapshotRequest
  BY <1>3 DEF SnapshotRequest
<1>. QED
  BY <1>1, <1>2, <1>3 DEF Request

\* What was decided stays decided: requests keep their bound.
LEMMA DecidedByGrows ==
    ASSUME NEW q \in Request, DecidedBy(q), decided \in Seq([entry: LogEntry, at: Nat]),
           decided' \in Seq([entry: LogEntry, at: Nat]), Len(decided') >= Len(decided)
    PROVE  DecidedBy(q)'
<1>. DEFINE D == [entry: LogEntry, at: Nat]
<1>1. Len(decided) \in Nat /\ Len(decided') \in Nat
  OBVIOUS
<1>2. /\ q.type = "append" => q.commit \in Nat
      /\ q.type = "snapshot" => q.snap \in Snapshot
  BY RequestFields
<1>3. q.type = "snapshot" => q.snap.idx \in Nat
  BY <1>2 DEF Snapshot
<1>. QED
  BY <1>1, <1>2, <1>3 DEF DecidedBy, Decided

\* A step that sends nothing: calls end, abandoned requests become stale.
LEMMA NetShrinks ==
    ASSUME NetType, NetBound,
           decided \in Seq([entry: LogEntry, at: Nat]),
           decided' \in Seq([entry: LogEntry, at: Nat]), Len(decided') >= Len(decided),
           call' \in [Server -> [Server -> Request \cup {Nil}]],
           reply' \in [Server -> [Server -> Reply \cup {Nil}]],
           stale' \in SUBSET [from: Server, to: Server, req: Request],
           \A i, j \in Server : call'[i][j] \in {call[i][j], Nil},
           \A m \in stale' : m \in stale \/ (m.req = call[m.from][m.to] /\ m.req # Nil)
    PROVE  NetType' /\ NetBound'
<1>1. NetType'
  BY DEF NetType
<1>2. ASSUME NEW i \in Server, NEW j \in Server, call'[i][j] # Nil
      PROVE  DecidedBy(call[i][j])' /\ call'[i][j] = call[i][j]
  <2>1. call[i][j] \in Request /\ DecidedBy(call[i][j]) /\ call'[i][j] = call[i][j]
    BY <1>2 DEF NetType, NetBound
  <2>. QED
    BY <2>1, DecidedByGrows
<1>3. ASSUME NEW m \in stale'
      PROVE  DecidedBy(m.req)'
  <2>1. m \in [from: Server, to: Server, req: Request]
    OBVIOUS
  <2>2. DecidedBy(m.req)
    <3>1. CASE m \in stale
      BY <3>1 DEF NetBound
    <3>2. CASE m.req = call[m.from][m.to] /\ m.req # Nil
      BY <2>1, <3>2 DEF NetBound
    <3>. QED
      BY <3>1, <3>2
  <2>. QED
    BY <2>1, <2>2, DecidedByGrows
<1>. QED
  BY <1>1, <1>2, <1>3 DEF NetBound

\* A step that leaves the network alone.
LEMMA NetKept ==
    ASSUME NetType, NetBound,
           decided \in Seq([entry: LogEntry, at: Nat]),
           decided' \in Seq([entry: LogEntry, at: Nat]), Len(decided') >= Len(decided),
           UNCHANGED net
    PROVE  NetType' /\ NetBound'
<1>1. /\ call' = call /\ reply' = reply /\ stale' = stale
  BY DEF net
<1>. QED
  BY <1>1, NetShrinks DEF NetType

\* Entries that are appended.
LEMMA EntryIsTyped ==
    ASSUME NEW t \in Nat, NEW op \in Op, NEW cfg \in Membership
    PROVE  Entry(t, op, cfg) \in LogEntry
  BY DEF Entry, LogEntry

LEMMA AppendType ==
    ASSUME NEW S, NEW s \in Seq(S), NEW e \in S
    PROVE  Append(s, e) \in Seq(S)
  OBVIOUS

\* Changes of role and term.
LEMMA StepDownType ==
    ASSUME VoteType, NEW i \in Server, NEW t \in Nat, StepDown(i, t), contact' \in [Server -> BOOLEAN]
    PROVE  VoteType'
<1>1. /\ role' \in [Server -> {"FOLLOWER", "CANDIDATE", "LEADER"}]
      /\ prevotes' \in [Server -> SUBSET Server]
      /\ votes' \in [Server -> SUBSET Server]
      /\ asked' \in [Server -> SUBSET Server]
  BY DEF VoteType, StepDown, StopCampaign
<1>2. CASE t > currentTerm[i]
  <2>1. [term |-> t, vote |-> Nil] \in Meta
    BY DEF Meta
  <2>. QED
    BY <1>1, <1>2, <2>1 DEF VoteType, StepDown
<1>3. CASE ~(t > currentTerm[i])
  BY <1>1, <1>3 DEF VoteType, StepDown, durable
<1>. QED
  BY <1>2, <1>3

\* The term of every index a node can be asked about is defined.
LEMMA TermType ==
    ASSUME LogType, NEW i \in Server
    PROVE  /\ LastIndex(i) \in Nat
           /\ LastIndex(i) = snap[i].idx + Len(log[i])
           /\ snap[i].idx \in Nat
           /\ Len(log[i]) \in Nat
           /\ LastTerm(i) \in Nat
           /\ \A n \in snap[i].idx..LastIndex(i) : TermAt(i, n) \in Nat
           /\ Config(i) \in Membership
<1>1. /\ snap[i] \in Snapshot /\ log[i] \in Seq(LogEntry)
      /\ snap[i].idx \in Nat /\ Len(log[i]) \in Nat
  BY DEF LogType, Snapshot
<1>2. /\ LastIndex(i) \in Nat /\ LastIndex(i) = snap[i].idx + Len(log[i])
  BY <1>1 DEF LastIndex
<1>3. \A n \in snap[i].idx..LastIndex(i) : TermAt(i, n) \in Nat
  BY <1>1, <1>2, TermInType DEF TermAt
<1>4. LastTerm(i) \in Nat
  BY <1>1, <1>2, <1>3 DEF LastTerm
<1>. QED
  BY <1>1, <1>2, <1>3, <1>4, ConfigOfType DEF Config

\* The bounds hold as long as decided only grows.
LEMMA NodeBoundKept ==
    ASSUME NodeType, NodeBound, decided' \in Seq([entry: LogEntry, at: Nat]),
           Len(decided') >= Len(decided), UNCHANGED <<machine, snap>>,
           \A j \in Server : commitIndex'[j] <= Len(decided')
    PROVE  NodeBound'
<1>1. Len(decided) \in Nat /\ Len(decided') \in Nat
  BY DEF NodeType, LogType
<1>2. \A j \in Server : /\ lastApplied[j] \in Nat /\ snapping[j] \in Nat
                        /\ snap[j].idx \in Nat
  BY DEF NodeType, LogType, Snapshot
<1>. QED
  BY <1>1, <1>2 DEF NodeBound, machine

LEMMA BecomeLeaderType ==
    ASSUME NodeType, NodeBound, NEW i \in Server, NEW t \in Nat, BecomeLeader(i, t),
           currentTerm' \in [Server -> Nat], votedFor' \in [Server -> Server \cup {Nil}],
           disk' \in [Server -> Meta], contact' \in [Server -> BOOLEAN],
           UNCHANGED <<snap, machine, change, env>>
    PROVE  /\ NodeType' /\ NodeBound' /\ Len(decided') >= Len(decided)
<1>. USE DEF BecomeLeader, machine, change, env
<1>. DEFINE l == Append(log[i], Entry(t, "NOOP", {}))
            none == [j \in Server |-> 0]
<1>1. l \in Seq(LogEntry)
  <2>1. Entry(t, "NOOP", {}) \in LogEntry
    BY EntryIsTyped DEF Op, Membership
  <2>. QED
    BY <2>1, AppendType DEF NodeType, LogType
<1>2. /\ nextIndex' \in [Server -> [Server -> Nat]]
      /\ matchIndex' \in [Server -> [Server -> Nat]]
  <2>1. LastIndex(i) + 1 \in Nat
    BY TermType DEF NodeType
  <2>. QED
    BY <2>1 DEF NodeType, LogType
<1>3. /\ prevotes' \in [Server -> SUBSET Server]
      /\ votes' \in [Server -> SUBSET Server]
      /\ asked' \in [Server -> SUBSET Server]
  BY DEF NodeType, VoteType, StopCampaign
<1>4. CASE diskFull[i]
  <2>1. /\ role' = [role EXCEPT ![i] = "FOLLOWER"]
        /\ UNCHANGED <<log, commitIndex, history>>
    BY <1>4
  <2>2. VoteType'
    BY <1>3, <2>1 DEF NodeType, VoteType
  <2>3. LogType' /\ RestType'
    BY <1>2, <2>1 DEF NodeType, LogType, RestType, history
  <2>4. NodeBound' /\ Len(decided') >= Len(decided)
    BY <2>1 DEF NodeType, LogType, NodeBound, history
  <2>. QED
    BY <2>2, <2>3, <2>4 DEF NodeType
<1>5. CASE ~diskFull[i]
  <2>1. /\ log' = [log EXCEPT ![i] = l]
        /\ AdvanceCommit(i, t, l, none)
        /\ elected' = elected \cup {<<t, i>>}
    BY <1>5
  <2>2. /\ commitIndex' \in [Server -> Nat]
        /\ role' \in [Server -> {"FOLLOWER", "CANDIDATE", "LEADER"}]
        /\ decided' \in Seq([entry: LogEntry, at: Nat])
        /\ Len(decided') >= Len(decided)
        /\ \A j \in Server : commitIndex'[j] <= Len(decided')
    <3>. HIDE DEF l, none
    <3>. QED
      BY <1>1, <2>1, AdvanceCommitType
  <2>3. VoteType'
    BY <1>3, <2>2 DEF NodeType, VoteType
  <2>4. LogType'
    BY <1>1, <1>2, <2>1, <2>2 DEF NodeType, LogType
  <2>5. RestType'
    BY <2>1 DEF NodeType, RestType
  <2>6. NodeBound'
    BY <2>2, NodeBoundKept
  <2>. QED
    BY <2>2, <2>3, <2>4, <2>5, <2>6 DEF NodeType
<1>. QED
  BY <1>4, <1>5

LEMMA StartElectionType ==
    ASSUME NodeType, NodeBound, NEW i \in Server, StartElection(i),
           contact' \in [Server -> BOOLEAN], UNCHANGED <<snap, machine, change, env>>
    PROVE  NodeType' /\ NodeBound' /\ Len(decided') >= Len(decided)
<1>. DEFINE t == currentTerm[i] + 1
<1>1. t \in Nat
  BY DEF NodeType, VoteType
<1>2. /\ currentTerm' \in [Server -> Nat] /\ votedFor' \in [Server -> Server \cup {Nil}]
      /\ disk' \in [Server -> Meta]
  <2>1. [term |-> t, vote |-> i] \in Meta
    BY <1>1 DEF Meta
  <2>. QED
    BY <1>1, <2>1 DEF NodeType, VoteType, StartElection
<1>3. CASE Quorum(Config(i), {i})
  <2>1. BecomeLeader(i, t)
    BY <1>3 DEF StartElection
  <2>. HIDE DEF t
  <2>. QED
    BY <1>1, <1>2, <2>1, BecomeLeaderType
<1>4. CASE ~Quorum(Config(i), {i})
  <2>1. /\ role' = [role EXCEPT ![i] = "CANDIDATE"]
        /\ prevotes' = [prevotes EXCEPT ![i] = {}]
        /\ votes' = [votes EXCEPT ![i] = {i}]
        /\ asked' = [asked EXCEPT ![i] = {}]
        /\ UNCHANGED <<log, commitIndex, progress, history>>
    BY <1>4 DEF StartElection
  <2>2. VoteType'
    BY <1>2, <2>1 DEF NodeType, VoteType
  <2>3. LogType' /\ RestType'
    BY <2>1 DEF NodeType, LogType, RestType, machine, change, env, progress, history
  <2>4. Len(decided') >= Len(decided)
    BY <2>1 DEF history, NodeType, LogType
  <2>5. NodeBound'
    BY <2>1, <2>3, <2>4, NodeBoundKept DEF LogType, history, NodeBound
  <2>. QED
    BY <2>2, <2>3, <2>4, <2>5 DEF NodeType
<1>. QED
  BY <1>3, <1>4

\* A step that leaves log, snapshot and indexes alone.
LEMMA QuietNode ==
    ASSUME NodeType, NodeBound, UNCHANGED <<log, snap, commitIndex, machine, history>>
    PROVE  /\ NodeBound'
           /\ Len(decided') >= Len(decided)
           /\ decided' \in Seq([entry: LogEntry, at: Nat])
           /\ log' \in [Server -> Seq(LogEntry)]
           /\ snap' \in [Server -> Snapshot]
           /\ commitIndex' \in [Server -> Nat]
           /\ lastApplied' \in [Server -> Nat]
           /\ snapping' \in [Server -> Nat]
           /\ elected' \in SUBSET (Nat \X Server)
  BY DEF NodeType, NodeBound, LogType, RestType, machine, history

-----------------------------------------------------------------------------
\* One lemma per action: the election timer thread.
LEMMA TimeoutTyped ==
    ASSUME IInv, NEW i \in Server, Timeout(i)
    PROVE  IInv'
<1>. USE DEF IInv
<1>1. /\ contact' \in [Server -> BOOLEAN]
      /\ UNCHANGED <<snap, machine, change, net, env>>
  BY DEF Timeout, NodeType, VoteType
<1>2. NodeType' /\ NodeBound' /\ Len(decided') >= Len(decided)
  <2>1. CASE Probes(i)
    <3>1. /\ prevotes' = [prevotes EXCEPT ![i] = {i}]
          /\ asked' = [asked EXCEPT ![i] = {}]
          /\ UNCHANGED <<durable, role, votes, log, commitIndex, progress, history>>
      BY <2>1 DEF Timeout
    <3>2. VoteType'
      BY <1>1, <3>1 DEF NodeType, VoteType, durable
    <3>3. RestType'
      BY <1>1, <3>1 DEF NodeType, RestType, change, env, history
    <3>4. nextIndex' = nextIndex /\ matchIndex' = matchIndex
      BY <3>1 DEF progress
    <3>. QED
      BY <1>1, <3>1, <3>2, <3>3, <3>4, QuietNode DEF NodeType, LogType
  <2>2. CASE ~Probes(i) /\ CanStartElection(i)
    BY <1>1, <2>2, StartElectionType DEF Timeout
  <2>3. CASE ~Probes(i) /\ ~CanStartElection(i)
    <3>1. UNCHANGED <<durable, ballot, log, commitIndex, progress, history>>
      BY <2>3 DEF Timeout
    <3>2. VoteType'
      BY <1>1, <3>1 DEF NodeType, VoteType, durable, ballot
    <3>3. RestType'
      BY <1>1, <3>1 DEF NodeType, RestType, change, env, history
    <3>4. nextIndex' = nextIndex /\ matchIndex' = matchIndex
      BY <3>1 DEF progress
    <3>. QED
      BY <1>1, <3>1, <3>2, <3>3, <3>4, QuietNode DEF NodeType, LogType
  <2>. QED
    BY <2>1, <2>2, <2>3
<1>. QED
  BY <1>1, <1>2, NetKept DEF NodeType, LogType

LEMMA QuietType ==
    ASSUME NodeType, NodeBound, VoteType',
           UNCHANGED <<log, snap, commitIndex, machine, progress, change, env, history>>
    PROVE  /\ NodeType' /\ NodeBound'
           /\ Len(decided') >= Len(decided)
           /\ decided' \in Seq([entry: LogEntry, at: Nat])
<1>1. RestType'
  BY DEF NodeType, RestType, change, env, history
<1>2. nextIndex' = nextIndex /\ matchIndex' = matchIndex
  BY DEF progress
<1>. QED
  BY <1>1, <1>2, QuietNode DEF NodeType, LogType

LEMMA VoteTypeKept ==
    ASSUME NodeType, UNCHANGED <<durable, ballot, contact>>
    PROVE  VoteType'
  BY DEF NodeType, VoteType, durable, ballot

LEMMA ContactExpiresTyped ==
    ASSUME IInv, NEW i \in Server, ContactExpires(i)
    PROVE  IInv'
<1>1. VoteType'
  BY DEF ContactExpires, IInv, NodeType, VoteType, durable, ballot
<1>. QED
  BY <1>1, QuietType, NetKept DEF ContactExpires, IInv, NodeType, LogType

LEMMA CheckQuorumFailsTyped ==
    ASSUME IInv, NEW i \in Server, CheckQuorumFails(i)
    PROVE  IInv'
<1>1. VoteType'
  BY DEF CheckQuorumFails, IInv, NodeType, VoteType, durable
<1>. QED
  BY <1>1, QuietType, NetKept DEF CheckQuorumFails, IInv, NodeType, LogType

LEMMA SubmitFailsTyped ==
    ASSUME IInv, NEW i \in Server, SubmitFails(i)
    PROVE  IInv'
<1>1. currentTerm[i] \in Nat /\ contact' \in [Server -> BOOLEAN]
  BY DEF SubmitFails, IInv, NodeType, VoteType
<1>2. VoteType'
  BY <1>1, StepDownType DEF SubmitFails, IInv, NodeType
<1>. QED
  BY <1>2, QuietType, NetKept DEF SubmitFails, IInv, NodeType, LogType

\* The end of a call.
LEMMA HangUpType ==
    ASSUME NetType, NetBound, NEW i \in Server, NEW j \in Server, HangUp(i, j), stale' = stale,
           decided \in Seq([entry: LogEntry, at: Nat]),
           decided' \in Seq([entry: LogEntry, at: Nat]), Len(decided') >= Len(decided)
    PROVE  NetType' /\ NetBound'
<1>1. /\ call' \in [Server -> [Server -> Request \cup {Nil}]]
      /\ reply' \in [Server -> [Server -> Reply \cup {Nil}]]
      /\ stale' \in SUBSET [from: Server, to: Server, req: Request]
      /\ \A a, b \in Server : call'[a][b] \in {call[a][b], Nil}
  BY DEF NetType, HangUp
<1>. QED
  BY <1>1, NetShrinks

\* Answers that end a term or are given up.
LEMMA ReceiveHigherTermTyped ==
    ASSUME IInv, NEW i \in Server, NEW j \in Server, ReceiveHigherTerm(i, j)
    PROVE  IInv'
<1>1. reply[i][j].term \in Nat /\ contact' \in [Server -> BOOLEAN]
  <2>1. reply[i][j] \in Reply
    BY DEF ReceiveHigherTerm, IInv, NetType
  <2>. QED
    BY <2>1 DEF ReceiveHigherTerm, IInv, NodeType, VoteType, Reply
<1>2. VoteType'
  BY <1>1, StepDownType DEF ReceiveHigherTerm, IInv, NodeType
<1>. QED
  BY <1>2, QuietType, HangUpType DEF ReceiveHigherTerm, IInv, NodeType, LogType

LEMMA AbandonCallTyped ==
    ASSUME IInv, NEW i \in Server, NEW j \in Server, AbandonCall(i, j)
    PROVE  IInv'
<1>1. NodeType' /\ NodeBound' /\ Len(decided') >= Len(decided)
      /\ decided' \in Seq([entry: LogEntry, at: Nat])
  BY VoteTypeKept, QuietType DEF AbandonCall, IInv
<1>2. /\ call' \in [Server -> [Server -> Request \cup {Nil}]]
      /\ reply' \in [Server -> [Server -> Reply \cup {Nil}]]
      /\ \A a, b \in Server : call'[a][b] \in {call[a][b], Nil}
  BY DEF AbandonCall, IInv, NetType, HangUp
<1>3. call[i][j] \in Request /\ call[i][j] # Nil
  BY DEF AbandonCall, IInv, NetType
<1>4. /\ stale' \in SUBSET [from: Server, to: Server, req: Request]
      /\ \A m \in stale' : m \in stale \/ (m.req = call[m.from][m.to] /\ m.req # Nil)
  BY <1>3 DEF AbandonCall, IInv, NetType
<1>. QED
  BY <1>1, <1>2, <1>4, NetShrinks DEF IInv, NodeType, LogType

\* The replicator threads: requests are well formed and promise nothing undecided.
LEMMA SendTyped ==
    ASSUME IInv, NEW i \in Server, NEW j \in Server, NEW q \in Request, DecidedBy(q),
           Send(i, j, q), asked' \in [Server -> SUBSET Server]
    PROVE  IInv'
<1>1. VoteType'
  BY DEF Send, IInv, NodeType, VoteType, durable
<1>2. NodeType' /\ NodeBound' /\ decided' = decided
  BY <1>1, QuietType DEF Send, IInv, history
<1>3. NetType'
  BY DEF Send, IInv, NetType
<1>4. NetBound'
  BY <1>2 DEF Send, IInv, NetBound, NetType, DecidedBy, Decided
<1>. QED
  BY <1>2, <1>3, <1>4 DEF IInv

LEMMA BallotRequestType ==
    ASSUME NodeType, NEW i \in Server, NEW type \in {"prevote", "vote"}, NEW t \in Nat
    PROVE  /\ BallotRequest(i, type, t) \in Request
           /\ DecidedBy(BallotRequest(i, type, t))
<1>1. LastIndex(i) \in Nat /\ LastTerm(i) \in Nat
  BY TermType DEF NodeType
<1>. QED
  BY <1>1 DEF BallotRequest, Request, VoteRequest, DecidedBy

LEMMA SendPreVoteTyped ==
    ASSUME IInv, NEW i \in Server, NEW j \in Server, SendPreVote(i, j)
    PROVE  IInv'
<1>1. currentTerm[i] + 1 \in Nat /\ asked' \in [Server -> SUBSET Server]
  BY DEF SendPreVote, IInv, NodeType, VoteType
<1>. QED
  BY <1>1, BallotRequestType, SendTyped DEF SendPreVote, IInv

LEMMA SendVoteTyped ==
    ASSUME IInv, NEW i \in Server, NEW j \in Server, SendVote(i, j)
    PROVE  IInv'
<1>1. currentTerm[i] \in Nat /\ asked' \in [Server -> SUBSET Server]
  BY DEF SendVote, IInv, NodeType, VoteType
<1>. QED
  BY <1>1, BallotRequestType, SendTyped DEF SendVote, IInv

LEMMA SendAppendTyped ==
    ASSUME IInv, NEW i \in Server, NEW j \in Server, SendAppend(i, j)
    PROVE  IInv'
<1>. DEFINE ni   == Min({nextIndex[i][j], LastIndex(i) + 1})
            from == ni - snap[i].idx
            upto == Min({Len(log[i]), from + MaxEntriesPerRpc - 1})
            es   == SubSeq(log[i], from, upto)
            q    == [type |-> "append", term |-> currentTerm[i], prev |-> ni - 1,
                     prevTerm |-> TermAt(i, ni - 1), entries |-> es,
                     commit |-> commitIndex[i]]
<1>1. /\ nextIndex[i][j] \in Nat /\ nextIndex[i][j] > snap[i].idx
      /\ asked' \in [Server -> SUBSET Server]
      /\ Send(i, j, q)
      /\ currentTerm[i] \in Nat /\ commitIndex[i] \in Nat
      /\ log[i] \in Seq(LogEntry)
  BY DEF SendAppend, IInv, NodeType, VoteType, LogType
<1>2. /\ LastIndex(i) \in Nat /\ LastIndex(i) = snap[i].idx + Len(log[i])
      /\ snap[i].idx \in Nat /\ Len(log[i]) \in Nat
      /\ \A n \in snap[i].idx..LastIndex(i) : TermAt(i, n) \in Nat
  BY TermType DEF IInv, NodeType
<1>3. ni \in (snap[i].idx + 1)..(LastIndex(i) + 1)
  <2>. DEFINE k == LastIndex(i) + 1
  <2>1. k \in Int /\ nextIndex[i][j] \in Int
    BY <1>1, <1>2
  <2>. HIDE DEF k
  <2>2. Min({nextIndex[i][j], k}) = IF nextIndex[i][j] <= k THEN nextIndex[i][j] ELSE k
    BY <2>1, MinPair
  <2>. QED
    BY <1>1, <1>2, <2>2 DEF k
<1>4. es \in Seq(LogEntry)
  <2>1. upto \in Int /\ upto <= Len(log[i])
    <3>. DEFINE k == from + MaxEntriesPerRpc - 1
    <3>1. k \in Int /\ Len(log[i]) \in Int
      BY <1>2, <1>3, ThresholdAssumption
    <3>. HIDE DEF k
    <3>2. Min({Len(log[i]), k}) = IF Len(log[i]) <= k THEN Len(log[i]) ELSE k
      BY <3>1, MinPair
    <3>. QED
      BY <3>1, <3>2 DEF k
  <2>2. from \in 1..(Len(log[i]) + 1)
    BY <1>2, <1>3
  <2>. HIDE DEF upto, from
  <2>3. \A k \in from..upto : log[i][k] \in LogEntry
    BY <1>1, <1>2, <2>1, <2>2
  <2>. QED
    BY <2>1, <2>2, <2>3, SubSeqProperties
<1>5. ni - 1 \in Nat /\ TermAt(i, ni - 1) \in Nat
  BY <1>2, <1>3
<1>6. q \in Request /\ DecidedBy(q)
  <2>. HIDE DEF ni, es
  <2>. QED
    BY <1>1, <1>4, <1>5 DEF Request, AppendRequest, DecidedBy, Decided, IInv, NodeBound
<1>. QED
  BY <1>1, <1>6, SendTyped

LEMMA SendSnapshotTyped ==
    ASSUME IInv, NEW i \in Server, NEW j \in Server, SendSnapshot(i, j)
    PROVE  IInv'
<1>. DEFINE q == [type |-> "snapshot", term |-> currentTerm[i], snap |-> snap[i]]
<1>1. /\ asked' \in [Server -> SUBSET Server] /\ Send(i, j, q)
      /\ currentTerm[i] \in Nat /\ snap[i] \in Snapshot
  BY DEF SendSnapshot, IInv, NodeType, VoteType, LogType
<1>2. q \in Request /\ DecidedBy(q)
  BY <1>1 DEF Request, SnapshotRequest, DecidedBy, Decided, IInv, NodeBound
<1>. QED
  BY <1>1, <1>2, SendTyped

\* The replicator threads: answers.
LEMMA ReceivePreVoteTyped ==
    ASSUME IInv, NEW i \in Server, NEW j \in Server, ReceivePreVote(i, j)
    PROVE  IInv'
<1>. DEFINE got == prevotes[i] \cup {j}
<1>1. /\ contact' \in [Server -> BOOLEAN] /\ contact' = contact
      /\ UNCHANGED <<snap, machine, change, env>> /\ stale' = stale
      /\ HangUp(i, j)
  BY DEF ReceivePreVote, IInv, NodeType, VoteType
<1>2. NodeType' /\ NodeBound' /\ Len(decided') >= Len(decided)
  <2>1. CASE Quorum(Config(i), got) /\ CanStartElection(i)
    BY <1>1, <2>1, StartElectionType DEF ReceivePreVote, IInv
  <2>2. CASE ~(Quorum(Config(i), got) /\ CanStartElection(i))
    <3>1. /\ prevotes' \in [Server -> SUBSET Server]
          /\ UNCHANGED <<durable, role, votes, asked, log, commitIndex, progress, history>>
      BY <2>2 DEF ReceivePreVote, IInv, NodeType, VoteType
    <3>2. VoteType'
      BY <1>1, <3>1 DEF IInv, NodeType, VoteType, durable
    <3>. QED
      BY <1>1, <3>1, <3>2, QuietType DEF IInv
  <2>. QED
    BY <2>1, <2>2
<1>. QED
  BY <1>1, <1>2, HangUpType DEF IInv, NodeType, LogType

LEMMA ReceiveVoteTyped ==
    ASSUME IInv, NEW i \in Server, NEW j \in Server, ReceiveVote(i, j)
    PROVE  IInv'
<1>. DEFINE got == votes[i] \cup {j}
<1>1. /\ currentTerm' \in [Server -> Nat] /\ votedFor' \in [Server -> Server \cup {Nil}]
      /\ disk' \in [Server -> Meta] /\ contact' \in [Server -> BOOLEAN]
      /\ UNCHANGED <<durable, contact, snap, machine, change, env>> /\ stale' = stale
      /\ HangUp(i, j) /\ currentTerm[i] \in Nat
  BY DEF ReceiveVote, IInv, NodeType, VoteType, durable
<1>2. NodeType' /\ NodeBound' /\ Len(decided') >= Len(decided)
  <2>1. CASE Quorum(Config(i), got)
    BY <1>1, <2>1, BecomeLeaderType DEF ReceiveVote, IInv
  <2>2. CASE ~Quorum(Config(i), got)
    <3>1. /\ votes' \in [Server -> SUBSET Server]
          /\ UNCHANGED <<role, prevotes, asked, log, commitIndex, progress, history>>
      BY <2>2 DEF ReceiveVote, IInv, NodeType, VoteType
    <3>2. VoteType'
      BY <1>1, <3>1 DEF IInv, NodeType, VoteType, durable
    <3>. QED
      BY <1>1, <3>1, <3>2, QuietType DEF IInv
  <2>. QED
    BY <2>1, <2>2
<1>. QED
  BY <1>1, <1>2, HangUpType DEF IInv, NodeType, LogType

\* A cell of a matrix indexed by two nodes.
LEMMA UpdateType ==
    ASSUME NEW f \in [Server -> [Server -> Nat]], NEW i \in Server, NEW j \in Server,
           NEW v \in Nat
    PROVE  [f EXCEPT ![i][j] = v] \in [Server -> [Server -> Nat]]
  OBVIOUS

LEMMA AcknowledgeTyped ==
    ASSUME IInv, NEW i \in Server, NEW j \in Server, NEW m \in Nat, Acknowledge(i, j, m),
           HangUp(i, j),
           UNCHANGED <<durable, prevotes, votes, asked, contact, snap, machine,
                       change, stale, env>>
    PROVE  IInv'
<1>. DEFINE match == [matchIndex[i] EXCEPT ![j] = Max({@, m})]
<1>1. match \in [Server -> Nat]
  <2>1. matchIndex[i] \in [Server -> Nat]
    BY DEF IInv, NodeType, LogType
  <2>2. Max({matchIndex[i][j], m}) \in Nat
    <3>. DEFINE a == matchIndex[i][j]
    <3>1. a \in Nat
      BY <2>1
    <3>. HIDE DEF a
    <3>2. Max({a, m}) = IF a >= m THEN a ELSE m
      BY <3>1, MaxPair
    <3>. QED
      BY <3>1, <3>2 DEF a
  <2>. QED
    BY <2>1, <2>2
<1>2. /\ matchIndex' = [matchIndex EXCEPT ![i] = match]
      /\ nextIndex' = [nextIndex EXCEPT ![i][j] = match[j] + 1]
      /\ AdvanceCommit(i, currentTerm[i], log[i], match)
      /\ elected' = elected /\ log' = log
  BY DEF Acknowledge
<1>. HIDE DEF match
<1>3. /\ commitIndex' \in [Server -> Nat]
      /\ role' \in [Server -> {"FOLLOWER", "CANDIDATE", "LEADER"}]
      /\ decided' \in Seq([entry: LogEntry, at: Nat])
      /\ Len(decided') >= Len(decided)
      /\ \A k \in Server : commitIndex'[k] <= Len(decided')
  <2>1. log[i] \in Seq(LogEntry) /\ currentTerm[i] \in Nat
    BY DEF IInv, NodeType, VoteType, LogType
  <2>. QED
    BY <1>2, <2>1, AdvanceCommitType DEF IInv
<1>4. VoteType'
  BY <1>3 DEF IInv, NodeType, VoteType, durable
<1>5. LogType'
  <2>1. /\ nextIndex' \in [Server -> [Server -> Nat]]
        /\ matchIndex' \in [Server -> [Server -> Nat]]
    <3>1. match[j] + 1 \in Nat
      BY <1>1
    <3>. QED
      BY <1>1, <1>2, <3>1, UpdateType DEF IInv, NodeType, LogType
  <2>. QED
    BY <1>2, <1>3, <2>1 DEF IInv, NodeType, LogType, machine
<1>6. RestType'
  BY <1>2 DEF IInv, NodeType, RestType, change, env
<1>7. NodeBound'
  BY <1>3, NodeBoundKept DEF IInv
<1>8. NetType' /\ NetBound'
  BY <1>3, HangUpType DEF IInv, NodeType, LogType
<1>. QED
  BY <1>4, <1>5, <1>6, <1>7, <1>8 DEF IInv, NodeType

LEMMA ReceiveAppendOkTyped ==
    ASSUME IInv, NEW i \in Server, NEW j \in Server, ReceiveAppendOk(i, j)
    PROVE  IInv'
<1>. DEFINE q == call[i][j]
            m == q.prev + Len(q.entries)
<1>1. q \in Request /\ q.type = "append"
  BY DEF ReceiveAppendOk, Answered, IInv, NetType
<1>2. m \in Nat
  BY <1>1, RequestFields
<1>. HIDE DEF m
<1>. QED
  BY <1>2, AcknowledgeTyped DEF ReceiveAppendOk, m

LEMMA ReceiveSnapshotOkTyped ==
    ASSUME IInv, NEW i \in Server, NEW j \in Server, ReceiveSnapshotOk(i, j)
    PROVE  IInv'
<1>1. call[i][j] \in Request /\ call[i][j].type = "snapshot"
  BY DEF ReceiveSnapshotOk, Answered, IInv, NetType
<1>2. call[i][j].snap.idx \in Nat
  BY <1>1, RequestFields DEF Snapshot
<1>. QED
  BY <1>2, AcknowledgeTyped DEF ReceiveSnapshotOk

LEMMA ReceiveAppendConflictTyped ==
    ASSUME IInv, NEW i \in Server, NEW j \in Server, ReceiveAppendConflict(i, j)
    PROVE  IInv'
<1>. DEFINE q    == call[i][j]
            r    == reply[i][j]
            top  == Min({q.prev, LastIndex(i)})
            own  == {n \in (snap[i].idx + 1)..top :
                       r.conflictTerm > 0 /\ TermAt(i, n) = r.conflictTerm}
            back == IF own = {} THEN r.conflictIndex ELSE Max(own) + 1
            low  == Min({back, q.prev})
<1>1. q \in Request /\ q.type = "append" /\ r \in Reply
  BY DEF ReceiveAppendConflict, Answered, IInv, NetType
<1>2. q.prev \in Nat /\ r.conflictIndex \in Nat
  BY <1>1, RequestFields DEF Reply
<1>3. LastIndex(i) \in Nat /\ snap[i].idx \in Nat
  BY TermType DEF IInv, NodeType
<1>4. top \in Nat
  BY <1>2, <1>3, MinPair
<1>. HIDE DEF top
<1>5. own \in SUBSET (0..top)
  BY <1>3, <1>4
<1>6. back \in Nat
  <2>1. CASE own = {}
    BY <1>2, <2>1
  <2>2. CASE own # {}
    <3>1. Max(own) \in own
      <4>. HIDE DEF own
      <4>. QED
        BY <1>4, <1>5, <2>2, MaxExists
    <3>. QED
      BY <1>3, <1>4, <2>2, <3>1
  <2>. QED
    BY <2>1, <2>2
<1>7. nextIndex' = [nextIndex EXCEPT ![i][j] = Max({1, low})]
  BY DEF ReceiveAppendConflict, top
<1>. HIDE DEF back
<1>8. low \in Nat
  BY <1>2, <1>6, MinPair
<1>. HIDE DEF low
<1>9. Max({1, low}) \in Nat
  BY <1>8, MaxPair
<1>10. LogType'
  <2>1. nextIndex' \in [Server -> [Server -> Nat]]
    BY <1>7, <1>9, UpdateType DEF IInv, NodeType, LogType
  <2>. QED
    BY <2>1 DEF ReceiveAppendConflict, IInv, NodeType, LogType, machine, history
<1>11. VoteType'
  BY VoteTypeKept DEF ReceiveAppendConflict, IInv
<1>12. RestType'
  BY DEF ReceiveAppendConflict, IInv, NodeType, RestType, change, env, history
<1>13. NodeBound' /\ Len(decided') >= Len(decided)
  BY QuietNode DEF ReceiveAppendConflict, IInv
<1>. QED
  BY <1>10, <1>11, <1>12, <1>13, HangUpType
     DEF ReceiveAppendConflict, IInv, NodeType, LogType

\* Clients and membership.
LEMMA AppendTyped ==
    ASSUME IInv, NEW i \in Server, NEW l \in Seq(LogEntry), NEW lrn,
           NEW known \in [Server -> Nat],
           log' = [log EXCEPT ![i] = l],
           nextIndex' = [nextIndex EXCEPT ![i] = Reconcile(i, known, snap[i], l, lrn)],
           AdvanceCommit(i, currentTerm[i], l, matchIndex[i]),
           RestType',
           UNCHANGED <<durable, prevotes, votes, asked, contact, snap, machine,
                       matchIndex, net>>
    PROVE  IInv'
<1>1. currentTerm[i] \in Nat /\ snap[i] \in Snapshot
  BY DEF IInv, NodeType, VoteType, LogType
<1>3. /\ commitIndex' \in [Server -> Nat]
      /\ role' \in [Server -> {"FOLLOWER", "CANDIDATE", "LEADER"}]
      /\ decided' \in Seq([entry: LogEntry, at: Nat])
      /\ Len(decided') >= Len(decided)
      /\ \A k \in Server : commitIndex'[k] <= Len(decided')
  BY <1>1, AdvanceCommitType DEF IInv
<1>4. VoteType'
  BY <1>3 DEF IInv, NodeType, VoteType, durable
<1>5. LogType'
  <2>1. Reconcile(i, known, snap[i], l, lrn) \in [Server -> Nat]
    BY <1>1, ReconcileType
  <2>2. nextIndex' \in [Server -> [Server -> Nat]] /\ log' \in [Server -> Seq(LogEntry)]
    BY <2>1 DEF IInv, NodeType, LogType
  <2>. QED
    BY <1>3, <2>2 DEF IInv, NodeType, LogType, machine
<1>6. NodeBound'
  BY <1>3, NodeBoundKept DEF IInv
<1>7. NetType' /\ NetBound'
  BY <1>3, NetKept DEF IInv, NodeType, LogType
<1>. QED
  BY <1>4, <1>5, <1>6, <1>7 DEF IInv, NodeType

LEMMA AppendLocalTyped ==
    ASSUME IInv, NEW i \in Server, NEW e \in LogEntry, NEW lrn, AppendLocal(i, e, lrn),
           RestType',
           UNCHANGED <<durable, prevotes, votes, asked, contact, snap, machine,
                       matchIndex, net>>
    PROVE  IInv'
<1>1. nextIndex[i] \in [Server -> Nat] /\ Append(log[i], e) \in Seq(LogEntry)
  BY AppendType DEF IInv, NodeType, LogType
<1>. QED
  BY <1>1, AppendTyped DEF AppendLocal

LEMMA SubmitTyped ==
    ASSUME IInv, NEW i \in Server, Submit(i)
    PROVE  IInv'
<1>1. Entry(currentTerm[i], "CMD", {}) \in LogEntry
  BY EntryIsTyped DEF Op, Membership, IInv, NodeType, VoteType
<1>2. RestType'
  BY DEF Submit, IInv, NodeType, RestType, change, env
<1>. QED
  BY <1>1, <1>2, AppendLocalTyped DEF Submit

LEMMA AddServerBeginTyped ==
    ASSUME IInv, NEW i \in Server, NEW j \in Server, AddServerBegin(i, j)
    PROVE  IInv'
<1>1. RestType'
  BY DEF AddServerBegin, IInv, NodeType, VoteType, RestType, history
<1>2. nextIndex' \in [Server -> [Server -> Nat]]
  <2>1. Reconcile(i, nextIndex[i], snap[i], log[i], learners[i] \cup {j}) \in [Server -> Nat]
    BY ReconcileType DEF IInv, NodeType, LogType
  <2>. QED
    BY <2>1 DEF AddServerBegin, IInv, NodeType, LogType
<1>3. VoteType'
  BY VoteTypeKept DEF AddServerBegin, IInv
<1>4. NodeBound' /\ LogType' /\ Len(decided') >= Len(decided)
  BY <1>2, QuietNode DEF AddServerBegin, IInv, NodeType, LogType
<1>. QED
  BY <1>1, <1>3, <1>4, NetKept DEF AddServerBegin, IInv, NodeType, LogType

LEMMA AddServerAtOnceTyped ==
    ASSUME IInv, NEW i \in Server, NEW j \in Server, AddServerAtOnce(i, j)
    PROVE  IInv'
<1>. DEFINE cfg   == Config(i) \cup {<<j, LastIndex(i) + 1>>}
            e     == Entry(currentTerm[i], "CONFIG", cfg)
            lrn   == learners[i] \ {j}
            known == Reconcile(i, nextIndex[i], snap[i], log[i], learners[i] \cup {j})
<1>1. Config(i) \in Membership /\ LastIndex(i) \in Nat
  BY TermType DEF IInv, NodeType
<1>2. cfg \in Membership
  BY <1>1 DEF Membership
<1>3. known \in [Server -> Nat]
  BY ReconcileType DEF IInv, NodeType, LogType
<1>. HIDE DEF cfg
<1>4. e \in LogEntry
  BY <1>2, EntryIsTyped DEF Op, IInv, NodeType, VoteType
<1>5. /\ log' = [log EXCEPT ![i] = Append(log[i], e)]
      /\ nextIndex' = [nextIndex EXCEPT ![i] =
                         Reconcile(i, known, snap[i], Append(log[i], e), lrn)]
      /\ AdvanceCommit(i, currentTerm[i], Append(log[i], e), matchIndex[i])
  BY DEF AddServerAtOnce, cfg
<1>6. RestType'
  BY DEF AddServerAtOnce, IInv, NodeType, RestType
<1>7. UNCHANGED <<durable, prevotes, votes, asked, contact, snap, machine, matchIndex, net>>
  BY DEF AddServerAtOnce
<1>8. Append(log[i], e) \in Seq(LogEntry)
  BY <1>4, AppendType DEF IInv, NodeType, LogType
<1>. HIDE DEF e, lrn, known
<1>. QED
  BY <1>3, <1>5, <1>6, <1>7, <1>8, AppendTyped

LEMMA AddServerFinishTyped ==
    ASSUME IInv, NEW i \in Server, NEW a \in adds[i], AddServerFinish(i, a)
    PROVE  IInv'
<1>. DEFINE cfg == Config(i) \cup {<<a[2], LastIndex(i) + 1>>}
            e   == Entry(currentTerm[i], "CONFIG", cfg)
            lrn == learners[i] \ {a[2]}
<1>1. a[2] \in Server
  BY DEF IInv, NodeType, RestType
<1>2. Config(i) \in Membership /\ LastIndex(i) \in Nat
  BY TermType DEF IInv, NodeType
<1>3. cfg \in Membership
  BY <1>1, <1>2 DEF Membership
<1>. HIDE DEF cfg
<1>4. e \in LogEntry
  BY <1>3, EntryIsTyped DEF Op, IInv, NodeType, VoteType
<1>5. AppendLocal(i, e, lrn)
  BY DEF AddServerFinish, cfg
<1>6. RestType'
  BY DEF AddServerFinish, IInv, NodeType, RestType, env
<1>. HIDE DEF e, lrn
<1>. QED
  BY <1>4, <1>5, <1>6, AppendLocalTyped DEF AddServerFinish

LEMMA RemoveServerTyped ==
    ASSUME IInv, NEW i \in Server, NEW j \in Server, RemoveServer(i, j)
    PROVE  IInv'
<1>. DEFINE cfg == {m \in Config(i) : m[1] # j}
            e   == Entry(currentTerm[i], "CONFIG", cfg)
            lrn == learners[i] \ {j}
<1>1. cfg \in Membership
  BY TermType DEF Membership, IInv, NodeType
<1>. HIDE DEF cfg
<1>2. e \in LogEntry
  BY <1>1, EntryIsTyped DEF Op, IInv, NodeType, VoteType
<1>3. AppendLocal(i, e, lrn)
  BY DEF RemoveServer, cfg
<1>4. RestType'
  BY DEF RemoveServer, IInv, NodeType, RestType
<1>. HIDE DEF e, lrn
<1>. QED
  BY <1>2, <1>3, <1>4, AppendLocalTyped DEF RemoveServer

LEMMA LearnersDropped ==
    ASSUME IInv, RestType',
           UNCHANGED <<durable, ballot, contact, log, snap, commitIndex, machine, progress,
                       net, env, history>>
    PROVE  IInv'
<1>1. VoteType'
  BY VoteTypeKept DEF IInv
<1>2. LogType' /\ NodeBound' /\ Len(decided') >= Len(decided)
  BY QuietNode DEF IInv, NodeType, LogType, progress
<1>. QED
  BY <1>1, <1>2, NetKept DEF IInv, NodeType, LogType

LEMMA AddServerAbandonTyped ==
    ASSUME IInv, NEW i \in Server, NEW a \in adds[i], AddServerAbandon(i, a)
    PROVE  IInv'
<1>1. RestType'
  BY DEF AddServerAbandon, IInv, NodeType, RestType, env, history
<1>. QED
  BY <1>1, LearnersDropped DEF AddServerAbandon

LEMMA RemoveLearnerTyped ==
    ASSUME IInv, NEW i \in Server, NEW j \in Server, RemoveLearner(i, j)
    PROVE  IInv'
<1>1. RestType'
  BY DEF RemoveLearner, IInv, NodeType, RestType, env, history
<1>. QED
  BY <1>1, LearnersDropped DEF RemoveLearner

\* Apply thread, snapshots, crashes and full disks.
LEMMA DiskTyped ==
    ASSUME IInv, NEW i \in Server, DiskFills(i) \/ DiskDrains(i)
    PROVE  IInv'
<1>1. RestType'
  <2>1. CASE DiskFills(i)
    BY <2>1 DEF DiskFills, IInv, NodeType, RestType, change, history
  <2>2. CASE DiskDrains(i)
    BY <2>2 DEF DiskDrains, IInv, NodeType, RestType, change, history
  <2>. QED
    BY <2>1, <2>2
<1>2. VoteType'
  BY VoteTypeKept DEF DiskFills, DiskDrains, IInv
<1>3. LogType' /\ NodeBound' /\ Len(decided') >= Len(decided)
  BY QuietNode DEF DiskFills, DiskDrains, IInv, NodeType, LogType, progress
<1>. QED
  BY <1>1, <1>2, <1>3, NetKept DEF DiskFills, DiskDrains, IInv, NodeType, LogType

LEMMA ApplyTyped ==
    ASSUME IInv, NEW i \in Server, Apply(i)
    PROVE  IInv'
<1>. DEFINE n == IF lastApplied[i] < snap[i].idx THEN snap[i].idx ELSE lastApplied[i] + 1
<1>1. /\ lastApplied[i] \in Nat /\ snap[i].idx \in Nat /\ commitIndex[i] \in Nat
      /\ snapping[i] \in Nat /\ Len(decided) \in Nat
      /\ snap[i].idx <= Len(decided) /\ commitIndex[i] <= Len(decided)
      /\ snapping[i] <= Len(decided)
  BY DEF IInv, NodeType, LogType, NodeBound, Snapshot
<1>2. n \in Nat /\ n <= Len(decided)
  BY <1>1 DEF Apply, HasToApply
<1>. HIDE DEF n
<1>3. /\ lastApplied' = [lastApplied EXCEPT ![i] = n]
      /\ snapping' = [snapping EXCEPT ![i] = n] \/ snapping' = snapping
      /\ decided' = decided /\ elected' = elected
  BY DEF Apply, n, history, IInv, NodeType, LogType
<1>4. LogType'
  BY SMTT(30), <1>2, <1>3 DEF Apply, IInv, NodeType, LogType, progress
<1>5. NodeBound'
  BY <1>1, <1>2, <1>3 DEF Apply, IInv, NodeType, LogType, NodeBound
<1>6. VoteType'
  BY VoteTypeKept DEF Apply, IInv
<1>7. RestType'
  BY <1>3 DEF Apply, IInv, NodeType, RestType, change, env
<1>8. NetType' /\ NetBound'
  BY <1>1, <1>3, <1>4, NetKept DEF Apply, IInv, NodeType, LogType
<1>. QED
  BY <1>4, <1>5, <1>6, <1>7, <1>8 DEF IInv, NodeType

LEMMA FinishSnapshotTyped ==
    ASSUME IInv, NEW i \in Server, FinishSnapshot(i)
    PROVE  IInv'
<1>. DEFINE n == snapping[i]
            k == n - snap[i].idx
            s == SnapshotOf(i, n)
            l == SubSeq(log[i], k + 1, Len(log[i]))
<1>1. /\ LastIndex(i) \in Nat /\ LastIndex(i) = snap[i].idx + Len(log[i])
      /\ snap[i].idx \in Nat /\ Len(log[i]) \in Nat /\ n \in Nat /\ n <= Len(decided)
      /\ snap[i] \in Snapshot /\ log[i] \in Seq(LogEntry)
      /\ \A m \in snap[i].idx..LastIndex(i) : TermAt(i, m) \in Nat
  BY TermType DEF IInv, NodeType, LogType, NodeBound
<1>2. /\ log' \in [Server -> Seq(LogEntry)] /\ snap' \in [Server -> Snapshot]
      /\ \A j \in Server : snap'[j].idx <= Len(decided)
  <2>1. CASE diskFull[i] \/ n <= snap[i].idx \/ n > LastIndex(i)
    BY <2>1 DEF FinishSnapshot, IInv, NodeType, LogType, NodeBound
  <2>2. CASE ~(diskFull[i] \/ n <= snap[i].idx \/ n > LastIndex(i))
    <3>1. n \in snap[i].idx..LastIndex(i) /\ k \in 1..Len(log[i])
      BY <1>1, <2>2
    <3>2. l \in Seq(LogEntry)
      <4>1. \A m \in (k + 1)..Len(log[i]) : log[i][m] \in LogEntry
        BY <1>1, <3>1
      <4>. HIDE DEF k
      <4>. QED
        BY <1>1, <3>1, <4>1, SubSeqProperties
    <3>3. s \in Snapshot /\ s.idx = n
      <4>1. SubSeq(log[i], 1, k) \in Seq(LogEntry)
        <5>1. \A m \in 1..k : log[i][m] \in LogEntry
          BY <1>1, <3>1
        <5>. HIDE DEF k
        <5>. QED
          BY <3>1, <5>1, SubSeqProperties
      <4>2. ConfigOf(snap[i], SubSeq(log[i], 1, k)) \in Membership
        BY <1>1, <4>1, ConfigOfType
      <4>. QED
        BY <1>1, <3>1, <4>2 DEF SnapshotOf, Snapshot
    <3>4. snap' = [snap EXCEPT ![i] = s] /\ log' = [log EXCEPT ![i] = l]
      BY <2>2 DEF FinishSnapshot
    <3>. HIDE DEF s, l
    <3>. QED
      BY <1>1, <3>2, <3>3, <3>4 DEF IInv, NodeType, LogType, NodeBound
  <2>. QED
    BY <2>1, <2>2
<1>3. /\ snapping' = [snapping EXCEPT ![i] = 0] /\ decided' = decided
      /\ UNCHANGED <<durable, ballot, contact, commitIndex, lastApplied, progress,
                     change, net, env, history>>
  BY DEF FinishSnapshot, history
<1>4. LogType'
  BY <1>2, <1>3 DEF IInv, NodeType, LogType, progress
<1>5. NodeBound'
  BY <1>1, <1>2, <1>3 DEF IInv, NodeType, LogType, NodeBound
<1>6. VoteType'
  BY <1>3, VoteTypeKept DEF IInv
<1>7. RestType'
  BY <1>3 DEF IInv, NodeType, RestType, change, env, history
<1>8. NetType' /\ NetBound'
  <2>1. Len(decided) \in Nat
    BY DEF IInv, NodeType, LogType
  <2>. QED
    BY <1>3, <1>4, <2>1, NetKept DEF IInv, NodeType, LogType
<1>. QED
  BY <1>4, <1>5, <1>6, <1>7, <1>8 DEF IInv, NodeType

LEMMA RestartTyped ==
    ASSUME IInv, NEW i \in Server, Restart(i)
    PROVE  IInv'
<1>1. PICK n \in 0..lastApplied[i] :
        /\ lastApplied' = [lastApplied EXCEPT ![i] = n]
        /\ commitIndex' = [commitIndex EXCEPT ![i] = Max({snap[i].idx, n})]
  BY DEF Restart
<1>2. /\ lastApplied[i] \in Nat /\ n \in Nat /\ snap[i].idx \in Nat /\ Len(decided) \in Nat
      /\ snap[i].idx <= Len(decided) /\ lastApplied[i] <= Len(decided)
  BY DEF IInv, NodeType, LogType, NodeBound, Snapshot
<1>3. Max({snap[i].idx, n}) \in Nat /\ Max({snap[i].idx, n}) <= Len(decided)
  <2>. DEFINE x == snap[i].idx
  <2>1. x \in Int /\ n \in Int
    BY <1>2
  <2>. HIDE DEF x
  <2>2. Max({x, n}) = IF x >= n THEN x ELSE n
    BY <2>1, MaxPair
  <2>. QED
    BY <1>2, <2>2 DEF x
<1>4. VoteType'
  <2>1. disk[i] \in Meta
    BY DEF IInv, NodeType, VoteType
  <2>2. disk[i].term \in Nat /\ disk[i].vote \in Server \cup {Nil}
    BY <2>1 DEF Meta
  <2>. QED
    BY <2>2 DEF Restart, StopCampaign, IInv, NodeType, VoteType
<1>5. LogType'
  <2>. DEFINE none == [j \in Server |-> 0]
              known == Reconcile(i, none, snap[i], log[i], {})
  <2>1. known \in [Server -> Nat] /\ none \in [Server -> Nat]
    BY ReconcileType DEF IInv, NodeType, LogType
  <2>2. /\ nextIndex' = [nextIndex EXCEPT ![i] = known]
        /\ matchIndex' = [matchIndex EXCEPT ![i] = none]
        /\ snapping' = [snapping EXCEPT ![i] = 0]
        /\ log' = log /\ snap' = snap /\ decided' = decided
    BY DEF Restart, history
  <2>. HIDE DEF known, none
  <2>. QED
    BY <1>1, <1>2, <1>3, <2>1, <2>2 DEF IInv, NodeType, LogType
<1>6. RestType'
  BY DEF Restart, IInv, NodeType, RestType, history
<1>7. NodeBound'
  <2>1. /\ decided' = decided /\ snap' = snap
        /\ snapping' = [snapping EXCEPT ![i] = 0]
    BY DEF Restart, history
  <2>. DEFINE c == Max({snap[i].idx, n})
  <2>2. c <= Len(decided) /\ commitIndex' = [commitIndex EXCEPT ![i] = c]
    BY <1>1, <1>3
  <2>. HIDE DEF c
  <2>. QED
    BY SMTT(30), <1>1, <1>2, <2>1, <2>2 DEF IInv, NodeType, LogType, NodeBound
<1>8. NetType' /\ NetBound'
  <2>1. PICK kept \in SUBSET {j \in Server : call[i][j] # Nil /\ reply[i][j] = Nil} :
          stale' = stale \cup {[from |-> i, to |-> j, req |-> call[i][j]] : j \in kept}
    BY DEF Restart
  <2>2. \A j \in kept : call[i][j] \in Request /\ call[i][j] # Nil
    BY DEF IInv, NetType
  <2>3. /\ stale' \in SUBSET [from: Server, to: Server, req: Request]
        /\ \A m \in stale' : m \in stale \/ (m.req = call[m.from][m.to] /\ m.req # Nil)
    BY <2>1, <2>2 DEF IInv, NetType
  <2>4. /\ call' \in [Server -> [Server -> Request \cup {Nil}]]
        /\ reply' \in [Server -> [Server -> Reply \cup {Nil}]]
        /\ \A a, b \in Server : call'[a][b] \in {call[a][b], Nil}
    BY DEF Restart, IInv, NetType
  <2>5. /\ decided \in Seq([entry: LogEntry, at: Nat])
        /\ decided' \in Seq([entry: LogEntry, at: Nat])
        /\ Len(decided') >= Len(decided)
    BY <1>2 DEF Restart, history, IInv, NodeType, LogType
  <2>. QED
    BY <2>3, <2>4, <2>5, NetShrinks DEF IInv
<1>. QED
  BY <1>4, <1>5, <1>6, <1>7, <1>8 DEF IInv, NodeType

\* A follower keeps at least the entries up to prev, and no more than it has.
LEMMA KeepToBound ==
    ASSUME LogType, NEW j \in Server, NEW q \in Request, q.type = "append",
           q.prev <= LastIndex(j)
    PROVE  /\ KeepTo(j, q) \in Nat
           /\ q.prev <= KeepTo(j, q) /\ snap[j].idx <= KeepTo(j, q)
           /\ KeepTo(j, q) <= LastIndex(j)
<1>. DEFINE end   == q.prev + Len(q.entries)
            first == Max({q.prev, snap[j].idx}) + 1
            last  == Min({LastIndex(j), end})
            clash == {n \in first..last : TermAt(j, n) # q.entries[n - q.prev].term}
<1>1. /\ LastIndex(j) \in Nat /\ snap[j].idx \in Nat /\ snap[j].idx <= LastIndex(j)
      /\ q.prev \in Nat /\ end \in Nat
  BY SMTT(30), TermType, RequestFields
<1>2. first \in Nat /\ first > q.prev /\ first > snap[j].idx
  <2>. DEFINE x == snap[j].idx
              y == q.prev
  <2>1. x \in Int /\ y \in Int
    BY <1>1
  <2>. HIDE DEF x, y
  <2>2. Max({y, x}) = IF y >= x THEN y ELSE x
    BY <2>1, MaxPair
  <2>. QED
    BY <1>1, <2>2 DEF x, y
<1>. HIDE DEF end
<1>3. last \in Nat /\ last <= LastIndex(j)
  <2>1. last = IF LastIndex(j) <= end THEN LastIndex(j) ELSE end
    BY <1>1, MinPair
  <2>. QED
    BY <1>1, <2>1
<1>4. KeepTo(j, q) = IF clash = {} THEN LastIndex(j) ELSE Min(clash) - 1
  BY DEF KeepTo, end
<1>. HIDE DEF first, last
<1>5. clash \in SUBSET (first..last)
  OBVIOUS
<1>. HIDE DEF clash
<1>6. CASE clash = {}
  BY <1>1, <1>4, <1>6
<1>7. CASE clash # {}
  <2>1. clash \in SUBSET Nat
    BY <1>2, <1>3, <1>5
  <2>2. Min(clash) \in clash
    BY <1>7, <2>1, MinExists
  <2>3. Min(clash) \in first..last
    BY <1>5, <2>2
  <2>. QED
    BY <1>1, <1>2, <1>3, <1>4, <1>7, <2>3
<1>. QED
  BY <1>6, <1>7

\* The conflict index a follower answers with.
LEMMA FirstOfTermType ==
    ASSUME LogType, NEW j \in Server, NEW p \in Nat
    PROVE  FirstOfTerm(j, p) \in Nat
<1>. DEFINE S == {n \in (snap[j].idx + 1)..p : \A m \in n..p : TermAt(j, m) = TermAt(j, p)}
<1>1. snap[j].idx \in Nat
  BY TermType
<1>2. CASE p <= snap[j].idx + 1
  BY <1>2 DEF FirstOfTerm
<1>3. CASE ~(p <= snap[j].idx + 1)
  <2>1. p \in S
    BY <1>1, <1>3
  <2>2. S \in SUBSET Nat
    BY <1>1
  <2>3. FirstOfTerm(j, p) = Min(S)
    BY <1>3 DEF FirstOfTerm
  <2>. HIDE DEF S
  <2>4. Min(S) \in S
    BY <2>1, <2>2, MinExists
  <2>. QED
    BY <2>2, <2>3, <2>4
<1>. QED
  BY <1>2, <1>3

\* The answers of the handlers are well formed.
LEMMA AnswerType ==
    ASSUME NEW t \in Nat, NEW ok \in BOOLEAN
    PROVE  Answer(t, ok) \in Reply
  BY DEF Answer, Reply

LEMMA AppendReplyType ==
    ASSUME NodeType, NEW j \in Server, NEW q \in Request, q.type = "append"
    PROVE  AppendReply(j, q) \in Reply
<1>. DEFINE v == AppendVerdict(j, q)
            t == IF v = "old term" THEN currentTerm[j] ELSE q.term
            c == CASE v = "gap"      -> LastIndex(j) + 1
                   [] v = "mismatch" -> FirstOfTerm(j, q.prev)
                   [] v = "io error" -> q.prev + 1
                   [] OTHER          -> 0
            m == IF v = "mismatch" THEN TermAt(j, q.prev) ELSE 0
<1>1. /\ currentTerm[j] \in Nat /\ q.term \in Nat /\ q.prev \in Nat
      /\ LastIndex(j) \in Nat /\ snap[j].idx \in Nat
  BY TermType, RequestFields DEF NodeType, VoteType
<1>2. t \in Nat
  BY <1>1
<1>3. c \in Nat
  <2>1. /\ LastIndex(j) + 1 \in Nat /\ q.prev + 1 \in Nat
        /\ FirstOfTerm(j, q.prev) \in Nat
    BY <1>1, FirstOfTermType DEF NodeType
  <2>. HIDE DEF v
  <2>2. CASE v = "gap"
    BY <2>1, <2>2
  <2>3. CASE v = "mismatch"
    BY <2>1, <2>3
  <2>4. CASE v = "io error"
    BY <2>1, <2>4
  <2>5. CASE v \notin {"gap", "mismatch", "io error"}
    BY <2>5
  <2>. QED
    BY <2>2, <2>3, <2>4, <2>5
<1>4. m \in Nat
  <2>1. v = "mismatch" => q.prev \in snap[j].idx..LastIndex(j)
    BY <1>1 DEF AppendVerdict, PrevMatches
  <2>. QED
    BY <2>1, TermType DEF NodeType
<1>5. AppendReply(j, q) = [term |-> t, ok |-> Acknowledges(v), conflictIndex |-> c,
                           conflictTerm |-> m]
  BY DEF AppendReply
<1>6. Acknowledges(v) \in BOOLEAN
  BY DEF Acknowledges
<1>. HIDE DEF v, t, c, m
<1>. QED
  BY <1>2, <1>3, <1>4, <1>5, <1>6 DEF Reply

LEMMA ReplyToType ==
    ASSUME NodeType, NEW i \in Server, NEW j \in Server, NEW q \in Request
    PROVE  ReplyTo(i, j, q) \in Reply
<1>1. currentTerm[j] \in Nat /\ q.term \in Nat
  BY RequestFields DEF NodeType, VoteType
<1>2. CASE q.type = "prevote"
  BY <1>1, <1>2, AnswerType DEF ReplyTo, PreVoteReply
<1>3. CASE q.type = "vote"
  BY <1>1, <1>3, AnswerType DEF ReplyTo, VoteReply, Grants
<1>4. CASE q.type = "append"
  BY <1>4, AppendReplyType DEF ReplyTo
<1>5. CASE q.type = "snapshot"
  <2>1. Max({q.term, currentTerm[j]}) \in Nat
    <3>. DEFINE x == q.term
                y == currentTerm[j]
    <3>1. x \in Nat /\ y \in Nat
      BY <1>1
    <3>. HIDE DEF x, y
    <3>2. Max({x, y}) = IF x >= y THEN x ELSE y
      BY <3>1, MaxPair
    <3>. QED
      BY <3>1, <3>2 DEF x, y
  <2>2. (SnapshotVerdict(j, q) \in {"covered", "installed"}) \in BOOLEAN
    OBVIOUS
  <2>. QED
    BY <1>5, <2>1, <2>2, AnswerType DEF ReplyTo, SnapshotReply
<1>. QED
  BY <1>2, <1>3, <1>4, <1>5, RequestFields

\* The handlers.
LEMMA HandleVoteTyped ==
    ASSUME IInv, NEW i \in Server, NEW j \in Server, NEW q \in Request,
           HandleVote(i, j, q), UNCHANGED <<machine, matchIndex, change, env, history>>
    PROVE  NodeType' /\ NodeBound' /\ decided' = decided
<1>. DEFINE vote == IF Grants(i, j, q) THEN i ELSE VoteIn(j, q.term)
<1>1. q.term \in Nat /\ votedFor[j] \in Server \cup {Nil}
  BY RequestFields DEF IInv, NodeType, VoteType
<1>2. vote \in Server \cup {Nil}
  BY <1>1 DEF VoteIn
<1>3. /\ currentTerm' \in [Server -> Nat]
      /\ votedFor' \in [Server -> Server \cup {Nil}]
      /\ disk' \in [Server -> Meta]
  <2>1. CASE IgnoresVote(j, q)
    BY <2>1 DEF HandleVote, durable, IInv, NodeType, VoteType
  <2>2. CASE ~IgnoresVote(j, q)
    <3>1. [term |-> q.term, vote |-> vote] \in Meta
      BY <1>1, <1>2 DEF Meta
    <3>2. /\ currentTerm' = [currentTerm EXCEPT ![j] = q.term]
          /\ votedFor' = [votedFor EXCEPT ![j] = vote]
          /\ \/ disk' = [disk EXCEPT ![j] = [term |-> q.term, vote |-> vote]]
             \/ disk' = disk
      BY <2>2 DEF HandleVote
    <3>. HIDE DEF vote
    <3>. QED
      BY <1>1, <1>2, <3>1, <3>2 DEF IInv, NodeType, VoteType
  <2>. QED
    BY <2>1, <2>2
<1>4. /\ role' \in [Server -> {"FOLLOWER", "CANDIDATE", "LEADER"}]
      /\ prevotes' \in [Server -> SUBSET Server]
      /\ votes' \in [Server -> SUBSET Server]
      /\ asked' \in [Server -> SUBSET Server]
  <2>1. \/ UNCHANGED ballot
        \/ role' = [role EXCEPT ![j] = "FOLLOWER"] /\ StopCampaign(j)
    BY DEF HandleVote
  <2>. QED
    BY <2>1 DEF StopCampaign, ballot, IInv, NodeType, VoteType
<1>5. UNCHANGED <<contact, log, commitIndex, snap, nextIndex>>
  BY DEF HandleVote
<1>6. VoteType'
  BY <1>3, <1>4, <1>5 DEF IInv, NodeType, VoteType
<1>. QED
  BY <1>5, <1>6, QuietType DEF progress, history, IInv

LEMMA HearLeaderTyped ==
    ASSUME NodeType, NEW j \in Server, NEW t \in Nat,
           \/ UNCHANGED <<durable, ballot, contact>>
           \/ HearLeader(j, t)
    PROVE  VoteType'
<1>1. CASE UNCHANGED <<durable, ballot, contact>>
  BY <1>1, VoteTypeKept
<1>2. CASE HearLeader(j, t)
  <2>1. contact' \in [Server -> BOOLEAN]
    BY <1>2, SwitchAssumption DEF HearLeader, NodeType, VoteType
  <2>. QED
    BY <1>2, <2>1, StepDownType DEF HearLeader, NodeType
<1>. QED
  BY <1>1, <1>2

LEMMA HandleAppendTyped ==
    ASSUME IInv, NEW j \in Server, NEW q \in Request, DecidedBy(q),
           HandleAppend(j, q), UNCHANGED <<machine, matchIndex, change, env, history>>
    PROVE  NodeType' /\ NodeBound' /\ decided' = decided
<1>. DEFINE verdict == AppendVerdict(j, q)
            keep    == KeepTo(j, q)
            l       == SubSeq(log[j], 1, keep - snap[j].idx)
                         \o SubSeq(q.entries, keep - q.prev + 1, Len(q.entries))
<1>1. /\ q.type = "append" /\ snap' = snap /\ decided' = decided
      /\ UNCHANGED <<durable, ballot, contact>> \/ HearLeader(j, q.term)
  BY DEF HandleAppend, history
<1>2. /\ q.term \in Nat /\ q.prev \in Nat /\ q.commit \in Nat /\ q.entries \in Seq(LogEntry)
      /\ Len(q.entries) \in Nat
  BY <1>1, RequestFields
<1>3. VoteType'
  BY <1>1, <1>2, HearLeaderTyped DEF IInv
<1>4. RestType'
  BY DEF change, env, history, IInv, NodeType, RestType
<1>5. /\ log' \in [Server -> Seq(LogEntry)]
      /\ commitIndex' \in [Server -> Nat]
      /\ nextIndex' \in [Server -> [Server -> Nat]]
      /\ \A k \in Server : commitIndex'[k] <= Len(decided)
  <2>1. CASE verdict # "accepted"
    BY <2>1 DEF HandleAppend, IInv, NodeType, LogType, NodeBound
  <2>2. CASE verdict = "accepted"
    <3>1. q.prev <= LastIndex(j)
      <4>1. ~(q.prev > LastIndex(j))
        BY <2>2 DEF AppendVerdict
      <4>2. LastIndex(j) \in Nat
        BY TermType DEF IInv, NodeType
      <4>. QED
        BY <1>2, <4>1, <4>2
    <3>2. /\ keep \in Nat /\ q.prev <= keep /\ snap[j].idx <= keep /\ keep <= LastIndex(j)
          /\ snap[j].idx \in Nat /\ Len(log[j]) \in Nat
          /\ LastIndex(j) = snap[j].idx + Len(log[j])
          /\ log[j] \in Seq(LogEntry) /\ snap[j] \in Snapshot
      BY <1>1, <3>1, KeepToBound, TermType DEF IInv, NodeType, LogType
    <3>. HIDE DEF keep
    <3>3. SubSeq(log[j], 1, keep - snap[j].idx) \in Seq(LogEntry)
      <4>1. \A m \in 1..(keep - snap[j].idx) : log[j][m] \in LogEntry
        BY <3>2
      <4>2. keep - snap[j].idx \in Int
        BY <3>2
      <4>. QED
        BY <4>1, <4>2, SubSeqProperties
    <3>4. SubSeq(q.entries, keep - q.prev + 1, Len(q.entries)) \in Seq(LogEntry)
      <4>1. \A m \in (keep - q.prev + 1)..Len(q.entries) : q.entries[m] \in LogEntry
        BY <1>2, <3>2
      <4>2. keep - q.prev + 1 \in Int /\ Len(q.entries) \in Int
        BY <1>2, <3>2
      <4>. QED
        BY <4>1, <4>2, SubSeqProperties
    <3>5. l \in Seq(LogEntry)
      BY <3>3, <3>4, ConcatType
    <3>6. CommitUpTo(j, q) \in Nat /\ CommitUpTo(j, q) <= Len(decided)
      <4>. DEFINE x == commitIndex[j]
                  y == q.commit
                  z == q.prev + Len(q.entries)
      <4>1. /\ x \in Nat /\ x <= Len(decided) /\ Len(decided) \in Nat
            /\ y \in Nat /\ y <= Len(decided) /\ z \in Nat
        BY <1>1, <1>2 DEF IInv, NodeType, LogType, NodeBound, DecidedBy, Decided
      <4>2. CommitUpTo(j, q) = Max({x, Min({y, z})})
        BY DEF CommitUpTo
      <4>. HIDE DEF x, y, z
      <4>3. Min({y, z}) = IF y <= z THEN y ELSE z
        BY <4>1, MinPair
      <4>. DEFINE w == Min({y, z})
      <4>4. w \in Nat /\ w <= Len(decided)
        BY <4>1, <4>3
      <4>. HIDE DEF w
      <4>5. Max({x, w}) = IF x >= w THEN x ELSE w
        BY <4>1, <4>4, MaxPair
      <4>. QED
        BY <4>1, <4>2, <4>4, <4>5 DEF w
    <3>7. /\ log' = [log EXCEPT ![j] = l]
          /\ commitIndex' = [commitIndex EXCEPT ![j] = CommitUpTo(j, q)]
          /\ nextIndex' = [nextIndex EXCEPT ![j] =
                             Reconcile(j, nextIndex[j], snap[j], l, learners[j])]
      BY <2>2 DEF HandleAppend, keep
    <3>. HIDE DEF l
    <3>8. Reconcile(j, nextIndex[j], snap[j], l, learners[j]) \in [Server -> Nat]
      BY <3>2, <3>5, ReconcileType DEF IInv, NodeType, LogType
    <3>. QED
      BY <3>5, <3>6, <3>7, <3>8 DEF IInv, NodeType, LogType, NodeBound
  <2>. QED
    BY <2>1, <2>2
<1>6. LogType'
  BY <1>1, <1>5 DEF machine, IInv, NodeType, LogType
<1>7. NodeBound'
  BY <1>1, <1>5 DEF machine, IInv, NodeBound
<1>. QED
  BY <1>1, <1>3, <1>4, <1>6, <1>7 DEF NodeType

LEMMA HandleSnapshotTyped ==
    ASSUME IInv, NEW j \in Server, NEW q \in Request, DecidedBy(q),
           HandleSnapshot(j, q), UNCHANGED <<machine, matchIndex, change, env, history>>
    PROVE  NodeType' /\ NodeBound' /\ decided' = decided
<1>. DEFINE verdict == SnapshotVerdict(j, q)
            l == IF KeepsSuffix(j, q)
                 THEN SubSeq(log[j], q.snap.idx - snap[j].idx + 1, Len(log[j]))
                 ELSE << >>
            c == Max({commitIndex[j], q.snap.idx})
<1>1. /\ q.type = "snapshot" /\ decided' = decided
      /\ UNCHANGED <<durable, ballot, contact>> \/ HearLeader(j, q.term)
  BY DEF HandleSnapshot, history
<1>2. q.term \in Nat /\ q.snap \in Snapshot /\ q.snap.idx \in Nat
  BY <1>1, RequestFields DEF Snapshot
<1>3. VoteType'
  BY <1>1, <1>2, HearLeaderTyped DEF IInv
<1>4. RestType'
  BY DEF change, env, history, IInv, NodeType, RestType
<1>5. /\ log' \in [Server -> Seq(LogEntry)]
      /\ snap' \in [Server -> Snapshot]
      /\ commitIndex' \in [Server -> Nat]
      /\ nextIndex' \in [Server -> [Server -> Nat]]
      /\ \A k \in Server : commitIndex'[k] <= Len(decided) /\ snap'[k].idx <= Len(decided)
  <2>1. CASE verdict # "installed"
    BY <2>1 DEF HandleSnapshot, IInv, NodeType, LogType, NodeBound
  <2>2. CASE verdict = "installed"
    <3>1. /\ snap[j].idx \in Nat /\ lastApplied[j] \in Nat /\ log[j] \in Seq(LogEntry)
          /\ Len(log[j]) \in Nat
      BY TermType DEF IInv, NodeType, LogType
    <3>2. q.snap.idx > snap[j].idx
      <4>. DEFINE x == snap[j].idx
                  y == lastApplied[j]
      <4>1. x \in Nat /\ y \in Nat
        BY <3>1
      <4>2. ~(q.snap.idx <= Max({x, y}))
        BY <2>2 DEF SnapshotVerdict
      <4>. HIDE DEF x, y
      <4>3. Max({x, y}) = IF x >= y THEN x ELSE y
        BY <4>1, MaxPair
      <4>. QED
        BY <1>2, <4>1, <4>2, <4>3 DEF x
    <3>3. l \in Seq(LogEntry)
      <4>. DEFINE d == q.snap.idx - snap[j].idx + 1
      <4>1. d \in Int /\ d >= 1
        BY <1>2, <3>1, <3>2
      <4>2. \A m \in d..Len(log[j]) : log[j][m] \in LogEntry
        BY <3>1, <4>1
      <4>. HIDE DEF d
      <4>3. SubSeq(log[j], d, Len(log[j])) \in Seq(LogEntry)
        BY <3>1, <4>1, <4>2, SubSeqProperties
      <4>. QED
        BY <4>3 DEF d
    <3>4. c \in Nat /\ c <= Len(decided)
      <4>. DEFINE x == commitIndex[j]
                  y == q.snap.idx
      <4>1. /\ x \in Nat /\ x <= Len(decided) /\ Len(decided) \in Nat
            /\ y \in Nat /\ y <= Len(decided)
        BY <1>1, <1>2 DEF IInv, NodeType, LogType, NodeBound, DecidedBy, Decided
      <4>. HIDE DEF x, y
      <4>2. Max({x, y}) = IF x >= y THEN x ELSE y
        BY <4>1, MaxPair
      <4>. QED
        BY <4>1, <4>2 DEF x, y
    <3>5. /\ log' = [log EXCEPT ![j] = l]
          /\ snap' = [snap EXCEPT ![j] = q.snap]
          /\ commitIndex' = [commitIndex EXCEPT ![j] = c]
          /\ nextIndex' = [nextIndex EXCEPT ![j] =
                             Reconcile(j, nextIndex[j], q.snap, l, learners[j])]
      BY <2>2 DEF HandleSnapshot
    <3>. HIDE DEF l, c
    <3>6. Reconcile(j, nextIndex[j], q.snap, l, learners[j]) \in [Server -> Nat]
      BY <1>2, <3>3, ReconcileType DEF IInv, NodeType, LogType
    <3>7. q.snap.idx <= Len(decided)
      BY <1>1 DEF DecidedBy, Decided
    <3>. QED
      BY <1>2, <3>3, <3>4, <3>5, <3>6, <3>7 DEF IInv, NodeType, LogType, NodeBound
  <2>. QED
    BY <2>1, <2>2
<1>6. LogType'
  BY <1>1, <1>5 DEF machine, IInv, NodeType, LogType
<1>7. NodeBound'
  BY <1>1, <1>5 DEF machine, IInv, NodeBound
<1>. QED
  BY <1>1, <1>3, <1>4, <1>6, <1>7 DEF NodeType

\* Delivery.
LEMMA HandleTyped ==
    ASSUME IInv, NEW i \in Server, NEW j \in Server, NEW q \in Request, DecidedBy(q),
           Handle(i, j, q)
    PROVE  NodeType' /\ NodeBound' /\ decided' = decided
<1>1. UNCHANGED <<machine, matchIndex, change, env, history>>
  BY DEF Handle
<1>2. CASE HandlePreVote(j, q)
  <2>1. VoteType'
    BY <1>2, VoteTypeKept DEF HandlePreVote, IInv
  <2>. QED
    BY <1>1, <1>2, <2>1, QuietType DEF HandlePreVote, IInv, progress, history
<1>. QED
  BY <1>1, <1>2, HandleVoteTyped, HandleAppendTyped, HandleSnapshotTyped DEF Handle

LEMMA DeliverTyped ==
    ASSUME IInv, NEW i \in Server, NEW j \in Server, Deliver(i, j)
    PROVE  IInv'
<1>. DEFINE q == call[i][j]
            r == ReplyTo(i, j, q)
<1>1. q \in Request /\ DecidedBy(q)
  BY DEF Deliver, IInv, NetType, NetBound
<1>2. /\ Handle(i, j, q) /\ call' = call /\ stale' = stale
      /\ reply' = [reply EXCEPT ![i][j] = r]
  BY DEF Deliver
<1>. HIDE DEF q
<1>3. NodeType' /\ NodeBound' /\ decided' = decided
  BY <1>1, <1>2, HandleTyped
<1>4. r \in Reply
  BY <1>1, ReplyToType DEF IInv
<1>. HIDE DEF r
<1>5. NetType' /\ NetBound'
  <2>1. reply' \in [Server -> [Server -> Reply \cup {Nil}]]
    BY <1>2, <1>4 DEF IInv, NetType
  <2>2. /\ decided \in Seq([entry: LogEntry, at: Nat])
        /\ decided' \in Seq([entry: LogEntry, at: Nat])
        /\ Len(decided') >= Len(decided)
    BY <1>3 DEF IInv, NodeType, LogType
  <2>. QED
    BY <1>2, <2>1, <2>2, NetShrinks DEF IInv, NetType
<1>. QED
  BY <1>3, <1>5 DEF IInv

LEMMA DeliverStaleTyped ==
    ASSUME IInv, DeliverStale
    PROVE  IInv'
<1>1. PICK m \in stale : /\ Handle(m.from, m.to, m.req)
                         /\ stale' = stale \ {m} /\ call' = call /\ reply' = reply
  BY DEF DeliverStale
<1>2. m.from \in Server /\ m.to \in Server /\ m.req \in Request /\ DecidedBy(m.req)
  BY DEF IInv, NetType, NetBound
<1>3. NodeType' /\ NodeBound' /\ decided' = decided
  BY <1>1, <1>2, HandleTyped
<1>4. /\ decided \in Seq([entry: LogEntry, at: Nat])
      /\ decided' \in Seq([entry: LogEntry, at: Nat])
      /\ Len(decided') >= Len(decided)
  BY <1>3 DEF IInv, NodeType, LogType
<1>5. NetType' /\ NetBound'
  BY <1>1, <1>4, NetShrinks DEF IInv, NetType
<1>. QED
  BY <1>3, <1>5 DEF IInv

-----------------------------------------------------------------------------
\* The invariant holds at the start and every step keeps it.
LEMMA InitTyped == Init => IInv
<1>. SUFFICES ASSUME Init PROVE IInv
  OBVIOUS
<1>1. VoteType
  BY DEF Init, VoteType, Meta
<1>2. LogType
  <2>1. InitConfig \in Membership /\ {} \in Membership
    BY MembersAssumption DEF InitConfig, Membership
  <2>2. \A i \in Server : [idx |-> 0, term |-> 0,
                           cfg |-> IF i \in InitMembers THEN InitConfig ELSE {}] \in Snapshot
    BY <2>1 DEF Snapshot
  <2>. QED
    BY <2>2 DEF Init, LogType
<1>3. RestType
  BY DEF Init, RestType
<1>4. NetType /\ NetBound
  BY DEF Init, NetType, NetBound
<1>5. NodeBound
  BY DEF Init, NodeBound
<1>. QED
  BY <1>1, <1>2, <1>3, <1>4, <1>5 DEF IInv, NodeType

LEMMA StutterTyped == IInv /\ UNCHANGED vars => IInv'
<1>. SUFFICES ASSUME IInv, UNCHANGED vars PROVE IInv'
  OBVIOUS
<1>1. UNCHANGED <<durable, ballot, contact, log, snap, commitIndex, machine, progress,
                  change, net, env, history>>
  BY DEF vars
<1>. QED
  BY <1>1, VoteTypeKept, QuietType, NetKept DEF IInv, NodeType, LogType

LEMMA NextTyped == IInv /\ [Next]_vars => IInv'
<1>. SUFFICES ASSUME IInv, Next PROVE IInv'
  BY StutterTyped
<1>1. ASSUME NEW i \in Server, Step(i) PROVE IInv'
  BY <1>1, TimeoutTyped, ContactExpiresTyped, CheckQuorumFailsTyped, SubmitTyped,
     SubmitFailsTyped, ApplyTyped, FinishSnapshotTyped, RestartTyped, DiskTyped,
     AddServerFinishTyped, AddServerAbandonTyped DEF Step
<1>2. ASSUME NEW i \in Server, NEW j \in Server, PairStep(i, j) PROVE IInv'
  BY <1>2, SendPreVoteTyped, SendVoteTyped, SendAppendTyped, SendSnapshotTyped,
     DeliverTyped, AbandonCallTyped, ReceiveHigherTermTyped, ReceivePreVoteTyped,
     ReceiveVoteTyped, ReceiveAppendOkTyped, ReceiveAppendConflictTyped,
     ReceiveSnapshotOkTyped, AddServerBeginTyped, AddServerAtOnceTyped,
     RemoveServerTyped, RemoveLearnerTyped
     DEF PairStep
<1>. QED
  BY <1>1, <1>2, DeliverStaleTyped DEF Next

\* Every variable of every node keeps its type in every reachable state, for all
\* values of the constants: no handler of RaftNode reads a log, or a request,
\* outside of what it holds.
THEOREM TypeCorrect == Spec => []TypeOK
<1>1. IInv => TypeOK
  BY Split
<1>. QED
  BY <1>1, InitTyped, NextTyped, PTL DEF Spec

\* No commit index, applied index or snapshot runs ahead of what some leader has
\* committed, on no node and in no request that is on its way, late or not.
THEOREM CommitBounded == Spec => []CommitBound
<1>1. IInv => CommitBound
  BY Split
<1>. QED
  BY <1>1, InitTyped, NextTyped, PTL DEF Spec

-----------------------------------------------------------------------------
\* raft_meta, and elections.

\* What raft_meta and memory know of each other.
Persisted(i) ==
    /\ disk[i].term <= currentTerm[i]
    /\ disk[i].term = currentTerm[i] => disk[i].vote = votedFor[i]
    /\ disk[i].term < currentTerm[i] => votedFor[i] = Nil

\* The inductive invariant of VoteIsFinal, and what it says of a step.
MetaInv == IInv /\ \A i \in Server : Persisted(i)

MetaGrows ==
    \A i \in Server :
      \/ disk'[i].term > disk[i].term
      \/ disk'[i].term = disk[i].term /\ disk[i].vote \in {Nil, disk'[i].vote}

\* The types the lemmas below need.
MetaFields ==
    \A i \in Server : /\ disk[i].term \in Nat /\ disk[i].vote \in Server \cup {Nil}
                      /\ currentTerm[i] \in Nat /\ votedFor[i] \in Server \cup {Nil}

LEMMA MetaTyped == IInv => MetaFields
<1>1. ASSUME NEW m \in Meta
      PROVE  m.term \in Nat /\ m.vote \in Server \cup {Nil}
  BY DEF Meta
<1>. QED
  BY <1>1 DEF MetaFields, IInv, NodeType, VoteType

\* The steps that touch term, vote and raft_meta.
LEMMA DurableSteps ==
    ASSUME IInv, Next
    PROVE  \/ UNCHANGED durable
           \/ \E i \in Server : StartElection(i)
           \/ \E i \in Server, t \in Nat : StepDown(i, t)
           \/ \E i, j \in Server, q \in Request : HandleVote(i, j, q)
           \/ \E i \in Server : Restart(i)
<1>1. ASSUME NEW i \in Server, NEW j \in Server, NEW q \in Request, Handle(i, j, q)
      PROVE  \/ UNCHANGED durable
             \/ \E k \in Server, t \in Nat : StepDown(k, t)
             \/ HandleVote(i, j, q)
  BY <1>1, RequestFields
     DEF Handle, HandlePreVote, HandleAppend, HandleSnapshot, HearLeader
<1>2. CASE \E i \in Server : Step(i)
  <2>1. PICK i \in Server : Step(i)
    BY <1>2
  <2>2. currentTerm[i] \in Nat
    BY DEF IInv, NodeType, VoteType
  <2>. QED
    BY <2>1, <2>2 DEF Step, Timeout, ContactExpires, CheckQuorumFails, Submit, SubmitFails,
       Apply, FinishSnapshot, DiskFills, DiskDrains, AddServerFinish, AddServerAbandon
<1>3. CASE \E i, j \in Server : PairStep(i, j)
  <2>1. PICK i \in Server, j \in Server : PairStep(i, j)
    BY <1>3
  <2>2. CASE Deliver(i, j)
    <3>1. call[i][j] \in Request
      BY <2>2 DEF Deliver, IInv, NetType
    <3>. QED
      BY <1>1, <2>2, <3>1 DEF Deliver
  <2>3. CASE ReceiveHigherTerm(i, j)
    <3>1. reply[i][j].term \in Nat
      BY <2>3 DEF ReceiveHigherTerm, IInv, NetType, Reply
    <3>. QED
      BY <2>3, <3>1 DEF ReceiveHigherTerm
  <2>4. CASE ReceivePreVote(i, j)
    BY <2>4 DEF ReceivePreVote
  <2>5. CASE ~(Deliver(i, j) \/ ReceiveHigherTerm(i, j) \/ ReceivePreVote(i, j))
    BY <2>1, <2>5 DEF PairStep, SendPreVote, SendVote, SendAppend, SendSnapshot, Send,
       AbandonCall, ReceiveVote, ReceiveAppendOk, ReceiveAppendConflict, ReceiveSnapshotOk,
       AddServerBegin, AddServerAtOnce, RemoveServer, RemoveLearner
  <2>. QED
    BY <2>2, <2>3, <2>4, <2>5
<1>4. CASE DeliverStale
  <2>1. PICK m \in stale : Handle(m.from, m.to, m.req)
    BY <1>4 DEF DeliverStale
  <2>2. m.from \in Server /\ m.to \in Server /\ m.req \in Request
    BY DEF IInv, NetType
  <2>. QED
    BY <1>1, <2>1, <2>2
<1>. QED
  BY <1>2, <1>3, <1>4 DEF Next

\* One node adopts term t and vote v, on disk too or only in memory.
LEMMA OneMeta ==
    ASSUME MetaInv, NEW j \in Server, NEW t \in Nat, NEW v \in Server \cup {Nil},
           currentTerm' = [currentTerm EXCEPT ![j] = t],
           votedFor' = [votedFor EXCEPT ![j] = v],
           t >= currentTerm[j],
           \/ /\ disk' = disk
              /\ \/ t = currentTerm[j] /\ v = votedFor[j]
                 \/ t > currentTerm[j] /\ v = Nil
           \/ /\ disk' = [disk EXCEPT ![j] = [term |-> t, vote |-> v]]
              /\ t > currentTerm[j] \/ votedFor[j] \in {Nil, v}
    PROVE  (\A k \in Server : Persisted(k)') /\ MetaGrows
<1>1. MetaFields /\ \A k \in Server : Persisted(k)
  BY MetaTyped DEF MetaInv
<1>2. ASSUME NEW k \in Server
      PROVE  /\ Persisted(k)'
             /\ \/ disk'[k].term > disk[k].term
                \/ disk'[k].term = disk[k].term /\ disk[k].vote \in {Nil, disk'[k].vote}
  <2>1. /\ currentTerm'[k] = IF k = j THEN t ELSE currentTerm[k]
        /\ votedFor'[k] = IF k = j THEN v ELSE votedFor[k]
    BY DEF MetaInv, IInv, NodeType, VoteType
  <2>2. CASE /\ disk' = disk
             /\ \/ t = currentTerm[j] /\ v = votedFor[j]
                \/ t > currentTerm[j] /\ v = Nil
    <3>1. /\ disk[k].term \in Nat /\ currentTerm[k] \in Nat
          /\ disk[k].term <= currentTerm[k]
          /\ disk[k].term = currentTerm[k] => disk[k].vote = votedFor[k]
          /\ disk[k].term < currentTerm[k] => votedFor[k] = Nil
      BY <1>1 DEF Persisted, MetaFields
    <3>2. \/ currentTerm'[k] = currentTerm[k] /\ votedFor'[k] = votedFor[k]
          \/ currentTerm'[k] > currentTerm[k] /\ votedFor'[k] = Nil
      BY <2>1, <2>2
    <3>3. currentTerm'[k] \in Nat
      BY <2>1, <3>1
    <3>4. Persisted(k)'
      BY <2>2, <3>1, <3>2, <3>3 DEF Persisted
    <3>. QED
      BY <2>2, <3>4
  <2>3. CASE /\ disk' = [disk EXCEPT ![j] = [term |-> t, vote |-> v]]
             /\ t > currentTerm[j] \/ votedFor[j] \in {Nil, v}
    <3>1. disk'[k] = IF k = j THEN [term |-> t, vote |-> v] ELSE disk[k]
      BY <2>3 DEF MetaInv, IInv, NodeType, VoteType
    <3>. QED
      BY <1>1, <2>1, <3>1 DEF Persisted, MetaFields
  <2>. QED
    BY <2>2, <2>3
<1>. QED
  BY <1>2 DEF MetaGrows

\* Every step keeps Persisted and never takes raft_meta back.
LEMMA DurableStep ==
    ASSUME MetaInv, [Next]_vars
    PROVE  (\A k \in Server : Persisted(k)') /\ MetaGrows
<1>1. MetaFields /\ \A k \in Server : Persisted(k)
  BY MetaTyped DEF MetaInv
<1>2. ASSUME UNCHANGED durable
      PROVE  (\A k \in Server : Persisted(k)') /\ MetaGrows
  BY <1>1, <1>2 DEF durable, Persisted, MetaGrows, MetaFields
<1>3. ASSUME NEW i \in Server, StartElection(i)
      PROVE  (\A k \in Server : Persisted(k)') /\ MetaGrows
  <2>. DEFINE t == currentTerm[i] + 1
  <2>1. /\ currentTerm' = [currentTerm EXCEPT ![i] = t]
        /\ votedFor' = [votedFor EXCEPT ![i] = i]
        /\ disk' = [disk EXCEPT ![i] = [term |-> t, vote |-> i]]
    BY <1>3 DEF StartElection
  <2>2. t \in Nat /\ t > currentTerm[i]
    BY <1>1 DEF MetaFields
  <2>3. t >= currentTerm[i]
    BY <1>1 DEF MetaFields
  <2>. HIDE DEF t
  <2>. QED
    BY <2>1, <2>2, <2>3, OneMeta
<1>4. ASSUME NEW i \in Server, NEW t \in Nat, StepDown(i, t)
      PROVE  (\A k \in Server : Persisted(k)') /\ MetaGrows
  <2>1. CASE t > currentTerm[i]
    <3>1. /\ currentTerm' = [currentTerm EXCEPT ![i] = t]
          /\ votedFor' = [votedFor EXCEPT ![i] = Nil]
          /\ \/ disk' = disk
             \/ disk' = [disk EXCEPT ![i] = [term |-> t, vote |-> Nil]]
      BY <1>4, <2>1 DEF StepDown
    <3>2. t >= currentTerm[i]
      BY <1>1, <2>1 DEF MetaFields
    <3>. QED
      BY <2>1, <3>1, <3>2, OneMeta
  <2>2. CASE ~(t > currentTerm[i])
    BY <1>2, <1>4, <2>2 DEF StepDown
  <2>. QED
    BY <2>1, <2>2
<1>5. ASSUME NEW i \in Server, NEW j \in Server, NEW q \in Request, HandleVote(i, j, q)
      PROVE  (\A k \in Server : Persisted(k)') /\ MetaGrows
  <2>. DEFINE vote == IF Grants(i, j, q) THEN i ELSE VoteIn(j, q.term)
              new  == q.term > currentTerm[j]
  <2>1. CASE IgnoresVote(j, q)
    BY <1>2, <1>5, <2>1 DEF HandleVote
  <2>2. CASE ~IgnoresVote(j, q)
    <3>1. /\ currentTerm' = [currentTerm EXCEPT ![j] = q.term]
          /\ votedFor' = [votedFor EXCEPT ![j] = vote]
          /\ disk' = IF ~diskFull[j] /\ (new \/ vote # votedFor[j])
                     THEN [disk EXCEPT ![j] = [term |-> q.term, vote |-> vote]]
                     ELSE disk
      BY <1>5, <2>2 DEF HandleVote
    <3>2. q.term \in Nat /\ currentTerm[j] \in Nat /\ ~(q.term < currentTerm[j])
      BY <1>1, <2>2, RequestFields DEF IgnoresVote, MetaFields
    <3>3. q.term >= currentTerm[j] /\ (new \/ q.term = currentTerm[j])
      BY <3>2
    <3>4. VoteIn(j, q.term) = IF new THEN Nil ELSE votedFor[j]
      BY DEF VoteIn
    <3>5. /\ diskFull[j] => vote = VoteIn(j, q.term)
          /\ vote = VoteIn(j, q.term) \/ VoteIn(j, q.term) = Nil
          /\ vote \in Server \cup {Nil}
      BY <1>1, <3>4 DEF Grants, MetaFields
    <3>. HIDE DEF vote, new
    <3>6. CASE ~diskFull[j] /\ (new \/ vote # votedFor[j])
      <4>1. new \/ votedFor[j] \in {Nil, vote}
        BY <3>4, <3>5
      <4>. QED
        BY <3>1, <3>2, <3>3, <3>5, <3>6, <4>1, OneMeta DEF new
    <3>7. CASE ~(~diskFull[j] /\ (new \/ vote # votedFor[j]))
      <4>1. \/ q.term = currentTerm[j] /\ vote = votedFor[j]
            \/ new /\ vote = Nil
        BY <3>3, <3>4, <3>5, <3>7
      <4>. QED
        BY <3>1, <3>2, <3>3, <3>5, <3>7, <4>1, OneMeta DEF new
    <3>. QED
      BY <3>6, <3>7
  <2>. QED
    BY <2>1, <2>2
<1>6. ASSUME NEW i \in Server, Restart(i)
      PROVE  (\A k \in Server : Persisted(k)') /\ MetaGrows
  BY <1>1, <1>6 DEF Restart, Persisted, MetaGrows, MetaFields, MetaInv, IInv, NodeType, VoteType
<1>7. CASE UNCHANGED vars
  BY <1>2, <1>7 DEF vars
<1>. QED
  BY <1>2, <1>3, <1>4, <1>5, <1>6, <1>7, DurableSteps DEF MetaInv

\* It holds at the start.
LEMMA MetaInit == Init => MetaInv
  BY InitTyped DEF MetaInv, Init, Persisted

\* The term and the vote in raft_meta are never taken back, through votes,
\* elections, higher terms, full disks and restarts.
THEOREM VoteFinal == Spec => VoteIsFinal
<1>1. MetaInv /\ [Next]_vars => MetaInv'
  BY NextTyped, DurableStep DEF MetaInv
<1>2. MetaInv /\ [Next]_vars => [MetaGrows]_disk
  BY DurableStep
<1>. QED
  BY <1>1, <1>2, MetaInit, PTL DEF Spec, VoteIsFinal, MetaGrows


-----------------------------------------------------------------------------
\* A fixed configuration: no membership change is attempted.

NoConfig(l) == \A k \in 1..Len(l) : l[k].op # "CONFIG"

StaticRequest(q) ==
    /\ q.type = "append" => NoConfig(q.entries)
    /\ q.type = "snapshot" => q.snap.cfg \in {InitConfig, {}}

StaticNode ==
    \A i \in Server : adds[i] = {} /\ NoConfig(log[i]) /\ snap[i].cfg \in {InitConfig, {}}

StaticNet ==
    /\ \A i, j \in Server : call[i][j] # Nil => StaticRequest(call[i][j])
    /\ \A m \in stale : StaticRequest(m.req)

StaticInv == StaticNode /\ StaticNet

\* The configuration in force, and its quorums.
LEMMA StaticConfigOf ==
    ASSUME NEW s, NEW l \in Seq(LogEntry), NoConfig(l)
    PROVE  ConfigOf(s, l) = s.cfg
  BY DEF ConfigOf, ConfigsIn, NoConfig

LEMMA StaticQuorum ==
    ASSUME IInv, StaticNode, NEW i \in Server, NEW S, Quorum(Config(i), S)
    PROVE  Quorum(InitConfig, S)
<1>1. log[i] \in Seq(LogEntry)
  BY DEF IInv, NodeType, LogType
<1>2. Config(i) \in {InitConfig, {}}
  BY <1>1, StaticConfigOf DEF Config, StaticNode
<1>3. Config(i) # {}
  <2>1. ~Quorum({}, S)
    <3>1. {m \in {} : m[1] \in S} = {}
      OBVIOUS
    <3>2. Cardinality({}) = 0
      BY FS_EmptySet
    <3>. QED
      BY <3>1, <3>2 DEF Quorum
  <2>. QED
    BY <2>1
<1>. QED
  BY <1>2, <1>3

LEMMA QuorumsIntersect ==
    ASSUME NEW S, NEW T, Quorum(InitConfig, S), Quorum(InitConfig, T)
    PROVE  \E v \in S : v \in T
<1>. DEFINE A == {m \in InitConfig : m[1] \in S}
            B == {m \in InitConfig : m[1] \in T}
<1>1. IsFiniteSet(InitConfig)
  <2>1. IsFiniteSet(InitMembers)
    BY MembersAssumption, FS_Subset
  <2>2. IsFiniteSet({0})
    BY FS_Singleton
  <2>. QED
    BY <2>1, <2>2, FS_Product DEF InitConfig
<1>2. A \subseteq InitConfig /\ B \subseteq InitConfig
  OBVIOUS
<1>3. /\ Cardinality(InitConfig) \in Nat
      /\ Cardinality(A) \in Nat /\ Cardinality(B) \in Nat
  BY <1>1, <1>2, FS_Subset, FS_CardinalityType
<1>4. 2 * Cardinality(A) > Cardinality(InitConfig) /\ 2 * Cardinality(B) > Cardinality(InitConfig)
  BY DEF Quorum
<1>5. Cardinality(A) + Cardinality(B) > Cardinality(InitConfig)
  BY <1>3, <1>4
<1>6. A \cap B # {}
  <2>. HIDE DEF A, B
  <2>. QED
    BY <1>1, <1>2, <1>5, FS_MajoritiesIntersect
<1>. QED
  BY <1>6

\* Log and snapshot of the nodes after a step.
LEMMA StaticLogs ==
    ASSUME IInv, StaticNode, \A i \in Server : adds'[i] = {},
           \/ UNCHANGED <<log, snap>>
           \/ \E i \in Server, t \in Nat, op \in {"NOOP", "CMD"} :
                /\ log' = [log EXCEPT ![i] = Append(log[i], Entry(t, op, {}))]
                /\ snap' = snap
    PROVE  StaticNode'
<1>1. CASE UNCHANGED <<log, snap>>
  BY <1>1 DEF StaticNode, NoConfig
<1>2. ASSUME NEW i \in Server, NEW t \in Nat, NEW op \in {"NOOP", "CMD"},
             log' = [log EXCEPT ![i] = Append(log[i], Entry(t, op, {}))], snap' = snap
      PROVE  StaticNode'
  <2>. DEFINE e == Entry(t, op, {})
              l == Append(log[i], e)
  <2>1. e.op # "CONFIG"
    <3>1. op # "CONFIG"
      OBVIOUS
    <3>. QED
      BY <3>1 DEF Entry
  <2>2. log[i] \in Seq(LogEntry) /\ e \in LogEntry
    BY EntryIsTyped DEF Op, Membership, IInv, NodeType, LogType
  <2>. HIDE DEF e
  <2>3. NoConfig(l)
    <3>1. /\ Len(l) = Len(log[i]) + 1
          /\ \A k \in 1..Len(log[i]) : l[k] = log[i][k]
          /\ l[Len(log[i]) + 1] = e
      BY <2>2, AppendProperties
    <3>2. NoConfig(log[i]) /\ Len(log[i]) \in Nat
      BY <2>2 DEF StaticNode
    <3>. HIDE DEF l
    <3>3. ASSUME NEW k \in 1..Len(l) PROVE l[k].op # "CONFIG"
      <4>1. CASE k = Len(log[i]) + 1
        <5>1. l[k] = e
          BY <3>1, <3>2, <4>1
        <5>. QED
          BY <2>1, <5>1
      <4>2. CASE k \in 1..Len(log[i])
        BY <3>1, <3>2, <4>2 DEF NoConfig
      <4>. QED
        BY <3>1, <3>2, <4>1, <4>2
    <3>. QED
      BY <3>3 DEF NoConfig
  <2>4. log' = [log EXCEPT ![i] = l]
    BY <1>2 DEF e
  <2>. HIDE DEF l
  <2>. QED
    BY <1>2, <2>3, <2>4 DEF StaticNode, IInv, NodeType, LogType
<1>. QED
  BY <1>1, <1>2

\* Parts of logs without CONFIG entries, and their concatenation.
LEMMA NoConfigSub ==
    ASSUME NEW l \in Seq(LogEntry), NoConfig(l), NEW a \in Int, NEW b \in Int,
           a >= 1, b <= Len(l)
    PROVE  NoConfig(SubSeq(l, a, b)) /\ SubSeq(l, a, b) \in Seq(LogEntry)
<1>1. \A k \in a..b : k \in 1..Len(l) /\ l[k] \in LogEntry
  OBVIOUS
<1>2. /\ SubSeq(l, a, b) \in Seq(LogEntry)
      /\ Len(SubSeq(l, a, b)) = IF a <= b THEN b - a + 1 ELSE 0
      /\ \A k \in 1..(b - a + 1) : SubSeq(l, a, b)[k] = l[a + k - 1]
  BY <1>1, SubSeqProperties
<1>3. ASSUME NEW k \in 1..Len(SubSeq(l, a, b))
      PROVE  SubSeq(l, a, b)[k].op # "CONFIG"
  <2>1. k \in 1..(b - a + 1) /\ a + k - 1 \in 1..Len(l)
    BY <1>2
  <2>. QED
    BY <1>2, <2>1 DEF NoConfig
<1>. QED
  BY <1>2, <1>3 DEF NoConfig

LEMMA NoConfigConcat ==
    ASSUME NEW s \in Seq(LogEntry), NEW t \in Seq(LogEntry), NoConfig(s), NoConfig(t)
    PROVE  NoConfig(s \o t)
<1>1. /\ Len(s \o t) = Len(s) + Len(t)
      /\ \A k \in 1..(Len(s) + Len(t)) :
            (s \o t)[k] = IF k <= Len(s) THEN s[k] ELSE t[k - Len(s)]
  BY ConcatProperties
<1>2. ASSUME NEW k \in 1..Len(s \o t) PROVE (s \o t)[k].op # "CONFIG"
  <2>1. Len(s) \in Nat /\ Len(t) \in Nat
    OBVIOUS
  <2>2. CASE k <= Len(s)
    BY <1>1, <2>1, <2>2 DEF NoConfig
  <2>3. CASE ~(k <= Len(s))
    <3>1. k - Len(s) \in 1..Len(t)
      BY <1>1, <2>1, <2>3
    <3>. QED
      BY <1>1, <2>1, <2>3, <3>1 DEF NoConfig
  <2>. QED
    BY <2>2, <2>3
<1>. QED
  BY <1>2 DEF NoConfig

\* The handlers and compaction keep StaticNode.
LEMMA StaticAppend ==
    ASSUME IInv, StaticNode, NEW j \in Server, NEW q \in Request, StaticRequest(q),
           HandleAppend(j, q), adds' = adds
    PROVE  StaticNode'
<1>. DEFINE keep == KeepTo(j, q)
            l    == SubSeq(log[j], 1, keep - snap[j].idx)
                      \o SubSeq(q.entries, keep - q.prev + 1, Len(q.entries))
<1>1. q.type = "append" /\ snap' = snap
  BY DEF HandleAppend
<1>2. CASE AppendVerdict(j, q) # "accepted"
  BY <1>1, <1>2 DEF HandleAppend, StaticNode, NoConfig
<1>3. CASE AppendVerdict(j, q) = "accepted"
  <2>1. /\ q.prev \in Nat /\ q.entries \in Seq(LogEntry) /\ NoConfig(q.entries)
        /\ log[j] \in Seq(LogEntry) /\ NoConfig(log[j])
        /\ snap[j].idx \in Nat /\ Len(log[j]) \in Nat /\ Len(q.entries) \in Nat
        /\ LastIndex(j) \in Nat /\ LastIndex(j) = snap[j].idx + Len(log[j])
    BY <1>1, RequestFields, TermType DEF StaticRequest, StaticNode, IInv, NodeType, LogType
  <2>2. q.prev <= LastIndex(j)
    <3>1. ~(q.prev > LastIndex(j))
      BY <1>3 DEF AppendVerdict
    <3>. QED
      BY <2>1, <3>1
  <2>3. keep \in Nat /\ q.prev <= keep /\ snap[j].idx <= keep /\ keep <= LastIndex(j)
    BY <1>1, <2>2, KeepToBound DEF IInv, NodeType
  <2>4. log' = [log EXCEPT ![j] = l]
    BY <1>3 DEF HandleAppend
  <2>. HIDE DEF keep
  <2>5. NoConfig(l)
    <3>1. keep - snap[j].idx \in Int /\ keep - snap[j].idx <= Len(log[j])
      BY <2>1, <2>3
    <3>2. keep - q.prev + 1 \in Int /\ keep - q.prev + 1 >= 1
      BY <2>1, <2>3
    <3>3. /\ NoConfig(SubSeq(log[j], 1, keep - snap[j].idx))
          /\ SubSeq(log[j], 1, keep - snap[j].idx) \in Seq(LogEntry)
      BY <2>1, <3>1, NoConfigSub
    <3>4. /\ NoConfig(SubSeq(q.entries, keep - q.prev + 1, Len(q.entries)))
          /\ SubSeq(q.entries, keep - q.prev + 1, Len(q.entries)) \in Seq(LogEntry)
      BY <2>1, <3>2, NoConfigSub
    <3>. QED
      BY <3>3, <3>4, NoConfigConcat
  <2>. HIDE DEF l
  <2>. QED
    BY <1>1, <2>4, <2>5 DEF StaticNode, IInv, NodeType, LogType
<1>. QED
  BY <1>2, <1>3

LEMMA StaticInstall ==
    ASSUME IInv, StaticNode, NEW j \in Server, NEW q \in Request, StaticRequest(q),
           HandleSnapshot(j, q), adds' = adds
    PROVE  StaticNode'
<1>. DEFINE l == IF KeepsSuffix(j, q)
                 THEN SubSeq(log[j], q.snap.idx - snap[j].idx + 1, Len(log[j]))
                 ELSE << >>
<1>1. q.type = "snapshot"
  BY DEF HandleSnapshot
<1>2. CASE SnapshotVerdict(j, q) # "installed"
  BY <1>2 DEF HandleSnapshot, StaticNode, NoConfig
<1>3. CASE SnapshotVerdict(j, q) = "installed"
  <2>1. /\ log[j] \in Seq(LogEntry) /\ NoConfig(log[j]) /\ q.snap.cfg \in {InitConfig, {}}
        /\ snap[j].idx \in Nat /\ lastApplied[j] \in Nat /\ q.snap.idx \in Nat
        /\ Len(log[j]) \in Nat
    BY <1>1, RequestFields, TermType
       DEF StaticRequest, StaticNode, IInv, NodeType, LogType, Snapshot
  <2>2. q.snap.idx > snap[j].idx
    <3>. DEFINE x == snap[j].idx
                y == lastApplied[j]
    <3>1. ~(q.snap.idx <= Max({x, y}))
      BY <1>3 DEF SnapshotVerdict
    <3>2. x \in Nat /\ y \in Nat
      BY <2>1
    <3>. HIDE DEF x, y
    <3>3. Max({x, y}) = IF x >= y THEN x ELSE y
      BY <3>2, MaxPair
    <3>. QED
      BY <2>1, <3>1, <3>2, <3>3 DEF x
  <2>3. NoConfig(l)
    <3>. DEFINE d == q.snap.idx - snap[j].idx + 1
    <3>1. CASE KeepsSuffix(j, q)
      <4>1. d \in Int /\ d >= 1
        BY <2>1, <2>2
      <4>2. l = SubSeq(log[j], d, Len(log[j]))
        BY <3>1
      <4>. HIDE DEF d, l
      <4>. QED
        BY <2>1, <4>1, <4>2, NoConfigSub
    <3>2. CASE ~KeepsSuffix(j, q)
      <4>1. l = << >>
        BY <3>2
      <4>. HIDE DEF l
      <4>. QED
        BY <4>1 DEF NoConfig
    <3>. QED
      BY <3>1, <3>2
  <2>4. log' = [log EXCEPT ![j] = l] /\ snap' = [snap EXCEPT ![j] = q.snap]
    BY <1>3 DEF HandleSnapshot
  <2>. HIDE DEF l
  <2>. QED
    BY <2>1, <2>3, <2>4 DEF StaticNode, IInv, NodeType, LogType
<1>. QED
  BY <1>2, <1>3

LEMMA StaticHandle ==
    ASSUME IInv, StaticNode, NEW i \in Server, NEW j \in Server, NEW q \in Request,
           StaticRequest(q), Handle(i, j, q)
    PROVE  StaticNode'
<1>1. adds' = adds
  BY DEF Handle, change
<1>2. CASE HandlePreVote(j, q) \/ HandleVote(i, j, q)
  BY <1>1, <1>2 DEF HandlePreVote, HandleVote, StaticNode, NoConfig
<1>. QED
  BY <1>1, <1>2, StaticAppend, StaticInstall DEF Handle

LEMMA StaticFinish ==
    ASSUME IInv, StaticNode, NEW i \in Server, FinishSnapshot(i)
    PROVE  StaticNode'
<1>. DEFINE n == snapping[i]
            k == n - snap[i].idx
            l == SubSeq(log[i], k + 1, Len(log[i]))
<1>1. adds' = adds
  BY DEF FinishSnapshot, change
<1>2. CASE diskFull[i] \/ n <= snap[i].idx \/ n > LastIndex(i)
  BY <1>1, <1>2 DEF FinishSnapshot, StaticNode, NoConfig
<1>3. CASE ~(diskFull[i] \/ n <= snap[i].idx \/ n > LastIndex(i))
  <2>1. /\ log[i] \in Seq(LogEntry) /\ NoConfig(log[i]) /\ Len(log[i]) \in Nat
        /\ snap[i].idx \in Nat /\ n \in Nat /\ LastIndex(i) = snap[i].idx + Len(log[i])
        /\ snap[i].cfg \in {InitConfig, {}}
    BY TermType DEF StaticNode, IInv, NodeType, LogType
  <2>2. k \in 1..Len(log[i])
    BY <1>3, <2>1
  <2>3. /\ log' = [log EXCEPT ![i] = l]
        /\ snap' = [snap EXCEPT ![i] = SnapshotOf(i, n)]
    BY <1>3 DEF FinishSnapshot
  <2>4. SnapshotOf(i, n).cfg = ConfigOf(snap[i], SubSeq(log[i], 1, k))
    BY DEF SnapshotOf
  <2>. HIDE DEF k
  <2>5. /\ NoConfig(SubSeq(log[i], 1, k)) /\ SubSeq(log[i], 1, k) \in Seq(LogEntry)
        /\ NoConfig(l)
    BY <2>1, <2>2, NoConfigSub
  <2>6. SnapshotOf(i, n).cfg = snap[i].cfg
    BY <2>4, <2>5, StaticConfigOf
  <2>. HIDE DEF l, n
  <2>. QED
    BY <1>1, <2>1, <2>3, <2>5, <2>6 DEF StaticNode, IInv, NodeType, LogType
<1>. QED
  BY <1>2, <1>3

\* Which steps touch logs and snapshots.
LEMMA StaticElect ==
    ASSUME NEW i \in Server, NEW t \in Nat, BecomeLeader(i, t)
    PROVE  log' \in {log, [log EXCEPT ![i] = Append(log[i], Entry(t, "NOOP", {}))]}
  BY DEF BecomeLeader

LEMMA StaticStart ==
    ASSUME IInv, NEW i \in Server, StartElection(i)
    PROVE  \/ log' = log
           \/ \E t \in Nat : log' = [log EXCEPT ![i] = Append(log[i], Entry(t, "NOOP", {}))]
<1>1. currentTerm[i] + 1 \in Nat
  BY DEF IInv, NodeType, VoteType
<1>. QED
  BY <1>1, StaticElect DEF StartElection

LEMMA LogSteps ==
    ASSUME IInv, StaticInv, MaxChanges = 0, Next
    PROVE  /\ \A i \in Server : adds'[i] = {}
           /\ \/ UNCHANGED <<log, snap>>
              \/ \E i \in Server, t \in Nat, op \in {"NOOP", "CMD"} :
                   /\ log' = [log EXCEPT ![i] = Append(log[i], Entry(t, op, {}))]
                   /\ snap' = snap
              \/ \E i, j \in Server, q \in Request : StaticRequest(q) /\ Handle(i, j, q)
              \/ \E i \in Server : FinishSnapshot(i)
<1>. DEFINE Appends == \E i \in Server, t \in Nat, op \in {"NOOP", "CMD"} :
                         /\ log' = [log EXCEPT ![i] = Append(log[i], Entry(t, op, {}))]
                         /\ snap' = snap
            Handles == \E i, j \in Server, q \in Request : StaticRequest(q) /\ Handle(i, j, q)
            Result  == /\ \A i \in Server : adds'[i] = {}
                       /\ \/ UNCHANGED <<log, snap>>
                          \/ Appends
                          \/ Handles
                          \/ \E i \in Server : FinishSnapshot(i)
<1>1. /\ \A i \in Server : adds[i] = {}
      /\ ~(changes < MaxChanges)
  BY DEF StaticInv, StaticNode, IInv, NodeType, RestType
<1>2. ASSUME NEW i \in Server, snap' = snap, adds' = adds,
             log' = log \/ \E t \in Nat :
                              log' = [log EXCEPT ![i] = Append(log[i], Entry(t, "NOOP", {}))]
      PROVE  Result
  BY <1>1, <1>2
<1>3. ASSUME NEW i \in Server, Step(i) PROVE Result
  <2>1. currentTerm[i] \in Nat
    BY DEF IInv, NodeType, VoteType
  <2>2. CASE Timeout(i)
    BY <1>2, <2>2, StaticStart DEF Timeout, change
  <2>3. CASE Submit(i)
    BY <1>1, <2>1, <2>3 DEF Submit, AppendLocal, change
  <2>4. CASE Restart(i)
    <3>1. adds' = [adds EXCEPT ![i] = {}] /\ log' = log /\ snap' = snap
      BY <2>4 DEF Restart
    <3>. QED
      BY <1>1, <3>1 DEF IInv, NodeType, RestType
  <2>5. CASE FinishSnapshot(i)
    <3>1. adds' = adds
      BY <2>5 DEF FinishSnapshot, change
    <3>. QED
      BY <1>1, <2>5, <3>1
  <2>6. CASE \E a \in adds[i] : AddServerFinish(i, a) \/ AddServerAbandon(i, a)
    BY <1>1, <2>6
  <2>7. CASE \/ ContactExpires(i) \/ CheckQuorumFails(i) \/ SubmitFails(i) \/ Apply(i)
             \/ DiskFills(i) \/ DiskDrains(i)
    <3>1. UNCHANGED <<log, snap, adds>>
      BY <2>7 DEF ContactExpires, CheckQuorumFails, SubmitFails, Apply, DiskFills,
         DiskDrains, change
    <3>. QED
      BY <1>1, <3>1
  <2>. QED
    BY <1>3, <2>2, <2>3, <2>4, <2>5, <2>6, <2>7 DEF Step
<1>4. ASSUME NEW i \in Server, NEW j \in Server, PairStep(i, j) PROVE Result
  <2>1. currentTerm[i] \in Nat
    BY DEF IInv, NodeType, VoteType
  <2>2. CASE Deliver(i, j)
    <3>1. /\ call[i][j] \in Request /\ StaticRequest(call[i][j])
          /\ Handle(i, j, call[i][j])
      BY <2>2 DEF Deliver, IInv, NetType, StaticInv, StaticNet
    <3>2. adds' = adds
      BY <3>1 DEF Handle, change
    <3>. QED
      BY <1>1, <3>1, <3>2
  <2>3. CASE ReceivePreVote(i, j)
    BY <1>2, <2>3, StaticStart DEF ReceivePreVote, change
  <2>4. CASE ReceiveVote(i, j)
    BY <1>2, <2>1, <2>4, StaticElect DEF ReceiveVote, change
  <2>5. CASE AddServerBegin(i, j) \/ AddServerAtOnce(i, j) \/ RemoveServer(i, j)
    BY <1>1, <2>5 DEF AddServerBegin, AddServerAtOnce, RemoveServer
  <2>6. CASE ReceiveAppendOk(i, j) \/ ReceiveSnapshotOk(i, j)
    <3>1. UNCHANGED <<log, snap, adds>>
      BY <2>6 DEF ReceiveAppendOk, ReceiveSnapshotOk, Acknowledge, change
    <3>. QED
      BY <1>1, <3>1
  <2>7. CASE \/ SendPreVote(i, j) \/ SendVote(i, j) \/ SendAppend(i, j)
             \/ SendSnapshot(i, j) \/ AbandonCall(i, j) \/ ReceiveHigherTerm(i, j)
             \/ ReceiveAppendConflict(i, j) \/ RemoveLearner(i, j)
    <3>1. UNCHANGED <<log, snap, adds>>
      BY <2>7 DEF SendPreVote, SendVote, SendAppend, SendSnapshot, Send, AbandonCall,
         ReceiveHigherTerm, ReceiveAppendConflict, RemoveLearner, change
    <3>. QED
      BY <1>1, <3>1
  <2>. QED
    BY <1>4, <2>2, <2>3, <2>4, <2>5, <2>6, <2>7 DEF PairStep
<1>5. CASE DeliverStale
  <2>1. PICK m \in stale : Handle(m.from, m.to, m.req)
    BY <1>5 DEF DeliverStale
  <2>2. /\ m.from \in Server /\ m.to \in Server /\ m.req \in Request
        /\ StaticRequest(m.req)
    BY DEF IInv, NetType, StaticInv, StaticNet
  <2>3. adds' = adds
    BY <2>1 DEF Handle, change
  <2>. QED
    BY <1>1, <2>1, <2>2, <2>3
<1>. QED
  BY <1>3, <1>4, <1>5 DEF Next

LEMMA StaticNodeStep ==
    ASSUME IInv, StaticInv, MaxChanges = 0, Next
    PROVE  StaticNode'
<1>1. StaticNode
  BY DEF StaticInv
<1>. QED
  BY <1>1, LogSteps, StaticLogs, StaticHandle, StaticFinish

\* What a step does to the requests and answers on their way.
LEMMA NetSteps ==
    ASSUME Next
    PROVE  \/ UNCHANGED net
           \/ \E i, j \in Server : \/ SendPreVote(i, j) \/ SendVote(i, j)
                                   \/ SendAppend(i, j) \/ SendSnapshot(i, j)
           \/ \E i, j \in Server : Deliver(i, j)
           \/ \E i, j \in Server : HangUp(i, j) /\ (stale' = stale \/ AbandonCall(i, j))
           \/ \E i \in Server : Restart(i)
           \/ DeliverStale
<1>1. ASSUME NEW i \in Server, Step(i) PROVE UNCHANGED net \/ Restart(i)
  <2>1. CASE \/ Timeout(i) \/ ContactExpires(i) \/ CheckQuorumFails(i) \/ Submit(i)
             \/ SubmitFails(i) \/ Apply(i)
    BY <2>1 DEF Timeout, ContactExpires, CheckQuorumFails, Submit, SubmitFails, Apply
  <2>2. CASE \/ FinishSnapshot(i) \/ DiskFills(i) \/ DiskDrains(i)
             \/ \E a \in adds[i] : AddServerFinish(i, a) \/ AddServerAbandon(i, a)
    BY <2>2 DEF FinishSnapshot, DiskFills, DiskDrains, AddServerFinish, AddServerAbandon
  <2>. QED
    BY <1>1, <2>1, <2>2 DEF Step
<1>2. ASSUME NEW i \in Server, NEW j \in Server, PairStep(i, j)
      PROVE  \/ UNCHANGED net
             \/ SendPreVote(i, j) \/ SendVote(i, j) \/ SendAppend(i, j) \/ SendSnapshot(i, j)
             \/ Deliver(i, j)
             \/ HangUp(i, j) /\ (stale' = stale \/ AbandonCall(i, j))
  BY <1>2 DEF PairStep, AbandonCall, ReceiveHigherTerm, ReceivePreVote, ReceiveVote,
     ReceiveAppendOk, ReceiveAppendConflict, ReceiveSnapshotOk, AddServerBegin,
     AddServerAtOnce, RemoveServer, RemoveLearner
<1>. QED
  BY <1>1, <1>2 DEF Next

\* A batch is a part of the leader's log.
LEMMA StaticBatch ==
    ASSUME IInv, StaticNode, NEW i \in Server, NEW j \in Server, SendAppend(i, j)
    PROVE  \E q \in Request : StaticRequest(q) /\ Send(i, j, q)
<1>. DEFINE ni   == Min({nextIndex[i][j], LastIndex(i) + 1})
            from == ni - snap[i].idx
            upto == Min({Len(log[i]), from + MaxEntriesPerRpc - 1})
            es   == SubSeq(log[i], from, upto)
            q    == [type |-> "append", term |-> currentTerm[i], prev |-> ni - 1,
                     prevTerm |-> TermAt(i, ni - 1), entries |-> es,
                     commit |-> commitIndex[i]]
<1>1. /\ nextIndex[i][j] \in Nat /\ nextIndex[i][j] > snap[i].idx
      /\ Send(i, j, q)
      /\ currentTerm[i] \in Nat /\ commitIndex[i] \in Nat
      /\ log[i] \in Seq(LogEntry) /\ NoConfig(log[i])
  BY DEF SendAppend, IInv, NodeType, VoteType, LogType, StaticNode
<1>2. /\ LastIndex(i) \in Nat /\ LastIndex(i) = snap[i].idx + Len(log[i])
      /\ snap[i].idx \in Nat /\ Len(log[i]) \in Nat
      /\ \A n \in snap[i].idx..LastIndex(i) : TermAt(i, n) \in Nat
  BY TermType DEF IInv, NodeType
<1>3. ni \in (snap[i].idx + 1)..(LastIndex(i) + 1)
  <2>. DEFINE k == LastIndex(i) + 1
  <2>1. k \in Int /\ nextIndex[i][j] \in Int
    BY <1>1, <1>2
  <2>. HIDE DEF k
  <2>2. Min({nextIndex[i][j], k}) = IF nextIndex[i][j] <= k THEN nextIndex[i][j] ELSE k
    BY <2>1, MinPair
  <2>. QED
    BY <1>1, <1>2, <2>2 DEF k
<1>4. NoConfig(es) /\ es \in Seq(LogEntry)
  <2>1. upto \in Int /\ upto <= Len(log[i])
    <3>. DEFINE k == from + MaxEntriesPerRpc - 1
    <3>1. k \in Int /\ Len(log[i]) \in Int
      BY <1>2, <1>3, ThresholdAssumption
    <3>. HIDE DEF k
    <3>2. Min({Len(log[i]), k}) = IF Len(log[i]) <= k THEN Len(log[i]) ELSE k
      BY <3>1, MinPair
    <3>. QED
      BY <3>1, <3>2 DEF k
  <2>2. from \in Int /\ from >= 1
    BY <1>2, <1>3
  <2>. HIDE DEF upto, from
  <2>. QED
    BY <1>1, <2>1, <2>2, NoConfigSub
<1>5. ni - 1 \in Nat /\ TermAt(i, ni - 1) \in Nat
  BY <1>2, <1>3
<1>6. q \in Request /\ StaticRequest(q)
  <2>. HIDE DEF ni, es
  <2>. QED
    BY <1>1, <1>4, <1>5 DEF Request, AppendRequest, StaticRequest
<1>. QED
  BY <1>1, <1>6

\* Nothing that is sent mentions another configuration.
LEMMA StaticSend ==
    ASSUME IInv, StaticNode, NEW i \in Server, NEW j \in Server,
           \/ SendPreVote(i, j) \/ SendVote(i, j) \/ SendAppend(i, j) \/ SendSnapshot(i, j)
    PROVE  \E q \in Request : StaticRequest(q) /\ Send(i, j, q)
<1>1. /\ currentTerm[i] \in Nat /\ currentTerm[i] + 1 \in Nat
      /\ snap[i] \in Snapshot /\ snap[i].cfg \in {InitConfig, {}}
  BY SMTT(30) DEF IInv, NodeType, VoteType, LogType, StaticNode
<1>2. ASSUME NEW type \in {"prevote", "vote"}, NEW t \in Nat,
             Send(i, j, BallotRequest(i, type, t))
      PROVE  \E q \in Request : StaticRequest(q) /\ Send(i, j, q)
  <2>1. BallotRequest(i, type, t) \in Request
    BY BallotRequestType DEF IInv
  <2>2. BallotRequest(i, type, t).type \notin {"append", "snapshot"}
    BY DEF BallotRequest
  <2>3. StaticRequest(BallotRequest(i, type, t))
    BY <2>2 DEF StaticRequest
  <2>. QED
    BY <1>2, <2>1, <2>3
<1>3. CASE SendPreVote(i, j)
  BY <1>1, <1>2, <1>3 DEF SendPreVote
<1>4. CASE SendVote(i, j)
  BY <1>1, <1>2, <1>4 DEF SendVote
<1>5. CASE SendSnapshot(i, j)
  <2>. DEFINE q == [type |-> "snapshot", term |-> currentTerm[i], snap |-> snap[i]]
  <2>1. q \in Request /\ StaticRequest(q)
    BY <1>1 DEF Request, SnapshotRequest, StaticRequest
  <2>. QED
    BY <1>5, <2>1 DEF SendSnapshot
<1>. QED
  BY <1>3, <1>4, <1>5, StaticBatch

LEMMA StaticNetShrinks ==
    ASSUME IInv, StaticNet,
           \A i, j \in Server : call'[i][j] \in {call[i][j], Nil},
           \A m \in stale' : m \in stale \/
                (\E i, j \in Server : m.req = call[i][j] /\ m.req # Nil)
    PROVE  StaticNet'
  BY DEF StaticNet

LEMMA StaticNetStep ==
    ASSUME IInv, StaticInv, Next
    PROVE  StaticNet'
<1>1. StaticNode /\ StaticNet
  BY DEF StaticInv
<1>2. CASE UNCHANGED net
  BY <1>1, <1>2 DEF net, StaticNet
<1>3. ASSUME NEW i \in Server, NEW j \in Server,
             \/ SendPreVote(i, j) \/ SendVote(i, j) \/ SendAppend(i, j) \/ SendSnapshot(i, j)
      PROVE  StaticNet'
  <2>1. PICK q \in Request : StaticRequest(q) /\ Send(i, j, q)
    BY <1>1, <1>3, StaticSend
  <2>2. stale' = stale /\ call' = [call EXCEPT ![i][j] = q]
    BY <2>1 DEF Send
  <2>3. \A a, b \in Server : call'[a][b] = IF a = i /\ b = j THEN q ELSE call[a][b]
    BY <2>2 DEF IInv, NetType
  <2>. QED
    BY <1>1, <2>1, <2>2, <2>3 DEF StaticNet
<1>4. ASSUME NEW i \in Server, NEW j \in Server, Deliver(i, j)
      PROVE  StaticNet'
  BY <1>1, <1>4 DEF Deliver, StaticNet
<1>5. ASSUME NEW i \in Server, NEW j \in Server, HangUp(i, j),
             stale' = stale \/ AbandonCall(i, j)
      PROVE  StaticNet'
  <2>1. \A a, b \in Server : call'[a][b] \in {call[a][b], Nil}
    BY <1>5 DEF HangUp, IInv, NetType
  <2>2. \A m \in stale' : m \in stale \/ (m.req = call[i][j] /\ m.req # Nil)
    BY <1>5 DEF AbandonCall
  <2>. QED
    BY <1>1, <2>1, <2>2, StaticNetShrinks
<1>6. ASSUME NEW i \in Server, Restart(i)
      PROVE  StaticNet'
  <2>1. \A a, b \in Server : call'[a][b] \in {call[a][b], Nil}
    BY <1>6 DEF Restart, IInv, NetType
  <2>2. PICK kept \in SUBSET {j \in Server : call[i][j] # Nil /\ reply[i][j] = Nil} :
          stale' = stale \cup {[from |-> i, to |-> j, req |-> call[i][j]] : j \in kept}
    BY <1>6 DEF Restart
  <2>3. \A m \in stale' : m \in stale \/
          \E j \in Server : m.req = call[i][j] /\ m.req # Nil
    BY <2>2
  <2>. QED
    BY <1>1, <2>1, <2>3, StaticNetShrinks
<1>7. CASE DeliverStale
  BY <1>1, <1>7 DEF DeliverStale, StaticNet
<1>. QED
  BY <1>2, <1>3, <1>4, <1>5, <1>6, <1>7, NetSteps

\* StaticInv holds at the start and is kept.
LEMMA StaticInit == Init => StaticInv
  BY DEF Init, StaticInv, StaticNode, StaticNet, NoConfig

LEMMA StaticStep == IInv /\ StaticInv /\ MaxChanges = 0 /\ [Next]_vars => StaticInv'
<1>1. CASE UNCHANGED vars
  BY <1>1 DEF vars, change, net, StaticInv, StaticNode, StaticNet, NoConfig
<1>. QED
  BY <1>1, StaticNodeStep, StaticNetStep DEF StaticInv

-----------------------------------------------------------------------------
\* A vote of v for i in term t: counted by i, or answered and on its way to i.
Cast(v, i, t) ==
    /\ call[i][v] # Nil /\ reply[i][v] # Nil
    /\ call[i][v].type = "vote" /\ call[i][v].term = t /\ reply[i][v].ok

Backs(v, i, t) == (v \in votes[i] /\ currentTerm[i] = t) \/ Cast(v, i, t)

\* What raft_meta of v says of it: v votes for nobody else in t any more.
Voted(v, i, t) ==
    \/ disk[v].term > t
    \/ disk[v].term = t /\ disk[v].vote = i

Won(p) ==
    \E Q \in SUBSET Server :
        /\ Quorum(InitConfig, Q)
        /\ \A v \in Q : /\ Voted(v, p[2], p[1])
                        /\ \A k \in Server : Backs(v, k, p[1]) => k = p[2]

CallReply    == \A i, j \in Server : reply[i][j] # Nil => call[i][j] # Nil
BackedByDisk == \A v, i \in Server, t \in Nat : Backs(v, i, t) => Voted(v, i, t)
OneVote      == \A v, i, k \in Server, t \in Nat : Backs(v, i, t) /\ Backs(v, k, t) => i = k
AllWon       == \A p \in elected : Won(p)

\* The inductive invariant of ElectionSafety.
ElectionInv ==
    /\ MetaInv /\ StaticInv
    /\ CallReply /\ BackedByDisk /\ OneVote /\ AllWon
    /\ ElectionSafety

-----------------------------------------------------------------------------
\* A step adds no vote, or the vote of v for i in t.
NoNewVote == \A v, i \in Server, t \in Nat : Backs(v, i, t)' => Backs(v, i, t)

NewVote(v, i, t) ==
    /\ \A w, k \in Server, s \in Nat :
         Backs(w, k, s)' => Backs(w, k, s) \/ (w = v /\ k = i /\ s = t)
    /\ Voted(v, i, t)'
    /\ \A k \in Server : Voted(v, k, t) => k = i

\* Counted votes are kept or cleared; answers are kept or dropped.
VotesKept ==
    \A i \in Server : \/ votes'[i] = {}
                      \/ votes'[i] = votes[i] /\ currentTerm'[i] = currentTerm[i]

AnswersKept ==
    \A i, j \in Server : \/ reply'[i][j] = Nil
                         \/ reply'[i][j] = reply[i][j] /\ call'[i][j] = call[i][j]
                         \/ call'[i][j].type # "vote"

LEMMA KeptIsQuiet == VotesKept /\ AnswersKept => NoNewVote
  BY DEF VotesKept, AnswersKept, NoNewVote, Backs, Cast

LEMMA VotedStays ==
    ASSUME IInv, MetaGrows, NEW v \in Server, NEW i \in Server, NEW t \in Nat, Voted(v, i, t),
           IInv'
    PROVE  Voted(v, i, t)'
<1>1. disk[v].term \in Nat /\ disk'[v].term \in Nat
  <2>1. disk[v] \in Meta /\ disk'[v] \in Meta
    BY DEF IInv, NodeType, VoteType
  <2>. QED
    BY <2>1 DEF Meta
<1>2. i # Nil
  BY NilAssumption
<1>. QED
  BY <1>1, <1>2 DEF MetaGrows, Voted

\* Votes and won elections survive a step that adds at most one vote.
LEMMA VotesStep ==
    ASSUME IInv, IInv', MetaGrows, BackedByDisk, OneVote, AllWon,
           NoNewVote \/ \E v, i \in Server, t \in Nat : NewVote(v, i, t)
    PROVE  BackedByDisk' /\ OneVote' /\ \A p \in elected : Won(p)'
<1>1. ASSUME NEW v \in Server, NEW i \in Server, NEW t \in Nat, Backs(v, i, t)'
      PROVE  Backs(v, i, t) \/ (NewVote(v, i, t) /\ ~Backs(v, i, t))
  BY <1>1 DEF NoNewVote, NewVote
<1>2. BackedByDisk'
  <2>1. ASSUME NEW v \in Server, NEW i \in Server, NEW t \in Nat, Backs(v, i, t)'
        PROVE  Voted(v, i, t)'
    BY <1>1, <2>1, VotedStays DEF BackedByDisk, NewVote
  <2>. QED
    BY <2>1 DEF BackedByDisk
<1>3. OneVote'
  <2>1. ASSUME NEW v \in Server, NEW i \in Server, NEW k \in Server, NEW t \in Nat,
               Backs(v, i, t)', Backs(v, k, t)'
        PROVE  i = k
    <3>1. CASE Backs(v, i, t) /\ Backs(v, k, t)
      BY <3>1 DEF OneVote
    <3>2. CASE NewVote(v, i, t)
      BY <1>1, <2>1, <3>2 DEF NewVote, BackedByDisk
    <3>3. CASE NewVote(v, k, t)
      BY <1>1, <2>1, <3>3 DEF NewVote, BackedByDisk
    <3>. QED
      BY <1>1, <2>1, <3>1, <3>2, <3>3
  <2>. QED
    BY <2>1 DEF OneVote
<1>4. ASSUME NEW p \in elected
      PROVE  Won(p)'
  <2>1. p[1] \in Nat /\ p[2] \in Server
    BY DEF IInv, NodeType, RestType
  <2>2. PICK Q \in SUBSET Server :
          /\ Quorum(InitConfig, Q)
          /\ \A v \in Q : /\ Voted(v, p[2], p[1])
                          /\ \A k \in Server : Backs(v, k, p[1]) => k = p[2]
    BY DEF AllWon, Won
  <2>3. ASSUME NEW v \in Q
        PROVE  /\ Voted(v, p[2], p[1])'
               /\ \A k \in Server : Backs(v, k, p[1])' => k = p[2]
    BY <1>1, <2>1, <2>2, VotedStays DEF NewVote
  <2>. QED
    BY <2>2, <2>3 DEF Won
<1>. QED
  BY <1>2, <1>3, <1>4

-----------------------------------------------------------------------------
\* What each step does to the votes.
LEMMA StepDownVotes ==
    ASSUME IInv, NEW i \in Server, NEW t \in Nat, StepDown(i, t)
    PROVE  VotesKept
<1>1. \/ currentTerm' = currentTerm
      \/ currentTerm' = [currentTerm EXCEPT ![i] = t]
  BY DEF StepDown, durable
<1>. QED
  BY <1>1 DEF StepDown, StopCampaign, VotesKept, IInv, NodeType, VoteType

LEMMA HandleVotes ==
    ASSUME IInv, NEW i \in Server, NEW j \in Server, NEW q \in Request, Handle(i, j, q)
    PROVE  VotesKept
<1>1. q.term \in Nat /\ currentTerm[j] \in Nat
  BY RequestFields DEF IInv, NodeType, VoteType
<1>2. CASE UNCHANGED <<durable, ballot>>
  BY <1>2 DEF durable, ballot, VotesKept
<1>3. CASE HandleVote(i, j, q)
  <2>1. CASE IgnoresVote(j, q)
    BY <1>2, <1>3, <2>1 DEF HandleVote
  <2>2. CASE ~IgnoresVote(j, q) /\ q.term > currentTerm[j]
    <3>1. /\ currentTerm' = [currentTerm EXCEPT ![j] = q.term]
          /\ votes' = [votes EXCEPT ![j] = {}]
      BY <1>3, <2>2 DEF HandleVote, StopCampaign
    <3>. QED
      BY <3>1 DEF VotesKept, IInv, NodeType, VoteType
  <2>3. CASE ~IgnoresVote(j, q) /\ ~(q.term > currentTerm[j])
    <3>1. /\ currentTerm' = [currentTerm EXCEPT ![j] = q.term]
          /\ votes' = votes
      BY <1>3, <2>3 DEF HandleVote, ballot
    <3>2. q.term = currentTerm[j]
      BY <1>1, <2>3 DEF IgnoresVote
    <3>. QED
      BY <3>1, <3>2 DEF VotesKept, IInv, NodeType, VoteType
  <2>. QED
    BY <2>1, <2>2, <2>3
<1>4. CASE HandlePreVote(j, q)
  BY <1>2, <1>4 DEF HandlePreVote
<1>5. CASE HandleAppend(j, q) \/ HandleSnapshot(j, q)
  BY <1>1, <1>2, <1>5, StepDownVotes DEF HandleAppend, HandleSnapshot, HearLeader
<1>. QED
  BY <1>3, <1>4, <1>5 DEF Handle

LEMMA ElectVotes ==
    ASSUME IInv, NEW i \in Server, NEW t \in Nat, BecomeLeader(i, t)
    PROVE  votes' = [votes EXCEPT ![i] = {}]
  BY DEF BecomeLeader, StopCampaign

\* Only elections and counted votes add to votes.
LEMMA VotesSteps ==
    ASSUME IInv, Next
    PROVE  \/ VotesKept
           \/ \E i \in Server : StartElection(i)
           \/ \E i, j \in Server : ReceiveVote(i, j)
<1>1. ASSUME votes' = votes, UNCHANGED durable PROVE VotesKept
  BY <1>1 DEF durable, VotesKept
<1>2. ASSUME NEW i \in Server, Step(i) PROVE VotesKept \/ StartElection(i)
  <2>1. currentTerm[i] \in Nat
    BY DEF IInv, NodeType, VoteType
  <2>2. CASE Timeout(i)
    BY <1>1, <2>2 DEF Timeout, ballot
  <2>3. CASE SubmitFails(i)
    BY <2>1, <2>3, StepDownVotes DEF SubmitFails
  <2>4. CASE Restart(i)
    <3>1. /\ votes' = [votes EXCEPT ![i] = {}]
          /\ currentTerm' = [currentTerm EXCEPT ![i] = disk[i].term]
      BY <2>4 DEF Restart, StopCampaign
    <3>. QED
      BY <3>1 DEF VotesKept, IInv, NodeType, VoteType
  <2>5. CASE \/ ContactExpires(i) \/ CheckQuorumFails(i) \/ Submit(i) \/ Apply(i)
    BY <1>1, <2>5 DEF ContactExpires, CheckQuorumFails, Submit, Apply, ballot
  <2>6. CASE \/ FinishSnapshot(i) \/ DiskFills(i) \/ DiskDrains(i)
             \/ \E a \in adds[i] : AddServerFinish(i, a) \/ AddServerAbandon(i, a)
    BY <1>1, <2>6 DEF FinishSnapshot, DiskFills, DiskDrains, AddServerFinish,
       AddServerAbandon, ballot
  <2>. QED
    BY <1>2, <2>2, <2>3, <2>4, <2>5, <2>6 DEF Step
<1>3. ASSUME NEW i \in Server, NEW j \in Server, PairStep(i, j)
      PROVE  VotesKept \/ StartElection(i) \/ ReceiveVote(i, j)
  <2>1. CASE Deliver(i, j)
    <3>1. call[i][j] \in Request /\ Handle(i, j, call[i][j])
      BY <2>1 DEF Deliver, IInv, NetType
    <3>. QED
      BY <3>1, HandleVotes
  <2>2. CASE ReceiveHigherTerm(i, j)
    <3>1. reply[i][j] \in Reply
      BY <2>2 DEF ReceiveHigherTerm, IInv, NetType
    <3>2. reply[i][j].term \in Nat
      BY <3>1 DEF Reply
    <3>. QED
      BY <2>2, <3>2, StepDownVotes DEF ReceiveHigherTerm
  <2>3. CASE ReceivePreVote(i, j)
    BY <1>1, <2>3 DEF ReceivePreVote
  <2>4. CASE SendPreVote(i, j) \/ SendVote(i, j) \/ SendAppend(i, j) \/ SendSnapshot(i, j)
    BY <1>1, <2>4 DEF SendPreVote, SendVote, SendAppend, SendSnapshot, Send
  <2>5. CASE \/ AbandonCall(i, j) \/ ReceiveAppendOk(i, j) \/ ReceiveAppendConflict(i, j)
             \/ ReceiveSnapshotOk(i, j)
    BY <1>1, <2>5 DEF AbandonCall, ReceiveAppendOk, ReceiveAppendConflict,
       ReceiveSnapshotOk, ballot
  <2>6. CASE \/ AddServerBegin(i, j) \/ AddServerAtOnce(i, j)
             \/ RemoveServer(i, j) \/ RemoveLearner(i, j)
    BY <1>1, <2>6 DEF AddServerBegin, AddServerAtOnce, RemoveServer, RemoveLearner,
       ballot
  <2>. QED
    BY <1>3, <2>1, <2>2, <2>3, <2>4, <2>5, <2>6 DEF PairStep
<1>4. CASE DeliverStale
  <2>1. PICK m \in stale : Handle(m.from, m.to, m.req)
    BY <1>4 DEF DeliverStale
  <2>2. m.from \in Server /\ m.to \in Server /\ m.req \in Request
    BY DEF IInv, NetType
  <2>. QED
    BY <2>1, <2>2, HandleVotes
<1>. QED
  BY <1>2, <1>3, <1>4 DEF Next

\* Only a delivered vote request adds to the votes on their way.
LEMMA AnswersSteps ==
    ASSUME IInv, CallReply, Next
    PROVE  /\ CallReply'
           /\ \/ AnswersKept
              \/ \E i, j \in Server : Deliver(i, j) /\ call[i][j].type = "vote"
<1>1. ASSUME \A a, b \in Server : \/ reply'[a][b] = Nil
                                  \/ reply'[a][b] = reply[a][b] /\ call'[a][b] = call[a][b]
      PROVE  CallReply' /\ AnswersKept
  BY <1>1 DEF CallReply, AnswersKept
<1>2. CASE UNCHANGED net
  BY <1>1, <1>2 DEF net
<1>3. ASSUME NEW i \in Server, NEW j \in Server, NEW q, Send(i, j, q)
      PROVE  CallReply' /\ AnswersKept
  <2>1. /\ call[i][j] = Nil /\ reply' = reply
        /\ \A a, b \in Server : call'[a][b] = IF a = i /\ b = j THEN q ELSE call[a][b]
    BY <1>3 DEF Send, IInv, NetType
  <2>2. reply[i][j] = Nil
    BY <2>1 DEF CallReply
  <2>. QED
    BY <1>1, <2>1, <2>2
<1>4. ASSUME NEW i \in Server, NEW j \in Server,
             SendPreVote(i, j) \/ SendVote(i, j) \/ SendAppend(i, j) \/ SendSnapshot(i, j)
      PROVE  CallReply' /\ AnswersKept
  BY <1>3, <1>4 DEF SendPreVote, SendVote, SendAppend, SendSnapshot
<1>5. ASSUME NEW i \in Server, NEW j \in Server, Deliver(i, j)
      PROVE  CallReply' /\ (AnswersKept \/ call[i][j].type = "vote")
  <2>1. /\ call' = call /\ call[i][j] # Nil
        /\ \A a, b \in Server : a # i \/ b # j => reply'[a][b] = reply[a][b]
    BY <1>5 DEF Deliver, IInv, NetType
  <2>2. CallReply'
    BY <2>1 DEF CallReply
  <2>. QED
    BY <2>1, <2>2 DEF AnswersKept
<1>6. ASSUME NEW i \in Server, NEW j \in Server, HangUp(i, j)
      PROVE  CallReply' /\ AnswersKept
  <2>1. \A a, b \in Server : \/ reply'[a][b] = Nil
                             \/ reply'[a][b] = reply[a][b] /\ call'[a][b] = call[a][b]
    BY <1>6 DEF HangUp, IInv, NetType
  <2>. QED
    BY <1>1, <2>1
<1>7. ASSUME NEW i \in Server, Restart(i)
      PROVE  CallReply' /\ AnswersKept
  <2>1. \A a, b \in Server : \/ reply'[a][b] = Nil
                             \/ reply'[a][b] = reply[a][b] /\ call'[a][b] = call[a][b]
    BY <1>7 DEF Restart, IInv, NetType
  <2>. QED
    BY <1>1, <2>1
<1>8. CASE DeliverStale
  BY <1>1, <1>8 DEF DeliverStale
<1>. QED
  BY <1>2, <1>4, <1>5, <1>6, <1>7, <1>8, NetSteps

\* A vote is in raft_meta before it is answered, and contradicts none that is.
LEMMA GrantIsNew ==
    ASSUME MetaInv, CallReply, NEW i \in Server, NEW j \in Server, Deliver(i, j),
           call[i][j].type = "vote"
    PROVE  NoNewVote \/ \E t \in Nat : NewVote(j, i, t)
<1>. DEFINE q == call[i][j]
<1>1. q \in Request /\ q.type = "vote"
  BY DEF Deliver, MetaInv, IInv, NetType
<1>2. PICK t \in Nat : t = q.term
  BY <1>1, RequestFields
<1>3. /\ currentTerm[j] \in Nat /\ disk[j].term \in Nat
      /\ Persisted(j) /\ votedFor[j] \in Server \cup {Nil}
  BY MetaTyped DEF MetaInv, MetaFields
<1>4. HandleVote(i, j, q)
  BY <1>1 DEF Deliver, Handle, HandlePreVote, HandleAppend, HandleSnapshot
<1>5. /\ VotesKept
      /\ call' = call
      /\ reply' = [reply EXCEPT ![i][j] = VoteReply(i, j, q)]
  BY <1>1, HandleVotes DEF Deliver, ReplyTo, MetaInv
<1>6. \A a, b \in Server :
        reply'[a][b] = IF a = i /\ b = j THEN VoteReply(i, j, q) ELSE reply[a][b]
  BY <1>5 DEF MetaInv, IInv, NetType
<1>7. VoteReply(i, j, q).ok = Grants(i, j, q)
  BY DEF VoteReply, Answer
<1>8. CASE ~Grants(i, j, q)
  BY <1>5, <1>6, <1>7, <1>8 DEF NoNewVote, VotesKept, Backs, Cast
<1>9. CASE Grants(i, j, q)
  <2>1. ASSUME NEW w \in Server, NEW k \in Server, NEW s \in Nat, Backs(w, k, s)'
        PROVE  Backs(w, k, s) \/ (w = j /\ k = i /\ s = t)
    BY <1>2, <1>5, <1>6, <2>1 DEF VotesKept, Backs, Cast
  <2>2. /\ ~(t < currentTerm[j])
        /\ VoteIn(j, t) = i \/ (VoteIn(j, t) = Nil /\ ~diskFull[j])
    BY <1>2, <1>9 DEF Grants, IgnoresVote
  <2>3. VoteIn(j, t) = IF t > currentTerm[j] THEN Nil ELSE votedFor[j]
    BY DEF VoteIn
  <2>4. t >= currentTerm[j] /\ (t = currentTerm[j] \/ t > currentTerm[j])
    BY <1>3, <2>2
  <2>5. i # Nil
    BY NilAssumption
  <2>6. ASSUME NEW k \in Server, Voted(j, k, t) PROVE k = i
    <3>1. disk[j].term = t /\ disk[j].vote = k /\ currentTerm[j] = t
      BY <1>3, <2>4, <2>6 DEF Voted, Persisted
    <3>2. votedFor[j] = k /\ k # Nil
      BY <1>3, <3>1, NilAssumption DEF Persisted
    <3>. QED
      BY <2>2, <2>3, <2>4, <3>1, <3>2, <1>3
  <2>7. Voted(j, i, t)'
    <3>1. ~IgnoresVote(j, q)
      BY <1>9 DEF Grants
    <3>2. disk' = IF ~diskFull[j] /\ (t > currentTerm[j] \/ i # votedFor[j])
                  THEN [disk EXCEPT ![j] = [term |-> t, vote |-> i]]
                  ELSE disk
      BY <1>2, <1>4, <1>9, <3>1 DEF HandleVote
    <3>3. CASE ~diskFull[j] /\ (t > currentTerm[j] \/ i # votedFor[j])
      <4>1. disk'[j] = [term |-> t, vote |-> i]
        BY <3>2, <3>3 DEF MetaInv, IInv, NodeType, VoteType
      <4>2. disk'[j].term = t /\ disk'[j].vote = i
        BY <4>1
      <4>. QED
        BY <4>2 DEF Voted
    <3>4. CASE ~(~diskFull[j] /\ (t > currentTerm[j] \/ i # votedFor[j]))
      <4>1. t = currentTerm[j] /\ votedFor[j] = i
        BY <2>2, <2>3, <2>4, <2>5, <3>4
      <4>2. disk[j].term = t /\ disk[j].vote = i
        BY <1>3, <2>5, <4>1 DEF Persisted
      <4>3. disk' = disk
        BY <3>2, <3>4
      <4>. QED
        BY <4>2, <4>3 DEF Voted
    <3>. QED
      BY <3>3, <3>4
  <2>8. NewVote(j, i, t)
    BY <2>1, <2>6, <2>7 DEF NewVote
  <2>. QED
    BY <1>3, <2>8
<1>. QED
  BY <1>8, <1>9

\* A candidate votes for itself in a term nobody has seen on its disk.
LEMMA StartIsNew ==
    ASSUME MetaInv, NEW i \in Server, NEW t \in Nat, t = currentTerm[i] + 1,
           StartElection(i), AnswersKept
    PROVE  /\ NoNewVote \/ NewVote(i, i, t)
           /\ Quorum(Config(i), {i}) => NoNewVote
           /\ \A k \in Server : ~Voted(i, k, t)
           /\ Voted(i, i, t)'
<1>1. /\ currentTerm[i] \in Nat /\ disk[i].term \in Nat /\ Persisted(i)
  BY MetaTyped DEF MetaInv, MetaFields
<1>2. \A k \in Server : ~Voted(i, k, t)
  BY <1>1 DEF Persisted, Voted
<1>3. /\ disk' = [disk EXCEPT ![i] = [term |-> t, vote |-> i]]
      /\ currentTerm' = [currentTerm EXCEPT ![i] = t]
  BY DEF StartElection
<1>4. Voted(i, i, t)'
  <2>1. disk'[i] = [term |-> t, vote |-> i]
    BY <1>3 DEF MetaInv, IInv, NodeType, VoteType
  <2>2. disk'[i].term = t /\ disk'[i].vote = i
    BY <2>1
  <2>. QED
    BY <2>2 DEF Voted
<1>5. CASE Quorum(Config(i), {i})
  <2>1. votes' = [votes EXCEPT ![i] = {}]
    BY <1>1, <1>5, ElectVotes DEF StartElection, MetaInv
  <2>2. VotesKept
    BY <1>3, <2>1 DEF VotesKept, MetaInv, IInv, NodeType, VoteType
  <2>. QED
    BY <1>2, <1>4, <1>5, <2>2, KeptIsQuiet
<1>6. CASE ~Quorum(Config(i), {i})
  <2>1. votes' = [votes EXCEPT ![i] = {i}]
    BY <1>6 DEF StartElection
  <2>2. \A k \in Server : /\ votes'[k] = IF k = i THEN {i} ELSE votes[k]
                          /\ currentTerm'[k] = IF k = i THEN t ELSE currentTerm[k]
    BY <1>3, <2>1 DEF MetaInv, IInv, NodeType, VoteType
  <2>3. ASSUME NEW w \in Server, NEW k \in Server, NEW s \in Nat, Backs(w, k, s)'
        PROVE  Backs(w, k, s) \/ (w = i /\ k = i /\ s = t)
    BY <2>2, <2>3 DEF AnswersKept, Backs, Cast
  <2>4. NewVote(i, i, t)
    BY <1>2, <1>4, <2>3 DEF NewVote
  <2>. QED
    BY <1>2, <1>4, <1>6, <2>4
<1>. QED
  BY <1>5, <1>6

\* The votes a candidate counts back it.
LEMMA CountedVotes ==
    ASSUME MetaInv, NEW i \in Server, NEW j \in Server, ReceiveVote(i, j)
    PROVE  /\ \A v \in votes[i] \cup {j} : v \in Server /\ Backs(v, i, currentTerm[i])
           /\ NoNewVote /\ UNCHANGED durable
<1>1. /\ Answered(i, j, "vote") /\ reply[i][j].ok /\ currentTerm[i] = call[i][j].term
      /\ HangUp(i, j) /\ UNCHANGED durable
  BY DEF ReceiveVote
<1>2. Backs(j, i, currentTerm[i])
  BY <1>1 DEF Answered, Backs, Cast
<1>3. \A v \in votes[i] : v \in Server /\ Backs(v, i, currentTerm[i])
  BY DEF Backs, MetaInv, IInv, NodeType, VoteType
<1>4. \A k \in Server : votes'[k] \in {{}, votes[k], IF k = i THEN votes[i] \cup {j} ELSE {}}
  <2>1. CASE Quorum(Config(i), votes[i] \cup {j})
    <3>1. currentTerm[i] \in Nat
      BY DEF MetaInv, IInv, NodeType, VoteType
    <3>2. votes' = [votes EXCEPT ![i] = {}]
      BY <2>1, <3>1, ElectVotes DEF ReceiveVote, MetaInv
    <3>. QED
      BY <3>2 DEF MetaInv, IInv, NodeType, VoteType
  <2>2. CASE ~Quorum(Config(i), votes[i] \cup {j})
    <3>1. votes' = [votes EXCEPT ![i] = votes[i] \cup {j}]
      BY <2>2 DEF ReceiveVote
    <3>. QED
      BY <3>1 DEF MetaInv, IInv, NodeType, VoteType
  <2>. QED
    BY <2>1, <2>2
<1>5. AnswersKept
  BY <1>1 DEF HangUp, AnswersKept, MetaInv, IInv, NetType
<1>6. ASSUME NEW w \in Server, NEW k \in Server, NEW s \in Nat, Backs(w, k, s)'
      PROVE  Backs(w, k, s)
  <2>1. currentTerm' = currentTerm
    BY <1>1 DEF durable
  <2>2. CASE w \in votes'[k] /\ currentTerm'[k] = s
    <3>1. w \in votes[k] \/ (k = i /\ w \in votes[i] \cup {j})
      BY <1>4, <2>2
    <3>. QED
      BY <1>2, <1>3, <2>1, <2>2, <3>1 DEF Backs
  <2>3. CASE Cast(w, k, s)'
    BY <1>5, <2>3 DEF AnswersKept, Cast, Backs
  <2>. QED
    BY <1>6, <2>2, <2>3 DEF Backs
<1>. QED
  BY <1>1, <1>2, <1>3, <1>6 DEF NoNewVote

\* No step adds more than one vote.
LEMMA AtMostOneVote ==
    ASSUME MetaInv, CallReply, Next
    PROVE  NoNewVote \/ \E v, i \in Server, t \in Nat : NewVote(v, i, t)
<1>1. ASSUME NEW i \in Server, NEW j \in Server, Deliver(i, j), call[i][j].type = "vote"
      PROVE  NoNewVote \/ \E v, k \in Server, t \in Nat : NewVote(v, k, t)
  BY <1>1, GrantIsNew
<1>2. ASSUME AnswersKept
      PROVE  NoNewVote \/ \E v, k \in Server, t \in Nat : NewVote(v, k, t)
  <2>1. ASSUME NEW i \in Server, StartElection(i)
        PROVE  NoNewVote \/ \E v, k \in Server, t \in Nat : NewVote(v, k, t)
    <3>1. currentTerm[i] + 1 \in Nat
      BY MetaTyped DEF MetaInv, MetaFields
    <3>. QED
      BY <1>2, <2>1, <3>1, StartIsNew
  <2>2. ASSUME NEW i \in Server, NEW j \in Server, ReceiveVote(i, j)
        PROVE  NoNewVote
    BY <2>2, CountedVotes
  <2>. QED
    BY <1>2, <2>1, <2>2, VotesSteps, KeptIsQuiet DEF MetaInv
<1>. QED
  BY <1>1, <1>2, AnswersSteps DEF MetaInv

-----------------------------------------------------------------------------
\* Who is elected in a step.
LEMMA ElectAdds ==
    ASSUME NEW i \in Server, NEW t \in Nat, BecomeLeader(i, t)
    PROVE  elected' \in {elected, elected \cup {<<t, i>>}}
  BY DEF BecomeLeader, history

LEMMA StartAdds ==
    ASSUME IInv, NEW i \in Server, StartElection(i)
    PROVE  \/ elected' = elected
           \/ /\ Quorum(Config(i), {i})
              /\ elected' = elected \cup {<<currentTerm[i] + 1, i>>}
<1>1. currentTerm[i] + 1 \in Nat
  BY DEF IInv, NodeType, VoteType
<1>. QED
  BY <1>1, ElectAdds DEF StartElection, history

LEMMA ElectedSteps ==
    ASSUME IInv, Next
    PROVE  \/ elected' = elected
           \/ \E i \in Server : StartElection(i) /\ UNCHANGED net
           \/ \E i, j \in Server : StartElection(i) /\ HangUp(i, j)
           \/ \E i, j \in Server : ReceiveVote(i, j)
<1>1. ASSUME NEW i \in Server, Step(i)
      PROVE  elected' = elected \/ (StartElection(i) /\ UNCHANGED net)
  <2>1. CASE Timeout(i)
    BY <2>1 DEF Timeout, history
  <2>2. CASE \/ ContactExpires(i) \/ CheckQuorumFails(i) \/ Submit(i) \/ SubmitFails(i)
             \/ Apply(i)
    BY <2>2 DEF ContactExpires, CheckQuorumFails, Submit, SubmitFails, Apply, history
  <2>3. CASE \/ FinishSnapshot(i) \/ DiskFills(i) \/ DiskDrains(i) \/ Restart(i)
             \/ \E a \in adds[i] : AddServerFinish(i, a) \/ AddServerAbandon(i, a)
    BY <2>3 DEF FinishSnapshot, DiskFills, DiskDrains, Restart, AddServerFinish,
       AddServerAbandon, history
  <2>. QED
    BY <1>1, <2>1, <2>2, <2>3 DEF Step
<1>2. ASSUME NEW i \in Server, NEW j \in Server, PairStep(i, j)
      PROVE  elected' = elected \/ (StartElection(i) /\ HangUp(i, j)) \/ ReceiveVote(i, j)
  <2>1. CASE ReceivePreVote(i, j)
    BY <2>1 DEF ReceivePreVote, history
  <2>2. CASE SendPreVote(i, j) \/ SendVote(i, j) \/ SendAppend(i, j) \/ SendSnapshot(i, j)
    BY <2>2 DEF SendPreVote, SendVote, SendAppend, SendSnapshot, Send, history
  <2>3. CASE \/ Deliver(i, j) \/ AbandonCall(i, j) \/ ReceiveHigherTerm(i, j)
             \/ ReceiveAppendOk(i, j) \/ ReceiveAppendConflict(i, j)
             \/ ReceiveSnapshotOk(i, j)
    BY <2>3 DEF Deliver, Handle, AbandonCall, ReceiveHigherTerm, ReceiveAppendOk,
       Acknowledge, ReceiveAppendConflict, ReceiveSnapshotOk, history
  <2>4. CASE \/ AddServerBegin(i, j) \/ AddServerAtOnce(i, j)
             \/ RemoveServer(i, j) \/ RemoveLearner(i, j)
    BY <2>4 DEF AddServerBegin, AddServerAtOnce, RemoveServer, RemoveLearner,
       history
  <2>. QED
    BY <1>2, <2>1, <2>2, <2>3, <2>4 DEF PairStep
<1>3. CASE DeliverStale
  BY <1>3 DEF DeliverStale, Handle, history
<1>. QED
  BY <1>1, <1>2, <1>3 DEF Next

\* A candidate backed by a quorum wins, and wins alone: its quorum meets that of
\* any other winner of the term.
LEMMA WinsAlone ==
    ASSUME AllWon, ElectionSafety, NEW i \in Server, NEW t \in Nat,
           NEW Q \in SUBSET Server, Quorum(InitConfig, Q),
           \A p \in elected : Won(p)',
           \A v \in Q : Voted(v, i, t)',
           \A v \in Q, k \in Server : Backs(v, k, t)' => k = i,
           \A p \in elected, v \in Q :
              /\ p[1] = t
              /\ Voted(v, p[2], t)
              /\ \A k \in Server : Backs(v, k, t) => k = p[2]
              => p[2] = i,
           elected' = elected \cup {<<t, i>>}
    PROVE  AllWon' /\ ElectionSafety'
<1>1. Won(<<t, i>>)'
  BY DEF Won
<1>2. ASSUME NEW p \in elected, p[1] = t PROVE p[2] = i
  <2>1. PICK S \in SUBSET Server :
          /\ Quorum(InitConfig, S)
          /\ \A v \in S : /\ Voted(v, p[2], p[1])
                          /\ \A k \in Server : Backs(v, k, p[1]) => k = p[2]
    BY DEF AllWon, Won
  <2>2. PICK v \in S : v \in Q
    BY <2>1, QuorumsIntersect
  <2>. QED
    BY <1>2, <2>1, <2>2
<1>3. ElectionSafety'
  BY <1>2 DEF ElectionSafety
<1>. QED
  BY <1>1, <1>3 DEF AllWon

LEMMA ElectionStep == MaxChanges = 0 /\ ElectionInv /\ [Next]_vars => ElectionInv'
<1>1. ASSUME MaxChanges = 0, ElectionInv, Next
      PROVE  ElectionInv'
  <2>1. /\ MetaInv /\ IInv /\ StaticInv /\ StaticNode
        /\ CallReply /\ BackedByDisk /\ OneVote /\ AllWon /\ ElectionSafety
    BY <1>1 DEF ElectionInv, MetaInv, StaticInv
  <2>2. MetaInv' /\ IInv' /\ MetaGrows
    BY <1>1, <2>1, NextTyped, DurableStep DEF MetaInv
  <2>3. StaticInv'
    BY <1>1, <2>1, StaticStep
  <2>4. CallReply'
    BY <1>1, <2>1, AnswersSteps
  <2>5. BackedByDisk' /\ OneVote' /\ \A p \in elected : Won(p)'
    BY <1>1, <2>1, <2>2, AtMostOneVote, VotesStep
  <2>6. ASSUME NEW i \in Server, StartElection(i), AnswersKept
        PROVE  AllWon' /\ ElectionSafety'
    <3>1. PICK t \in Nat : t = currentTerm[i] + 1
      BY <2>1, MetaTyped DEF MetaFields
    <3>2. CASE elected' = elected
      BY <2>1, <2>5, <3>2 DEF AllWon, ElectionSafety
    <3>3. CASE Quorum(Config(i), {i}) /\ elected' = elected \cup {<<t, i>>}
      <4>1. Quorum(InitConfig, {i})
        BY <2>1, <3>3, StaticQuorum
      <4>2. /\ NoNewVote /\ Voted(i, i, t)'
            /\ \A k \in Server : ~Voted(i, k, t)
        BY <2>1, <2>6, <3>1, <3>3, StartIsNew
      <4>3. \A p \in elected : p[2] \in Server
        BY <2>1 DEF IInv, NodeType, RestType
      <4>4. \A k \in Server : ~Backs(i, k, t)'
        BY <2>1, <4>2 DEF NoNewVote, BackedByDisk
      <4>. QED
        BY <2>1, <2>5, <3>3, <4>1, <4>2, <4>3, <4>4, WinsAlone
    <3>. QED
      BY <2>1, <2>6, <3>1, <3>2, <3>3, StartAdds
  <2>7. ASSUME NEW i \in Server, NEW j \in Server, ReceiveVote(i, j)
        PROVE  AllWon' /\ ElectionSafety'
    <3>1. PICK t \in Nat : t = currentTerm[i]
      BY <2>1, MetaTyped DEF MetaFields
    <3>. DEFINE Q == votes[i] \cup {j}
    <3>2. /\ \A v \in Q : v \in Server /\ Backs(v, i, t)
          /\ NoNewVote
      BY <2>1, <2>7, <3>1, CountedVotes
    <3>3. \/ elected' = elected
          \/ Quorum(Config(i), Q) /\ elected' = elected \cup {<<t, i>>}
      BY <2>7, <3>1, ElectAdds DEF ReceiveVote, history
    <3>4. CASE elected' = elected
      BY <2>1, <2>5, <3>4 DEF AllWon, ElectionSafety
    <3>5. CASE Quorum(Config(i), Q) /\ elected' = elected \cup {<<t, i>>}
      <4>. HIDE DEF Q
      <4>1. Quorum(InitConfig, Q)
        BY <2>1, <3>5, StaticQuorum
      <4>2. PICK S \in SUBSET Server : S = Q
        BY <3>2
      <4>3. \A v \in S : Voted(v, i, t)'
        BY <2>1, <2>2, <3>2, <4>2, VotedStays DEF BackedByDisk
      <4>4. \A v \in S, k \in Server : Backs(v, k, t)' => k = i
        BY <2>1, <3>2, <4>2 DEF NoNewVote, OneVote
      <4>. QED
        BY <2>1, <2>5, <3>2, <3>5, <4>1, <4>2, <4>3, <4>4, WinsAlone
    <3>. QED
      BY <3>3, <3>4, <3>5
  <2>8. AllWon' /\ ElectionSafety'
    <3>1. CASE elected' = elected
      BY <2>1, <2>5, <3>1 DEF AllWon, ElectionSafety
    <3>2. UNCHANGED net => AnswersKept
      BY DEF net, AnswersKept
    <3>3. ASSUME NEW i \in Server, NEW j \in Server, HangUp(i, j) PROVE AnswersKept
      BY <2>1, <3>3 DEF HangUp, AnswersKept, IInv, NetType
    <3>. QED
      BY <1>1, <2>1, <2>6, <2>7, <3>1, <3>2, <3>3, ElectedSteps
  <2>. QED
    BY <2>2, <2>3, <2>4, <2>5, <2>8 DEF ElectionInv
<1>2. ASSUME ElectionInv, UNCHANGED vars, MaxChanges = 0
      PROVE  ElectionInv'
  <2>1. MetaInv' /\ StaticInv'
    BY <1>2, NextTyped, DurableStep, StaticStep DEF ElectionInv, MetaInv
  <2>2. UNCHANGED <<currentTerm, disk, votes, call, reply, elected>>
    BY <1>2 DEF vars, durable, ballot, net, history
  <2>. QED
    BY <1>2, <2>1, <2>2 DEF ElectionInv, CallReply, BackedByDisk, OneVote, AllWon, Won,
       ElectionSafety, Backs, Cast, Voted
<1>. QED
  BY <1>1, <1>2

LEMMA ElectionInit == Init => ElectionInv
<1>1. Init => /\ \A v, i \in Server, t \in Nat : ~Backs(v, i, t)
              /\ CallReply /\ elected = {}
  BY DEF Init, Backs, Cast, CallReply
<1>. QED
  BY <1>1, MetaInit, StaticInit DEF ElectionInv, BackedByDisk, OneVote, AllWon, ElectionSafety

\* "SINGLE LEADER per term", for a group of any size whose membership stays what
\* it was at the start: through crashes, full disks, abandoned and late requests,
\* no two nodes are ever elected in one term.
THEOREM SingleLeader ==
    ASSUME MaxChanges = 0
    PROVE  Spec => []ElectionSafety
<1>1. ElectionInv /\ [Next]_vars => ElectionInv'
  BY ElectionStep
<1>2. ElectionInv => ElectionSafety
  BY DEF ElectionInv
<1>. QED
  BY <1>1, <1>2, ElectionInit, PTL DEF Spec
=============================================================================
