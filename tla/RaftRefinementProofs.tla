------------------------ MODULE RaftRefinementProofs ------------------------
(***************************************************************************)
(* raft.hpp implements the abstract log of ReplicatedLog: what a step does *)
(* to the committed sequence, the commit indexes and the applied entries   *)
(* is a step of the abstract log or invisible to it. The committed         *)
(* sequence is mapped to chosen, what a node regards as committed to its   *)
(* known prefix.                                                           *)
(***************************************************************************)
EXTENDS RaftSafetyProofs

\* The effects of a step on what the abstract log sees.
Continues ==
    /\ Len(decided') > Len(decided)
    /\ \A n \in 1..Len(decided) : decided'[n] = decided[n]

\* The commit index of i grows, in step with the committed sequence if that grows.
Gains(i) ==
    \E c \in Nat :
      /\ c >= commitIndex[i] /\ commitIndex' = [commitIndex EXCEPT ![i] = c]
      /\ decided' = decided \/ (Continues /\ c = Len(decided'))
      /\ lastApplied' = lastApplied

\* Node i applies entries.
Applies(i) ==
    \E n \in Nat :
      /\ n > lastApplied[i] /\ lastApplied' = [lastApplied EXCEPT ![i] = n]
      /\ decided' = decided /\ commitIndex' = commitIndex

\* Node i restarts and forgets what it knew beyond its snapshot.
Forgets(i) ==
    \E c, n \in Nat :
      /\ c <= commitIndex[i] /\ commitIndex' = [commitIndex EXCEPT ![i] = c]
      /\ n <= lastApplied[i] /\ lastApplied' = [lastApplied EXCEPT ![i] = n]
      /\ decided' = decided

\* Nothing the abstract log sees happens.
Nothing == decided' = decided /\ commitIndex' = commitIndex /\ lastApplied' = lastApplied

\* How many entries a new commit index adds to the committed sequence.
LEMMA AdvanceCount ==
    ASSUME NEW s \in Nat, NEW len \in Nat, NEW old \in Nat, NEW d \in Nat, NEW c \in Nat,
           c <= s + len, s <= old, d <= old
    PROVE  \E more \in Nat : /\ more = Max({0, c - old})
                             /\ (c <= old /\ more = 0) \/ (c > old /\ old + more = c)
                             /\ \A n \in 1..more : old + n - s \in 1..len
<1>1. Max({0, c - old}) = IF 0 >= c - old THEN 0 ELSE c - old
  BY MaxPair
<1>2. CASE c <= old
  <2>1. Max({0, c - old}) = 0
    BY <1>1, <1>2
  <2>. QED
    BY <1>2, <2>1
<1>3. CASE c > old
  <2>1. c - old \in Nat /\ ~(0 >= c - old) /\ old + (c - old) = c
    BY <1>3
  <2>2. Max({0, c - old}) = c - old
    BY <1>1, <2>1
  <2>3. PICK more \in Nat : more = c - old
    BY <2>1
  <2>4. old + more = c
    BY <2>1, <2>3
  <2>5. \A n \in 1..more : old + n - s \in 1..len
    BY <1>3, <2>4
  <2>. QED
    BY <1>3, <2>2, <2>3, <2>4, <2>5
<1>. QED
  BY <1>2, <1>3

\* _advance_commit.
LEMMA AdvanceGains ==
    ASSUME IInv, NEW i \in Server, NEW t \in Nat, NEW l \in Seq(LogEntry), NEW match,
           AdvanceCommit(i, t, l, match), lastApplied' = lastApplied
    PROVE  Gains(i)
<1>1. decided \in Seq([entry: LogEntry, at: Nat])
  BY DEF IInv, NodeType, LogType
<1>2. PICK s \in Nat, d \in Nat, len \in Nat, old \in Nat :
        /\ s = snap[i].idx /\ d = commitIndex[i] /\ len = Len(l) /\ old = Len(decided)
        /\ s <= old /\ d <= old
  <2>1. Len(decided) \in Nat /\ Len(l) \in Nat
    BY <1>1
  <2>2. snap[i].idx <= Len(decided) /\ commitIndex[i] <= Len(decided)
    BY DEF IInv, NodeBound
  <2>. QED
    BY <2>1, <2>2, NodeFields
<1>3. PICK new : new = Committable(i, t, l, match)
  OBVIOUS
<1>4. PICK c : /\ c = IF new = {} THEN d ELSE Max(new)
               /\ commitIndex' = [commitIndex EXCEPT ![i] = c]
               /\ decided' = decided \o [n \in 1..Max({0, c - old}) |->
                     [entry |-> l[old + n - s], at |-> t]]
  BY <1>2, <1>3 DEF AdvanceCommit
<1>5. c \in Nat /\ c >= d /\ (c <= s + len \/ c = d)
  <2>1. CASE new = {}
    BY <1>2, <1>4, <2>1
  <2>2. CASE new # {}
    <3>1. c \in (d + 1)..(s + len)
      BY <1>2, <1>3, <1>4, <2>2, CommittableBound DEF IInv
    <3>. QED
      BY <1>2, <3>1
  <2>. QED
    BY <2>1, <2>2
<1>6. PICK more \in Nat : /\ more = Max({0, c - old})
                          /\ (c <= old /\ more = 0) \/ (c > old /\ old + more = c)
                          /\ \A n \in 1..more : old + n - s \in 1..len
  <2>1. CASE c <= s + len
    BY <1>2, <1>5, <2>1, AdvanceCount
  <2>2. CASE c = d
    <3>1. Max({0, c - old}) = 0
      <4>1. c - old \in Int /\ 0 >= c - old
        BY <1>2, <2>2
      <4>. QED
        BY <4>1, MaxPair
    <3>2. c <= old
      BY <1>2, <2>2
    <3>. QED
      BY <3>1, <3>2
  <2>. QED
    BY <1>5, <2>1, <2>2
<1>7. /\ DOMAIN decided' = 1..(old + more)
      /\ \A n \in 1..old : decided'[n] = decided[n]
  <2>1. PICK tail : tail = [n \in 1..more |-> [entry |-> l[old + n - s], at |-> t]]
    OBVIOUS
  <2>2. decided' = decided \o tail
    BY <1>4, <1>6, <2>1
  <2>3. ASSUME NEW n \in 1..more PROVE tail[n] \in [entry: LogEntry, at: Nat]
    <3>1. l[old + n - s] \in LogEntry
      <4>1. old + n - s \in 1..Len(l)
        BY <1>2, <1>6
      <4>. QED
        BY <4>1
    <3>2. tail[n] = [entry |-> l[old + n - s], at |-> t]
      BY <2>1
    <3>. QED
      BY <3>1, <3>2
  <2>4. tail \in [1..more -> [entry: LogEntry, at: Nat]]
    <3>1. DOMAIN tail = 1..more /\ tail = [n \in 1..more |-> tail[n]]
      BY <2>1
    <3>. QED
      BY <2>3, <3>1
  <2>. QED
    BY <1>2, <2>2, <2>4, DecidedGrows
<1>8. decided' \in Seq([entry: LogEntry, at: Nat])
  BY AdvanceCommitType DEF IInv
<1>9. Len(decided') = old + more
  BY <1>7, <1>8
<1>10. decided' = decided \/ (Continues /\ c = Len(decided'))
  <2>1. CASE more = 0
    <3>1. Len(decided') = Len(decided) /\ \A n \in 1..Len(decided') : decided'[n] = decided[n]
      BY <1>2, <1>7, <1>9, <2>1
    <3>. QED
      BY <1>1, <1>8, <3>1, SeqEqual
  <2>2. CASE c > old /\ old + more = c
    <3>1. Len(decided') > Len(decided) /\ c = Len(decided')
      BY <1>2, <1>5, <1>9, <2>2
    <3>. QED
      BY <1>2, <1>7, <3>1 DEF Continues
  <2>. QED
    BY <1>6, <2>1, <2>2
<1>. QED
  BY <1>2, <1>4, <1>5, <1>10 DEF Gains

\* A new leader, which may be alone and commit at once.
LEMMA LeaderGains ==
    ASSUME IInv, NEW i \in Server, NEW t \in Nat, BecomeLeader(i, t), lastApplied' = lastApplied
    PROVE  Gains(i) \/ Nothing
<1>1. CASE diskFull[i]
  BY <1>1 DEF BecomeLeader, Nothing, history
<1>2. CASE ~diskFull[i]
  <2>1. PICK l \in Seq(LogEntry) : l = Append(log[i], Entry(t, "NOOP", {}))
    BY NodeFields, EntryIsTyped, AppendType DEF Op, Membership
  <2>2. AdvanceCommit(i, t, l, [j \in Server |-> 0])
    BY <1>2, <2>1 DEF BecomeLeader
  <2>. QED
    BY <2>2, AdvanceGains
<1>. QED
  BY <1>1, <1>2

\* A campaign, which may win at once.
LEMMA ElectionGains ==
    ASSUME IInv, NEW i \in Server, StartElection(i), lastApplied' = lastApplied
    PROVE  Gains(i) \/ Nothing
<1>1. CASE Quorum(Config(i), {i})
  <2>1. BecomeLeader(i, currentTerm[i] + 1)
    BY <1>1 DEF StartElection
  <2>2. currentTerm[i] + 1 \in Nat
    BY NodeFields
  <2>. QED
    BY <2>1, <2>2, LeaderGains
<1>2. CASE ~Quorum(Config(i), {i})
  BY <1>2 DEF StartElection, Nothing, history
<1>. QED
  BY <1>1, <1>2

\* A request, which may bring a commit index.
LEMMA HandleGains ==
    ASSUME IInv, NEW i \in Server, NEW j \in Server, NEW q \in Request, Handle(i, j, q),
           UNCHANGED <<machine, history>>
    PROVE  Gains(j) \/ Nothing
<1>1. /\ commitIndex[j] \in Nat /\ commitIndex \in [Server -> Nat]
      /\ lastApplied' = lastApplied /\ decided' = decided
  BY NodeFields DEF IInv, NodeType, LogType, machine, history
<1>2. ASSUME NEW c \in Nat, c >= commitIndex[j],
             commitIndex' = [commitIndex EXCEPT ![j] = c]
      PROVE  Gains(j)
  BY <1>1, <1>2 DEF Gains
<1>3. CASE HandlePreVote(j, q) \/ HandleVote(i, j, q)
  BY <1>1, <1>3 DEF HandlePreVote, HandleVote, Nothing
<1>4. CASE HandleAppend(j, q)
  <2>1. CASE AppendVerdict(j, q) = "accepted"
    <3>1. commitIndex' = [commitIndex EXCEPT ![j] = CommitUpTo(j, q)] /\ q.type = "append"
      BY <1>4, <2>1 DEF HandleAppend
    <3>2. q.commit \in Nat /\ q.prev + Len(q.entries) \in Nat
      BY <3>1, RequestFields
    <3>3. CommitUpTo(j, q) \in Nat /\ CommitUpTo(j, q) >= commitIndex[j]
      <4>1. PICK end \in Nat : end = q.prev + Len(q.entries)
        BY <3>2
      <4>2. PICK c \in Nat, m \in Nat : c = commitIndex[j] /\ m = q.commit
        BY <1>1, <3>2
      <4>3. PICK d : d = Max({c, Min({m, end})})
        OBVIOUS
      <4>4. CommitUpTo(j, q) = d
        BY <4>1, <4>2, <4>3 DEF CommitUpTo
      <4>5. d \in Nat /\ d >= c
        BY <4>3, CommitUpToCases
      <4>. QED
        BY <4>2, <4>4, <4>5
    <3>. QED
      BY <1>2, <3>1, <3>3
  <2>2. CASE AppendVerdict(j, q) # "accepted"
    BY <1>1, <1>4, <2>2 DEF HandleAppend, Nothing
  <2>. QED
    BY <2>1, <2>2
<1>5. CASE HandleSnapshot(j, q)
  <2>1. CASE SnapshotVerdict(j, q) = "installed"
    <3>1. /\ commitIndex' = [commitIndex EXCEPT ![j] = Max({commitIndex[j], q.snap.idx})]
          /\ q.type = "snapshot"
      BY <1>1, <1>5, <2>1 DEF HandleSnapshot
    <3>2. q.snap.idx \in Nat
      BY <3>1, RequestFields DEF Snapshot
    <3>3. PICK c \in Nat : c = Max({commitIndex[j], q.snap.idx}) /\ c >= commitIndex[j]
      BY <1>1, <3>2, MaxPair
    <3>. QED
      BY <1>2, <3>1, <3>3
  <2>2. CASE SnapshotVerdict(j, q) # "installed"
    BY <1>1, <1>5, <2>2 DEF HandleSnapshot, Nothing
  <2>. QED
    BY <2>1, <2>2
<1>. QED
  BY <1>3, <1>4, <1>5 DEF Handle

\* Applying an entry.
LEMMA ApplyApplies ==
    ASSUME IInv, NEW i \in Server, Apply(i)
    PROVE  Applies(i)
<1>1. PICK s \in Nat, a \in Nat, n \in Nat :
        /\ s = snap[i].idx /\ a = lastApplied[i] /\ n = IF a < s THEN s ELSE a + 1
  BY NodeFields
<1>2. n > a
  BY <1>1
<1>3. /\ lastApplied' = [lastApplied EXCEPT ![i] = n]
      /\ decided' = decided /\ commitIndex' = commitIndex
  BY <1>1 DEF Apply, history
<1>. QED
  BY <1>1, <1>2, <1>3 DEF Applies

\* A restart.
LEMMA RestartForgets ==
    ASSUME IInv, NEW i \in Server, Restart(i), snap[i].idx <= commitIndex[i],
           lastApplied[i] <= commitIndex[i]
    PROVE  Forgets(i)
<1>1. /\ snap[i].idx \in Nat /\ lastApplied[i] \in Nat /\ commitIndex[i] \in Nat
  BY NodeFields
<1>2. PICK n \in 0..lastApplied[i] :
        /\ lastApplied' = [lastApplied EXCEPT ![i] = n]
        /\ commitIndex' = [commitIndex EXCEPT ![i] = Max({snap[i].idx, n})]
        /\ decided' = decided
  BY DEF Restart, history
<1>3. n \in Nat /\ n <= lastApplied[i] /\ n <= commitIndex[i]
  BY <1>1, <1>2
<1>4. PICK c \in Nat : c = Max({snap[i].idx, n}) /\ c <= commitIndex[i]
  BY <1>1, <1>3, MaxPair
<1>. QED
  BY <1>2, <1>3, <1>4 DEF Forgets

\* Every step has one of these effects.
LEMMA Effects ==
    ASSUME MaxChanges = 0, IInv, StaticNode, Next,
           \A i \in Server : snap[i].idx <= commitIndex[i] /\ lastApplied[i] <= commitIndex[i]
    PROVE  Nothing \/ \E i \in Server : Gains(i) \/ Applies(i) \/ Forgets(i)
<1>. DEFINE Goal == Nothing \/ \E i \in Server : Gains(i) \/ Applies(i) \/ Forgets(i)
<1>1. ASSUME NEW i \in Server, Step(i) PROVE Goal
  <2>1. CASE Timeout(i)
    <3>1. lastApplied' = lastApplied
      BY <2>1 DEF Timeout, machine
    <3>2. StartElection(i) \/ Nothing
      BY <2>1, <3>1 DEF Timeout, Nothing, history
    <3>. QED
      BY <3>1, <3>2, ElectionGains
  <2>2. CASE \/ ContactExpires(i) \/ CheckQuorumFails(i) \/ SubmitFails(i)
             \/ DiskFills(i) \/ DiskDrains(i) \/ FinishSnapshot(i)
    BY <2>2 DEF ContactExpires, CheckQuorumFails, SubmitFails, DiskFills, DiskDrains,
       FinishSnapshot, Nothing, machine, history
  <2>3. CASE Submit(i)
    <3>1. PICK e, l : /\ e = Entry(currentTerm[i], "CMD", {}) /\ l = Append(log[i], e)
                      /\ AdvanceCommit(i, currentTerm[i], l, matchIndex[i])
                      /\ lastApplied' = lastApplied
      BY <2>3 DEF Submit, AppendLocal, machine
    <3>2. l \in Seq(LogEntry) /\ currentTerm[i] \in Nat
      BY <3>1, NodeFields, EntryIsTyped, AppendType DEF Op, Membership
    <3>. QED
      BY <3>1, <3>2, AdvanceGains
  <2>4. CASE Apply(i)
    BY <2>4, ApplyApplies
  <2>5. CASE Restart(i)
    BY <2>5, RestartForgets
  <2>6. CASE \E a \in adds[i] : AddServerFinish(i, a) \/ AddServerAbandon(i, a)
    BY <2>6 DEF StaticNode
  <2>. QED
    BY <1>1, <2>1, <2>2, <2>3, <2>4, <2>5, <2>6 DEF Step
<1>2. ASSUME NEW i \in Server, NEW j \in Server, PairStep(i, j) PROVE Goal
  <2>1. CASE SendPreVote(i, j) \/ SendVote(i, j) \/ SendAppend(i, j) \/ SendSnapshot(i, j)
    BY <2>1 DEF SendPreVote, SendVote, SendAppend, SendSnapshot, Send, Nothing, machine, history
  <2>2. CASE Deliver(i, j)
    <3>1. /\ Handle(i, j, call[i][j]) /\ call[i][j] \in Request
          /\ UNCHANGED <<machine, history>>
      BY <2>2 DEF Deliver, Handle, IInv, NetType
    <3>. QED
      BY <3>1, HandleGains
  <2>3. CASE AbandonCall(i, j) \/ ReceiveHigherTerm(i, j) \/ ReceiveAppendConflict(i, j)
    BY <2>3 DEF AbandonCall, ReceiveHigherTerm, ReceiveAppendConflict, Nothing, machine, history
  <2>4. CASE ReceivePreVote(i, j)
    <3>1. lastApplied' = lastApplied
      BY <2>4 DEF ReceivePreVote, machine
    <3>2. StartElection(i) \/ Nothing
      BY <2>4, <3>1 DEF ReceivePreVote, Nothing, history
    <3>. QED
      BY <3>1, <3>2, ElectionGains
  <2>5. CASE ReceiveVote(i, j)
    <3>1. lastApplied' = lastApplied
      BY <2>5 DEF ReceiveVote, machine
    <3>2. BecomeLeader(i, currentTerm[i]) \/ Nothing
      BY <2>5, <3>1 DEF ReceiveVote, Nothing, history
    <3>. QED
      BY <3>1, <3>2, LeaderGains, NodeFields
  <2>6. CASE ReceiveAppendOk(i, j) \/ ReceiveSnapshotOk(i, j)
    <3>1. PICK match : AdvanceCommit(i, currentTerm[i], log[i], match)
      BY <2>6 DEF ReceiveAppendOk, ReceiveSnapshotOk, Acknowledge
    <3>2. lastApplied' = lastApplied
      BY <2>6 DEF ReceiveAppendOk, ReceiveSnapshotOk, machine
    <3>. QED
      BY <3>1, <3>2, AdvanceGains, NodeFields
  <2>7. CASE AddServerBegin(i, j) \/ AddServerAtOnce(i, j) \/ RemoveServer(i, j)
    <3>1. changes \in Nat
      BY DEF IInv, NodeType, RestType
    <3>. QED
      BY <2>7, <3>1 DEF AddServerBegin, AddServerAtOnce, RemoveServer
  <2>8. CASE RemoveLearner(i, j)
    BY <2>8 DEF RemoveLearner, Nothing, machine, history
  <2>. QED
    BY <1>2, <2>1, <2>2, <2>3, <2>4, <2>5, <2>6, <2>7, <2>8 DEF PairStep
<1>3. CASE DeliverStale
  <2>1. PICK m \in stale : Handle(m.from, m.to, m.req) /\ UNCHANGED <<machine, history>>
    BY <1>3 DEF DeliverStale, Handle
  <2>2. m.from \in Server /\ m.to \in Server /\ m.req \in Request
    BY DEF IInv, NetType
  <2>. QED
    BY <2>1, <2>2, HandleGains
<1>. QED
  BY <1>1, <1>2, <1>3 DEF Next

\* A prefix as a function on 1..n.
LEMMA PrefixIsCut ==
    ASSUME NEW S, NEW s \in Seq(S), NEW n \in Nat, n <= Len(s)
    PROVE  [k \in 1..n |-> s[k]] \in Abstract!Prefixes(s)
<1>1. Len(s) \in Nat /\ n \in 0..Len(s)
  OBVIOUS
<1>2. PICK f : f = [k \in 1..n |-> s[k]]
  OBVIOUS
<1>3. \A k \in 1..n : s[k] \in S /\ f[k] = s[k]
  BY <1>1, <1>2
<1>4. f \in Seq(S) /\ Len(f) = n
  <2>1. f \in [1..n -> S]
    BY <1>2, <1>3
  <2>. QED
    BY <2>1, FunctionSeq
<1>5. PICK g : g = SubSeq(s, 1, n)
  OBVIOUS
<1>6. g \in Seq(S) /\ Len(g) = n /\ \A k \in 1..n : g[k] = s[k]
  BY <1>1, <1>5
<1>7. f = g
  BY <1>3, <1>4, <1>6, SeqEqual
<1>. QED
  BY <1>1, <1>2, <1>5, <1>7 DEF Abstract!Prefixes

\* What the nodes know, once what they regard as committed is.
Cut(n) == [k \in 1..n |-> Chosen[k]]

\* The committed entries are a sequence.
LEMMA ChosenType ==
    ASSUME IInv
    PROVE  Chosen \in Seq(LogEntry) /\ Len(Chosen) = Len(decided) /\ Len(decided) \in Nat
<1>1. decided \in Seq([entry: LogEntry, at: Nat])
  BY DEF IInv, NodeType, LogType
<1>2. PICK n \in Nat : n = Len(decided) /\ DOMAIN decided = 1..n
  BY <1>1
<1>3. Chosen \in [1..n -> LogEntry]
  <2>1. ASSUME NEW k \in DOMAIN decided PROVE decided[k].entry \in LogEntry
    <3>1. decided[k] \in [entry: LogEntry, at: Nat]
      BY <1>1, SeqElement
    <3>. QED
      BY <3>1
  <2>. QED
    BY <1>2, <2>1 DEF Chosen
<1>. QED
  BY <1>2, <1>3, FunctionSeq

\* Every node knows a prefix of the committed sequence.
KnownCut ==
    \A i \in Server : Known[i] = Cut(commitIndex[i]) /\ commitIndex[i] <= Len(decided)

\* That is CommittedAgree.
LEMMA KnownIsCut == IInv /\ CommittedAgree => KnownCut
<1>. SUFFICES ASSUME IInv, CommittedAgree, NEW i \in Server
              PROVE  Known[i] = Cut(commitIndex[i]) /\ commitIndex[i] <= Len(decided)
  BY DEF KnownCut
<1>1. commitIndex[i] \in Nat /\ commitIndex[i] <= Len(decided) /\ snap[i].idx \in Nat
  BY NodeFields DEF IInv, NodeBound
<1>2. PICK n \in Nat : n = commitIndex[i]
  BY <1>1
<1>3. decided \in Seq([entry: LogEntry, at: Nat])
  BY DEF IInv, NodeType, LogType
<1>4. ASSUME NEW k \in 1..n, ~(k <= snap[i].idx) PROVE EntryAt(i, k) = Chosen[k]
  <2>1. k \in DOMAIN decided
    BY <1>1, <1>2, <1>3
  <2>2. Holds(i, k) /\ k > snap[i].idx
    BY <1>1, <1>2, <1>4 DEF CommittedAgree
  <2>. QED
    BY <2>1, <2>2 DEF Holds, Chosen
<1>5. Known[i] = [k \in 1..n |-> IF k <= snap[i].idx THEN Chosen[k] ELSE EntryAt(i, k)]
  BY <1>2 DEF Known
<1>6. Known[i] = [k \in 1..n |-> Chosen[k]]
  BY <1>4, <1>5
<1>. QED
  BY <1>1, <1>2, <1>6 DEF Cut

\* The first n committed entries are a prefix.
LEMMA CutPrefix ==
    ASSUME IInv, NEW n \in Nat, n <= Len(decided)
    PROVE  /\ Cut(n) \in Abstract!Prefixes(Chosen)
           /\ Cut(n) \in Seq(LogEntry) /\ Len(Cut(n)) = n
           /\ \A m \in Nat : m <= n => Cut(m) \in Abstract!Prefixes(Cut(n))
<1>1. Chosen \in Seq(LogEntry) /\ Len(Chosen) = Len(decided) /\ Len(decided) \in Nat
  BY ChosenType
<1>2. Cut(n) \in Abstract!Prefixes(Chosen)
  BY <1>1, PrefixIsCut DEF Cut
<1>3. Cut(n) \in Seq(LogEntry) /\ Len(Cut(n)) = n
  <2>1. Cut(n) \in [1..n -> LogEntry]
    BY <1>1 DEF Cut
  <2>. QED
    BY <2>1, FunctionSeq
<1>4. ASSUME NEW m \in Nat, m <= n PROVE Cut(m) \in Abstract!Prefixes(Cut(n))
  <2>1. [k \in 1..m |-> Cut(n)[k]] \in Abstract!Prefixes(Cut(n))
    BY <1>3, <1>4, PrefixIsCut
  <2>2. Cut(m) = [k \in 1..m |-> Cut(n)[k]]
    BY <1>4 DEF Cut
  <2>. QED
    BY <2>1, <2>2
<1>. QED
  BY <1>2, <1>3, <1>4

\* The mapped variables before and after a step.
LEMMA KnownKept ==
    ASSUME KnownCut, KnownCut', NEW i \in Server,
           decided' = decided, \A j \in Server \ {i} : commitIndex'[j] = commitIndex[j]
    PROVE  /\ Chosen' = Chosen
           /\ \A j \in Server \ {i} : Known'[j] = Known[j]
           /\ Known' = [Known EXCEPT ![i] = Known'[i]]
<1>1. Chosen' = Chosen
  BY DEF Chosen
<1>2. PICK f : f = Chosen
  OBVIOUS
<1>3. \A j \in Server : Known[j] = [k \in 1..commitIndex[j] |-> f[k]]
  BY <1>2 DEF KnownCut, Cut
<1>4. \A j \in Server : Known'[j] = [k \in 1..commitIndex'[j] |-> f[k]]
  BY <1>1, <1>2 DEF KnownCut, Cut
<1>5. ASSUME NEW j \in Server \ {i} PROVE Known'[j] = Known[j]
  <2>1. commitIndex'[j] = commitIndex[j]
    OBVIOUS
  <2>. QED
    BY <1>3, <1>4, <2>1
<1>6. DOMAIN Known = Server /\ DOMAIN Known' = Server
  BY DEF Known
<1>7. Known' = [j \in Server |-> Known'[j]] /\ Known = [j \in Server |-> Known[j]]
  BY DEF Known
<1>8. Known' = [Known EXCEPT ![i] = Known'[i]]
  BY <1>5, <1>7
<1>. QED
  BY <1>1, <1>5, <1>8

\* A sequence is its own longest prefix.
LEMMA WholeCut ==
    ASSUME NEW S, NEW s \in Seq(S)
    PROVE  [k \in 1..Len(s) |-> s[k]] = s
  OBVIOUS

\* What a node knows, and its prefixes.
LEMMA KnownTyped ==
    ASSUME IInv, KnownCut, NEW i \in Server
    PROVE  /\ Known[i] = Cut(commitIndex[i]) /\ Len(Known[i]) = commitIndex[i]
           /\ Known[i] \in Abstract!Prefixes(Chosen)
           /\ \A m \in Nat : m <= commitIndex[i] => Cut(m) \in Abstract!Prefixes(Known[i])
<1>1. Known[i] = Cut(commitIndex[i]) /\ commitIndex[i] <= Len(decided) /\ commitIndex[i] \in Nat
  BY NodeFields DEF KnownCut
<1>. QED
  BY <1>1, CutPrefix

\* A growing commit index within the committed sequence is Learn.
LEMMA LearnsMaps ==
    ASSUME IInv, IInv', KnownCut, KnownCut', NEW i \in Server, NEW c \in Nat, c >= commitIndex[i],
           commitIndex' = [commitIndex EXCEPT ![i] = c], decided' = decided,
           lastApplied' = lastApplied
    PROVE  Abstract!Learn(i)
<1>1. commitIndex \in [Server -> Nat]
  BY DEF IInv, NodeType, LogType
<1>2. commitIndex'[i] = c /\ \A j \in Server \ {i} : commitIndex'[j] = commitIndex[j]
  BY <1>1
<1>3. Chosen' = Chosen /\ Known' = [Known EXCEPT ![i] = Known'[i]]
  BY <1>2, KnownKept
<1>4. Known'[i] = Cut(c) /\ c <= Len(decided)
  BY <1>2, <1>3 DEF KnownCut, Cut
<1>5. Known'[i] \in Abstract!Prefixes(Chosen)
  BY <1>4, CutPrefix
<1>6. Known[i] \in Abstract!Prefixes(Known'[i])
  <2>1. Known[i] = Cut(commitIndex[i]) /\ commitIndex[i] \in Nat
    BY <1>1 DEF KnownCut
  <2>. QED
    BY <1>4, <2>1, CutPrefix
<1>. QED
  BY <1>3, <1>5, <1>6 DEF Abstract!Learn

\* The committed sequence grows at its end.
LEMMA GrownChosen ==
    ASSUME IInv, Chosen' \in Seq(LogEntry), Len(Chosen') = Len(decided'), Continues,
           decided' \in Seq([entry: LogEntry, at: Nat])
    PROVE  /\ Len(Chosen') > Len(Chosen)
           /\ \A n \in 1..Len(decided) : Chosen'[n] = Chosen[n]
           /\ Chosen \in Abstract!Prefixes(Chosen')
<1>1. Chosen \in Seq(LogEntry) /\ Len(Chosen) = Len(decided) /\ Len(decided) \in Nat
  BY ChosenType
<1>2. PICK old \in Nat, new \in Nat :
        old = Len(decided) /\ new = Len(decided') /\ old < new
  BY <1>1 DEF Continues
<1>3. DOMAIN decided = 1..old /\ DOMAIN decided' = 1..new
  <2>1. decided \in Seq([entry: LogEntry, at: Nat])
    BY DEF IInv, NodeType, LogType
  <2>. QED
    BY <1>2, <2>1
<1>4. ASSUME NEW n \in 1..old PROVE Chosen'[n] = Chosen[n]
  <2>1. n \in DOMAIN decided /\ n \in DOMAIN decided' /\ decided'[n] = decided[n]
    BY <1>2, <1>3 DEF Continues
  <2>2. Chosen[n] = decided[n].entry
    BY <2>1 DEF Chosen
  <2>3. Chosen'[n] = decided'[n].entry
    BY <2>1 DEF Chosen
  <2>. QED
    BY <2>1, <2>2, <2>3
<1>5. PICK s \in Seq(LogEntry) : s = Chosen'
  OBVIOUS
<1>6. [k \in 1..old |-> s[k]] = Chosen
  <2>1. [k \in 1..old |-> Chosen[k]] = Chosen
    BY <1>1, <1>2, WholeCut
  <2>. QED
    BY <1>4, <1>5, <2>1
<1>7. Chosen \in Abstract!Prefixes(s)
  BY <1>2, <1>5, <1>6, PrefixIsCut
<1>. QED
  BY <1>1, <1>2, <1>4, <1>5, <1>7

\* A commit index that grows with the committed sequence is Choose.
LEMMA ChoosesMaps ==
    ASSUME IInv, IInv', KnownCut, KnownCut', NEW i \in Server,
           Chosen' \in Seq(LogEntry), Len(Chosen') = Len(decided'), Continues,
           commitIndex' = [commitIndex EXCEPT ![i] = Len(decided')],
           lastApplied' = lastApplied
    PROVE  Abstract!Choose(i)
<1>1. commitIndex \in [Server -> Nat]
  BY DEF IInv, NodeType, LogType
<1>2. decided' \in Seq([entry: LogEntry, at: Nat])
  BY DEF IInv, NodeType, LogType
<1>3. /\ Len(Chosen') > Len(Chosen)
      /\ \A n \in 1..Len(decided) : Chosen'[n] = Chosen[n]
      /\ Chosen \in Abstract!Prefixes(Chosen')
  BY <1>2, GrownChosen
<1>4. commitIndex'[i] = Len(decided') /\ \A j \in Server \ {i} : commitIndex'[j] = commitIndex[j]
  BY <1>1
<1>5. PICK s \in Seq(LogEntry) : s = Chosen'
  OBVIOUS
<1>6. ASSUME NEW j \in Server PROVE Known'[j] = [k \in 1..commitIndex'[j] |-> s[k]]
  <2>1. Known'[j] = [k \in 1..commitIndex'[j] |-> Chosen'[k]]
    BY DEF KnownCut, Cut
  <2>. QED
    BY <1>5, <2>1
<1>7. Known'[i] = Chosen'
  <2>1. Known'[i] = [k \in 1..Len(s) |-> s[k]]
    BY <1>4, <1>5, <1>6
  <2>. QED
    BY <1>5, <2>1, WholeCut
<1>8. ASSUME NEW j \in Server \ {i} PROVE Known'[j] = Known[j]
  <2>1. PICK n \in Nat : n = commitIndex[j] /\ n <= Len(decided)
    BY <1>1 DEF KnownCut
  <2>2. Known[j] = [k \in 1..n |-> Chosen[k]]
    BY <2>1 DEF KnownCut, Cut
  <2>3. Known'[j] = [k \in 1..n |-> s[k]]
    BY <1>4, <1>6, <2>1
  <2>4. \A k \in 1..n : s[k] = Chosen[k]
    <3>1. Len(decided) \in Nat
      BY ChosenType
    <3>. QED
      BY <1>3, <1>5, <2>1, <3>1
  <2>. QED
    BY <2>2, <2>3, <2>4
<1>9. Known' = [Known EXCEPT ![i] = Chosen']
  <2>1. Known' = [j \in Server |-> Known'[j]] /\ Known = [j \in Server |-> Known[j]]
    BY DEF Known
  <2>. QED
    BY <1>7, <1>8, <2>1
<1>. QED
  BY <1>3, <1>9 DEF Abstract!Choose

\* Nothing known changes when no commit index does.
LEMMA KnownSame ==
    ASSUME KnownCut, KnownCut', decided' = decided, commitIndex' = commitIndex
    PROVE  Chosen' = Chosen /\ Known' = Known
<1>1. Chosen' = Chosen
  BY DEF Chosen
<1>2. PICK f : f = Chosen
  OBVIOUS
<1>3. ASSUME NEW j \in Server PROVE Known'[j] = Known[j]
  <2>1. Known[j] = [k \in 1..commitIndex[j] |-> f[k]]
    BY <1>2 DEF KnownCut, Cut
  <2>2. Known'[j] = [k \in 1..commitIndex'[j] |-> f[k]]
    BY <1>1, <1>2 DEF KnownCut, Cut
  <2>. QED
    BY <2>1, <2>2
<1>4. Known' = [j \in Server |-> Known'[j]] /\ Known = [j \in Server |-> Known[j]]
  BY DEF Known
<1>5. Known' = Known
  BY <1>3, <1>4
<1>. QED
  BY <1>1, <1>5

\* Applying is Apply.
LEMMA AppliesMaps ==
    ASSUME IInv, IInv', KnownCut, KnownCut', NEW i \in Server, Applies(i),
           lastApplied'[i] <= commitIndex'[i]
    PROVE  Abstract!Apply(i)
<1>1. PICK n \in Nat : /\ n > lastApplied[i] /\ lastApplied' = [lastApplied EXCEPT ![i] = n]
                       /\ decided' = decided /\ commitIndex' = commitIndex
  BY DEF Applies
<1>2. Chosen' = Chosen
  BY <1>1, KnownSame
<1>3. Known' = Known
  BY <1>1, KnownSame
<1>4. lastApplied \in [Server -> Nat]
  BY DEF IInv, NodeType, LogType
<1>5. lastApplied'[i] = n
  BY <1>1, <1>4
<1>6. n \in (lastApplied[i] + 1)..Len(Known[i])
  <2>1. Len(Known[i]) = commitIndex[i] /\ commitIndex[i] \in Nat /\ lastApplied[i] \in Nat
    BY KnownTyped, NodeFields
  <2>. QED
    BY <1>1, <1>5, <2>1
<1>. QED
  BY <1>1, <1>2, <1>3, <1>5, <1>6 DEF Abstract!Apply

\* A restart is Crash.
LEMMA ForgetsMaps ==
    ASSUME IInv, IInv', KnownCut, KnownCut', NEW i \in Server, Forgets(i)
    PROVE  Abstract!Crash(i)
<1>1. PICK c \in Nat, n \in Nat :
        /\ c <= commitIndex[i] /\ commitIndex' = [commitIndex EXCEPT ![i] = c]
        /\ n <= lastApplied[i] /\ lastApplied' = [lastApplied EXCEPT ![i] = n]
        /\ decided' = decided
  BY DEF Forgets
<1>2. commitIndex \in [Server -> Nat] /\ lastApplied \in [Server -> Nat]
  BY DEF IInv, NodeType, LogType
<1>3. /\ commitIndex'[i] = c /\ lastApplied'[i] = n
      /\ \A j \in Server \ {i} : commitIndex'[j] = commitIndex[j]
  BY <1>1, <1>2
<1>4. Chosen' = Chosen /\ Known' = [Known EXCEPT ![i] = Known'[i]]
  BY <1>1, <1>3, KnownKept
<1>5. Known'[i] \in Abstract!Prefixes(Known[i])
  <2>1. Known'[i] = Cut(c)
    BY <1>3, <1>4 DEF KnownCut, Cut
  <2>. QED
    BY <1>1, <2>1, KnownTyped
<1>6. lastApplied'[i] \in 0..lastApplied[i]
  BY <1>1, <1>2, <1>3
<1>. QED
  BY <1>1, <1>3, <1>4, <1>5, <1>6 DEF Abstract!Crash

\* Any other step is invisible.
LEMMA NothingMaps ==
    ASSUME KnownCut, KnownCut', Nothing
    PROVE  UNCHANGED Abstract!vars
<1>1. Chosen' = Chosen /\ Known' = Known
  BY KnownSame DEF Nothing
<1>. QED
  BY <1>1 DEF Nothing, Abstract!vars

\* Snapshots and applied entries are committed.
Bounds == \A i \in Server : snap[i].idx <= commitIndex[i] /\ lastApplied[i] <= commitIndex[i]

\* That is a part of the invariant.
LEMMA BoundsHold == LogSafe => Bounds
  BY DEF LogSafe, Core, Nodes, BoundOk, Bounds

\* The committed entries are a sequence as long as the committed sequence.
ChosenTyped == Chosen \in Seq(LogEntry) /\ Len(Chosen) = Len(decided)

\* The lemma above as an implication, for the state after a step.
LEMMA ChosenIsTyped == IInv => ChosenTyped
  BY ChosenType DEF ChosenTyped

\* Every step is a step of the abstract log, or invisible to it.
LEMMA StepMaps ==
    ASSUME MaxChanges = 0, IInv, IInv', StaticNode, KnownCut, KnownCut', ChosenTyped',
           Bounds, Bounds', Next
    PROVE  Abstract!Next \/ UNCHANGED Abstract!vars
<1>1. ASSUME NEW i \in Server, Gains(i) PROVE Abstract!Next
  <2>1. PICK c \in Nat : /\ c >= commitIndex[i] /\ commitIndex' = [commitIndex EXCEPT ![i] = c]
                         /\ decided' = decided \/ (Continues /\ c = Len(decided'))
                         /\ lastApplied' = lastApplied
    BY <1>1 DEF Gains
  <2>2. CASE decided' = decided
    BY <2>1, <2>2, LearnsMaps DEF Abstract!Next
  <2>3. CASE Continues /\ c = Len(decided')
    <3>1. Chosen' \in Seq(LogEntry) /\ Len(Chosen') = Len(decided')
      BY DEF ChosenTyped
    <3>2. commitIndex' = [commitIndex EXCEPT ![i] = Len(decided')]
      BY <2>1, <2>3
    <3>3. Abstract!Choose(i)
      BY <2>1, <2>3, <3>1, <3>2, ChoosesMaps
    <3>. QED
      BY <3>3 DEF Abstract!Next
  <2>. QED
    BY <2>1, <2>2, <2>3
<1>2. ASSUME NEW i \in Server, Applies(i) PROVE Abstract!Next
  <2>1. lastApplied'[i] <= commitIndex'[i]
    BY DEF Bounds
  <2>. QED
    BY <1>2, <2>1, AppliesMaps DEF Abstract!Next
<1>3. ASSUME NEW i \in Server, Forgets(i) PROVE Abstract!Next
  BY <1>3, ForgetsMaps DEF Abstract!Next
<1>4. Nothing \/ \E i \in Server : Gains(i) \/ Applies(i) \/ Forgets(i)
  BY Effects DEF Bounds
<1>. QED
  BY <1>1, <1>2, <1>3, <1>4, NothingMaps

\* The same under the invariant.
LEMMA StepRefines ==
    MaxChanges = 0 /\ ElectionInv /\ ElectionInv' /\ LogSafe /\ LogSafe'
      /\ CommittedAgree /\ CommittedAgree' /\ [Next]_vars
      => [Abstract!Next]_(Abstract!vars)
<1>. SUFFICES ASSUME MaxChanges = 0, ElectionInv, ElectionInv', LogSafe, LogSafe',
                     CommittedAgree, CommittedAgree', [Next]_vars
              PROVE  Abstract!Next \/ UNCHANGED Abstract!vars
  OBVIOUS
<1>1. IInv /\ IInv' /\ StaticNode
  BY DEF ElectionInv, MetaInv, StaticInv
<1>2. KnownCut
  BY <1>1, KnownIsCut
<1>3. (IInv /\ CommittedAgree => KnownCut)'
  BY KnownIsCut, PTL
<1>4. (LogSafe => Bounds)'
  BY BoundsHold, PTL
<1>5. (IInv => ChosenTyped)'
  BY ChosenIsTyped, PTL
<1>6. CASE UNCHANGED vars
  <2>1. Nothing
    BY <1>6 DEF vars, history, machine, Nothing
  <2>. QED
    BY <1>1, <1>2, <1>3, <2>1, NothingMaps
<1>7. CASE Next
  <2>1. Bounds
    BY BoundsHold
  <2>. QED
    BY <1>1, <1>2, <1>3, <1>4, <1>5, <1>7, <2>1, StepMaps
<1>. QED
  BY <1>6, <1>7

\* The initial states are those of the abstract log.
LEMMA InitRefines == Init => Abstract!Init
<1>. SUFFICES ASSUME Init PROVE Abstract!Init
  OBVIOUS
<1>1. decided = << >> /\ \A i \in Server : commitIndex[i] = 0
  BY DEF Init
<1>2. Chosen = << >>
  BY <1>1 DEF Chosen
<1>3. Known = [i \in Server |-> << >>]
  <2>1. \A i \in Server : 1..commitIndex[i] = {}
    BY <1>1
  <2>. QED
    BY <2>1 DEF Known
<1>4. lastApplied = [i \in Server |-> 0]
  BY DEF Init
<1>. QED
  BY <1>2, <1>3, <1>4 DEF Abstract!Init

\* raft.hpp implements the abstract replicated log: one sequence that only grows, of
\* which every node knows and applies a prefix, across elections, truncations, snapshots,
\* late requests and restarts.
THEOREM Implements ==
    ASSUME MaxChanges = 0
    PROVE  Spec /\ NoTermLost => ImplementsReplicatedLog
<1>1. ElectionInv /\ LogSafe => CommittedAgree
  BY CommittedIsHeld
<1>2. ElectionInv /\ ElectionInv' /\ LogSafe /\ LogSafe' /\ CommittedAgree /\ CommittedAgree'
        /\ [Next]_vars => [Abstract!Next]_(Abstract!vars)
  BY StepRefines
<1>. QED
  BY <1>1, <1>2, InitRefines, LogAlwaysSafe, PTL DEF Spec, ImplementsReplicatedLog, Abstract!Spec

\* With no failing writes or no restarts the hypothesis on terms is not needed.
THEOREM SafeWithoutLostTerms ==
    ASSUME MaxChanges = 0, MaxFaults = 0 \/ MaxRestarts = 0
    PROVE  /\ Spec => [](/\ LogMatching /\ LeaderCompleteness /\ CommittedAgree
                       /\ CommittedOnMajority /\ MatchInLog /\ SnapshotFaithful)
           /\ Spec => ImplementsReplicatedLog
<1>1. Spec => NoTermLost
  BY TermsNeverLost
<1>2. Spec => [](/\ LogMatching /\ LeaderCompleteness /\ CommittedAgree
                /\ CommittedOnMajority /\ MatchInLog /\ SnapshotFaithful)
  BY <1>1, LogMatchingHolds, LeadersAreComplete, CommittedEntriesAgree,
     CommittedStaysOnMajority, MatchIndexIsStored, SnapshotsStayFaithful, PTL
<1>3. Spec => ImplementsReplicatedLog
  BY <1>1, Implements
<1>. QED
  BY <1>2, <1>3
=============================================================================
