-------------------------- MODULE RaftReadsProofs --------------------------
(***************************************************************************)
(* Linearizable reads are never stale: whatever happens to leaders, clocks *)
(* and messages, a read index that was confirmed by a round of heartbeats  *)
(* covers all that was committed when the read began, and so does what a   *)
(* leader knows as long as its lease lasts.                                *)
(***************************************************************************)
EXTENDS RaftReads, FiniteSetTheorems, TLAPS

-----------------------------------------------------------------------------
\* Majorities of three nodes.

LEMMA MajorityTwo ==
    ASSUME NEW Q \in SUBSET Server, NEW x \in Q, NEW y \in Q, x # y
    PROVE  Majority(Q)
<1>1. IsFiniteSet(Q) /\ Cardinality(Q) \in Nat
  BY FS_Subset, FS_CardinalityType, ReadsAssumption
<1>2. IsFiniteSet({x}) /\ Cardinality({x}) = 1
  BY FS_Singleton
<1>3. IsFiniteSet({x} \cup {y}) /\ Cardinality({x} \cup {y}) = 2
  <2>1. y \notin {x}
    OBVIOUS
  <2>2. Cardinality({x} \cup {y}) = Cardinality({x}) + 1
    BY <1>2, <2>1, FS_AddElement, Zenon
  <2>3. IsFiniteSet({x} \cup {y})
    BY <1>2, FS_AddElement, Zenon
  <2>4. Cardinality({x}) + 1 = 2
    BY <1>2
  <2>. QED
    BY <2>2, <2>3, <2>4, Zenon
<1>4. Cardinality({x} \cup {y}) <= Cardinality(Q)
  <2>1. {x} \cup {y} \in SUBSET Q
    OBVIOUS
  <2>. QED
    BY <2>1, <1>1, FS_Subset
<1>. QED
  BY <1>1, <1>3, <1>4, ReadsAssumption DEF Majority

LEMMA MajorityMisses ==
    ASSUME NEW Q \in SUBSET Server, Majority(Q), NEW x \in Server, NEW y \in Server, x # y
    PROVE  x \in Q \/ y \in Q
<1>. SUFFICES ASSUME x \notin Q, y \notin Q
              PROVE  FALSE
  OBVIOUS
<1>1. IsFiniteSet(Server \ {x}) /\ Cardinality(Server \ {x}) = 2
  BY FS_RemoveElement, ReadsAssumption
<1>2. IsFiniteSet((Server \ {x}) \ {y}) /\ Cardinality((Server \ {x}) \ {y}) = 1
  BY <1>1, FS_RemoveElement
<1>3. Q \in SUBSET ((Server \ {x}) \ {y})
  OBVIOUS
<1>4. Cardinality(Q) <= 1 /\ IsFiniteSet(Q)
  BY <1>2, <1>3, FS_Subset
<1>. QED
  BY <1>4, FS_CardinalityType, ReadsAssumption DEF Majority

\* Two nodes besides each.
LEMMA TwoOthers ==
    ASSUME NEW n \in Server
    PROVE  \E x \in Server \ {n} : \E y \in Server \ {n} : x # y
<1>1. IsFiniteSet(Server \ {n}) /\ Cardinality(Server \ {n}) = 2
  BY FS_RemoveElement, ReadsAssumption
<1>2. PICK x \in Server \ {n} : TRUE
  BY <1>1, FS_EmptySet
<1>3. IsFiniteSet((Server \ {n}) \ {x}) /\ Cardinality((Server \ {n}) \ {x}) = 1
  BY <1>1, FS_RemoveElement
<1>4. PICK y \in (Server \ {n}) \ {x} : TRUE
  BY <1>3, FS_EmptySet
<1>. QED
  BY <1>2, <1>4

\* A majority has a node besides each.
LEMMA MajorityOther ==
    ASSUME NEW Q \in SUBSET Server, Majority(Q), NEW n \in Server
    PROVE  \E m \in Server \ {n} : m \in Q
<1>1. PICK x \in Server \ {n} : \E y \in Server \ {n} : x # y
  BY TwoOthers
<1>2. PICK y \in Server \ {n} : x # y
  BY <1>1
<1>. QED
  BY <1>2, MajorityMisses

LEMMA MajorityIs ==
    ASSUME NEW Q \in SUBSET Server
    PROVE  Majority(Q) <=> \E x \in Q : \E y \in Q : x # y
<1>1. ASSUME Majority(Q)
      PROVE  \E x \in Q : \E y \in Q : x # y
  <2>1. FirstLeader \in Server
    BY ReadsAssumption
  <2>2. PICK x \in Server : x \in Q
    BY <1>1, <2>1, MajorityOther
  <2>3. PICK y \in Server \ {x} : y \in Q
    BY <1>1, MajorityOther
  <2>. QED
    BY <2>2, <2>3
<1>. QED
  BY <1>1, MajorityTwo

-----------------------------------------------------------------------------
\* The inductive invariant.

EntryType == [term : Nat, idx : Nat]

RpcType ==
    [is : {"request", "reply", "refused"}, term : Nat, entry : EntryType, commit : EntryType,
     round : Nat, at : Nat]

ReadType == [is : {"read"}, term : Nat, idx : Nat, round : Nat, start : Nat]

ReadsTypeOK ==
    /\ now \in Nat /\ leads \in SUBSET Server
    /\ termOf \in [Server -> Nat]
    /\ lastEntry \in [Server -> EntryType] /\ knows \in [Server -> EntryType]
    /\ contact \in [Server -> Nat] /\ hb_round_ \in [Server -> Nat]
    /\ ackAt \in [Server -> [Server -> Nat]] /\ ackRound \in [Server -> [Server -> Nat]]
    /\ rpc \in [Server -> [Server -> RpcType \cup {NoRpc}]]
    /\ reading \in [Server -> ReadType \cup {NoRead}]
    /\ committed \in Nat
    /\ forgets \in Nat /\ sends \in Nat

\* A majority has reached term t, when f[x] is the term of each node x.
Reached(f, t) == Majority({x \in Server : f[x] >= t})

Past(t) == Reached(termOf, t)

\* A majority has entry e or a later one, when f[x] is the last entry of each node x.
Held(f, e) == Majority({x \in Server : UpToDate(f[x], e)})

\* All other nodes are in later terms than n.
Deposed(n) == \A m \in Server \ {n} : termOf[m] > termOf[n]

\* The entries that logs, commit indices and messages speak of.
Around(e) ==
    \/ \E x \in Server : e = lastEntry[x] \/ e = knows[x]
    \/ \E n, m \in Server : rpc[n][m] # NoRpc /\ (e = rpc[n][m].entry \/ e = rpc[n][m].commit)

\* Every entry of a later term than t is beyond index i.
Above(t, i) == \A e \in EntryType : Around(e) /\ e.term > t => e.idx > i

\* No term is anywhere that a majority has not reached.
TermsPast ==
    /\ \A x \in Server : Past(termOf[x])
    /\ \A e \in EntryType : Around(e) => Past(e.term)
    /\ \A n, m \in Server : rpc[n][m] # NoRpc => Past(rpc[n][m].term)

LeadersLast ==
    /\ \A n \in leads : lastEntry[n].term = termOf[n]
    /\ \A n, m \in leads : termOf[n] = termOf[m] => n = m

\* What is sent is in the sender's log; what is answered, in the receiver's.
RpcLogs ==
    \A n, m \in Server :
        /\ rpc[n][m].is \in {"request", "reply"} =>
              /\ rpc[n][m].entry.term = rpc[n][m].term /\ rpc[n][m].term <= termOf[n]
              /\ UpToDate(lastEntry[n], rpc[n][m].entry)
        /\ rpc[n][m].is = "reply" => UpToDate(lastEntry[m], rpc[n][m].entry)

\* An entry that a leader may commit on a reply is not overtaken by a later term.
RepliesHold ==
    \A n \in leads : \A m \in Server \ {n} :
        rpc[n][m].is = "reply" /\ rpc[n][m].term = termOf[n] => Above(termOf[n], rpc[n][m].entry.idx)

\* What is committed was committed in term t.
CommittedIn(t) ==
    /\ Past(t)
    /\ Held(lastEntry, [term |-> t, idx |-> committed])
    /\ Above(t, committed)
    /\ \A n \in leads : termOf[n] = t => knows[n].idx >= committed

CommittedHolds == \E t \in Nat : CommittedIn(t)

Rounds ==
    \A n, m \in Server :
        ackRound[n][m] <= hb_round_[n] /\ (rpc[n][m] # NoRpc => rpc[n][m].round <= hb_round_[n])

\* A read that is under way will be answered with all that was committed, or not at all.
ReadsHold ==
    \A n \in Server : reading[n] # NoRead =>
        /\ reading[n].term <= termOf[n] /\ reading[n].round <= hb_round_[n]
        /\ \/ reading[n].term < termOf[n]
           \/ reading[n].idx >= reading[n].start
           \/ /\ Deposed(n)
              /\ \A m \in Server \ {n} :
                    /\ ackRound[n][m] < reading[n].round
                    /\ rpc[n][m].is = "reply" => rpc[n][m].round < reading[n].round

Clocks ==
    /\ now >= 1
    /\ \A m \in Server : contact[m] <= now
    /\ \A n, m \in Server : rpc[n][m] # NoRpc => 1 <= rpc[n][m].at /\ rpc[n][m].at <= now

\* What a leader counts on, the peer has heard of.
ContactKept ==
    \A n \in Server : \A m \in Server \ {n} :
        /\ ackAt[n][m] <= contact[m]
        /\ rpc[n][m].is = "reply" => rpc[n][m].at <= contact[m]

\* The lease of a leader that has been deposed has run out.
LeaseOver ==
    \A n \in leads : Deposed(n) =>
        \A m \in Server \ {n} :
            /\ ackAt[n][m] > 0 => ackAt[n][m] + TimeoutMin <= now
            /\ rpc[n][m].is = "reply" /\ rpc[n][m].term = termOf[n] => rpc[n][m].at + TimeoutMin <= now

LeaseInv == forgets = 0 => ContactKept /\ LeaseOver

ReadsInv ==
    /\ ReadsTypeOK /\ TermsPast /\ LeadersLast /\ RpcLogs /\ RepliesHold /\ CommittedHolds
    /\ Rounds /\ ReadsHold /\ Clocks /\ LeaseInv /\ ReadsFresh

-----------------------------------------------------------------------------
\* Terms that a majority has reached, entries that a majority holds.

LEMMA ReachedIs ==
    ASSUME NEW f, NEW t
    PROVE  /\ Reached(f, t) <=> \E x \in Server : \E y \in Server \ {x} : f[x] >= t /\ f[y] >= t
           /\ Reached(f, t) => \A x \in Server : \A y \in Server \ {x} : f[x] >= t \/ f[y] >= t
<1>. DEFINE Q == {x \in Server : f[x] >= t}
<1>1. Q \in SUBSET Server
  OBVIOUS
<1>2. Majority(Q) <=> \E x \in Q : \E y \in Q : x # y
  BY <1>1, MajorityIs
<1>3. ASSUME Majority(Q), NEW x \in Server, NEW y \in Server \ {x}
      PROVE  x \in Q \/ y \in Q
  BY <1>1, <1>3, MajorityMisses
<1>. QED
  BY <1>2, <1>3 DEF Reached

LEMMA HeldIs ==
    ASSUME NEW f, NEW e
    PROVE  /\ Held(f, e) <=> \E x \in Server : \E y \in Server \ {x} : UpToDate(f[x], e) /\ UpToDate(f[y], e)
           /\ Held(f, e) => \A x \in Server : \A y \in Server \ {x} : UpToDate(f[x], e) \/ UpToDate(f[y], e)
<1>. DEFINE Q == {x \in Server : UpToDate(f[x], e)}
<1>1. Q \in SUBSET Server
  OBVIOUS
<1>2. Majority(Q) <=> \E x \in Q : \E y \in Q : x # y
  BY <1>1, MajorityIs
<1>3. ASSUME Majority(Q), NEW x \in Server, NEW y \in Server \ {x}
      PROVE  x \in Q \/ y \in Q
  BY <1>1, <1>3, MajorityMisses
<1>. QED
  BY <1>2, <1>3 DEF Held

LEMMA ReachedGrows ==
    ASSUME NEW f \in [Server -> Nat], NEW g \in [Server -> Nat], \A x \in Server : g[x] >= f[x],
           NEW t \in Nat, NEW u \in Nat, Reached(f, t), u <= t
    PROVE  Reached(g, u)
<1>1. PICK x \in Server : \E y \in Server \ {x} : f[x] >= t /\ f[y] >= t
  BY ReachedIs
<1>2. PICK y \in Server \ {x} : f[x] >= t /\ f[y] >= t
  BY <1>1
<1>3. g[x] >= u /\ g[y] >= u
  BY <1>2
<1>. QED
  BY <1>3, ReachedIs

LEMMA UpToDateTrans ==
    ASSUME NEW d \in EntryType, NEW e \in EntryType, NEW f \in EntryType,
           UpToDate(d, e), UpToDate(e, f)
    PROVE  UpToDate(d, f)
  BY DEF UpToDate, EntryType

LEMMA HeldGrows ==
    ASSUME NEW f \in [Server -> EntryType], NEW g \in [Server -> EntryType],
           \A x \in Server : UpToDate(g[x], f[x]), NEW e \in EntryType, Held(f, e)
    PROVE  Held(g, e)
<1>1. PICK x \in Server : \E y \in Server \ {x} : UpToDate(f[x], e) /\ UpToDate(f[y], e)
  BY HeldIs
<1>2. PICK y \in Server \ {x} : UpToDate(f[x], e) /\ UpToDate(f[y], e)
  BY <1>1
<1>3. UpToDate(g[x], e) /\ UpToDate(g[y], e)
  BY <1>2, UpToDateTrans
<1>. QED
  BY <1>3, HeldIs

\* A leader of a term that is not the last one any more is alone in it.
LEMMA PastDeposes ==
    ASSUME ReadsTypeOK, NEW n \in Server, NEW t \in Nat, Past(t), t > termOf[n]
    PROVE  Deposed(n)
<1>1. ASSUME NEW m \in Server \ {n}
      PROVE  termOf[m] >= t
  BY ReachedIs DEF Past, ReadsTypeOK
<1>. QED
  BY <1>1 DEF Deposed, ReadsTypeOK

-----------------------------------------------------------------------------
\* Types, and what only grows.

LEMMA ReadsInitTyped == ReadsInit => ReadsTypeOK
  BY ReadsAssumption DEF ReadsInit, ReadsTypeOK, EntryType, RpcType, ReadType, NoRpc, NoRead

\* What every record is, once for all.
LEMMA RpcFields ==
    ASSUME ReadsTypeOK, NEW n \in Server, NEW m \in Server
    PROVE  /\ rpc[n][m] = NoRpc <=> rpc[n][m].is = "none"
           /\ rpc[n][m] # NoRpc => rpc[n][m] \in RpcType
           /\ rpc[n][m].is \in {"none", "request", "reply", "refused"}
  BY DEF ReadsTypeOK, RpcType, NoRpc

LEMMA ReadFields ==
    ASSUME ReadsTypeOK, NEW n \in Server
    PROVE  /\ reading[n] = NoRead <=> reading[n].is = "none"
           /\ reading[n] # NoRead => reading[n] \in ReadType
           /\ reading[n].is \in {"none", "read"}
  BY DEF ReadsTypeOK, ReadType, NoRead

LEMMA ReadsNextTyped == ReadsTypeOK /\ [ReadsNext]_readVars => ReadsTypeOK'
<1>. SUFFICES ASSUME ReadsTypeOK, [ReadsNext]_readVars
              PROVE  ReadsTypeOK'
  OBVIOUS
<1>0. CASE UNCHANGED readVars
  BY <1>0 DEF ReadsTypeOK, readVars
<1>1. CASE NextMoment
  BY <1>1 DEF NextMoment, ReadsTypeOK
<1>2. ASSUME NEW n \in Server, Wins(n)
      PROVE  ReadsTypeOK'
  <2>1. PICK Q \in SUBSET (Server \ {n}) :
            /\ termOf' = [m \in Server |-> IF m \in Q \cup {n} THEN termOf[n] + 1 ELSE termOf[m]]
            /\ leads' = (leads \ Q) \cup {n}
    BY <1>2 DEF Wins
  <2>2. termOf' \in [Server -> Nat] /\ leads' \in SUBSET Server
    BY <2>1 DEF ReadsTypeOK
  <2>3. lastEntry' \in [Server -> EntryType] /\ ackAt' \in [Server -> [Server -> Nat]]
    BY <1>2 DEF Wins, ReadsTypeOK, EntryType
  <2>. QED
    BY <1>2, <2>2, <2>3 DEF Wins, ReadsTypeOK
<1>3. ASSUME NEW n \in Server, AppendWrite(n)
      PROVE  ReadsTypeOK'
  BY <1>3 DEF AppendWrite, ReadsTypeOK, EntryType
<1>4. ASSUME NEW n \in Server, LosesQuorum(n)
      PROVE  ReadsTypeOK'
  BY <1>4 DEF LosesQuorum, ReadsTypeOK
<1>5. ASSUME NEW n \in Server, Forgets(n)
      PROVE  ReadsTypeOK'
  BY <1>5 DEF Forgets, ReadsTypeOK, EntryType
<1>6. ASSUME NEW n \in Server, BeginReadIndex(n)
      PROVE  ReadsTypeOK'
  BY <1>6 DEF BeginReadIndex, ReadsTypeOK, ReadType, EntryType
<1>7. ASSUME NEW n \in Server, EndReadIndex(n)
      PROVE  ReadsTypeOK'
  BY <1>7 DEF EndReadIndex, ReadsTypeOK
<1>8. ASSUME NEW n \in Server, ReadIndexFails(n)
      PROVE  ReadsTypeOK'
  BY <1>8 DEF ReadIndexFails, ReadsTypeOK
<1>9. ASSUME NEW n \in Server, lease_read(n)
      PROVE  ReadsTypeOK'
  BY <1>9 DEF lease_read, ReadsTypeOK
<1>10. ASSUME NEW n \in Server, NEW m \in Server \ {n}, Send(n, m)
       PROVE  ReadsTypeOK'
  <2>1. [is |-> "request", term |-> termOf[n], entry |-> lastEntry[n], commit |-> knows[n],
         round |-> hb_round_[n], at |-> now] \in RpcType
    BY DEF ReadsTypeOK, RpcType
  <2>. QED
    BY <1>10, <2>1 DEF Send, ReadsTypeOK
<1>11. ASSUME NEW n \in Server, NEW m \in Server \ {n}, Receive(n, m)
       PROVE  ReadsTypeOK'
  <2>1. rpc[n][m] \in RpcType
    BY <1>11, RpcFields DEF Receive, NoRpc
  <2>2. CASE rpc[n][m].term < termOf[m]
    <3>1. [rpc[n][m] EXCEPT !.is = "refused", !.term = termOf[m]] \in RpcType
      BY <2>1 DEF RpcType, ReadsTypeOK
    <3>2. /\ rpc' = [rpc EXCEPT ![n][m] = [rpc[n][m] EXCEPT !.is = "refused", !.term = termOf[m]]]
          /\ UNCHANGED <<leads, termOf, lastEntry, knows, contact>>
      BY <1>11, <2>2 DEF Receive
    <3>3. rpc' \in [Server -> [Server -> RpcType \cup {NoRpc}]]
      BY <3>1, <3>2 DEF ReadsTypeOK
    <3>. QED
      BY <1>11, <3>2, <3>3 DEF Receive, ReadsTypeOK
  <2>3. CASE ~(rpc[n][m].term < termOf[m])
    <3>1. [rpc[n][m] EXCEPT !.is = "reply"] \in RpcType
      BY <2>1 DEF RpcType
    <3>2. rpc[n][m].term \in Nat /\ rpc[n][m].entry \in EntryType /\ rpc[n][m].commit \in EntryType
      BY <2>1 DEF RpcType
    <3>3. rpc' = [rpc EXCEPT ![n][m] = [rpc[n][m] EXCEPT !.is = "reply"]]
      BY <1>11, <2>3 DEF Receive
    <3>4. rpc' \in [Server -> [Server -> RpcType \cup {NoRpc}]]
      BY <3>1, <3>3 DEF ReadsTypeOK
    <3>5. /\ termOf' = [termOf EXCEPT ![m] = rpc[n][m].term]
          /\ leads' = leads \ {m}
          /\ contact' = [contact EXCEPT ![m] = now]
          /\ lastEntry' = [lastEntry EXCEPT ![m] =
                              IF UpToDate(rpc[n][m].entry, @) THEN rpc[n][m].entry ELSE @]
          /\ knows' = [knows EXCEPT ![m] = IF rpc[n][m].commit.idx > @.idx THEN rpc[n][m].commit ELSE @]
      BY <1>11, <2>3 DEF Receive
    <3>6. termOf' \in [Server -> Nat] /\ leads' \in SUBSET Server /\ contact' \in [Server -> Nat]
      BY <3>2, <3>5 DEF ReadsTypeOK
    <3>7. lastEntry' \in [Server -> EntryType] /\ knows' \in [Server -> EntryType]
      BY <3>2, <3>5 DEF ReadsTypeOK
    <3>. QED
      BY <1>11, <3>4, <3>6, <3>7 DEF Receive, ReadsTypeOK
  <2>. QED
    BY <2>2, <2>3
<1>12. ASSUME NEW n \in Server, NEW m \in Server \ {n}, ReceiveReply(n, m)
       PROVE  ReadsTypeOK'
  <2>1. rpc[n][m] \in RpcType
    BY <1>12, RpcFields DEF ReceiveReply, NoRpc
  <2>2. /\ rpc[n][m].term \in Nat /\ rpc[n][m].round \in Nat /\ rpc[n][m].at \in Nat
        /\ rpc[n][m].entry \in EntryType /\ rpc[n][m].entry.idx \in Nat
    BY <2>1 DEF RpcType, EntryType
  <2>3. termOf' \in [Server -> Nat] /\ leads' \in SUBSET Server
    BY <1>12, <2>2 DEF ReceiveReply, ReadsTypeOK
  <2>4. ackAt' \in [Server -> [Server -> Nat]] /\ ackRound' \in [Server -> [Server -> Nat]]
    BY <1>12, <2>2 DEF ReceiveReply, ReadsTypeOK
  <2>5. knows' \in [Server -> EntryType] /\ committed' \in Nat
    BY <1>12, <2>2 DEF ReceiveReply, ReadsTypeOK
  <2>6. rpc' \in [Server -> [Server -> RpcType \cup {NoRpc}]]
    BY <1>12 DEF ReceiveReply, ReadsTypeOK
  <2>. QED
    BY <1>12, <2>3, <2>4, <2>5, <2>6 DEF ReceiveReply, ReadsTypeOK
<1>13. ASSUME NEW n \in Server, NEW m \in Server \ {n}, Lost(n, m)
       PROVE  ReadsTypeOK'
  BY <1>13 DEF Lost, ReadsTypeOK
<1>. QED
  BY <1>0, <1>1, <1>2, <1>3, <1>4, <1>5, <1>6, <1>7, <1>8, <1>9, <1>10, <1>11, <1>12, <1>13 DEF ReadsNext

-----------------------------------------------------------------------------
\* The steps that have to do with more than reads and time.

quiet == <<leads, termOf, lastEntry, knows, contact, ackAt, ackRound, rpc, committed, forgets>>

LEMMA Steps ==
    ASSUME [ReadsNext]_readVars
    PROVE  \/ UNCHANGED quiet
           \/ \E n \in Server : Wins(n) \/ AppendWrite(n) \/ LosesQuorum(n) \/ Forgets(n)
           \/ \E n \in Server : \E m \in Server \ {n} :
                 Send(n, m) \/ Receive(n, m) \/ ReceiveReply(n, m) \/ Lost(n, m)
<1>1. ASSUME NEW n \in Server,
             BeginReadIndex(n) \/ EndReadIndex(n) \/ ReadIndexFails(n) \/ lease_read(n)
      PROVE  UNCHANGED quiet
  BY <1>1 DEF BeginReadIndex, EndReadIndex, ReadIndexFails, lease_read, quiet
<1>2. NextMoment \/ UNCHANGED readVars => UNCHANGED quiet
  BY DEF NextMoment, readVars, quiet
<1>. QED
  BY <1>1, <1>2 DEF ReadsNext


LEMMA WinsQuorum ==
    ASSUME ReadsTypeOK, NEW n \in Server, Wins(n)
    PROVE  \E Q \in SUBSET (Server \ {n}) :
              /\ Majority(Q \cup {n}) /\ \A v \in Q : MayVote(v, n)
              /\ termOf' = [m \in Server |-> IF m \in Q \cup {n} THEN termOf[n] + 1 ELSE termOf[m]]
              /\ leads' = (leads \ Q) \cup {n}
              /\ \A x \in Server : \A y \in Server \ {x} : x \in Q \cup {n} \/ y \in Q \cup {n}
<1>1. PICK Q \in SUBSET (Server \ {n}) :
          /\ Majority(Q \cup {n}) /\ \A v \in Q : MayVote(v, n)
          /\ termOf' = [m \in Server |-> IF m \in Q \cup {n} THEN termOf[n] + 1 ELSE termOf[m]]
          /\ leads' = (leads \ Q) \cup {n}
  BY DEF Wins
<1>2. Q \cup {n} \in SUBSET Server
  OBVIOUS
<1>3. \A x \in Server : \A y \in Server \ {x} : x \in Q \cup {n} \/ y \in Q \cup {n}
  BY <1>1, <1>2, MajorityMisses
<1>. QED
  BY <1>1, <1>3

\* The term of a new leader is new to everybody.
LEMMA WinsNew ==
    ASSUME ReadsTypeOK, NEW n \in Server, Wins(n), NEW t \in Nat, Past(t)
    PROVE  t <= termOf[n]
<1>1. PICK Q \in SUBSET (Server \ {n}) :
          /\ \A v \in Q : MayVote(v, n)
          /\ \A x \in Server : \A y \in Server \ {x} : x \in Q \cup {n} \/ y \in Q \cup {n}
  BY ZenonT(60), WinsQuorum
<1>2. PICK x \in Server : \E y \in Server \ {x} : termOf[x] >= t /\ termOf[y] >= t
  BY ReachedIs DEF Past
<1>3. PICK y \in Server \ {x} : termOf[x] >= t /\ termOf[y] >= t
  BY <1>2
<1>4. \A v \in Q \cup {n} : termOf[v] <= termOf[n]
  BY <1>1 DEF MayVote, ReadsTypeOK
<1>. QED
  BY <1>1, <1>3, <1>4 DEF ReadsTypeOK

LEMMA WinsReached ==
    ASSUME ReadsTypeOK, NEW n \in Server, Wins(n)
    PROVE  Reached(termOf', termOf[n] + 1)
<1>1. PICK Q \in SUBSET (Server \ {n}) :
          /\ termOf' = [m \in Server |-> IF m \in Q \cup {n} THEN termOf[n] + 1 ELSE termOf[m]]
          /\ \A x \in Server : \A y \in Server \ {x} : x \in Q \cup {n} \/ y \in Q \cup {n}
  BY WinsQuorum
<1>2. PICK x \in Server \ {n} : \E y \in Server \ {n} : x # y
  BY TwoOthers
<1>3. PICK y \in Server \ {n} : x # y
  BY <1>2
<1>4. PICK v \in Server \ {n} : v \in Q
  BY <1>1, <1>3
<1>5. termOf'[v] >= termOf[n] + 1 /\ termOf'[n] >= termOf[n] + 1
  BY <1>1, <1>4 DEF ReadsTypeOK
<1>. QED
  BY <1>4, <1>5, ReachedIs

LEMMA TermsGrow ==
    ASSUME ReadsTypeOK, [ReadsNext]_readVars, NEW x \in Server
    PROVE  /\ termOf'[x] \in Nat /\ termOf'[x] >= termOf[x]
           /\ \/ termOf'[x] = termOf[x]
              \/ \E n \in Server : Wins(n) /\ termOf'[x] = termOf[n] + 1
              \/ \E n, m \in Server : rpc[n][m] # NoRpc /\ termOf'[x] = rpc[n][m].term
<1>0. termOf[x] \in Nat /\ termOf'[x] \in Nat
  BY ReadsNextTyped DEF ReadsTypeOK
<1>1. ASSUME NEW n \in Server, Wins(n)
      PROVE  \/ termOf'[x] = termOf[x]
             \/ termOf'[x] = termOf[n] + 1 /\ termOf'[x] >= termOf[x]
  <2>1. PICK Q \in SUBSET (Server \ {n}) :
            /\ \A v \in Q : MayVote(v, n)
            /\ termOf' = [m \in Server |-> IF m \in Q \cup {n} THEN termOf[n] + 1 ELSE termOf[m]]
    BY <1>1, WinsQuorum
  <2>. QED
    BY <2>1 DEF MayVote, ReadsTypeOK
<1>2. ASSUME NEW n \in Server, NEW m \in Server \ {n}, Receive(n, m)
      PROVE  \/ termOf'[x] = termOf[x]
             \/ rpc[n][m] # NoRpc /\ termOf'[x] = rpc[n][m].term /\ termOf'[x] >= termOf[x]
  <2>1. rpc[n][m] # NoRpc /\ rpc[n][m].term \in Nat
    BY <1>2, RpcFields DEF Receive, NoRpc, RpcType
  <2>2. \/ termOf' = termOf
        \/ ~(rpc[n][m].term < termOf[m]) /\ termOf' = [termOf EXCEPT ![m] = rpc[n][m].term]
    BY <1>2 DEF Receive
  <2>. QED
    BY <2>1, <2>2 DEF ReadsTypeOK
<1>3. ASSUME NEW n \in Server, NEW m \in Server \ {n}, ReceiveReply(n, m)
      PROVE  \/ termOf'[x] = termOf[x]
             \/ rpc[n][m] # NoRpc /\ termOf'[x] = rpc[n][m].term /\ termOf'[x] >= termOf[x]
  <2>1. rpc[n][m] # NoRpc /\ rpc[n][m].term \in Nat
    BY <1>3, RpcFields DEF ReceiveReply, NoRpc, RpcType
  <2>2. termOf' = [termOf EXCEPT ![n] = IF rpc[n][m].term > @ THEN rpc[n][m].term ELSE @]
    BY <1>3 DEF ReceiveReply
  <2>. QED
    BY <2>1, <2>2 DEF ReadsTypeOK
<1>4. CASE UNCHANGED termOf
  BY <1>0, <1>4
<1>5. \/ UNCHANGED termOf
      \/ \E n \in Server : Wins(n)
      \/ \E n \in Server : \E m \in Server \ {n} : Receive(n, m) \/ ReceiveReply(n, m)
  BY Steps DEF quiet, AppendWrite, LosesQuorum, Forgets, Send, Lost
<1>. QED
  BY <1>0, <1>1, <1>2, <1>3, <1>4, <1>5

\* Only a winner becomes leader; the others that lead stay in their terms.
LEMMA LeadsFrom ==
    ASSUME ReadsTypeOK, [ReadsNext]_readVars, NEW x \in leads', ~Wins(x)
    PROVE  x \in leads /\ x \in Server /\ termOf'[x] = termOf[x]
<1>0. leads \in SUBSET Server
  BY DEF ReadsTypeOK
<1>1. ASSUME NEW n \in Server, Wins(n)
      PROVE  x \in leads /\ termOf'[x] = termOf[x]
  <2>1. PICK Q \in SUBSET (Server \ {n}) :
            /\ termOf' = [m \in Server |-> IF m \in Q \cup {n} THEN termOf[n] + 1 ELSE termOf[m]]
            /\ leads' = (leads \ Q) \cup {n}
    BY <1>1, WinsQuorum
  <2>2. x # n
    BY <1>1
  <2>. QED
    BY <2>1, <2>2, <1>0 DEF ReadsTypeOK
<1>2. ASSUME NEW n \in Server, NEW m \in Server \ {n}, Receive(n, m)
      PROVE  x \in leads /\ termOf'[x] = termOf[x]
  <2>1. \/ termOf' = termOf /\ leads' = leads
        \/ termOf' = [termOf EXCEPT ![m] = rpc[n][m].term] /\ leads' = leads \ {m}
    BY <1>2 DEF Receive
  <2>. QED
    BY <2>1, <1>0 DEF ReadsTypeOK
<1>3. ASSUME NEW n \in Server, NEW m \in Server \ {n}, ReceiveReply(n, m)
      PROVE  x \in leads /\ termOf'[x] = termOf[x]
  <2>1. /\ termOf' = [termOf EXCEPT ![n] = IF rpc[n][m].term > @ THEN rpc[n][m].term ELSE @]
        /\ leads' = IF rpc[n][m].term > termOf[n] THEN leads \ {n} ELSE leads
    BY <1>3 DEF ReceiveReply
  <2>. QED
    BY <2>1, <1>0 DEF ReadsTypeOK
<1>4. CASE UNCHANGED termOf /\ leads' \subseteq leads
  BY <1>0, <1>4
<1>5. \/ UNCHANGED termOf /\ leads' \subseteq leads
      \/ \E n \in Server : Wins(n)
      \/ \E n \in Server : \E m \in Server \ {n} : Receive(n, m) \/ ReceiveReply(n, m)
  BY Steps DEF quiet, AppendWrite, LosesQuorum, Forgets, Send, Lost
<1>. QED
  BY <1>0, <1>1, <1>2, <1>3, <1>4, <1>5

LEMMA RpcFrom ==
    ASSUME ReadsTypeOK, [ReadsNext]_readVars, NEW x \in Server, NEW y \in Server
    PROVE  \/ rpc'[x][y] = rpc[x][y] \/ rpc'[x][y] = NoRpc
           \/ Send(x, y) /\ y # x
           \/ Receive(x, y) /\ y # x
<1>1. ASSUME NEW n \in Server, NEW m \in Server \ {n}, Send(n, m) \/ Receive(n, m), x # n \/ y # m
      PROVE  rpc'[x][y] = rpc[x][y]
  <2>1. CASE Send(n, m)
    BY <1>1, <2>1 DEF Send, ReadsTypeOK
  <2>2. CASE Receive(n, m)
    <3>1. \E r : rpc' = [rpc EXCEPT ![n][m] = r]
      BY <2>2 DEF Receive
    <3>. QED
      BY <1>1, <3>1 DEF ReadsTypeOK
  <2>. QED
    BY <1>1, <2>1, <2>2
<1>2. ASSUME NEW n \in Server, NEW m \in Server \ {n}, ReceiveReply(n, m) \/ Lost(n, m)
      PROVE  rpc'[x][y] = rpc[x][y] \/ rpc'[x][y] = NoRpc
  <2>1. rpc' = [rpc EXCEPT ![n][m] = NoRpc]
    BY <1>2 DEF ReceiveReply, Lost
  <2>. QED
    BY <2>1 DEF ReadsTypeOK
<1>3. ASSUME NEW n \in Server, Forgets(n)
      PROVE  rpc'[x][y] = rpc[x][y] \/ rpc'[x][y] = NoRpc
  BY <1>3 DEF Forgets, ReadsTypeOK
<1>4. \/ UNCHANGED rpc
      \/ \E n \in Server : Forgets(n)
      \/ \E n \in Server : \E m \in Server \ {n} :
            Send(n, m) \/ Receive(n, m) \/ ReceiveReply(n, m) \/ Lost(n, m)
  BY Steps DEF quiet, Wins, AppendWrite, LosesQuorum
<1>. QED
  BY <1>1, <1>2, <1>3, <1>4

\* What is received comes back as a reply, or as a refusal that keeps all but the term.
LEMMA Received ==
    ASSUME ReadsTypeOK, NEW n \in Server, NEW m \in Server \ {n}, Receive(n, m)
    PROVE  /\ rpc[n][m].is = "request" /\ rpc[n][m] # NoRpc /\ rpc[n][m] \in RpcType
           /\ rpc'[n][m] \in RpcType
           /\ \A x, y \in Server : (x # n \/ y # m) => rpc'[x][y] = rpc[x][y]
           /\ rpc'[n][m].entry = rpc[n][m].entry /\ rpc'[n][m].commit = rpc[n][m].commit
           /\ rpc'[n][m].round = rpc[n][m].round /\ rpc'[n][m].at = rpc[n][m].at
           /\ \/ /\ rpc[n][m].term < termOf[m]
                 /\ rpc'[n][m].is = "refused" /\ rpc'[n][m].term = termOf[m]
                 /\ UNCHANGED <<leads, termOf, lastEntry, knows, contact>>
              \/ /\ rpc[n][m].term >= termOf[m]
                 /\ rpc'[n][m].is = "reply" /\ rpc'[n][m].term = rpc[n][m].term
                 /\ termOf' = [termOf EXCEPT ![m] = rpc[n][m].term]
                 /\ leads' = leads \ {m}
                 /\ contact' = [contact EXCEPT ![m] = now]
                 /\ lastEntry' = [lastEntry EXCEPT ![m] =
                        IF UpToDate(rpc[n][m].entry, @) THEN rpc[n][m].entry ELSE @]
                 /\ knows' = [knows EXCEPT ![m] = IF rpc[n][m].commit.idx > @.idx
                                                  THEN rpc[n][m].commit ELSE @]
<1>0. rpc[n][m].is = "request" /\ rpc[n][m] # NoRpc /\ rpc[n][m] \in RpcType
  BY RpcFields DEF Receive, NoRpc
<1>1. CASE rpc[n][m].term < termOf[m]
  <2>1. /\ rpc' = [rpc EXCEPT ![n][m] = [rpc[n][m] EXCEPT !.is = "refused", !.term = termOf[m]]]
        /\ UNCHANGED <<leads, termOf, lastEntry, knows, contact>>
    BY <1>1 DEF Receive
  <2>2. \A x, y \in Server : (x # n \/ y # m) => rpc'[x][y] = rpc[x][y]
    BY <2>1 DEF ReadsTypeOK
  <2>3. rpc'[n][m] = [rpc[n][m] EXCEPT !.is = "refused", !.term = termOf[m]]
    BY <2>1 DEF ReadsTypeOK
  <2>4. rpc'[n][m] \in RpcType
    BY <1>0, <2>3 DEF RpcType, ReadsTypeOK
  <2>5. /\ rpc'[n][m].entry = rpc[n][m].entry /\ rpc'[n][m].commit = rpc[n][m].commit
        /\ rpc'[n][m].round = rpc[n][m].round /\ rpc'[n][m].at = rpc[n][m].at
        /\ rpc'[n][m].is = "refused" /\ rpc'[n][m].term = termOf[m]
    BY <1>0, <2>3 DEF RpcType
  <2>. QED
    BY <1>0, <1>1, <2>1, <2>2, <2>4, <2>5
<1>2. CASE ~(rpc[n][m].term < termOf[m])
  <2>1. /\ rpc' = [rpc EXCEPT ![n][m] = [rpc[n][m] EXCEPT !.is = "reply"]]
        /\ termOf' = [termOf EXCEPT ![m] = rpc[n][m].term]
        /\ leads' = leads \ {m}
        /\ contact' = [contact EXCEPT ![m] = now]
        /\ lastEntry' = [lastEntry EXCEPT ![m] =
               IF UpToDate(rpc[n][m].entry, @) THEN rpc[n][m].entry ELSE @]
        /\ knows' = [knows EXCEPT ![m] = IF rpc[n][m].commit.idx > @.idx
                                         THEN rpc[n][m].commit ELSE @]
    BY <1>2 DEF Receive
  <2>2. \A x, y \in Server : (x # n \/ y # m) => rpc'[x][y] = rpc[x][y]
    BY <2>1 DEF ReadsTypeOK
  <2>3. rpc'[n][m] = [rpc[n][m] EXCEPT !.is = "reply"]
    BY <2>1 DEF ReadsTypeOK
  <2>4. rpc'[n][m] \in RpcType
    BY <1>0, <2>3 DEF RpcType
  <2>5. rpc[n][m].term >= termOf[m]
    BY <1>0, <1>2 DEF RpcType, ReadsTypeOK
  <2>. QED
    BY <1>0, <2>1, <2>2, <2>3, <2>4, <2>5 DEF RpcType
<1>. QED
  BY <1>1, <1>2

LEMMA Replied ==
    ASSUME ReadsTypeOK, NEW n \in Server, NEW m \in Server \ {n}, ReceiveReply(n, m)
    PROVE  /\ rpc[n][m].is \in {"reply", "refused"} /\ rpc[n][m] # NoRpc /\ rpc[n][m] \in RpcType
           /\ rpc[n][m].term \in Nat /\ rpc[n][m].round \in Nat /\ rpc[n][m].at \in Nat
           /\ rpc[n][m].entry \in EntryType /\ rpc[n][m].entry.term \in Nat /\ rpc[n][m].entry.idx \in Nat
  BY RpcFields DEF ReceiveReply, NoRpc, RpcType, EntryType

\* Who changes the logs.
LEMMA LogsFrom ==
    ASSUME [ReadsNext]_readVars
    PROVE  \/ UNCHANGED lastEntry
           \/ \E n \in Server : Wins(n) \/ AppendWrite(n)
           \/ \E n \in Server : \E m \in Server \ {n} : Receive(n, m)
<1>1. ASSUME NEW n \in Server, NEW m \in Server, Send(n, m) \/ ReceiveReply(n, m) \/ Lost(n, m)
      PROVE  UNCHANGED lastEntry
  BY <1>1 DEF Send, ReceiveReply, Lost
<1>2. ASSUME NEW n \in Server, LosesQuorum(n) \/ Forgets(n) \/ BeginReadIndex(n) \/ EndReadIndex(n)
                                \/ ReadIndexFails(n) \/ lease_read(n)
      PROVE  UNCHANGED lastEntry
  BY <1>2 DEF LosesQuorum, Forgets, BeginReadIndex, EndReadIndex, ReadIndexFails, lease_read
<1>3. NextMoment \/ UNCHANGED readVars => UNCHANGED lastEntry
  BY DEF NextMoment, readVars
<1>. QED
  BY <1>1, <1>2, <1>3 DEF ReadsNext

\* An entry that is around was around before, or it was appended in this step, or it is none.
LEMMA AroundFrom ==
    ASSUME ReadsTypeOK, [ReadsNext]_readVars, NEW e \in EntryType, Around(e)'
    PROVE  \/ Around(e) \/ e.term = 0
           \/ \E n \in Server : (Wins(n) \/ AppendWrite(n)) /\ e = lastEntry'[n]
<1>. DEFINE Ok == \/ Around(e) \/ e.term = 0
                  \/ \E n \in Server : (Wins(n) \/ AppendWrite(n)) /\ e = lastEntry'[n]
<1>1. ASSUME NEW x \in Server
      PROVE  Around(lastEntry[x]) /\ Around(knows[x])
  BY DEF Around
<1>2. ASSUME NEW n \in Server, NEW m \in Server, rpc[n][m] # NoRpc
      PROVE  Around(rpc[n][m].entry) /\ Around(rpc[n][m].commit)
  BY <1>2 DEF Around
<1>3. ASSUME NEW x \in Server, e = lastEntry'[x]
      PROVE  Ok
  <2>1. CASE lastEntry'[x] = lastEntry[x]
    BY <1>1, <1>3, <2>1
  <2>2. ASSUME NEW n \in Server, Wins(n) \/ AppendWrite(n)
        PROVE  Ok
    <3>1. CASE x = n
      BY <1>3, <2>2, <3>1
    <3>2. CASE x # n
      <4>1. lastEntry'[x] = lastEntry[x]
        BY <2>2, <3>2 DEF Wins, AppendWrite, ReadsTypeOK
      <4>. QED
        BY <4>1, <2>1
    <3>. QED
      BY <3>1, <3>2
  <2>3. ASSUME NEW n \in Server, NEW m \in Server \ {n}, Receive(n, m)
        PROVE  Ok
    <3>1. lastEntry'[x] = lastEntry[x] \/ lastEntry'[x] = rpc[n][m].entry
      BY <2>3, Received DEF ReadsTypeOK
    <3>2. rpc[n][m] # NoRpc
      BY <2>3, Received
    <3>. QED
      BY <1>2, <1>3, <2>1, <3>1, <3>2
  <2>. QED
    BY <2>1, <2>2, <2>3, LogsFrom
<1>4. ASSUME NEW x \in Server, e = knows'[x]
      PROVE  Ok
  <2>1. CASE knows'[x] = knows[x]
    BY <1>1, <1>4, <2>1
  <2>2. ASSUME NEW n \in Server, Forgets(n)
        PROVE  Ok
    <3>1. knows'[x] = knows[x] \/ knows'[x] = [term |-> 0, idx |-> 0]
      BY <2>2 DEF Forgets, ReadsTypeOK
    <3>. QED
      BY <1>4, <2>1, <3>1
  <2>3. ASSUME NEW n \in Server, NEW m \in Server \ {n}, Receive(n, m)
        PROVE  Ok
    <3>1. knows'[x] = knows[x] \/ knows'[x] = rpc[n][m].commit
      BY <2>3, Received DEF ReadsTypeOK
    <3>2. rpc[n][m] # NoRpc
      BY <2>3, Received
    <3>. QED
      BY <1>2, <1>4, <2>1, <3>1, <3>2
  <2>4. ASSUME NEW n \in Server, NEW m \in Server \ {n}, ReceiveReply(n, m)
        PROVE  Ok
    <3>1. knows' = knows \/ knows' = [knows EXCEPT ![n] = rpc[n][m].entry]
      BY <2>4 DEF ReceiveReply
    <3>2. knows'[x] = knows[x] \/ knows'[x] = rpc[n][m].entry
      BY <3>1 DEF ReadsTypeOK
    <3>3. rpc[n][m] # NoRpc
      BY <2>4, Replied
    <3>. QED
      BY <1>2, <1>4, <2>1, <3>2, <3>3
  <2>5. \/ UNCHANGED knows
        \/ \E n \in Server : Forgets(n)
        \/ \E n \in Server : \E m \in Server \ {n} : Receive(n, m) \/ ReceiveReply(n, m)
    BY Steps DEF quiet, Wins, AppendWrite, LosesQuorum, Send, Lost
  <2>. QED
    BY <2>1, <2>2, <2>3, <2>4, <2>5
<1>5. ASSUME NEW x \in Server, NEW y \in Server, rpc'[x][y] # NoRpc,
             e = rpc'[x][y].entry \/ e = rpc'[x][y].commit
      PROVE  Ok
  <2>1. CASE rpc'[x][y] = rpc[x][y]
    BY <1>2, <1>5, <2>1
  <2>2. CASE Send(x, y) /\ y # x
    <3>1. rpc'[x][y].entry = lastEntry[x] /\ rpc'[x][y].commit = knows[x]
      BY <2>2 DEF Send, ReadsTypeOK
    <3>. QED
      BY <1>1, <1>5, <3>1
  <2>3. CASE Receive(x, y) /\ y # x
    <3>1. /\ rpc'[x][y].entry = rpc[x][y].entry /\ rpc'[x][y].commit = rpc[x][y].commit
          /\ rpc[x][y] # NoRpc
      BY <2>3, Received
    <3>. QED
      BY <1>2, <1>5, <3>1
  <2>. QED
    BY <1>5, <2>1, <2>2, <2>3, RpcFrom
<1>. QED
  BY <1>3, <1>4, <1>5 DEF Around

LEMMA LogsGrow ==
    ASSUME ReadsTypeOK, TermsPast, LeadersLast, [ReadsNext]_readVars, NEW x \in Server
    PROVE  UpToDate(lastEntry'[x], lastEntry[x])
<1>0. lastEntry[x] \in EntryType /\ lastEntry[x].term \in Nat /\ lastEntry[x].idx \in Nat
  BY DEF ReadsTypeOK, EntryType
<1>1. CASE lastEntry'[x] = lastEntry[x]
  BY <1>0, <1>1 DEF UpToDate
<1>2. ASSUME NEW n \in Server, Wins(n)
      PROVE  UpToDate(lastEntry'[x], lastEntry[x])
  <2>1. CASE x = n
    <3>1. Around(lastEntry[x])
      BY DEF Around
    <3>2. lastEntry[x].term <= termOf[n]
      BY <1>0, <1>2, <3>1, WinsNew DEF TermsPast
    <3>3. lastEntry'[x].term = termOf[n] + 1
      BY <1>2, <2>1 DEF Wins, ReadsTypeOK
    <3>. QED
      BY <1>0, <3>2, <3>3 DEF UpToDate, ReadsTypeOK
  <2>2. CASE x # n
    BY <1>1, <1>2, <2>2 DEF Wins, ReadsTypeOK
  <2>. QED
    BY <2>1, <2>2
<1>3. ASSUME NEW n \in Server, AppendWrite(n)
      PROVE  UpToDate(lastEntry'[x], lastEntry[x])
  <2>1. CASE x = n
    <3>1. lastEntry[x].term = termOf[n]
      BY <1>3, <2>1 DEF AppendWrite, LeadersLast
    <3>2. lastEntry'[x].term = termOf[n] /\ lastEntry'[x].idx = lastEntry[x].idx + 1
      BY <1>3, <2>1 DEF AppendWrite, ReadsTypeOK
    <3>. QED
      BY <1>0, <3>1, <3>2 DEF UpToDate
  <2>2. CASE x # n
    BY <1>1, <1>3, <2>2 DEF AppendWrite, ReadsTypeOK
  <2>. QED
    BY <2>1, <2>2
<1>4. ASSUME NEW n \in Server, NEW m \in Server \ {n}, Receive(n, m)
      PROVE  UpToDate(lastEntry'[x], lastEntry[x])
  <2>1. \/ lastEntry'[x] = lastEntry[x]
        \/ lastEntry'[x] = rpc[n][m].entry /\ UpToDate(rpc[n][m].entry, lastEntry[x])
    BY <1>4, Received DEF ReadsTypeOK
  <2>. QED
    BY <1>1, <2>1
<1>. QED
  BY <1>1, <1>2, <1>3, <1>4, LogsFrom

-----------------------------------------------------------------------------
\* One lemma for each part of the invariant.

LEMMA PastStays ==
    ASSUME ReadsTypeOK, [ReadsNext]_readVars, NEW t \in Nat, Past(t)
    PROVE  Reached(termOf', t)
<1>1. termOf \in [Server -> Nat] /\ termOf' \in [Server -> Nat]
  BY ReadsNextTyped DEF ReadsTypeOK
<1>2. \A x \in Server : termOf'[x] >= termOf[x]
  BY TermsGrow
<1>. QED
  BY <1>1, <1>2, ReachedGrows DEF Past

LEMMA TermsPastStep ==
    ASSUME ReadsTypeOK, TermsPast, LeadersLast, [ReadsNext]_readVars
    PROVE  TermsPast'
<1>0. ReadsTypeOK'
  BY ReadsNextTyped
<1>1. ASSUME NEW x \in Server
      PROVE  Reached(termOf', termOf'[x])
  <2>1. termOf[x] \in Nat
    BY DEF ReadsTypeOK
  <2>2. CASE termOf'[x] = termOf[x]
    BY <2>1, <2>2, PastStays DEF TermsPast
  <2>3. ASSUME NEW n \in Server, Wins(n), termOf'[x] = termOf[n] + 1
        PROVE  Reached(termOf', termOf'[x])
    BY <2>3, WinsReached
  <2>4. ASSUME NEW n \in Server, NEW m \in Server, rpc[n][m] # NoRpc, termOf'[x] = rpc[n][m].term
        PROVE  Reached(termOf', termOf'[x])
    <3>1. rpc[n][m].term \in Nat
      BY <2>4, RpcFields DEF RpcType
    <3>. QED
      BY <2>4, <3>1, PastStays DEF TermsPast
  <2>. QED
    BY <2>2, <2>3, <2>4, TermsGrow
<1>2. ASSUME NEW e \in EntryType, Around(e)'
      PROVE  Reached(termOf', e.term)
  <2>0. e.term \in Nat
    BY DEF EntryType
  <2>1. CASE Around(e)
    BY <2>0, <2>1, PastStays DEF TermsPast
  <2>2. CASE e.term = 0
    <3>1. FirstLeader \in Server
      BY ReadsAssumption
    <3>2. termOf[FirstLeader] \in Nat /\ Past(termOf[FirstLeader])
      BY <3>1 DEF TermsPast, ReadsTypeOK
    <3>3. PICK u \in Nat : u = termOf[FirstLeader]
      BY <3>2
    <3>4. Reached(termOf, u) /\ termOf \in [Server -> Nat] /\ 0 <= u /\ \A x \in Server : termOf[x] >= termOf[x]
      BY <3>2, <3>3 DEF Past, ReadsTypeOK
    <3>5. Reached(termOf, 0)
      BY <3>4, ReachedGrows
    <3>. QED
      BY <2>2, <3>5, PastStays DEF Past
  <2>3. ASSUME NEW n \in Server, Wins(n), e = lastEntry'[n]
        PROVE  Reached(termOf', e.term)
    <3>1. e.term = termOf[n] + 1
      BY <2>3 DEF Wins, ReadsTypeOK
    <3>. QED
      BY <2>3, <3>1, WinsReached
  <2>4. ASSUME NEW n \in Server, AppendWrite(n), e = lastEntry'[n]
        PROVE  Reached(termOf', e.term)
    <3>1. e.term = termOf[n]
      BY <2>4 DEF AppendWrite, ReadsTypeOK
    <3>. QED
      BY <2>0, <3>1, PastStays DEF TermsPast
  <2>. QED
    BY <1>2, <2>1, <2>2, <2>3, <2>4, AroundFrom
<1>3. ASSUME NEW n \in Server, NEW m \in Server, rpc'[n][m] # NoRpc
      PROVE  Reached(termOf', rpc'[n][m].term)
  <2>1. CASE rpc'[n][m] = rpc[n][m]
    <3>1. rpc[n][m].term \in Nat
      BY <1>3, <2>1, RpcFields DEF RpcType
    <3>. QED
      BY <1>3, <2>1, <3>1, PastStays DEF TermsPast
  <2>2. CASE Send(n, m)
    <3>1. rpc'[n][m].term = termOf[n] /\ termOf[n] \in Nat
      BY <2>2 DEF Send, ReadsTypeOK
    <3>. QED
      BY <3>1, PastStays DEF TermsPast
  <2>3. CASE Receive(n, m) /\ m # n
    <3>1. rpc'[n][m].term = rpc[n][m].term \/ rpc'[n][m].term = termOf[m]
      BY <2>3, Received
    <3>2. rpc[n][m] # NoRpc /\ rpc[n][m].term \in Nat /\ termOf[m] \in Nat
      BY <2>3, Received DEF RpcType, ReadsTypeOK
    <3>. QED
      BY <3>1, <3>2, PastStays DEF TermsPast
  <2>. QED
    BY <1>3, <2>1, <2>2, <2>3, RpcFrom
<1>. QED
  BY <1>1, <1>2, <1>3 DEF TermsPast, Past

LEMMA LeadersLastStep ==
    ASSUME ReadsTypeOK, TermsPast, LeadersLast, [ReadsNext]_readVars
    PROVE  LeadersLast'
<1>0. leads' \in SUBSET Server
  BY ReadsNextTyped DEF ReadsTypeOK
<1>1. ASSUME NEW x \in leads'
      PROVE  lastEntry'[x].term = termOf'[x]
  <2>1. CASE Wins(x)
    <3>1. termOf'[x] = termOf[x] + 1
      <4>1. x \in Server
        BY <1>0
      <4>2. PICK Q \in SUBSET (Server \ {x}) :
                termOf' = [m \in Server |-> IF m \in Q \cup {x} THEN termOf[x] + 1 ELSE termOf[m]]
        BY <2>1, <4>1, WinsQuorum
      <4>. QED
        BY <4>1, <4>2
    <3>. QED
      BY <1>0, <2>1, <3>1 DEF Wins, ReadsTypeOK
  <2>2. CASE ~Wins(x)
    <3>1. x \in leads /\ x \in Server /\ termOf'[x] = termOf[x]
      BY <2>2, LeadsFrom
    <3>2. ASSUME NEW n \in Server, Wins(n) \/ AppendWrite(n)
          PROVE  lastEntry'[x].term = lastEntry[x].term
      <4>1. CASE Wins(n)
        <5>1. n # x
          BY <2>2, <4>1
        <5>. QED
          BY <3>1, <4>1, <5>1 DEF Wins, ReadsTypeOK
      <4>2. CASE AppendWrite(n)
        BY <3>1, <4>2 DEF AppendWrite, LeadersLast, ReadsTypeOK
      <4>. QED
        BY <3>2, <4>1, <4>2
    <3>3. ASSUME NEW n \in Server, NEW m \in Server \ {n}, Receive(n, m)
          PROVE  lastEntry'[x].term = lastEntry[x].term
      <4>1. \/ lastEntry' = lastEntry
            \/ \E r : lastEntry' = [lastEntry EXCEPT ![m] = r] /\ leads' = leads \ {m}
        BY SMTT(30), <3>3, Received
      <4>. QED
        BY <3>1, <4>1 DEF ReadsTypeOK
    <3>. QED
      BY <3>1, <3>2, <3>3, LogsFrom DEF LeadersLast
  <2>. QED
    BY <2>1, <2>2
<1>2. ASSUME NEW x \in leads', NEW y \in leads', termOf'[x] = termOf'[y]
      PROVE  x = y
  <2>1. ASSUME NEW n \in leads', NEW k \in leads', Wins(n), termOf'[n] = termOf'[k]
        PROVE  n = k
    <3>1. SUFFICES ASSUME n # k
                   PROVE  FALSE
      OBVIOUS
    <3>2. PICK Q \in SUBSET (Server \ {n}) :
              /\ termOf' = [m \in Server |-> IF m \in Q \cup {n} THEN termOf[n] + 1 ELSE termOf[m]]
              /\ leads' = (leads \ Q) \cup {n}
      BY <1>0, <2>1, WinsQuorum
    <3>3. termOf'[k] = termOf[k] /\ termOf'[n] = termOf[n] + 1
      BY <1>0, <3>1, <3>2
    <3>4. termOf[k] <= termOf[n]
      BY <1>0, <2>1, WinsNew DEF TermsPast, ReadsTypeOK
    <3>. QED
      BY <1>0, <2>1, <3>3, <3>4 DEF ReadsTypeOK
  <2>2. CASE ~Wins(x) /\ ~Wins(y)
    BY <1>2, <2>2, LeadsFrom DEF LeadersLast
  <2>. QED
    BY <1>2, <2>1, <2>2
<1>. QED
  BY <1>1, <1>2 DEF LeadersLast

LEMMA RpcLogsStep ==
    ASSUME ReadsTypeOK, TermsPast, LeadersLast, RpcLogs, [ReadsNext]_readVars
    PROVE  RpcLogs'
<1>0. ReadsTypeOK'
  BY ReadsNextTyped
<1>1. SUFFICES ASSUME NEW n \in Server, NEW m \in Server
               PROVE  /\ rpc'[n][m].is \in {"request", "reply"} =>
                            /\ rpc'[n][m].entry.term = rpc'[n][m].term /\ rpc'[n][m].term <= termOf'[n]
                            /\ UpToDate(lastEntry'[n], rpc'[n][m].entry)
                      /\ rpc'[n][m].is = "reply" => UpToDate(lastEntry'[m], rpc'[n][m].entry)
  BY DEF RpcLogs
<1>2. /\ UpToDate(lastEntry'[n], lastEntry[n]) /\ UpToDate(lastEntry'[m], lastEntry[m])
      /\ lastEntry[n] \in EntryType /\ lastEntry[m] \in EntryType
      /\ lastEntry'[n] \in EntryType /\ lastEntry'[m] \in EntryType
  BY <1>0, LogsGrow DEF ReadsTypeOK
<1>3. termOf'[n] >= termOf[n] /\ termOf'[n] \in Nat /\ termOf[n] \in Nat
  BY TermsGrow DEF ReadsTypeOK
<1>4. CASE rpc'[n][m] = rpc[n][m] /\ rpc[n][m] # NoRpc
  <2>1. rpc[n][m].entry \in EntryType /\ rpc[n][m].term \in Nat
    BY <1>4, RpcFields DEF RpcType
  <2>2. UpToDate(lastEntry[n], rpc[n][m].entry) => UpToDate(lastEntry'[n], rpc[n][m].entry)
    BY <1>2, <2>1, UpToDateTrans
  <2>3. UpToDate(lastEntry[m], rpc[n][m].entry) => UpToDate(lastEntry'[m], rpc[n][m].entry)
    BY <1>2, <2>1, UpToDateTrans
  <2>. QED
    BY <1>3, <1>4, <2>1, <2>2, <2>3 DEF RpcLogs
<1>5. CASE rpc'[n][m] = NoRpc
  BY <1>5 DEF NoRpc
<1>6. CASE Send(n, m)
  <2>1. /\ rpc'[n][m].is = "request" /\ rpc'[n][m].entry = lastEntry[n] /\ rpc'[n][m].term = termOf[n]
        /\ n \in leads
    BY <1>6 DEF Send, ReadsTypeOK
  <2>. QED
    BY <1>2, <1>3, <2>1 DEF LeadersLast
<1>7. CASE Receive(n, m) /\ m # n
  <2>1. rpc[n][m].entry \in EntryType /\ rpc[n][m].is = "request" /\ rpc[n][m].term \in Nat
    BY <1>7, Received DEF RpcType
  <2>2. UpToDate(lastEntry'[n], rpc[n][m].entry)
    BY <1>2, <2>1, UpToDateTrans DEF RpcLogs
  <2>3. CASE rpc'[n][m].is = "reply"
    <3>1. /\ rpc'[n][m].term = rpc[n][m].term
          /\ lastEntry' = [lastEntry EXCEPT ![m] =
                 IF UpToDate(rpc[n][m].entry, @) THEN rpc[n][m].entry ELSE @]
      BY <1>7, <2>3, Received
    <3>2. UpToDate(lastEntry'[m], rpc[n][m].entry)
      <4>1. lastEntry'[m] = IF UpToDate(rpc[n][m].entry, lastEntry[m])
                            THEN rpc[n][m].entry ELSE lastEntry[m]
        BY <3>1 DEF ReadsTypeOK
      <4>2. PICK e \in EntryType : e = rpc[n][m].entry
        BY <2>1
      <4>3. UpToDate(e, e) /\ (~UpToDate(e, lastEntry[m]) => UpToDate(lastEntry[m], e))
        BY <1>2 DEF UpToDate, EntryType
      <4>. QED
        BY <4>1, <4>2, <4>3
    <3>3. rpc'[n][m].entry = rpc[n][m].entry
      BY <1>7, Received
    <3>. QED
      BY <1>3, <2>1, <2>2, <3>1, <3>2, <3>3 DEF RpcLogs
  <2>4. CASE rpc'[n][m].is = "refused"
    BY <2>4
  <2>. QED
    BY <1>7, <2>3, <2>4, Received
<1>. QED
  BY <1>4, <1>5, <1>6, <1>7, RpcFrom

LEMMA AboveStays ==
    ASSUME ReadsTypeOK, LeadersLast, [ReadsNext]_readVars, NEW t \in Nat, NEW i \in Nat, Above(t, i),
           \A n \in Server : Wins(n) /\ termOf[n] + 1 > t => lastEntry[n].idx + 1 > i
    PROVE  \A e \in EntryType : Around(e)' /\ e.term > t => e.idx > i
<1>1. SUFFICES ASSUME NEW e \in EntryType, Around(e)', e.term > t
               PROVE  e.idx > i
  OBVIOUS
<1>2. CASE Around(e)
  BY <1>1, <1>2 DEF Above
<1>3. CASE e.term = 0
  BY <1>1, <1>3
<1>4. ASSUME NEW n \in Server, Wins(n), e = lastEntry'[n]
      PROVE  e.idx > i
  <2>1. e.term = termOf[n] + 1 /\ e.idx = lastEntry[n].idx + 1
    BY <1>4 DEF Wins, ReadsTypeOK
  <2>. QED
    BY <1>1, <1>4, <2>1
<1>5. ASSUME NEW n \in Server, AppendWrite(n), e = lastEntry'[n]
      PROVE  e.idx > i
  <2>1. e.term = termOf[n] /\ e.idx = lastEntry[n].idx + 1 /\ n \in leads
    BY <1>5 DEF AppendWrite, ReadsTypeOK
  <2>2. lastEntry[n].term > t /\ Around(lastEntry[n]) /\ lastEntry[n] \in EntryType
    BY <1>1, <2>1 DEF LeadersLast, Around, ReadsTypeOK
  <2>3. lastEntry[n].idx > i /\ lastEntry[n].idx \in Nat
    BY <2>2 DEF Above, EntryType
  <2>. QED
    BY <2>1, <2>3
<1>. QED
  BY <1>1, <1>2, <1>3, <1>4, <1>5, AroundFrom

\* A winner that leaves a leader where it was has the votes of all the others: their logs are not
\* ahead of its own, and they have not heard of a leader for a while.
LEMMA WinsOver ==
    ASSUME ReadsTypeOK, TermsPast, NEW k \in Server, Wins(k), NEW n \in Server \ {k},
           termOf'[n] = termOf[n], NEW m \in Server \ {n}
    PROVE  /\ UpToDate(lastEntry[k], lastEntry[m])
           /\ contact[m] > 0 => now - contact[m] >= TimeoutMin
<1>1. PICK Q \in SUBSET (Server \ {k}) :
          /\ \A v \in Q : MayVote(v, k)
          /\ termOf' = [x \in Server |-> IF x \in Q \cup {k} THEN termOf[k] + 1 ELSE termOf[x]]
          /\ \A x \in Server : \A y \in Server \ {x} : x \in Q \cup {k} \/ y \in Q \cup {k}
  BY ZenonT(60), WinsQuorum
<1>2. termOf[n] <= termOf[k] /\ termOf[n] \in Nat /\ termOf[k] \in Nat
  BY WinsNew DEF TermsPast, ReadsTypeOK
<1>3. n \notin Q
  BY <1>1, <1>2
<1>4. m \in Q \cup {k}
  BY <1>1, <1>3
<1>5. CASE m = k
  BY <1>5 DEF Wins, UpToDate, ReadsTypeOK, EntryType
<1>6. CASE m \in Q
  <2>1. MayVote(m, k)
    BY <1>1, <1>6
  <2>2. now \in Nat /\ contact[m] \in Nat /\ TimeoutMin \in Nat
    BY ReadsAssumption DEF ReadsTypeOK
  <2>. QED
    BY <2>1, <2>2 DEF MayVote, _leader_recent
<1>. QED
  BY <1>4, <1>5, <1>6

LEMMA RepliesHoldStep ==
    ASSUME ReadsTypeOK, TermsPast, LeadersLast, RpcLogs, RepliesHold, [ReadsNext]_readVars
    PROVE  RepliesHold'
<1>1. SUFFICES ASSUME NEW n \in leads', NEW m \in Server \ {n},
                      rpc'[n][m].is = "reply", rpc'[n][m].term = termOf'[n],
                      NEW e \in EntryType, Around(e)', e.term > termOf'[n]
               PROVE  e.idx > rpc'[n][m].entry.idx
  BY DEF RepliesHold, Above
<1>2. n \in Server /\ rpc'[n][m] # NoRpc
  BY <1>1, ReadsNextTyped DEF ReadsTypeOK, NoRpc
<1>3. CASE rpc'[n][m] = rpc[n][m]
  <2>1. /\ rpc[n][m] \in RpcType /\ rpc[n][m].entry \in EntryType /\ rpc[n][m].entry.idx \in Nat
        /\ rpc[n][m].term \in Nat /\ termOf[n] \in Nat
    BY <1>2, <1>3, RpcFields DEF RpcType, EntryType, ReadsTypeOK
  <2>2. rpc[n][m].term <= termOf[n]
    BY <1>1, <1>2, <1>3 DEF RpcLogs
  <2>3. ~Wins(n)
    <3>1. SUFFICES ASSUME Wins(n)
                   PROVE  FALSE
      OBVIOUS
    <3>2. PICK Q \in SUBSET (Server \ {n}) :
              termOf' = [x \in Server |-> IF x \in Q \cup {n} THEN termOf[n] + 1 ELSE termOf[x]]
      BY ZenonT(60), <1>2, <3>1, WinsQuorum
    <3>. QED
      BY <1>1, <1>2, <1>3, <2>1, <2>2, <3>2
  <2>4. n \in leads /\ termOf'[n] = termOf[n]
    BY <2>3, LeadsFrom
  <2>5. Above(termOf[n], rpc[n][m].entry.idx)
    BY <1>1, <1>3, <2>4 DEF RepliesHold
  <2>6. ASSUME NEW k \in Server, Wins(k), termOf[k] + 1 > termOf[n]
        PROVE  lastEntry[k].idx + 1 > rpc[n][m].entry.idx
    <3>1. k # n
      BY <2>3, <2>6
    <3>2. UpToDate(lastEntry[k], lastEntry[m])
      BY <1>2, <2>4, <2>6, <3>1, WinsOver
    <3>3. UpToDate(lastEntry[m], rpc[n][m].entry) /\ rpc[n][m].entry.term = termOf[n]
      BY <1>1, <1>2, <1>3, <2>4 DEF RpcLogs
    <3>4. lastEntry[k] \in EntryType /\ lastEntry[m] \in EntryType /\ lastEntry[k].idx \in Nat
          /\ lastEntry[k].term \in Nat
      BY DEF ReadsTypeOK, EntryType
    <3>5. UpToDate(lastEntry[k], rpc[n][m].entry)
      BY <2>1, <3>2, <3>3, <3>4, UpToDateTrans
    <3>6. CASE lastEntry[k].term > termOf[n]
      <4>1. Around(lastEntry[k])
        BY DEF Around
      <4>. QED
        BY <2>1, <2>5, <3>4, <3>6, <4>1 DEF Above
    <3>7. CASE lastEntry[k].term = termOf[n]
      BY <2>1, <3>3, <3>4, <3>5, <3>7 DEF UpToDate
    <3>. QED
      BY <2>1, <3>3, <3>4, <3>5, <3>6, <3>7 DEF UpToDate
  <2>. QED
    BY <1>1, <1>3, <2>1, <2>4, <2>5, <2>6, AboveStays
<1>4. CASE Receive(n, m)
  <2>1. /\ rpc[n][m].is = "request" /\ rpc'[n][m].entry = rpc[n][m].entry
        /\ rpc[n][m].entry.idx \in Nat
        /\ rpc'[n][m].term = rpc[n][m].term /\ rpc[n][m].term >= termOf[m]
    BY <1>1, <1>2, <1>4, Received DEF RpcType, EntryType
  <2>2. \A k \in Server : ~Wins(k)
    BY <1>1, <2>1 DEF Wins
  <2>3. n \in leads /\ termOf'[n] = termOf[n]
    BY <1>2, <2>2, LeadsFrom
  <2>4. ASSUME NEW d \in EntryType, Around(d), d.term > termOf[n]
        PROVE  FALSE
    <3>1. Past(d.term) /\ d.term \in Nat
      BY <2>4 DEF TermsPast, EntryType
    <3>2. termOf[n] >= d.term \/ termOf[m] >= d.term
      BY <1>2, <3>1, ReachedIs DEF Past
    <3>3. termOf[n] \in Nat /\ termOf[m] \in Nat /\ termOf[m] <= termOf[n]
      BY <1>1, <1>2, <2>1, <2>3 DEF ReadsTypeOK
    <3>. QED
      BY <2>4, <3>1, <3>2, <3>3
  <2>5. Above(termOf[n], rpc[n][m].entry.idx)
    BY <2>4 DEF Above
  <2>6. termOf[n] \in Nat
    BY <1>2 DEF ReadsTypeOK
  <2>. QED
    BY <1>1, <2>1, <2>2, <2>3, <2>5, <2>6, AboveStays
<1>5. CASE Send(n, m)
  BY <1>1, <1>2, <1>5 DEF Send, ReadsTypeOK
<1>. QED
  BY <1>2, <1>3, <1>4, <1>5, RpcFrom

\* Who commits.
LEMMA CommittedFrom ==
    ASSUME ReadsTypeOK, [ReadsNext]_readVars, committed' # committed
    PROVE  \E n \in Server : \E m \in Server \ {n} :
              /\ ReceiveReply(n, m) /\ n \in leads /\ n \in leads' /\ termOf' = termOf
              /\ leads' = leads
              /\ rpc[n][m].is = "reply" /\ rpc[n][m].term = termOf[n]
              /\ rpc[n][m].entry.term = termOf[n]
              /\ committed' = rpc[n][m].entry.idx /\ knows' = [knows EXCEPT ![n] = rpc[n][m].entry]
              /\ UNCHANGED lastEntry
<1>0. PICK n \in Server : \E m \in Server \ {n} : ReceiveReply(n, m)
  <2>1. ASSUME NEW n \in Server, NEW m \in Server, Send(n, m) \/ Receive(n, m) \/ Lost(n, m)
        PROVE  UNCHANGED committed
    BY <2>1 DEF Send, Receive, Lost
  <2>2. ASSUME NEW n \in Server, \/ Wins(n) \/ AppendWrite(n) \/ LosesQuorum(n) \/ Forgets(n)
                                 \/ BeginReadIndex(n) \/ EndReadIndex(n) \/ ReadIndexFails(n)
                                 \/ lease_read(n)
        PROVE  UNCHANGED committed
    BY <2>2 DEF Wins, AppendWrite, LosesQuorum, Forgets, BeginReadIndex, EndReadIndex, ReadIndexFails,
                lease_read
  <2>3. NextMoment \/ UNCHANGED readVars => UNCHANGED committed
    BY DEF NextMoment, readVars
  <2>. QED
    BY <2>1, <2>2, <2>3 DEF ReadsNext
<1>1. PICK m \in Server \ {n} : ReceiveReply(n, m)
  BY <1>0
<1>3. /\ n \in leads /\ rpc[n][m].is = "reply" /\ rpc[n][m].term = termOf[n]
      /\ rpc[n][m].entry.term = termOf[n]
      /\ committed' = rpc[n][m].entry.idx /\ knows' = [knows EXCEPT ![n] = rpc[n][m].entry]
      /\ UNCHANGED lastEntry
  BY <1>1 DEF ReceiveReply
<1>4. /\ termOf' = [termOf EXCEPT ![n] = IF rpc[n][m].term > @ THEN rpc[n][m].term ELSE @]
      /\ leads' = IF rpc[n][m].term > termOf[n] THEN leads \ {n} ELSE leads
  BY <1>1 DEF ReceiveReply
<1>5. termOf' = termOf /\ leads' = leads
  BY <1>3, <1>4 DEF ReadsTypeOK
<1>. QED
  BY <1>1, <1>3, <1>5

\* A leader that stays knows of no less.
LEMMA KnowsMore ==
    ASSUME ReadsTypeOK, [ReadsNext]_readVars, NEW n \in leads', ~Wins(n)
    PROVE  knows'[n].idx >= knows[n].idx
<1>0. n \in Server /\ knows[n] \in EntryType /\ knows[n].idx \in Nat
  BY LeadsFrom DEF ReadsTypeOK, EntryType
<1>1. CASE knows'[n] = knows[n]
  BY <1>0, <1>1
<1>2. ASSUME NEW k \in Server, Forgets(k)
      PROVE  knows'[n] = knows[n]
  <2>1. leads' = leads \ {k} /\ knows' = [knows EXCEPT ![k] = [term |-> 0, idx |-> 0]]
    BY <1>2 DEF Forgets
  <2>. QED
    BY <1>0, <2>1 DEF ReadsTypeOK
<1>3. ASSUME NEW k \in Server, NEW m \in Server \ {k}, Receive(k, m)
      PROVE  knows'[n] = knows[n]
  <2>1. \/ knows' = knows
        \/ /\ leads' = leads \ {m}
           /\ knows' = [knows EXCEPT ![m] = IF rpc[k][m].commit.idx > @.idx THEN rpc[k][m].commit ELSE @]
    BY <1>3, Received
  <2>2. leads' = leads \ {m} => n # m
    OBVIOUS
  <2>. QED
    BY <1>0, <2>1, <2>2 DEF ReadsTypeOK
<1>4. ASSUME NEW k \in Server, NEW m \in Server \ {k}, ReceiveReply(k, m)
      PROVE  knows'[n].idx >= knows[n].idx
  <2>1. \/ knows' = knows
        \/ rpc[k][m].entry.idx > knows[k].idx /\ knows' = [knows EXCEPT ![k] = rpc[k][m].entry]
    BY <1>4 DEF ReceiveReply
  <2>2. rpc[k][m].entry.idx \in Nat
    BY <1>4, Replied
  <2>3. CASE knows' = [knows EXCEPT ![k] = rpc[k][m].entry] /\ rpc[k][m].entry.idx > knows[k].idx
    <3>1. CASE n = k
      BY <1>0, <2>2, <2>3, <3>1 DEF ReadsTypeOK
    <3>2. CASE n # k
      BY <1>0, <1>1, <2>3, <3>2 DEF ReadsTypeOK
    <3>. QED
      BY <3>1, <3>2
  <2>. QED
    BY <1>1, <2>1, <2>3
<1>5. \/ UNCHANGED knows
      \/ \E k \in Server : Forgets(k)
      \/ \E k \in Server : \E m \in Server \ {k} : Receive(k, m) \/ ReceiveReply(k, m)
  BY Steps DEF quiet, Wins, AppendWrite, LosesQuorum, Send, Lost
<1>. QED
  BY <1>1, <1>2, <1>3, <1>4, <1>5

LEMMA CommittedStep ==
    ASSUME ReadsTypeOK, TermsPast, LeadersLast, RpcLogs, RepliesHold, CommittedHolds,
           [ReadsNext]_readVars
    PROVE  CommittedHolds'
<1>0. ReadsTypeOK'
  BY ReadsNextTyped
<1>1. CASE committed' # committed
  <2>1. PICK n \in Server : \E m \in Server \ {n} :
              /\ ReceiveReply(n, m) /\ n \in leads /\ n \in leads' /\ termOf' = termOf
              /\ leads' = leads
              /\ rpc[n][m].is = "reply" /\ rpc[n][m].term = termOf[n]
              /\ rpc[n][m].entry.term = termOf[n]
              /\ committed' = rpc[n][m].entry.idx /\ knows' = [knows EXCEPT ![n] = rpc[n][m].entry]
              /\ UNCHANGED lastEntry
    BY <1>1, CommittedFrom
  <2>2. PICK m \in Server \ {n} :
              /\ ReceiveReply(n, m) /\ n \in leads /\ n \in leads' /\ termOf' = termOf
              /\ leads' = leads
              /\ rpc[n][m].is = "reply" /\ rpc[n][m].term = termOf[n]
              /\ rpc[n][m].entry.term = termOf[n]
              /\ committed' = rpc[n][m].entry.idx /\ knows' = [knows EXCEPT ![n] = rpc[n][m].entry]
              /\ UNCHANGED lastEntry
    BY <2>1
  <2>3. PICK t \in Nat : t = termOf[n]
    BY DEF ReadsTypeOK
  <2>4. PICK i \in Nat : i = committed'
    BY <1>0 DEF ReadsTypeOK
  <2>5. rpc[n][m].entry = [term |-> t, idx |-> i]
    <3>1. rpc[n][m].entry \in EntryType
      BY <2>2, Replied
    <3>. QED
      BY <2>2, <2>3, <2>4, <3>1 DEF EntryType
  <2>6. Reached(termOf', t)
    BY <2>3, PastStays DEF TermsPast
  <2>7. Held(lastEntry', [term |-> t, idx |-> i])
    <3>1. UpToDate(lastEntry[n], rpc[n][m].entry) /\ UpToDate(lastEntry[m], rpc[n][m].entry)
      BY <2>2 DEF RpcLogs
    <3>. QED
      BY <2>2, <2>5, <3>1, HeldIs
  <2>8. \A e \in EntryType : Around(e)' /\ e.term > t => e.idx > i
    <3>1. Above(t, i)
      BY <2>2, <2>3, <2>4 DEF RepliesHold
    <3>2. \A k \in Server : ~Wins(k)
      BY <1>1 DEF Wins
    <3>. QED
      BY <3>1, <3>2, AboveStays
  <2>9. \A k \in leads' : termOf'[k] = t => knows'[k].idx >= i
    <3>1. ASSUME NEW k \in leads', termOf'[k] = t
          PROVE  knows'[k].idx >= i
      <4>1. k = n
        BY <2>2, <2>3, <3>1 DEF LeadersLast
      <4>2. knows'[k].idx = i
        BY <2>2, <2>4, <4>1 DEF ReadsTypeOK
      <4>. QED
        BY <4>2
    <3>. QED
      BY <3>1
  <2>10. CommittedIn(t)'
    BY <2>4, <2>6, <2>7, <2>8, <2>9 DEF CommittedIn, Above, Past
  <2>. QED
    BY <2>10 DEF CommittedHolds
<1>2. CASE committed' = committed
  <2>1. PICK t \in Nat : CommittedIn(t)
    BY DEF CommittedHolds
  <2>2. PICK i \in Nat : i = committed
    BY DEF ReadsTypeOK
  <2>3. PICK c \in EntryType : c = [term |-> t, idx |-> i]
    BY DEF EntryType
  <2>4. Past(t) /\ Held(lastEntry, c) /\ Above(t, i) /\ \A n \in leads : termOf[n] = t => knows[n].idx >= i
    BY <2>1, <2>2, <2>3 DEF CommittedIn
  <2>5. Reached(termOf', t)
    BY <2>4, PastStays
  <2>6. Held(lastEntry', c)
    <3>1. \A x \in Server : UpToDate(lastEntry'[x], lastEntry[x])
      BY LogsGrow
    <3>2. lastEntry \in [Server -> EntryType] /\ lastEntry' \in [Server -> EntryType]
      BY <1>0 DEF ReadsTypeOK
    <3>. QED
      BY <2>4, <3>1, <3>2, HeldGrows
  <2>7. ASSUME NEW k \in Server, Wins(k)
        PROVE  lastEntry[k].idx + 1 > i
    <3>1. PICK Q \in SUBSET (Server \ {k}) :
              /\ \A v \in Q : MayVote(v, k)
              /\ \A x \in Server : \A y \in Server \ {x} : x \in Q \cup {k} \/ y \in Q \cup {k}
      BY <2>7, WinsQuorum
    <3>2. PICK x \in Server : \E y \in Server \ {x} : UpToDate(lastEntry[x], c) /\ UpToDate(lastEntry[y], c)
      BY <2>4, HeldIs
    <3>3. PICK y \in Server \ {x} : UpToDate(lastEntry[x], c) /\ UpToDate(lastEntry[y], c)
      BY <3>2
    <3>4. PICK v \in Q \cup {k} : UpToDate(lastEntry[v], c) /\ v \in Server
      BY <3>1, <3>3
    <3>5. UpToDate(lastEntry[k], lastEntry[v])
      <4>1. lastEntry[k] \in EntryType
        BY DEF ReadsTypeOK
      <4>2. UpToDate(lastEntry[k], lastEntry[k])
        BY <4>1 DEF UpToDate, EntryType
      <4>. QED
        BY <3>1, <3>4, <4>2 DEF MayVote
    <3>6. lastEntry[k] \in EntryType /\ lastEntry[v] \in EntryType
      BY <3>4 DEF ReadsTypeOK
    <3>7. UpToDate(lastEntry[k], c)
      BY <3>4, <3>5, <3>6, UpToDateTrans
    <3>8. lastEntry[k].term > t => lastEntry[k].idx > i
      BY <2>4, <3>6 DEF Above, Around
    <3>9. lastEntry[k].term > t \/ lastEntry[k].idx >= i
      BY <2>3, <3>7 DEF UpToDate
    <3>. QED
      BY <3>6, <3>8, <3>9 DEF EntryType
  <2>8. \A e \in EntryType : Around(e)' /\ e.term > t => e.idx > i
    BY <2>4, <2>7, AboveStays
  <2>9. ASSUME NEW n \in leads', termOf'[n] = t
        PROVE  knows'[n].idx >= i
    <3>1. ~Wins(n)
      <4>1. SUFFICES ASSUME Wins(n)
                     PROVE  FALSE
        OBVIOUS
      <4>2. n \in Server
        BY <1>0 DEF ReadsTypeOK
      <4>3. PICK Q \in SUBSET (Server \ {n}) :
                termOf' = [m \in Server |-> IF m \in Q \cup {n} THEN termOf[n] + 1 ELSE termOf[m]]
        BY <4>1, <4>2, WinsQuorum
      <4>4. t <= termOf[n]
        BY <2>4, <4>1, <4>2, WinsNew
      <4>. QED
        BY <2>9, <4>2, <4>3, <4>4 DEF ReadsTypeOK
    <3>2. n \in leads /\ n \in Server /\ termOf[n] = t
      BY <2>9, <3>1, LeadsFrom
    <3>3. knows'[n].idx >= knows[n].idx /\ knows[n].idx \in Nat /\ knows'[n].idx \in Nat
      BY <1>0, <3>1, <3>2, KnowsMore DEF ReadsTypeOK, EntryType
    <3>. QED
      BY <2>4, <3>2, <3>3
  <2>10. CommittedIn(t)'
    BY <1>2, <2>2, <2>3, <2>5, <2>6, <2>8, <2>9 DEF CommittedIn, Above, Past
  <2>. QED
    BY <2>10 DEF CommittedHolds
<1>. QED
  BY <1>1, <1>2

LEMMA AckRoundFrom ==
    ASSUME ReadsTypeOK, [ReadsNext]_readVars, NEW n \in Server, NEW m \in Server
    PROVE  \/ ackRound'[n][m] = ackRound[n][m]
           \/ Forgets(n)
           \/ ackRound'[n][m] = rpc[n][m].round /\ rpc[n][m].is = "reply"
<1>1. ASSUME NEW k \in Server, Forgets(k), k # n
      PROVE  ackRound'[n][m] = ackRound[n][m]
  BY <1>1 DEF Forgets, ReadsTypeOK
<1>2. ASSUME NEW k \in Server, NEW j \in Server \ {k}, ReceiveReply(k, j)
      PROVE  \/ ackRound'[n][m] = ackRound[n][m]
             \/ ackRound'[n][m] = rpc[n][m].round /\ rpc[n][m].is = "reply"
  <2>1. \/ ackRound' = ackRound
        \/ rpc[k][j].is = "reply" /\ ackRound' = [ackRound EXCEPT ![k][j] = rpc[k][j].round]
    BY <1>2 DEF ReceiveReply
  <2>2. CASE k = n /\ j = m
    BY <2>1, <2>2 DEF ReadsTypeOK
  <2>3. CASE ~(k = n /\ j = m)
    <3>1. ASSUME NEW r, ackRound' = [ackRound EXCEPT ![k][j] = r]
          PROVE  ackRound'[n][m] = ackRound[n][m]
      BY <2>3, <3>1 DEF ReadsTypeOK
    <3>. QED
      BY <2>1, <3>1
  <2>. QED
    BY <2>2, <2>3
<1>3. \/ UNCHANGED ackRound
      \/ \E k \in Server : Forgets(k)
      \/ \E k \in Server : \E j \in Server \ {k} : ReceiveReply(k, j)
  BY Steps DEF quiet, Wins, AppendWrite, LosesQuorum, Send, Receive, Lost
<1>. QED
  BY <1>1, <1>2, <1>3

LEMMA RoundsStep ==
    ASSUME ReadsTypeOK, Rounds, [ReadsNext]_readVars
    PROVE  Rounds' /\ \A n \in Server : hb_round_'[n] >= hb_round_[n] \/ Forgets(n)
<1>0. ReadsTypeOK'
  BY ReadsNextTyped
<1>1. ASSUME NEW n \in Server, NEW m \in Server
      PROVE  /\ hb_round_'[n] >= hb_round_[n] \/ Forgets(n)
             /\ ackRound'[n][m] <= hb_round_'[n]
             /\ rpc'[n][m] # NoRpc => rpc'[n][m].round <= hb_round_'[n]
  <2>0. /\ hb_round_[n] \in Nat /\ hb_round_'[n] \in Nat /\ ackRound[n][m] \in Nat
        /\ ackRound[n][m] <= hb_round_[n]
        /\ rpc[n][m] # NoRpc => rpc[n][m].round \in Nat /\ rpc[n][m].round <= hb_round_[n]
    BY <1>0, RpcFields DEF ReadsTypeOK, RpcType, Rounds
  <2>1. CASE Forgets(n)
    <3>1. ackRound'[n][m] = 0 /\ hb_round_'[n] = 0 /\ rpc'[n][m] = NoRpc
      BY <2>1 DEF Forgets, ReadsTypeOK
    <3>. QED
      BY <2>1, <3>1
  <2>2. CASE ~Forgets(n)
    <3>1. hb_round_'[n] >= hb_round_[n]
      <4>1. ASSUME NEW k \in Server, Forgets(k) \/ BeginReadIndex(k)
            PROVE  hb_round_'[n] >= hb_round_[n]
        BY <2>0, <2>2, <4>1 DEF Forgets, BeginReadIndex, ReadsTypeOK
      <4>2. ASSUME NEW k \in Server, NEW j \in Server,
                   Send(k, j) \/ Receive(k, j) \/ ReceiveReply(k, j) \/ Lost(k, j)
            PROVE  UNCHANGED hb_round_
        BY <4>2 DEF Send, Receive, ReceiveReply, Lost
      <4>3. ASSUME NEW k \in Server, \/ Wins(k) \/ AppendWrite(k) \/ LosesQuorum(k) \/ EndReadIndex(k)
                                     \/ ReadIndexFails(k) \/ lease_read(k)
            PROVE  UNCHANGED hb_round_
        BY <4>3 DEF Wins, AppendWrite, LosesQuorum, EndReadIndex, ReadIndexFails, lease_read
      <4>4. NextMoment \/ UNCHANGED readVars => UNCHANGED hb_round_
        BY DEF NextMoment, readVars
      <4>. QED
        BY <2>0, <4>1, <4>2, <4>3, <4>4 DEF ReadsNext
    <3>2. ackRound'[n][m] <= hb_round_[n]
      <4>1. rpc[n][m].is = "reply" => rpc[n][m] # NoRpc
        BY DEF NoRpc
      <4>. QED
        BY <2>0, <2>2, <4>1, AckRoundFrom
    <3>3. rpc'[n][m] # NoRpc => rpc'[n][m].round <= hb_round_[n]
      <4>1. CASE Send(n, m)
        <5>1. rpc'[n][m].round = hb_round_[n]
          BY <4>1 DEF Send, ReadsTypeOK
        <5>. QED
          BY <2>0, <5>1
      <4>2. CASE Receive(n, m) /\ m # n
        <5>1. rpc'[n][m].round = rpc[n][m].round /\ rpc[n][m] # NoRpc
          BY <4>2, Received
        <5>. QED
          BY <2>0, <5>1
      <4>. QED
        BY <2>0, <4>1, <4>2, RpcFrom
    <3>4. ackRound'[n][m] \in Nat
      BY <1>0 DEF ReadsTypeOK
    <3>5. rpc'[n][m] # NoRpc => rpc'[n][m].round \in Nat
      BY <1>0 DEF ReadsTypeOK, RpcType
    <3>. QED
      BY <2>0, <3>1, <3>2, <3>3, <3>4, <3>5
  <2>. QED
    BY <2>1, <2>2
<1>. QED
  BY <1>1, ReadsAssumption DEF Rounds

\* A leader that has committed in its term knows all that is committed, or a majority, all of the
\* others, has gone on to a later term.
LEMMA LeaderKnows ==
    ASSUME ReadsTypeOK, CommittedHolds, NEW n \in leads, knows[n].term = termOf[n]
    PROVE  knows[n].idx >= committed \/ Deposed(n)
<1>0. /\ n \in Server /\ termOf[n] \in Nat /\ knows[n] \in EntryType /\ knows[n].idx \in Nat
      /\ committed \in Nat
  BY DEF ReadsTypeOK, EntryType
<1>1. PICK t \in Nat : CommittedIn(t)
  BY DEF CommittedHolds
<1>2. CASE termOf[n] > t
  <2>1. Around(knows[n])
    BY <1>0 DEF Around
  <2>. QED
    BY <1>0, <1>1, <1>2, <2>1 DEF CommittedIn, Above
<1>3. CASE termOf[n] = t
  BY <1>1, <1>3 DEF CommittedIn
<1>4. CASE termOf[n] < t
  BY <1>0, <1>1, <1>4, PastDeposes DEF CommittedIn
<1>. QED
  BY <1>0, <1>2, <1>3, <1>4

LEMMA DeposedStays ==
    ASSUME ReadsTypeOK, [ReadsNext]_readVars, NEW n \in Server, Deposed(n), termOf'[n] = termOf[n]
    PROVE  Deposed(n)'
<1>1. ASSUME NEW m \in Server \ {n}
      PROVE  termOf'[m] > termOf'[n]
  BY <1>1, TermsGrow DEF Deposed, ReadsTypeOK
<1>. QED
  BY <1>1 DEF Deposed

\* No reply of its term comes to a leader that has been deposed, but those that were on the way.
LEMMA DeposedReplies ==
    ASSUME ReadsTypeOK, RpcLogs, [ReadsNext]_readVars, NEW n \in Server, NEW m \in Server \ {n},
           Deposed(n), rpc'[n][m].is = "reply"
    PROVE  rpc'[n][m] = rpc[n][m]
<1>1. rpc'[n][m] # NoRpc
  BY DEF NoRpc
<1>2. ~Send(n, m)
  BY DEF Send, ReadsTypeOK
<1>3. ~Receive(n, m)
  <2>1. SUFFICES ASSUME Receive(n, m)
                 PROVE  FALSE
    OBVIOUS
  <2>2. rpc[n][m].term >= termOf[m] /\ rpc[n][m].is = "request" /\ rpc[n][m].term \in Nat
    BY <2>1, Received DEF RpcType
  <2>3. rpc[n][m].term <= termOf[n]
    BY <2>2 DEF RpcLogs
  <2>. QED
    BY <2>2, <2>3 DEF Deposed, ReadsTypeOK
<1>. QED
  BY <1>1, <1>2, <1>3, RpcFrom

LEMMA ReadsHoldStep ==
    ASSUME ReadsTypeOK, TermsPast, RpcLogs, CommittedHolds, Rounds, ReadsHold, [ReadsNext]_readVars
    PROVE  ReadsHold'
<1>0. ReadsTypeOK' /\ Rounds'
  BY ReadsNextTyped, RoundsStep
<1>1. SUFFICES ASSUME NEW n \in Server, reading'[n] # NoRead
               PROVE  /\ reading'[n].term <= termOf'[n] /\ reading'[n].round <= hb_round_'[n]
                      /\ \/ reading'[n].term < termOf'[n]
                         \/ reading'[n].idx >= reading'[n].start
                         \/ /\ Deposed(n)'
                            /\ \A m \in Server \ {n} :
                                  /\ ackRound'[n][m] < reading'[n].round
                                  /\ rpc'[n][m].is = "reply" => rpc'[n][m].round < reading'[n].round
  BY DEF ReadsHold
<1>2. /\ termOf[n] \in Nat /\ termOf'[n] \in Nat /\ termOf'[n] >= termOf[n]
      /\ hb_round_[n] \in Nat /\ hb_round_'[n] \in Nat
  BY <1>0, TermsGrow DEF ReadsTypeOK
<1>3. CASE reading'[n] = reading[n] /\ ~Forgets(n)
  <2>1. /\ reading[n].term \in Nat /\ reading[n].round \in Nat
        /\ reading[n].term <= termOf[n] /\ reading[n].round <= hb_round_[n]
    BY <1>1, <1>3, ReadFields DEF ReadsHold, ReadType
  <2>2. hb_round_'[n] >= hb_round_[n]
    BY <1>3, RoundsStep
  <2>3. CASE termOf'[n] # termOf[n]
    BY <1>2, <1>3, <2>1, <2>2, <2>3
  <2>4. CASE /\ termOf'[n] = termOf[n]
             /\ Deposed(n)
             /\ \A m \in Server \ {n} :
                   /\ ackRound[n][m] < reading[n].round
                   /\ rpc[n][m].is = "reply" => rpc[n][m].round < reading[n].round
    <3>1. Deposed(n)'
      BY <2>4, DeposedStays
    <3>2. ASSUME NEW m \in Server \ {n}
          PROVE  /\ ackRound'[n][m] < reading[n].round
                 /\ rpc'[n][m].is = "reply" => rpc'[n][m].round < reading[n].round
      <4>1. ackRound'[n][m] < reading[n].round
        BY <1>3, <2>4, AckRoundFrom
      <4>2. rpc'[n][m].is = "reply" => rpc'[n][m].round < reading[n].round
        BY <2>4, DeposedReplies
      <4>. QED
        BY <4>1, <4>2
    <3>. QED
      BY <1>2, <1>3, <2>1, <2>2, <2>4, <3>1, <3>2
  <2>5. CASE termOf'[n] = termOf[n] /\ (reading[n].term < termOf[n] \/ reading[n].idx >= reading[n].start)
    BY <1>2, <1>3, <2>1, <2>2, <2>5
  <2>. QED
    BY <1>1, <1>3, <2>3, <2>4, <2>5 DEF ReadsHold
<1>4. CASE BeginReadIndex(n)
  <2>1. /\ reading'[n] = [is |-> "read", term |-> termOf[n], idx |-> knows[n].idx,
                          round |-> hb_round_[n] + 1, start |-> committed]
        /\ hb_round_'[n] = hb_round_[n] + 1
        /\ n \in leads /\ knows[n].term = termOf[n]
        /\ UNCHANGED <<termOf, ackRound, rpc>>
    BY <1>4 DEF BeginReadIndex, TermCommitted, ReadsTypeOK
  <2>2. /\ reading'[n].term = termOf[n] /\ reading'[n].idx = knows[n].idx
        /\ reading'[n].round = hb_round_[n] + 1 /\ reading'[n].start = committed
    BY <2>1
  <2>3. knows[n].idx >= committed \/ Deposed(n)
    BY <2>1, LeaderKnows
  <2>4. Deposed(n) => Deposed(n)'
    BY <2>1, DeposedStays
  <2>5. ASSUME NEW m \in Server \ {n}
        PROVE  /\ ackRound[n][m] < hb_round_[n] + 1
               /\ rpc[n][m].is = "reply" => rpc[n][m].round < hb_round_[n] + 1
    <3>1. ackRound[n][m] \in Nat /\ ackRound[n][m] <= hb_round_[n]
      BY DEF ReadsTypeOK, Rounds
    <3>2. rpc[n][m].is = "reply" => rpc[n][m].round \in Nat /\ rpc[n][m].round <= hb_round_[n]
      BY RpcFields DEF RpcType, Rounds, NoRpc
    <3>. QED
      BY <1>2, <3>1, <3>2
  <2>6. termOf'[n] = termOf[n] /\ hb_round_'[n] = hb_round_[n] + 1
    BY <2>1
  <2>7. CASE knows[n].idx >= committed
    BY <1>2, <2>2, <2>6, <2>7
  <2>8. CASE Deposed(n)
    BY <1>2, <2>1, <2>2, <2>4, <2>5, <2>6, <2>8
  <2>. QED
    BY <2>3, <2>7, <2>8
<1>5. (reading'[n] = reading[n] /\ ~Forgets(n)) \/ BeginReadIndex(n)
  <2>1. ASSUME NEW k \in Server, EndReadIndex(k) \/ ReadIndexFails(k)
        PROVE  reading'[n] = reading[n] /\ ~Forgets(n)
    <3>1. reading' = [reading EXCEPT ![k] = NoRead]
      BY <2>1 DEF EndReadIndex, ReadIndexFails
    <3>2. k # n /\ reading'[n] = reading[n]
      BY <1>1, <3>1 DEF ReadsTypeOK
    <3>3. forgets' = forgets /\ forgets \in Nat
      BY <2>1 DEF EndReadIndex, ReadIndexFails, ReadsTypeOK
    <3>. QED
      BY <3>2, <3>3 DEF Forgets
  <2>2. ASSUME NEW k \in Server, Forgets(k)
        PROVE  reading'[n] = reading[n] /\ ~Forgets(n)
    <3>1. reading' = [reading EXCEPT ![k] = NoRead]
      BY <2>2 DEF Forgets
    <3>2. ~Forgets(n)
      BY <1>1 DEF Forgets, ReadsTypeOK
    <3>. QED
      BY <1>1, <2>2, <3>1, <3>2 DEF ReadsTypeOK
  <2>3. ASSUME NEW k \in Server, BeginReadIndex(k), k # n
        PROVE  reading'[n] = reading[n] /\ ~Forgets(n)
    <3>1. reading'[n] = reading[n]
      BY <2>3 DEF BeginReadIndex, ReadsTypeOK
    <3>2. forgets' = forgets /\ forgets \in Nat
      BY <2>3 DEF BeginReadIndex, ReadsTypeOK
    <3>. QED
      BY <3>1, <3>2 DEF Forgets
  <2>4. CASE UNCHANGED <<reading, forgets>>
    BY <2>4 DEF Forgets, ReadsTypeOK
  <2>5. ASSUME NEW k \in Server, NEW j \in Server,
               Send(k, j) \/ Receive(k, j) \/ ReceiveReply(k, j) \/ Lost(k, j)
        PROVE  UNCHANGED <<reading, forgets>>
    BY <2>5 DEF Send, Receive, ReceiveReply, Lost
  <2>6. ASSUME NEW k \in Server, Wins(k) \/ AppendWrite(k) \/ LosesQuorum(k) \/ lease_read(k)
        PROVE  UNCHANGED <<reading, forgets>>
    BY <2>6 DEF Wins, AppendWrite, LosesQuorum, lease_read
  <2>7. NextMoment \/ UNCHANGED readVars => UNCHANGED <<reading, forgets>>
    BY DEF NextMoment, readVars
  <2>. QED
    BY <2>1, <2>2, <2>3, <2>4, <2>5, <2>6, <2>7 DEF ReadsNext
<1>. QED
  BY <1>3, <1>4, <1>5

LEMMA ClocksStep ==
    ASSUME ReadsTypeOK, Clocks, [ReadsNext]_readVars
    PROVE  Clocks' /\ now' >= now
<1>0. ReadsTypeOK'
  BY ReadsNextTyped
<1>1. now' \in Nat /\ now \in Nat /\ (now' = now \/ now' = now + 1)
  <2>1. ASSUME NEW k \in Server, NEW j \in Server,
               Send(k, j) \/ Receive(k, j) \/ ReceiveReply(k, j) \/ Lost(k, j)
        PROVE  UNCHANGED now
    BY <2>1 DEF Send, Receive, ReceiveReply, Lost
  <2>2. ASSUME NEW k \in Server, \/ Wins(k) \/ AppendWrite(k) \/ LosesQuorum(k) \/ Forgets(k)
                                 \/ BeginReadIndex(k) \/ EndReadIndex(k) \/ ReadIndexFails(k)
                                 \/ lease_read(k)
        PROVE  UNCHANGED now
    BY <2>2 DEF Wins, AppendWrite, LosesQuorum, Forgets, BeginReadIndex, EndReadIndex, ReadIndexFails,
                lease_read
  <2>3. NextMoment => now' = now + 1
    BY DEF NextMoment
  <2>4. UNCHANGED readVars => UNCHANGED now
    BY DEF readVars
  <2>. QED
    BY <1>0, <2>1, <2>2, <2>3, <2>4 DEF ReadsNext, ReadsTypeOK
<1>2. ASSUME NEW m \in Server
      PROVE  contact'[m] = contact[m] \/ contact'[m] = now \/ contact'[m] = 0
  <2>1. ASSUME NEW k \in Server, NEW j \in Server \ {k}, Receive(k, j)
        PROVE  contact'[m] = contact[m] \/ contact'[m] = now
    BY <2>1, Received DEF ReadsTypeOK
  <2>2. ASSUME NEW k \in Server, Forgets(k)
        PROVE  contact'[m] = contact[m] \/ contact'[m] = 0
    BY <2>2 DEF Forgets, ReadsTypeOK
  <2>3. \/ UNCHANGED contact
        \/ \E k \in Server : Forgets(k)
        \/ \E k \in Server : \E j \in Server \ {k} : Receive(k, j)
    BY ZenonT(60), Steps DEF quiet, Wins, AppendWrite, LosesQuorum, Send, ReceiveReply, Lost
  <2>. QED
    BY <2>1, <2>2, <2>3
<1>3. ASSUME NEW n \in Server, NEW m \in Server, rpc'[n][m] # NoRpc
      PROVE  rpc'[n][m].at = now \/ (rpc[n][m] # NoRpc /\ rpc'[n][m].at = rpc[n][m].at)
  <2>1. Send(n, m) => rpc'[n][m].at = now
    BY DEF Send, ReadsTypeOK
  <2>. QED
    BY <1>3, <2>1, RpcFrom, Received
<1>4. \A m \in Server : contact[m] \in Nat /\ contact[m] <= now
  BY DEF Clocks, ReadsTypeOK
<1>5. \A n, m \in Server : rpc[n][m] # NoRpc =>
          rpc[n][m].at \in Nat /\ 1 <= rpc[n][m].at /\ rpc[n][m].at <= now
  BY DEF Clocks, ReadsTypeOK, RpcType
<1>6. now >= 1
  BY DEF Clocks
<1>7. ASSUME NEW m \in Server
      PROVE  contact'[m] <= now'
  BY <1>1, <1>2, <1>4
<1>8. ASSUME NEW n \in Server, NEW m \in Server, rpc'[n][m] # NoRpc
      PROVE  1 <= rpc'[n][m].at /\ rpc'[n][m].at <= now'
  BY <1>1, <1>3, <1>5, <1>6, <1>8
<1>. QED
  BY <1>1, <1>6, <1>7, <1>8 DEF Clocks

\* As long as no node has been restarted, nobody forgets that it heard of a leader.
LEMMA ContactGrows ==
    ASSUME ReadsTypeOK, Clocks, [ReadsNext]_readVars, forgets' = 0, NEW m \in Server
    PROVE  contact'[m] >= contact[m] /\ forgets = 0
<1>0. forgets \in Nat /\ contact[m] \in Nat /\ now \in Nat /\ contact[m] <= now
  BY DEF ReadsTypeOK, Clocks
<1>1. ASSUME NEW n \in Server
      PROVE  ~Forgets(n)
  BY <1>0 DEF Forgets
<1>2. ASSUME NEW k \in Server, Wins(k) \/ AppendWrite(k) \/ LosesQuorum(k)
      PROVE  UNCHANGED <<contact, forgets>>
  BY <1>2 DEF Wins, AppendWrite, LosesQuorum
<1>3. ASSUME NEW k \in Server, NEW j \in Server \ {k}, Receive(k, j)
      PROVE  contact'[m] >= contact[m]
  <2>1. contact'[m] = contact[m] \/ contact'[m] = now
    BY <1>3, Received DEF ReadsTypeOK
  <2>. QED
    BY <1>0, <2>1
<1>4. ASSUME NEW k \in Server, NEW j \in Server, Send(k, j) \/ ReceiveReply(k, j) \/ Lost(k, j)
      PROVE  UNCHANGED <<contact, forgets>>
  BY <1>4 DEF Send, ReceiveReply, Lost
<1>5. ASSUME NEW k \in Server, NEW j \in Server, Receive(k, j)
      PROVE  UNCHANGED forgets
  BY <1>5 DEF Receive
<1>6. UNCHANGED quiet => UNCHANGED <<contact, forgets>>
  BY DEF quiet
<1>. QED
  BY <1>0, <1>1, <1>2, <1>3, <1>4, <1>5, <1>6, Steps

LEMMA AckAtFrom ==
    ASSUME ReadsTypeOK, [ReadsNext]_readVars, NEW n \in Server, NEW m \in Server \ {n}
    PROVE  \/ ackAt'[n][m] = ackAt[n][m]
           \/ ackAt'[n][m] = 0
           \/ /\ ackAt'[n][m] = rpc[n][m].at /\ rpc[n][m].is = "reply" /\ n \in leads
              /\ rpc[n][m].term = termOf[n]
<1>1. ASSUME NEW k \in Server, Wins(k) \/ Forgets(k)
      PROVE  ackAt'[n][m] = ackAt[n][m] \/ ackAt'[n][m] = 0
  <2>1. ackAt' = [ackAt EXCEPT ![k] = [x \in Server |-> 0]]
    BY <1>1 DEF Wins, Forgets
  <2>. QED
    BY <2>1 DEF ReadsTypeOK
<1>2. ASSUME NEW k \in Server, NEW j \in Server \ {k}, ReceiveReply(k, j)
      PROVE  \/ ackAt'[n][m] = ackAt[n][m]
             \/ /\ ackAt'[n][m] = rpc[n][m].at /\ rpc[n][m].is = "reply" /\ n \in leads
                /\ rpc[n][m].term = termOf[n]
  <2>1. \/ ackAt' = ackAt
        \/ /\ rpc[k][j].is = "reply" /\ k \in leads /\ rpc[k][j].term = termOf[k]
           /\ ackAt' = [ackAt EXCEPT ![k][j] = rpc[k][j].at]
    BY <1>2 DEF ReceiveReply
  <2>2. CASE k = n /\ j = m
    BY <2>1, <2>2 DEF ReadsTypeOK
  <2>3. CASE ~(k = n /\ j = m)
    <3>1. ASSUME NEW r, ackAt' = [ackAt EXCEPT ![k][j] = r]
          PROVE  ackAt'[n][m] = ackAt[n][m]
      BY <2>3, <3>1 DEF ReadsTypeOK
    <3>. QED
      BY <2>1, <3>1
  <2>. QED
    BY <2>2, <2>3
<1>3. \/ UNCHANGED ackAt
      \/ \E k \in Server : Wins(k) \/ Forgets(k)
      \/ \E k \in Server : \E j \in Server \ {k} : ReceiveReply(k, j)
  BY Steps DEF quiet, AppendWrite, LosesQuorum, Send, Receive, Lost
<1>. QED
  BY <1>1, <1>2, <1>3

LEMMA ContactKeptStep ==
    ASSUME ReadsTypeOK, Clocks, ContactKept, [ReadsNext]_readVars, forgets' = 0
    PROVE  ContactKept'
<1>1. SUFFICES ASSUME NEW n \in Server, NEW m \in Server \ {n}
               PROVE  /\ ackAt'[n][m] <= contact'[m]
                      /\ rpc'[n][m].is = "reply" => rpc'[n][m].at <= contact'[m]
  BY DEF ContactKept
<1>2. /\ contact'[m] >= contact[m] /\ contact[m] \in Nat /\ contact'[m] \in Nat
      /\ ackAt[n][m] \in Nat /\ ackAt[n][m] <= contact[m]
      /\ rpc[n][m].is = "reply" => rpc[n][m].at \in Nat /\ rpc[n][m].at <= contact[m]
  BY ContactGrows, ReadsNextTyped, RpcFields DEF ReadsTypeOK, ContactKept, RpcType, NoRpc
<1>3. ackAt'[n][m] <= contact'[m]
  BY <1>2, AckAtFrom
<1>4. ASSUME rpc'[n][m].is = "reply"
      PROVE  rpc'[n][m].at <= contact'[m]
  <2>1. rpc'[n][m] # NoRpc /\ ~Send(n, m)
    BY <1>4 DEF NoRpc, Send, ReadsTypeOK
  <2>2. CASE Receive(n, m)
    <3>1. /\ contact'[m] = now /\ rpc'[n][m].at = rpc[n][m].at /\ rpc[n][m] # NoRpc
      BY <1>4, <2>2, Received DEF ReadsTypeOK
    <3>. QED
      BY <3>1 DEF Clocks
  <2>. QED
    BY <1>2, <1>4, <2>1, <2>2, RpcFrom
<1>. QED
  BY <1>3, <1>4

\* A leader is deposed by an election, and by nothing else.
LEMMA DeposedBy ==
    ASSUME ReadsTypeOK, TermsPast, [ReadsNext]_readVars, NEW n \in Server, termOf'[n] = termOf[n],
           Deposed(n)', ~Deposed(n)
    PROVE  \E k \in Server : Wins(k)
<1>1. SUFFICES ASSUME \A k \in Server : ~Wins(k)
               PROVE  FALSE
  OBVIOUS
<1>2. PICK m \in Server \ {n} : ~(termOf[m] > termOf[n])
  BY DEF Deposed
<1>3. termOf'[m] > termOf[n] /\ termOf'[m] # termOf[m]
  BY <1>2 DEF Deposed
<1>4. PICK x \in Server, y \in Server : rpc[x][y] # NoRpc /\ termOf'[m] = rpc[x][y].term
  BY <1>1, <1>3, TermsGrow
<1>5. Past(termOf'[m]) /\ termOf'[m] \in Nat
  BY <1>4, RpcFields DEF TermsPast, RpcType
<1>6. Deposed(n)
  BY <1>3, <1>5, PastDeposes
<1>. QED
  BY <1>6

LEMMA LeaseOverStep ==
    ASSUME ReadsTypeOK, TermsPast, RpcLogs, Clocks, ContactKept, LeaseOver, [ReadsNext]_readVars,
           forgets' = 0
    PROVE  LeaseOver'
<1>1. SUFFICES ASSUME NEW n \in leads', Deposed(n)', NEW m \in Server \ {n}
               PROVE  /\ ackAt'[n][m] > 0 => ackAt'[n][m] + TimeoutMin <= now'
                      /\ rpc'[n][m].is = "reply" /\ rpc'[n][m].term = termOf'[n] =>
                            rpc'[n][m].at + TimeoutMin <= now'
  BY DEF LeaseOver
<1>2. n \in Server /\ ReadsTypeOK' /\ now' \in Nat /\ now \in Nat /\ now' >= now /\ TimeoutMin \in Nat
  BY ReadsNextTyped, ClocksStep, ReadsAssumption DEF ReadsTypeOK
<1>3. ~Wins(n)
  <2>1. SUFFICES ASSUME Wins(n)
                 PROVE  FALSE
    OBVIOUS
  <2>2. PICK Q \in SUBSET (Server \ {n}) :
            termOf' = [x \in Server |-> IF x \in Q \cup {n} THEN termOf[n] + 1 ELSE termOf[x]]
    BY <1>2, <2>1, WinsQuorum
  <2>3. termOf[m] <= termOf[n]
    BY <1>2, <2>1, WinsNew DEF TermsPast, ReadsTypeOK
  <2>4. termOf'[m] > termOf'[n]
    BY <1>1 DEF Deposed
  <2>. QED
    BY <1>2, <2>2, <2>3, <2>4 DEF ReadsTypeOK
<1>4. n \in leads /\ termOf'[n] = termOf[n]
  BY <1>3, LeadsFrom
<1>5. /\ ackAt[n][m] \in Nat /\ ackAt'[n][m] \in Nat
      /\ rpc[n][m].is = "reply" => rpc[n][m].at \in Nat
  BY <1>2, RpcFields DEF ReadsTypeOK, RpcType, NoRpc
<1>6. CASE Deposed(n)
  <2>1. /\ ackAt[n][m] > 0 => ackAt[n][m] + TimeoutMin <= now
        /\ rpc[n][m].is = "reply" /\ rpc[n][m].term = termOf[n] => rpc[n][m].at + TimeoutMin <= now
    BY <1>4, <1>6 DEF LeaseOver
  <2>2. ackAt'[n][m] > 0 => ackAt'[n][m] + TimeoutMin <= now'
    BY <1>2, <1>5, <2>1, AckAtFrom
  <2>3. rpc'[n][m].is = "reply" => rpc'[n][m] = rpc[n][m]
    BY <1>2, <1>6, DeposedReplies
  <2>. QED
    BY <1>2, <1>4, <1>5, <2>1, <2>2, <2>3
<1>7. CASE ~Deposed(n)
  <2>1. PICK k \in Server : Wins(k)
    BY <1>1, <1>2, <1>4, <1>7, DeposedBy
  <2>2. k # n
    BY <1>3, <2>1
  <2>3. contact[m] > 0 => now - contact[m] >= TimeoutMin
    BY <1>2, <1>4, <2>1, <2>2, WinsOver
  <2>4. now' = now /\ rpc' = rpc /\ ackAt'[n] = ackAt[n]
    BY <1>2, <2>1, <2>2 DEF Wins, ReadsTypeOK
  <2>5. contact[m] \in Nat /\ ackAt[n][m] <= contact[m]
    BY <1>2 DEF ReadsTypeOK, ContactKept
  <2>6. rpc[n][m].is = "reply" => 1 <= rpc[n][m].at /\ rpc[n][m].at <= contact[m]
    BY <1>2 DEF Clocks, ContactKept, NoRpc
  <2>7. ackAt[n][m] > 0 => ackAt[n][m] + TimeoutMin <= now
    BY <1>2, <1>5, <2>3, <2>5
  <2>8. rpc[n][m].is = "reply" => rpc[n][m].at + TimeoutMin <= now
    BY <1>2, <1>5, <2>3, <2>5, <2>6
  <2>. QED
    BY <2>4, <2>7, <2>8
<1>. QED
  BY <1>6, <1>7

\* What a read that ends was answered with.
LEMMA FreshStep ==
    ASSUME ReadsTypeOK, CommittedHolds, ReadsHold, LeaseInv, Clocks, ReadsFresh, [ReadsNext]_readVars
    PROVE  ReadsFresh'
<1>1. ASSUME NEW n \in Server, EndReadIndex(n)
      PROVE  stale' = stale
  <2>1. /\ reading[n].is = "read" /\ reading[n] # NoRead
        /\ termOf[n] = reading[n].term /\ Confirmed(n, reading[n].round)
        /\ stale' = Judge("read_index", reading[n].idx, reading[n].start)
    BY <1>1 DEF EndReadIndex, NoRead
  <2>2. {n} \cup {m \in Server : ackRound[n][m] >= reading[n].round} \in SUBSET Server
    OBVIOUS
  <2>3. PICK m \in Server \ {n} : ackRound[n][m] >= reading[n].round
    BY <2>1, <2>2, MajorityOther DEF Confirmed
  <2>4. /\ ackRound[n][m] \in Nat /\ reading[n].round \in Nat /\ reading[n].idx \in Nat
        /\ reading[n].start \in Nat /\ termOf[n] \in Nat
    BY <2>1, ReadFields DEF ReadsTypeOK, ReadType
  <2>5. reading[n].idx >= reading[n].start
    BY <2>1, <2>3, <2>4 DEF ReadsHold
  <2>. QED
    BY <2>1, <2>4, <2>5 DEF Judge
<1>2. ASSUME NEW n \in Server, lease_read(n), forgets = 0
      PROVE  stale' = stale
  <2>1. /\ n \in leads /\ knows[n].term = termOf[n]
        /\ Majority({n} \cup {m \in Server : InLease(ackAt[n][m])})
        /\ stale' = Judge("lease_read", knows[n].idx, committed)
    BY <1>2 DEF lease_read, TermCommitted
  <2>2. {n} \cup {m \in Server : InLease(ackAt[n][m])} \in SUBSET Server
    OBVIOUS
  <2>3. PICK m \in Server \ {n} : InLease(ackAt[n][m])
    BY <2>1, <2>2, MajorityOther
  <2>4. ackAt[n][m] \in Nat /\ now \in Nat /\ TimeoutMin \in Nat
    BY ReadsAssumption DEF ReadsTypeOK
  <2>5. ~(ackAt[n][m] + TimeoutMin <= now)
    <3>1. ackAt[n][m] > 0 /\ 5 * (now - ackAt[n][m]) < 4 * TimeoutMin
      BY <2>3 DEF InLease
    <3>. QED
      BY <2>4, <3>1
  <2>6. ~Deposed(n)
    BY <1>2, <2>1, <2>3, <2>5 DEF LeaseInv, LeaseOver, InLease
  <2>7. knows[n].idx >= committed
    BY <2>1, <2>6, LeaderKnows
  <2>8. knows[n].idx \in Nat /\ committed \in Nat
    BY DEF ReadsTypeOK, EntryType
  <2>. QED
    BY <2>1, <2>7, <2>8 DEF Judge
<1>3. ASSUME NEW n \in Server, lease_read(n)
      PROVE  /\ "read_index" \in stale' => "read_index" \in stale
             /\ forgets' = forgets
  BY <1>3 DEF lease_read, Judge
<1>4. ASSUME NEW k \in Server, NEW j \in Server,
             Send(k, j) \/ Receive(k, j) \/ ReceiveReply(k, j) \/ Lost(k, j)
      PROVE  UNCHANGED <<stale, forgets>>
  BY <1>4 DEF Send, Receive, ReceiveReply, Lost
<1>5. ASSUME NEW k \in Server, \/ Wins(k) \/ AppendWrite(k) \/ LosesQuorum(k) \/ BeginReadIndex(k)
                               \/ ReadIndexFails(k)
      PROVE  UNCHANGED <<stale, forgets>>
  BY <1>5 DEF Wins, AppendWrite, LosesQuorum, BeginReadIndex, ReadIndexFails
<1>6. NextMoment \/ UNCHANGED readVars => UNCHANGED <<stale, forgets>>
  BY DEF NextMoment, readVars
<1>7. ASSUME NEW k \in Server, Forgets(k)
      PROVE  stale' = stale /\ forgets' > 0
  BY <1>7 DEF Forgets, ReadsTypeOK
<1>8. ASSUME NEW k \in Server, EndReadIndex(k)
      PROVE  UNCHANGED <<stale, forgets>>
  BY <1>1, <1>8 DEF EndReadIndex
<1>9. forgets \in Nat
  BY DEF ReadsTypeOK
<1>10. CASE UNCHANGED <<stale, forgets>>
  BY <1>10 DEF ReadsFresh, ReadIndexFresh, LeaseFresh
<1>11. ASSUME NEW k \in Server, Forgets(k)
       PROVE  ReadsFresh'
  BY <1>7, <1>11 DEF ReadsFresh, ReadIndexFresh, LeaseFresh
<1>12. ASSUME NEW k \in Server, lease_read(k)
       PROVE  ReadsFresh'
  BY <1>2, <1>3, <1>9, <1>12 DEF ReadsFresh, ReadIndexFresh, LeaseFresh
<1>. QED
  BY <1>4, <1>5, <1>6, <1>8, <1>10, <1>11, <1>12 DEF ReadsNext

-----------------------------------------------------------------------------
\* The invariant.

LEMMA ReadsInvInit == ReadsInit => ReadsInv
<1>. SUFFICES ASSUME ReadsInit
              PROVE  ReadsInv
  OBVIOUS
<1>0. ReadsTypeOK
  BY ReadsInitTyped
<1>1. \A x \in Server : /\ termOf[x] = 1 /\ lastEntry[x] = [term |-> 1, idx |-> 1]
                        /\ knows[x] = [term |-> 1, idx |-> 1]
  BY DEF ReadsInit
<1>2. \A n, m \in Server : rpc[n][m] = NoRpc
  BY DEF ReadsInit
<1>3. PICK a \in Server : \E b \in Server \ {a} : TRUE
  BY TwoOthers, ReadsAssumption
<1>4. PICK b \in Server \ {a} : TRUE
  BY <1>3
<1>5. Past(1)
  BY <1>1, <1>4, ReachedIs DEF Past
<1>6. \A e \in EntryType : Around(e) => e = [term |-> 1, idx |-> 1]
  BY <1>1, <1>2 DEF Around
<1>7. TermsPast
  BY <1>1, <1>2, <1>5, <1>6 DEF TermsPast
<1>8. LeadersLast
  BY <1>1, ReadsAssumption DEF LeadersLast, ReadsInit
<1>9. RpcLogs /\ RepliesHold
  BY <1>0, <1>2 DEF RpcLogs, RepliesHold, NoRpc, ReadsTypeOK
<1>10. CommittedIn(1)
  <2>1. UpToDate(lastEntry[a], [term |-> 1, idx |-> 1]) /\ UpToDate(lastEntry[b], [term |-> 1, idx |-> 1])
    BY <1>1, <1>4 DEF UpToDate
  <2>2. Held(lastEntry, [term |-> 1, idx |-> 1])
    BY <1>4, <2>1, HeldIs
  <2>3. committed = 1
    BY DEF ReadsInit
  <2>4. Above(1, committed)
    BY <1>6 DEF Above
  <2>5. \A n \in leads : knows[n].idx >= committed
    BY <1>0, <1>1, <2>3 DEF ReadsTypeOK
  <2>. QED
    BY <1>5, <2>2, <2>3, <2>4, <2>5 DEF CommittedIn
<1>11. CommittedHolds
  BY <1>10 DEF CommittedHolds
<1>12. Rounds /\ ReadsHold
  BY <1>2 DEF Rounds, ReadsHold, ReadsInit
<1>13. Clocks
  BY <1>2 DEF Clocks, ReadsInit
<1>14. ContactKept
  BY <1>2 DEF ContactKept, ReadsInit, NoRpc
<1>15. LeaseOver
  <2>1. \A n \in Server : ~Deposed(n)
    BY <1>0, <1>1, TwoOthers DEF Deposed
  <2>. QED
    BY <1>0, <2>1 DEF LeaseOver, ReadsTypeOK
<1>16. ReadsFresh
  BY DEF ReadsInit, ReadsFresh, ReadIndexFresh, LeaseFresh
<1>. QED
  BY <1>0, <1>7, <1>8, <1>9, <1>11, <1>12, <1>13, <1>14, <1>15, <1>16 DEF ReadsInv, LeaseInv

LEMMA ReadsInvNext == ReadsInv /\ [ReadsNext]_readVars => ReadsInv'
<1>. SUFFICES ASSUME ReadsInv, [ReadsNext]_readVars
              PROVE  ReadsInv'
  OBVIOUS
<1>. USE DEF ReadsInv
<1>1. ReadsTypeOK' /\ TermsPast' /\ LeadersLast'
  BY ReadsNextTyped, TermsPastStep, LeadersLastStep
<1>2. RpcLogs' /\ RepliesHold' /\ CommittedHolds'
  BY RpcLogsStep, RepliesHoldStep, CommittedStep
<1>3. Rounds' /\ ReadsHold' /\ Clocks'
  BY RoundsStep, ReadsHoldStep, ClocksStep
<1>4. ASSUME forgets' = 0
      PROVE  ContactKept' /\ LeaseOver'
  <2>1. PICK s \in Server : TRUE
    BY ReadsAssumption
  <2>2. forgets = 0
    BY <1>4, <2>1, ContactGrows
  <2>3. ContactKept /\ LeaseOver
    BY <2>2 DEF LeaseInv
  <2>. QED
    BY <1>4, <2>3, ContactKeptStep, LeaseOverStep
<1>5. ReadsFresh'
  BY FreshStep
<1>. QED
  BY <1>1, <1>2, <1>3, <1>4, <1>5 DEF LeaseInv

\* A read index that was confirmed covers every write committed before the read began, by whichever
\* leader, through restarts and late answers; and so does a read under the lease, as long as no node
\* is restarted.
THEOREM LinearizableReads == ReadsSpec => []ReadsFresh
<1>1. ReadsInv => ReadsFresh
  BY DEF ReadsInv
<1>. QED
  BY <1>1, ReadsInvInit, ReadsInvNext, PTL DEF ReadsSpec

=============================================================================
