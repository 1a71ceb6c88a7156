-------------------------- MODULE CollectionProofs --------------------------
(***************************************************************************)
(* A shard with its replicas, and the shards of a durable collection, for  *)
(* every number of replicas, shards, vectors, threads, writes, crashes and *)
(* failovers, every quorum and every size of a segment.                    *)
(*                                                                         *)
(* The collections that acknowledged a write have it (AckedHave), so that  *)
(* a quorum has every write that met it (CopiedHave), and until a failover *)
(* only a removal that has not come to a replica yet leaves it more than   *)
(* the primary has (GhostsRemoved).                                        *)
(*                                                                         *)
(* A replay of the primary's log makes what the primary has, or has it one *)
(* record ahead (Recoverable), as long as nothing is damaged: numerals of  *)
(* one digit are in order as names (NamesInOrder), so the segments are     *)
(* read in the order they were begun in (SegmentsListed); only the last of *)
(* them changes (Tidy), a record at a time (WrittenIs); and a record more  *)
(* to read is a record more to apply (RebuiltIs).                          *)
(*                                                                         *)
(* Durable collection: a plan covers every version that the searches       *)
(* returned, and of two versions that need no excuse the older is linked,  *)
(* or the call that wrote one of them last still owes the link; the times  *)
(* of an id only shrink until it is written again, so that an edge once    *)
(* sound stays sound.                                                      *)
(***************************************************************************)
EXTENDS ReplicaSet, DurableCollection,
        FiniteSetTheorems, FunctionTheorems, SequenceTheorems, WellFoundedInduction, TLAPS

-----------------------------------------------------------------------------
\* Sets of numbers in order.

\* A set of numbers with a member has a least one.
LEMMA LeastNumber ==
    ASSUME NEW T \in SUBSET Nat, NEW k \in T
    PROVE  \E m \in T : \A j \in T : m <= j
<1>. DEFINE R == OpToRel(<, Nat)
<1>1. IsWellFoundedOn(R, Nat)
  BY NatLessThanWellFounded
<1>2. PICK m \in T : \A j \in T : ~(<<j, m>> \in R)
  <2>. HIDE DEF R
  <2>. QED
    BY <1>1, WFMin
<1>3. ASSUME NEW j \in T
      PROVE  m <= j
  <2>1. SUFFICES ASSUME j < m
                 PROVE  FALSE
    OBVIOUS
  <2>2. <<j, m>> \in R
    BY <2>1 DEF OpToRel
  <2>. QED
    BY <1>2, <2>2
<1>. QED
  BY <1>3

\* A set of places has a last one.
LEMMA LastPlace ==
    ASSUME NEW n \in Nat, NEW S \in SUBSET (1..n), NEW k \in S
    PROVE  Max(S) \in S /\ \A j \in S : j <= Max(S)
<1>. DEFINE T == {i \in Nat : \E j \in S : i = n - j}
<1>1. T \in SUBSET Nat /\ n - k \in T
  OBVIOUS
<1>2. PICK i \in T : \A j \in T : i <= j
  <2>. HIDE DEF T
  <2>. QED
    BY <1>1, LeastNumber
<1>3. PICK m \in S : i = n - m
  BY <1>2
<1>4. \A j \in S : m >= j
  <2>1. SUFFICES ASSUME NEW j \in S PROVE m >= j
    OBVIOUS
  <2>2. n - j \in T /\ j \in 1..n /\ m \in 1..n
    OBVIOUS
  <2>3. n - m <= n - j
    BY <1>2, <1>3, <2>2
  <2>. HIDE DEF T
  <2>. QED
    BY <2>2, <2>3
<1>5. \E x \in S : \A y \in S : x >= y
  BY <1>3, <1>4
<1>6. Max(S) \in S /\ \A y \in S : Max(S) >= y
  BY <1>5, Zenon DEF Max
<1>. QED
  BY <1>6

\* The members of S from the least to the greatest.
Orders(p, S) ==
    /\ p \in [1..Cardinality(S) -> S] /\ Range(p) = S
    /\ \A j, k \in DOMAIN p : j < k => p[j] < p[k]

LEMMA OrderExists ==
    ASSUME NEW n \in Nat
    PROVE  \A S \in SUBSET (1..n) : IsFiniteSet(S) /\ \E p : Orders(p, S)
<1>. DEFINE P(m) == \A S \in SUBSET (1..m) : IsFiniteSet(S) /\ \E p : Orders(p, S)
            Bad == {m \in Nat : ~P(m)}
<1>1. P(0)
  <2>1. \A S \in SUBSET (1..0) : S = {}
    OBVIOUS
  <2>2. IsFiniteSet({}) /\ Cardinality({}) = 0
    BY FS_EmptySet
  <2>3. Orders(<<>>, {})
    BY <2>2 DEF Orders, Range
  <2>. QED
    BY <2>1, <2>2, <2>3
<1>2. ASSUME NEW m \in Nat, P(m)
      PROVE  P(m + 1)
  <2>1. SUFFICES ASSUME NEW S \in SUBSET (1..(m + 1)) PROVE IsFiniteSet(S) /\ \E p : Orders(p, S)
    OBVIOUS
  <2>2. CASE m + 1 \notin S
    <3>1. S \in SUBSET (1..m)
      BY <2>2
    <3>. QED
      BY <1>2, <3>1
  <2>3. CASE m + 1 \in S
    <3>. DEFINE T == S \ {m + 1}
    <3>1. T \in SUBSET (1..m) /\ S = T \cup {m + 1} /\ m + 1 \notin T
      BY <2>3
    <3>. HIDE DEF T
    <3>2. PICK t : Orders(t, T)
      BY <1>2, <3>1
    <3>3. IsFiniteSet(T) /\ Cardinality(T) \in Nat /\ IsFiniteSet(S) /\ Cardinality(S) = Cardinality(T) + 1
      BY <1>2, <3>1, FS_AddElement, FS_CardinalityType
    <3>. DEFINE c == Cardinality(T)
                s == [k \in 1..(c + 1) |-> IF k = c + 1 THEN m + 1 ELSE t[k]]
    <3>4. c \in Nat /\ Cardinality(S) = c + 1
      BY <3>3
    <3>. HIDE DEF c
    <3>5. t \in [1..c -> T] /\ Range(t) = T /\ \A j, k \in 1..c : j < k => t[j] < t[k]
      BY <3>2 DEF Orders, c
    <3>6. \A k \in 1..(c + 1) : k # c + 1 => k \in 1..c
      BY <3>4
    <3>7. \A k \in 1..c : t[k] \in T /\ t[k] \in 1..m
      BY <3>1, <3>5
    <3>8. s \in [1..(c + 1) -> S]
      BY <3>1, <3>6, <3>7
    <3>9. ASSUME NEW j \in 1..(c + 1), NEW k \in 1..(c + 1), j < k PROVE s[j] < s[k]
      <4>1. j \in 1..c /\ s[j] = t[j]
        BY <3>4, <3>9
      <4>2. CASE k = c + 1
        BY <3>4, <3>7, <4>1, <4>2
      <4>3. CASE k # c + 1
        BY <3>5, <3>6, <3>9, <4>1, <4>3
      <4>. QED
        BY <4>2, <4>3
    <3>10. ASSUME NEW x \in S PROVE x \in Range(s)
      <4>1. CASE x = m + 1
        <5>1. c + 1 \in 1..(c + 1) /\ s[c + 1] = x
          BY <3>4, <4>1
        <5>. QED
          BY <5>1 DEF Range
      <4>2. CASE x # m + 1
        <5>1. PICK k \in 1..c : t[k] = x
          BY <3>1, <3>5, <4>2 DEF Range
        <5>2. k \in 1..(c + 1) /\ s[k] = x
          BY <3>4, <5>1
        <5>. QED
          BY <5>2 DEF Range
      <4>. QED
        BY <4>1, <4>2
    <3>11. Range(s) \subseteq S
      BY <3>8 DEF Range
    <3>12. DOMAIN s = 1..(c + 1)
      OBVIOUS
    <3>. HIDE DEF s
    <3>13. Orders(s, S)
      BY <3>4, <3>8, <3>9, <3>10, <3>11, <3>12 DEF Orders
    <3>. QED
      BY <3>3, <3>13
  <2>. QED
    BY <2>2, <2>3
<1>. HIDE DEF P
<1>3. SUFFICES ASSUME NEW k \in Bad PROVE FALSE
  <2>1. P(n)
    BY <1>3
  <2>. QED
    BY <2>1 DEF P
<1>4. PICK m \in Bad : \A j \in Bad : m <= j
  <2>1. Bad \in SUBSET Nat
    OBVIOUS
  <2>. HIDE DEF Bad
  <2>. QED
    BY <2>1, <1>3, LeastNumber
<1>5. m \in Nat /\ ~P(m)
  OBVIOUS
<1>6. m # 0 /\ m - 1 \in Nat
  BY <1>1, <1>5
<1>7. P(m - 1)
  <2>1. m - 1 \notin Bad
    BY <1>4, <1>5, <1>6
  <2>. QED
    BY <1>6, <2>1
<1>. QED
  BY <1>2, <1>5, <1>6, <1>7

-----------------------------------------------------------------------------
\* The collections.

Kinds == {"upsert", "remove", "add_edge"}

Writes == [kind : Kinds, id : DocId, ver : Nat \ {0}, at : Nat, acked : Nat]

\* What these proofs need to know of the types.
ReplicaTypes ==
    /\ quorum \in Nat
    /\ running \in BOOLEAN
    /\ nodes \in Seq(Dirs) /\ Len(nodes) >= 1
    /\ data = [d \in Dirs |-> data[d]]
    /\ write \in {NoWrite} \cup Writes
    /\ ~Idle => write.at <= Len(nodes) + 1
    /\ readable \in [DocId -> SUBSET [ver : Nat, edge : BOOLEAN]]
    /\ spent \in [writes : Nat, restarts : Nat, failovers : Nat, refusals : Nat, full : Nat]

\* Between a crash and the replay nothing is in memory.
Down ==
    ~running => Idle /\ copied = {} /\ data = [d \in Dirs |-> Empty]

\* The collections that have version v of an id, among the first of the list.
With(id, v, upto) == {k \in 1..upto : data[nodes[k]][id].ver = v}

\* While an upsert is under way, those that acknowledged it have it.
AckedHave ==
    ~Idle /\ write.at >= 2 /\ write.kind = "upsert" =>
        /\ write.acked >= 1 /\ data[primary][write.id].ver = write.ver
        /\ Cardinality(With(write.id, write.ver, write.at - 1)) >= write.acked

\* Ids whose newest write met the quorum are not being written, and enough collections have the
\* one version that can be read.
CopiedHave ==
    \A id \in copied :
        /\ id \in DocId /\ (~Idle => write.id # id)
        /\ \E v \in Nat : /\ Cardinality(With(id, v, Len(nodes))) >= quorum
                          /\ \E item \in readable[id] : item.ver = v

\* There is always something to be read.
Readables == \A id \in DocId : readable[id] # {}

\* Replica k has nothing of the id that the primary has not.
NoMore(k, id) ==
    /\ data[nodes[k]][id].ver > 0 => data[primary][id].ver > 0
    /\ data[nodes[k]][id].edge => data[primary][id].edge

\* Only a removal that has not come to the replica yet leaves it something more.
GhostsRemoved ==
    running /\ spent.failovers = 0 =>
        /\ ~Idle /\ write.at >= 2 =>
              /\ write.kind = "upsert" => data[primary][write.id].ver = write.ver
              /\ write.kind = "add_edge" => data[primary][write.id].edge
        /\ \A k \in 1..Len(nodes), id \in DocId :
              NoMore(k, id) \/ (~Idle /\ write.at >= 2 /\ write.kind = "remove" /\ id = write.id /\ k >= write.at)

\* Until a failover the list of the collections is as in the beginning.
ListedInOrder == spent.failovers = 0 => nodes = [k \in 1..(Replicas + 1) |-> k - 1]

ReplicaInv == ReplicaTypes /\ Down /\ AckedHave /\ CopiedHave /\ Readables /\ GhostsRemoved /\ ListedInOrder

LEMMA InOrderTyped ==
    /\ [k \in 1..(Replicas + 1) |-> k - 1] \in Seq(Dirs) /\ Len([k \in 1..(Replicas + 1) |-> k - 1]) = Replicas + 1
    /\ Replicas + 1 \in Nat /\ Replicas + 1 >= 1
<1>1. Replicas \in Nat
  BY ReplicaSetAssumption
<1>2. \A k \in 1..(Replicas + 1) : k - 1 \in Dirs
  BY <1>1 DEF Dirs
<1>. QED
  BY <1>1, <1>2

LEMMA EmptyItems == \A id \in DocId : Empty[id] = NoItem /\ Empty[id].ver = 0 /\ ~Empty[id].edge
  BY DEF Empty, NoItem

LEMMA NotIdle == ASSUME ReplicaTypes, ~Idle PROVE write \in Writes
  BY DEF ReplicaTypes, Idle

LEMMA WritesAreWrites == \A w \in Writes : w # NoWrite
  BY DEF Writes, NoWrite, Kinds

\* What a record makes of a collection: only the item of its id changes.
LEMMA RecordApplies ==
    ASSUME NEW w \in Writes, NEW col
    PROVE  /\ \A id \in DocId : id # w.id => ApplyRecord(col, Record(w))[id] = col[id]
           /\ w.kind = "upsert" => ApplyRecord(col, Record(w))[w.id].ver = w.ver
                                   /\ ApplyRecord(col, Record(w))[w.id].edge = col[w.id].edge
           /\ w.kind = "remove" => ApplyRecord(col, Record(w))[w.id].ver = 0
                                   /\ ApplyRecord(col, Record(w))[w.id].edge = FALSE
           /\ w.kind = "add_edge" => ApplyRecord(col, Record(w))[w.id].ver = col[w.id].ver
                                     /\ ApplyRecord(col, Record(w))[w.id].edge = TRUE
<1>1. w.id \in DocId /\ w.kind \in Kinds
  BY DEF Writes
<1>2. PICK r : r = Record(w)
  OBVIOUS
<1>3. r.kind = w.kind /\ r.id = w.id /\ r.ver = w.ver
  BY <1>2 DEF Record
<1>4. ApplyRecord(col, r) = [id \in DocId |-> IF id = r.id THEN Effect(r, col[id]) ELSE col[id]]
  BY DEF ApplyRecord
<1>5. \A id \in DocId : id # w.id => ApplyRecord(col, r)[id] = col[id]
  BY <1>3, <1>4
<1>6. ApplyRecord(col, r)[w.id] = Effect(r, col[w.id])
  BY <1>1, <1>3, <1>4
<1>7. CASE w.kind = "upsert"
  <2>1. Effect(r, col[w.id]) = [ver |-> r.ver, edge |-> col[w.id].edge]
    BY <1>3, <1>7 DEF Effect
  <2>. QED
    BY <1>2, <1>3, <1>5, <1>6, <1>7, <2>1
<1>8. CASE w.kind = "remove"
  <2>1. Effect(r, col[w.id]) = NoItem
    BY <1>3, <1>8 DEF Effect
  <2>. QED
    BY <1>2, <1>5, <1>6, <1>8, <2>1 DEF NoItem
<1>9. CASE w.kind = "add_edge"
  <2>1. Effect(r, col[w.id]) = [ver |-> col[w.id].ver, edge |-> TRUE]
    BY <1>3, <1>9 DEF Effect
  <2>. QED
    BY <1>2, <1>5, <1>6, <1>9, <2>1
<1>. QED
  BY <1>1, <1>7, <1>8, <1>9 DEF Kinds

LEMMA EffectTyped ==
    ASSUME NEW r, r.kind \in Kinds, r.ver \in Nat, NEW item \in [ver : Nat, edge : BOOLEAN]
    PROVE  Effect(r, item) \in [ver : Nat, edge : BOOLEAN] /\ (r.kind = "upsert" => Effect(r, item).ver = r.ver)
<1>1. NoItem \in [ver : Nat, edge : BOOLEAN]
  BY DEF NoItem
<1>2. item.ver \in Nat /\ item.edge \in BOOLEAN
  OBVIOUS
<1>3. CASE r.kind = "upsert"
  BY <1>2, <1>3 DEF Effect
<1>4. CASE r.kind = "remove"
  BY <1>1, <1>4 DEF Effect
<1>5. CASE r.kind = "add_edge"
  BY <1>2, <1>5 DEF Effect
<1>. QED
  BY <1>3, <1>4, <1>5 DEF Kinds

\* The set of those that have a version is finite, and larger sets count more.
LEMMA WithFinite ==
    ASSUME NEW id, NEW v, NEW upto \in Nat
    PROVE  IsFiniteSet(With(id, v, upto)) /\ Cardinality(With(id, v, upto)) \in Nat /\ With(id, v, upto) \subseteq 1..upto
<1>1. With(id, v, upto) \subseteq 1..upto
  BY DEF With
<1>2. IsFiniteSet(1..upto)
  BY FS_Interval
<1>. QED
  BY <1>1, <1>2, FS_Subset, FS_CardinalityType

LEMMA ReplicaInitially == RSInit => ReplicaInv
<1>. SUFFICES ASSUME RSInit PROVE ReplicaInv
  OBVIOUS
<1>1. /\ quorum \in Quorums /\ running = TRUE /\ nodes = [k \in 1..(Replicas + 1) |-> k - 1]
      /\ data = [d \in Dirs |-> Empty] /\ write = NoWrite /\ readable = [id \in DocId |-> {NoItem}]
      /\ copied = {} /\ spent = [writes |-> 0, restarts |-> 0, failovers |-> 0, refusals |-> 0, full |-> 0]
  BY DEF RSInit
<1>2. Idle
  BY <1>1 DEF Idle
<1>3. NoItem \in [ver : Nat, edge : BOOLEAN]
  BY DEF NoItem
<1>4. nodes \in Seq(Dirs) /\ Len(nodes) >= 1
  BY <1>1, InOrderTyped
<1>5. ReplicaTypes
  BY <1>1, <1>2, <1>3, <1>4, ReplicaSetAssumption DEF ReplicaTypes
<1>6. \A k \in 1..Len(nodes) : data[nodes[k]] = Empty
  <2>1. \A k \in 1..Len(nodes) : nodes[k] \in Dirs
    BY <1>4
  <2>. QED
    BY <1>1, <2>1
<1>7. GhostsRemoved
  BY <1>2, <1>6, EmptyItems DEF GhostsRemoved, NoMore
<1>. QED
  BY <1>1, <1>2, <1>5, <1>7 DEF ReplicaInv, Down, AckedHave, CopiedHave, Readables, ListedInOrder

\* A step that leaves the collections alone, and what is listed and copied.
Untouched == UNCHANGED <<quorum, running, nodes, data, readable, copied>>

LEMMA SameWith ==
    ASSUME Untouched
    PROVE  /\ \A id, v, n : With(id, v, n)' = With(id, v, n)
           /\ \A k, id : NoMore(k, id)' <=> NoMore(k, id)
           /\ primary' = primary
  BY DEF Untouched, With, NoMore, primary

LEMMA KeptByBegin ==
    ASSUME ReplicaInv, NEW kind \in Kinds, NEW id \in DocId, Begin(kind, id)
    PROVE  ReplicaInv'
<1>. USE DEF ReplicaInv
<1>. PICK w : w = [kind |-> kind, id |-> id, ver |-> spent.writes + 1, at |-> 0, acked |-> 0]
  OBVIOUS
<1>. PICK r : r = Record(w)
  OBVIOUS
<1>1. /\ running /\ Idle /\ write' = w
      /\ readable' = [readable EXCEPT ![id] = @ \cup {Effect(r, item) : item \in @}]
      /\ copied' = copied \ {id}
      /\ spent' = [spent EXCEPT !.writes = @ + 1]
      /\ UNCHANGED <<quorum, running, nodes, data>>
  BY DEF Begin, Count
<1>2. w \in Writes /\ w.at = 0 /\ w.id = id /\ w.kind = kind /\ w # NoWrite
  BY DEF Writes, ReplicaTypes, NoWrite, Kinds
<1>3. r.kind \in Kinds /\ r.ver \in Nat
  BY <1>2 DEF Record, Writes
<1>4. ~Idle' /\ write'.at = 0
  BY <1>1, <1>2 DEF Idle
<1>5. \A item \in readable[id] : Effect(r, item) \in [ver : Nat, edge : BOOLEAN]
  BY <1>3, EffectTyped DEF ReplicaTypes
<1>6. readable' \in [DocId -> SUBSET [ver : Nat, edge : BOOLEAN]] /\ \A x \in DocId : x # id => readable'[x] = readable[x]
  BY <1>1, <1>5 DEF ReplicaTypes
<1>7. spent' \in [writes : Nat, restarts : Nat, failovers : Nat, refusals : Nat, full : Nat] /\ spent'.failovers = spent.failovers
  <2>1. spent \in [writes : Nat, restarts : Nat, failovers : Nat, refusals : Nat, full : Nat]
    BY DEF ReplicaTypes
  <2>2. spent' = [spent EXCEPT !.writes = spent.writes + 1]
    BY <1>1
  <2>3. spent.writes + 1 \in Nat
    BY <2>1
  <2>. QED
    BY <2>1, <2>2, <2>3
<1>8. nodes \in Seq(Dirs) /\ Len(nodes) \in Nat /\ Len(nodes) >= 1
  BY DEF ReplicaTypes
<1>9. ReplicaTypes'
  BY <1>1, <1>2, <1>4, <1>6, <1>7, <1>8 DEF ReplicaTypes
<1>10. Readables'
  BY <1>1, <1>6 DEF Readables, ReplicaTypes
<1>11. CopiedHave'
  <2>1. ASSUME NEW x \in copied, x # id
        PROVE  /\ x \in DocId /\ \E v \in Nat : /\ Cardinality(With(x, v, Len(nodes))) >= quorum
                                                /\ \E item \in readable'[x] : item.ver = v
    BY <1>6, <2>1 DEF CopiedHave
  <2>2. \A x, v : With(x, v, Len(nodes))' = With(x, v, Len(nodes))
    BY <1>1 DEF With
  <2>. QED
    BY <1>1, <1>2, <2>1, <2>2 DEF CopiedHave
<1>12. GhostsRemoved'
  BY <1>1, <1>4, <1>7 DEF GhostsRemoved, NoMore, primary
<1>. QED
  BY <1>1, <1>4, <1>7, <1>9, <1>10, <1>11, <1>12 DEF Down, AckedHave, ListedInOrder

\* A step of a write that changes no collection, but for how far it has come.
LEMMA KeptByMove ==
    ASSUME ReplicaInv, running, ~Idle, NEW at \in Nat, at <= Len(nodes) + 1,
           write' = [write EXCEPT !.at = at], Untouched,
           (at < 2 /\ write.at < 2) \/ (at = write.at + 1 /\ write.at >= 2 /\ write.kind = "upsert"),
           spent' \in [writes : Nat, restarts : Nat, failovers : Nat, refusals : Nat, full : Nat],
           spent'.failovers = spent.failovers
    PROVE  ReplicaInv'
<1>. USE DEF ReplicaInv
<1>1. write \in Writes
  BY NotIdle
<1>2. write' \in Writes /\ write'.at = at /\ write'.kind = write.kind /\ write'.id = write.id /\ write'.ver = write.ver
      /\ write'.acked = write.acked
  BY <1>1 DEF Writes
<1>3. ~Idle'
  BY <1>2, WritesAreWrites DEF Idle
<1>4. /\ \A id, v, n : With(id, v, n)' = With(id, v, n)
      /\ \A k, id : NoMore(k, id)' <=> NoMore(k, id)
      /\ primary' = primary
  BY SameWith
<1>5. quorum' = quorum /\ running' = running /\ nodes' = nodes /\ data' = data /\ readable' = readable /\ copied' = copied
  BY DEF Untouched
<1>6. ReplicaTypes'
  BY <1>2, <1>5 DEF ReplicaTypes
<1>7. AckedHave'
  <2>. SUFFICES ASSUME at >= 2, write.kind = "upsert"
               PROVE  /\ write.acked >= 1 /\ data[primary][write.id].ver = write.ver
                      /\ Cardinality(With(write.id, write.ver, at - 1)) >= write.acked
    BY <1>2, <1>4, <1>5 DEF AckedHave
  <2>1. write.at \in Nat /\ at = write.at + 1 /\ write.at >= 2 /\ write.acked \in Nat
    BY <1>1 DEF Writes
  <2>2. With(write.id, write.ver, write.at - 1) \subseteq With(write.id, write.ver, at - 1)
    BY <2>1 DEF With
  <2>3. at - 1 \in Nat /\ write.at - 1 \in Nat
    BY SMTT(30), <2>1
  <2>4. Cardinality(With(write.id, write.ver, write.at - 1)) <= Cardinality(With(write.id, write.ver, at - 1))
    BY <2>2, <2>3, WithFinite, FS_Subset
  <2>5. Cardinality(With(write.id, write.ver, write.at - 1)) \in Nat /\ Cardinality(With(write.id, write.ver, at - 1)) \in Nat
    BY <2>3, WithFinite
  <2>. QED
    BY <2>1, <2>4, <2>5 DEF AckedHave
<1>8. CopiedHave'
  BY <1>2, <1>4, <1>5 DEF CopiedHave
<1>9. GhostsRemoved'
  <2>. SUFFICES ASSUME spent.failovers = 0
               PROVE  /\ at >= 2 => /\ write.kind = "upsert" => data[primary][write.id].ver = write.ver
                                    /\ write.kind = "add_edge" => data[primary][write.id].edge
                      /\ \A k \in 1..Len(nodes), id \in DocId :
                            NoMore(k, id) \/ (at >= 2 /\ write.kind = "remove" /\ id = write.id /\ k >= at)
    BY <1>2, <1>3, <1>4, <1>5 DEF GhostsRemoved
  <2>1. write.at \in Nat
    BY <1>1 DEF Writes
  <2>2. write.at < 2 \/ write.kind = "upsert"
    OBVIOUS
  <2>. QED
    BY <2>1, <2>2 DEF GhostsRemoved
<1>10. (Down /\ Readables /\ ListedInOrder)'
  BY <1>5 DEF Down, Readables, ListedInOrder
<1>. QED
  BY <1>6, <1>7, <1>8, <1>9, <1>10

LEMMA KeptByLog == ASSUME ReplicaInv, LogRecord \/ LogRecordFails PROVE ReplicaInv'
<1>1. /\ running /\ ~Idle /\ write.at = 0 /\ write' = [write EXCEPT !.at = 1] /\ Untouched
      /\ spent' = spent \/ spent' = [spent EXCEPT !.full = @ + 1]
  BY DEF LogRecord, LogRecordFails, Untouched, Count
<1>2. spent' \in [writes : Nat, restarts : Nat, failovers : Nat, refusals : Nat, full : Nat] /\ spent'.failovers = spent.failovers
  BY <1>1 DEF ReplicaInv, ReplicaTypes
<1>3. 1 <= Len(nodes) + 1
  BY DEF ReplicaInv, ReplicaTypes
<1>. QED
  BY <1>1, <1>2, <1>3, KeptByMove

LEMMA KeptByReplicaRefuses == ASSUME ReplicaInv, ReplicaRefuses PROVE ReplicaInv'
<1>1. /\ running /\ ~Idle /\ write.at >= 2 /\ MoreReplicas(write) /\ write.kind = "upsert"
      /\ write' = [write EXCEPT !.at = @ + 1] /\ Untouched
      /\ spent' = [spent EXCEPT !.refusals = @ + 1]
  BY DEF ReplicaRefuses, Untouched, Count
<1>2. spent' \in [writes : Nat, restarts : Nat, failovers : Nat, refusals : Nat, full : Nat] /\ spent'.failovers = spent.failovers
  BY <1>1 DEF ReplicaInv, ReplicaTypes
<1>3. write \in Writes /\ write.at \in Nat /\ nodes \in Seq(Dirs)
  BY <1>1, NotIdle DEF ReplicaInv, ReplicaTypes, Writes
<1>4. write.at \in 1..Len(nodes)
  BY <1>1, <1>3 DEF MoreReplicas
<1>5. write.at + 1 \in Nat /\ write.at + 1 <= Len(nodes) + 1
  BY <1>3, <1>4
<1>6. write' = [write EXCEPT !.at = write.at + 1]
  BY <1>1
<1>. QED
  BY <1>1, <1>2, <1>3, <1>5, <1>6, KeptByMove

-----------------------------------------------------------------------------
\* The record under way is applied to one of the collections, the n-th.
AppliedAt(n) ==
    /\ running /\ ~Idle /\ n \in 1..Len(nodes)
    /\ data' = [data EXCEPT ![nodes[n]] = ApplyRecord(@, Record(write))]
    /\ write' = [write EXCEPT !.at = n + 1, !.acked = IF n = 1 THEN 1 ELSE write.acked + 1]
    /\ (n = 1 /\ write.at = 1) \/ (n = write.at /\ write.at >= 2)
    /\ UNCHANGED <<quorum, running, nodes, readable, copied, spent>>

\* What that changes: the item of one id, in the collection of one directory.
LEMMA AppliedChanges ==
    ASSUME ReplicaInv, NEW n, AppliedAt(n)
    PROVE  /\ write \in Writes /\ write.at \in Nat /\ write.acked \in Nat /\ n \in Nat /\ n = write.at /\ n <= Len(nodes)
           /\ nodes \in Seq(Dirs) /\ Len(nodes) \in Nat
           /\ write' \in Writes /\ write'.at = n + 1 /\ write'.acked = (IF n = 1 THEN 1 ELSE write.acked + 1)
           /\ write'.kind = write.kind /\ write'.id = write.id /\ write'.ver = write.ver
           /\ ~Idle' /\ primary' = primary /\ primary = nodes[1]
           /\ data' = [d \in Dirs |-> data'[d]]
           /\ \A k \in 1..Len(nodes), id \in DocId : id # write.id => data'[nodes[k]][id] = data[nodes[k]][id]
           /\ \A k \in 1..Len(nodes) : nodes[k] # nodes[n] => data'[nodes[k]] = data[nodes[k]]
           /\ data'[nodes[n]] = ApplyRecord(data[nodes[n]], Record(write))
<1>. USE DEF ReplicaInv
<1>1. write \in Writes /\ nodes \in Seq(Dirs) /\ Len(nodes) \in Nat /\ n \in 1..Len(nodes)
  BY NotIdle DEF AppliedAt, ReplicaTypes
<1>2. write.at \in Nat /\ write.acked \in Nat /\ n \in Nat /\ n = write.at /\ n <= Len(nodes)
  BY <1>1 DEF AppliedAt, Writes
<1>3. write' = [write EXCEPT !.at = n + 1, !.acked = IF n = 1 THEN 1 ELSE write.acked + 1]
  BY DEF AppliedAt
<1>4. /\ write' \in Writes /\ write'.at = n + 1 /\ write'.acked = (IF n = 1 THEN 1 ELSE write.acked + 1)
      /\ write'.kind = write.kind /\ write'.id = write.id /\ write'.ver = write.ver
  <2>1. n + 1 \in Nat /\ (IF n = 1 THEN 1 ELSE write.acked + 1) \in Nat
    BY <1>2
  <2>. QED
    BY <1>1, <1>3, <2>1 DEF Writes
<1>5. ~Idle' /\ primary' = primary /\ primary = nodes[1]
  BY <1>4, WritesAreWrites DEF AppliedAt, Idle, primary
<1>6. \A k \in 1..Len(nodes) : nodes[k] \in Dirs
  BY <1>1
<1>7. /\ data' = [d \in Dirs |-> data'[d]] /\ data'[nodes[n]] = ApplyRecord(data[nodes[n]], Record(write))
      /\ \A d \in Dirs : d # nodes[n] => data'[d] = data[d]
  BY <1>1, <1>6 DEF AppliedAt, ReplicaTypes
<1>8. \A id \in DocId : id # write.id => ApplyRecord(data[nodes[n]], Record(write))[id] = data[nodes[n]][id]
  BY <1>1, RecordApplies
<1>. QED
  BY <1>1, <1>2, <1>4, <1>5, <1>6, <1>7, <1>8

LEMMA KeptByApplied == ASSUME ReplicaInv, NEW n, AppliedAt(n) PROVE ReplicaInv'
<1>. USE DEF ReplicaInv
<1>1. /\ write \in Writes /\ write.at \in Nat /\ write.acked \in Nat /\ n \in Nat /\ n = write.at /\ n <= Len(nodes)
      /\ nodes \in Seq(Dirs) /\ Len(nodes) \in Nat
      /\ write' \in Writes /\ write'.at = n + 1 /\ write'.acked = (IF n = 1 THEN 1 ELSE write.acked + 1)
      /\ write'.kind = write.kind /\ write'.id = write.id /\ write'.ver = write.ver
      /\ ~Idle' /\ primary' = primary /\ primary = nodes[1]
  BY AppliedChanges
<1>2. /\ data' = [d \in Dirs |-> data'[d]]
      /\ \A k \in 1..Len(nodes), id \in DocId : id # write.id => data'[nodes[k]][id] = data[nodes[k]][id]
      /\ \A k \in 1..Len(nodes) : nodes[k] # nodes[n] => data'[nodes[k]] = data[nodes[k]]
      /\ data'[nodes[n]] = ApplyRecord(data[nodes[n]], Record(write))
  BY AppliedChanges
<1>3. n \in 1..Len(nodes) /\ running /\ ~Idle /\ UNCHANGED <<quorum, running, nodes, readable, copied, spent>>
      /\ (n = 1 \/ write.at >= 2)
  BY DEF AppliedAt
<1>4. write.id \in DocId /\ write.kind \in Kinds /\ write.ver \in Nat /\ write.ver > 0
  BY <1>1 DEF Writes
<1>5. /\ write.kind = "upsert" => data'[nodes[n]][write.id].ver = write.ver
                                  /\ data'[nodes[n]][write.id].edge = data[nodes[n]][write.id].edge
      /\ write.kind = "remove" => data'[nodes[n]][write.id].ver = 0 /\ data'[nodes[n]][write.id].edge = FALSE
      /\ write.kind = "add_edge" => data'[nodes[n]][write.id].ver = data[nodes[n]][write.id].ver
                                    /\ data'[nodes[n]][write.id].edge = TRUE
  <2>1. PICK col : col = data[nodes[n]]
    OBVIOUS
  <2>2. /\ write.kind = "upsert" => ApplyRecord(col, Record(write))[write.id].ver = write.ver
                                    /\ ApplyRecord(col, Record(write))[write.id].edge = col[write.id].edge
        /\ write.kind = "remove" => ApplyRecord(col, Record(write))[write.id].ver = 0
                                    /\ ApplyRecord(col, Record(write))[write.id].edge = FALSE
        /\ write.kind = "add_edge" => ApplyRecord(col, Record(write))[write.id].ver = col[write.id].ver
                                      /\ ApplyRecord(col, Record(write))[write.id].edge = TRUE
    BY <1>1, RecordApplies
  <2>3. data'[nodes[n]] = ApplyRecord(col, Record(write))
    BY <1>2, <2>1
  <2>. QED
    BY <2>1, <2>2, <2>3
<1>6. ReplicaTypes'
  BY <1>1, <1>2, <1>3 DEF ReplicaTypes
<1>7. AckedHave'
  <2>. SUFFICES ASSUME write.kind = "upsert"
               PROVE  /\ write'.acked >= 1 /\ data'[nodes[1]][write.id].ver = write.ver
                      /\ Cardinality({k \in 1..n : data'[nodes[k]][write.id].ver = write.ver}) >= write'.acked
    <3>0. write'.at - 1 = n
      BY <1>1
    <3>1. With(write.id, write.ver, write.at - 1)' = {k \in 1..n : data'[nodes[k]][write.id].ver = write.ver}
      BY <1>1, <1>3, <3>0 DEF With
    <3>. QED
      BY <1>1, <1>3, <3>1 DEF AckedHave
  <2>. DEFINE Now == {k \in 1..n : data'[nodes[k]][write.id].ver = write.ver}
  <2>1. IsFiniteSet(Now) /\ Cardinality(Now) \in Nat
    <3>1. IsFiniteSet(1..n)
      <4>1. 1 \in Int /\ n \in Int
        BY <1>1
      <4>. QED
        BY <4>1, FS_Interval
    <3>2. Now \subseteq 1..n
      OBVIOUS
    <3>. QED
      BY <3>1, <3>2, FS_Subset, FS_CardinalityType
  <2>2. n \in Now
    BY <1>1, <1>3, <1>5
  <2>3. CASE n = 1
    <3>1. Cardinality(Now) >= 1
      BY <2>1, <2>2, FS_EmptySet
    <3>. QED
      BY <1>1, <1>5, <2>3, <3>1
  <2>4. CASE n # 1
    <3>. DEFINE Before == With(write.id, write.ver, write.at - 1)
    <3>1. n >= 2 /\ n - 1 \in Nat /\ write.at - 1 = n - 1
      BY <1>1, <1>3, <2>4
    <3>2. IsFiniteSet(Before) /\ Cardinality(Before) \in Nat /\ Before \subseteq 1..(n - 1)
      BY <3>1, WithFinite
    <3>3. Cardinality(Before) >= write.acked /\ write.acked >= 1 /\ data[nodes[1]][write.id].ver = write.ver
      BY <1>1, <1>3, <3>1 DEF AckedHave
    <3>4. n \notin Before
      BY <3>1, <3>2
    <3>5. \A k \in 1..Len(nodes) : data[nodes[k]][write.id].ver = write.ver => data'[nodes[k]][write.id].ver = write.ver
      BY <1>2, <1>5
    <3>6. Before \cup {n} \subseteq Now
      <4>1. \A k \in Before : k \in 1..n /\ k \in 1..Len(nodes) /\ data[nodes[k]][write.id].ver = write.ver
        BY <1>1, <3>1, <3>2 DEF With
      <4>. QED
        BY <2>2, <3>5, <4>1
    <3>7. Cardinality(Before \cup {n}) = Cardinality(Before) + 1
      BY <3>2, <3>4, FS_AddElement
    <3>8. Cardinality(Before \cup {n}) <= Cardinality(Now)
      BY <2>1, <3>6, FS_Subset
    <3>9. Cardinality(Now) >= write.acked + 1
      <4>. HIDE DEF Before, Now
      <4>. QED
        BY <1>1, <2>1, <3>2, <3>3, <3>7, <3>8
    <3>10. data'[nodes[1]][write.id].ver = write.ver
      BY <1>1, <1>3, <3>3, <3>5
    <3>. QED
      BY <1>1, <2>4, <3>9, <3>10
  <2>. QED
    BY <2>3, <2>4
<1>8. CopiedHave'
  <2>. SUFFICES ASSUME NEW id \in copied
               PROVE  /\ id \in DocId /\ write.id # id
                      /\ \E v \in Nat : /\ Cardinality(With(id, v, Len(nodes))') >= quorum
                                        /\ \E item \in readable[id] : item.ver = v
    BY <1>1, <1>3 DEF CopiedHave
  <2>1. id \in DocId /\ write.id # id
    BY <1>3 DEF CopiedHave
  <2>2. \A v : With(id, v, Len(nodes))' = With(id, v, Len(nodes))
    BY <1>2, <1>3, <2>1 DEF With
  <2>. QED
    BY <2>1, <2>2 DEF CopiedHave
<1>9. GhostsRemoved'
  <2>. SUFFICES ASSUME spent.failovers = 0
               PROVE  /\ write.kind = "upsert" => data'[nodes[1]][write.id].ver = write.ver
                      /\ write.kind = "add_edge" => data'[nodes[1]][write.id].edge
                      /\ \A k \in 1..Len(nodes), id \in DocId :
                            \/ /\ data'[nodes[k]][id].ver > 0 => data'[nodes[1]][id].ver > 0
                               /\ data'[nodes[k]][id].edge => data'[nodes[1]][id].edge
                            \/ write.kind = "remove" /\ id = write.id /\ k >= n + 1
    BY <1>1, <1>3 DEF GhostsRemoved, NoMore
  <2>1. \A j, k \in 1..Len(nodes) : nodes[j] = nodes[k] => j = k
    BY <1>1, InOrderTyped DEF ListedInOrder
  <2>2. 1 \in 1..Len(nodes)
    BY <1>1, <1>3
  <2>3. \A k \in 1..Len(nodes) : k # n => data'[nodes[k]] = data[nodes[k]]
    BY <1>2, <1>3, <2>1
  <2>4. /\ write.kind = "upsert" => data'[nodes[1]][write.id].ver = write.ver
        /\ write.kind = "add_edge" => data'[nodes[1]][write.id].edge
    <3>1. CASE n = 1
      BY <1>5, <3>1
    <3>2. CASE n # 1
      BY <1>1, <1>3, <2>2, <2>3, <3>2 DEF GhostsRemoved
    <3>. QED
      BY <3>1, <3>2
  <2>5. ASSUME NEW k \in 1..Len(nodes), NEW id \in DocId
        PROVE  \/ /\ data'[nodes[k]][id].ver > 0 => data'[nodes[1]][id].ver > 0
                  /\ data'[nodes[k]][id].edge => data'[nodes[1]][id].edge
               \/ write.kind = "remove" /\ id = write.id /\ k >= n + 1
    <3>0. NoMore(k, id) \/ (write.at >= 2 /\ write.kind = "remove" /\ id = write.id /\ k >= write.at)
      BY <1>3 DEF GhostsRemoved
    <3>1. CASE id # write.id
      BY <1>1, <1>2, <2>2, <3>0, <3>1 DEF NoMore
    <3>2. CASE id = write.id /\ k = n
      <4>1. CASE write.kind = "remove"
        BY <1>5, <3>2, <4>1
      <4>2. CASE write.kind = "upsert"
        <5>1. data'[nodes[1]][id].ver > 0
          BY <1>4, <2>4, <3>2, <4>2
        <5>2. data'[nodes[k]][id].edge = data[nodes[k]][id].edge
          BY <1>5, <3>2, <4>2
        <5>3. data'[nodes[1]][id].edge = data[nodes[1]][id].edge
          BY <1>5, <2>2, <2>3, <3>2, <4>2
        <5>. QED
          BY <1>1, <3>0, <4>2, <5>1, <5>2, <5>3 DEF NoMore
      <4>3. CASE write.kind = "add_edge"
        <5>1. data'[nodes[1]][id].edge
          BY <2>4, <3>2, <4>3
        <5>2. data'[nodes[k]][id].ver = data[nodes[k]][id].ver
          BY <1>5, <3>2, <4>3
        <5>3. data'[nodes[1]][id].ver = data[nodes[1]][id].ver
          BY <1>5, <2>2, <2>3, <3>2, <4>3
        <5>. QED
          BY <1>1, <3>0, <4>3, <5>1, <5>2, <5>3 DEF NoMore
      <4>. QED
        BY <1>4, <4>1, <4>2, <4>3 DEF Kinds
    <3>3. CASE id = write.id /\ k # n /\ n = 1
      <4>1. CASE write.kind = "remove"
        BY <3>3, <4>1
      <4>2. CASE write.kind = "upsert"
        <5>1. data'[nodes[1]][id].ver > 0 /\ data'[nodes[1]][id].edge = data[nodes[1]][id].edge
          BY <1>4, <1>5, <3>3, <4>2
        <5>. QED
          BY <1>1, <2>3, <3>0, <3>3, <4>2, <5>1 DEF NoMore
      <4>3. CASE write.kind = "add_edge"
        <5>1. data'[nodes[1]][id].edge /\ data'[nodes[1]][id].ver = data[nodes[1]][id].ver
          BY <1>5, <3>3, <4>3
        <5>. QED
          BY <1>1, <2>3, <3>0, <3>3, <4>3, <5>1 DEF NoMore
      <4>. QED
        BY <1>4, <4>1, <4>2, <4>3 DEF Kinds
    <3>4. CASE id = write.id /\ k # n /\ n # 1
      <4>1. data'[nodes[k]] = data[nodes[k]] /\ data'[nodes[1]] = data[nodes[1]]
        BY <2>2, <2>3, <3>4
      <4>2. CASE NoMore(k, id)
        BY <1>1, <4>1, <4>2 DEF NoMore
      <4>3. CASE write.kind = "remove" /\ k >= write.at
        BY <1>1, <3>4, <4>3
      <4>. QED
        BY <3>0, <4>2, <4>3
    <3>. QED
      BY <3>1, <3>2, <3>3, <3>4
  <2>. QED
    BY <2>4, <2>5
<1>10. (Down /\ Readables /\ ListedInOrder)'
  BY <1>3 DEF Down, Readables, ListedInOrder
<1>. QED
  BY <1>6, <1>7, <1>8, <1>9, <1>10

LEMMA KeptByApply == ASSUME ReplicaInv, ApplyToPrimary \/ ApplyToReplica PROVE ReplicaInv'
<1>. USE DEF ReplicaInv
<1>1. CASE ApplyToPrimary
  <2>1. 1 \in 1..Len(nodes) /\ nodes[1] = primary
    BY DEF ReplicaTypes, primary
  <2>2. AppliedAt(1)
    BY <1>1, <2>1 DEF ApplyToPrimary, AppliedAt
  <2>. QED
    BY <2>2, KeptByApplied
<1>2. CASE ApplyToReplica
  <2>1. write \in Writes /\ nodes \in Seq(Dirs)
    BY <1>2, NotIdle DEF ApplyToReplica, ReplicaTypes
  <2>2. PICK n : n = write.at
    OBVIOUS
  <2>3. n \in 1..Len(nodes) /\ n >= 2
    BY <1>2, <2>1, <2>2 DEF ApplyToReplica, MoreReplicas
  <2>4. AppliedAt(n)
    <3>1. /\ running /\ ~Idle /\ write' = [write EXCEPT !.at = @ + 1, !.acked = @ + 1]
          /\ data' = [data EXCEPT ![nodes[n]] = ApplyRecord(@, Record(write))]
          /\ UNCHANGED <<quorum, running, nodes, readable, copied, spent>>
      BY <1>2, <2>2 DEF ApplyToReplica
    <3>2. write' = [write EXCEPT !.at = n + 1, !.acked = IF n = 1 THEN 1 ELSE write.acked + 1]
      <4>1. (IF n = 1 THEN 1 ELSE write.acked + 1) = write.acked + 1
        BY <2>3
      <4>2. write' = [write EXCEPT !.at = n + 1, !.acked = write.acked + 1]
        BY <2>2, <3>1
      <4>. QED
        BY <4>1, <4>2
    <3>. QED
      BY <2>2, <2>3, <3>1, <3>2 DEF AppliedAt
  <2>. QED
    BY <2>4, KeptByApplied
<1>. QED
  BY <1>1, <1>2

\* The call returns or throws.
LEMMA KeptByFinish == ASSUME ReplicaInv, Finish PROVE ReplicaInv'
<1>. USE DEF ReplicaInv
<1>. PICK r : r = Record(write)
  OBVIOUS
<1>1. /\ running /\ ~Idle /\ write.at >= 2 /\ ~MoreReplicas(write) /\ write' = NoWrite
      /\ readable' = IF Accepted(write)
                     THEN [readable EXCEPT ![write.id] = {Effect(r, item) : item \in @}] ELSE readable
      /\ copied' = IF Accepted(write) /\ write.kind = "upsert" THEN copied \cup {write.id} ELSE copied
      /\ UNCHANGED <<quorum, running, nodes, data, spent>>
  BY DEF Finish
<1>2. write \in Writes /\ write.id \in DocId /\ write.at \in Nat /\ write.acked \in Nat /\ write.ver \in Nat
      /\ write.kind \in Kinds
  BY <1>1, NotIdle DEF Writes
<1>3. r.kind = write.kind /\ r.ver = write.ver /\ r.kind \in Kinds /\ r.ver \in Nat
  BY <1>2 DEF Record
<1>4. Idle'
  BY <1>1 DEF Idle
<1>5. nodes \in Seq(Dirs) /\ Len(nodes) \in Nat /\ quorum \in Nat
  BY DEF ReplicaTypes
<1>6. \A item \in readable[write.id] :
         Effect(r, item) \in [ver : Nat, edge : BOOLEAN] /\ (r.kind = "upsert" => Effect(r, item).ver = r.ver)
  BY <1>2, <1>3, EffectTyped DEF ReplicaTypes
<1>7. /\ readable' \in [DocId -> SUBSET [ver : Nat, edge : BOOLEAN]]
      /\ \A id \in DocId : id # write.id => readable'[id] = readable[id]
      /\ readable'[write.id] = readable[write.id] \/ readable'[write.id] = {Effect(r, item) : item \in readable[write.id]}
      /\ Accepted(write) => readable'[write.id] = {Effect(r, item) : item \in readable[write.id]}
  BY <1>1, <1>2, <1>6 DEF ReplicaTypes
<1>8. ReplicaTypes'
  BY <1>1, <1>4, <1>7 DEF ReplicaTypes
<1>9. Readables'
  BY <1>2, <1>7 DEF Readables
<1>10. CopiedHave'
  <2>. SUFFICES ASSUME NEW id \in copied'
               PROVE  /\ id \in DocId
                      /\ \E v \in Nat : /\ Cardinality(With(id, v, Len(nodes))) >= quorum
                                        /\ \E item \in readable'[id] : item.ver = v
    <3>1. \A x, v : With(x, v, Len(nodes))' = With(x, v, Len(nodes))
      BY <1>1 DEF With
    <3>. QED
      BY <1>1, <1>4, <3>1 DEF CopiedHave
  <2>1. CASE id \in copied
    <3>1. id \in DocId /\ id # write.id
      BY <1>1, <2>1 DEF CopiedHave
    <3>. QED
      BY <1>7, <2>1, <3>1 DEF CopiedHave
  <2>2. CASE id \notin copied
    <3>1. id = write.id /\ Accepted(write) /\ write.kind = "upsert"
      BY <1>1, <2>2
    <3>2. write.acked >= quorum
      BY <3>1 DEF Accepted
    <3>3. Cardinality(With(id, write.ver, write.at - 1)) >= write.acked
      BY <1>1, <3>1 DEF AckedHave
    <3>4. write.at - 1 \in Nat /\ write.at - 1 <= Len(nodes)
      BY <1>1, <1>2, <1>5 DEF ReplicaTypes
    <3>5. With(id, write.ver, write.at - 1) \subseteq With(id, write.ver, Len(nodes))
      BY <1>5, <3>4 DEF With
    <3>6. /\ Cardinality(With(id, write.ver, write.at - 1)) <= Cardinality(With(id, write.ver, Len(nodes)))
          /\ Cardinality(With(id, write.ver, write.at - 1)) \in Nat /\ Cardinality(With(id, write.ver, Len(nodes))) \in Nat
      BY <1>5, <3>4, <3>5, WithFinite, FS_Subset
    <3>7. Cardinality(With(id, write.ver, Len(nodes))) >= quorum
      BY <1>2, <1>5, <3>2, <3>3, <3>6
    <3>8. PICK item \in readable[write.id] : TRUE
      BY <1>2 DEF Readables
    <3>9. \E i \in readable'[id] : i.ver = write.ver
      BY <1>3, <1>6, <1>7, <3>1, <3>8
    <3>. QED
      BY <1>2, <3>1, <3>7, <3>9
  <2>. QED
    BY <2>1, <2>2
<1>11. GhostsRemoved'
  <2>. SUFFICES ASSUME spent.failovers = 0, NEW k \in 1..Len(nodes), NEW id \in DocId PROVE NoMore(k, id)
    BY <1>1, <1>4 DEF GhostsRemoved, NoMore, primary
  <2>1. ~(write.kind = "remove" /\ k >= write.at)
    <3>1. ASSUME write.kind = "remove" PROVE write.at \notin 1..Len(nodes)
      BY <1>1, <1>5, <3>1 DEF MoreReplicas, EnoughAcks
    <3>. QED
      BY <1>1, <1>2, <1>5, <3>1
  <2>. QED
    BY <1>1, <2>1 DEF GhostsRemoved
<1>. QED
  BY <1>1, <1>4, <1>8, <1>9, <1>10, <1>11 DEF Down, AckedHave, ListedInOrder

-----------------------------------------------------------------------------
\* The process loses its primary, or everything in memory.
LEMMA KeptByFailover == ASSUME ReplicaInv, failover_primary PROVE ReplicaInv'
<1>. USE DEF ReplicaInv
<1>1. /\ running /\ Idle /\ Len(nodes) > 1 /\ nodes' = Tail(nodes) /\ copied' = {}
      /\ spent' = [spent EXCEPT !.failovers = @ + 1]
      /\ UNCHANGED <<quorum, running, data, write, readable>>
  BY DEF failover_primary, Count
<1>2. nodes' \in Seq(Dirs) /\ Len(nodes') >= 1
  BY <1>1 DEF ReplicaTypes
<1>3. spent' \in [writes : Nat, restarts : Nat, failovers : Nat, refusals : Nat, full : Nat] /\ spent'.failovers # 0
  <2>1. spent \in [writes : Nat, restarts : Nat, failovers : Nat, refusals : Nat, full : Nat]
    BY DEF ReplicaTypes
  <2>2. spent' = [spent EXCEPT !.failovers = spent.failovers + 1]
    BY <1>1
  <2>3. spent.failovers + 1 \in Nat /\ spent.failovers + 1 # 0
    BY <2>1
  <2>. QED
    BY <2>1, <2>2, <2>3
<1>4. Idle'
  BY <1>1 DEF Idle
<1>5. ReplicaTypes'
  BY <1>1, <1>2, <1>3, <1>4 DEF ReplicaTypes
<1>. QED
  BY <1>1, <1>3, <1>4, <1>5 DEF Down, AckedHave, CopiedHave, Readables, GhostsRemoved, ListedInOrder

LEMMA KeptByCrash == ASSUME ReplicaInv, Crash PROVE ReplicaInv'
<1>. USE DEF ReplicaInv
<1>1. /\ running' = FALSE /\ nodes' = [k \in 1..(Replicas + 1) |-> k - 1] /\ data' = [d \in Dirs |-> Empty]
      /\ write' = NoWrite /\ copied' = {} /\ spent' = [spent EXCEPT !.restarts = @ + 1]
      /\ UNCHANGED <<quorum, readable>>
  BY DEF Crash, Count
<1>2. nodes' \in Seq(Dirs) /\ Len(nodes') >= 1
  BY <1>1, InOrderTyped
<1>3. spent' \in [writes : Nat, restarts : Nat, failovers : Nat, refusals : Nat, full : Nat]
  <2>1. spent \in [writes : Nat, restarts : Nat, failovers : Nat, refusals : Nat, full : Nat]
    BY DEF ReplicaTypes
  <2>2. spent' = [spent EXCEPT !.restarts = spent.restarts + 1] /\ spent.restarts + 1 \in Nat
    BY <1>1, <2>1
  <2>. QED
    BY <2>1, <2>2
<1>4. Idle'
  BY <1>1 DEF Idle
<1>5. ReplicaTypes'
  BY <1>1, <1>2, <1>3, <1>4 DEF ReplicaTypes
<1>. QED
  BY <1>1, <1>4, <1>5 DEF Down, AckedHave, CopiedHave, Readables, GhostsRemoved, ListedInOrder

LEMMA KeptByRestart == ASSUME ReplicaInv, Restart PROVE ReplicaInv'
<1>. USE DEF ReplicaInv
<1>. PICK rebuilt : rebuilt = Rebuilt(wals[0].files)
  OBVIOUS
<1>1. /\ ~running /\ running' = TRUE /\ data' = [data EXCEPT ![0] = rebuilt]
      /\ UNCHANGED <<quorum, nodes, write, readable, copied, spent>>
  BY DEF Restart
<1>2. Idle /\ Idle' /\ copied = {} /\ data = [d \in Dirs |-> Empty]
  BY <1>1 DEF Down, Idle
<1>3. data' = [d \in Dirs |-> data'[d]] /\ \A d \in Dirs : d # 0 => data'[d] = Empty
  BY <1>1, <1>2
<1>4. ReplicaTypes'
  BY <1>1, <1>2, <1>3 DEF ReplicaTypes
<1>5. GhostsRemoved'
  <2>. SUFFICES ASSUME spent.failovers = 0, NEW k \in 1..Len(nodes), NEW id \in DocId
               PROVE  /\ data'[nodes[k]][id].ver > 0 => data'[nodes[1]][id].ver > 0
                      /\ data'[nodes[k]][id].edge => data'[nodes[1]][id].edge
    BY <1>1, <1>2 DEF GhostsRemoved, NoMore, primary
  <2>1. CASE k = 1
    BY <2>1
  <2>2. CASE k # 1
    <3>1. nodes = [j \in 1..(Replicas + 1) |-> j - 1] /\ Len(nodes) = Replicas + 1 /\ Replicas \in Nat
      BY InOrderTyped, ReplicaSetAssumption DEF ListedInOrder
    <3>2. nodes[k] \in Dirs /\ nodes[k] # 0
      BY <2>2, <3>1 DEF Dirs
    <3>3. data'[nodes[k]][id].ver = 0 /\ ~data'[nodes[k]][id].edge
      BY <1>3, <3>2, EmptyItems
    <3>. QED
      BY <3>3
  <2>. QED
    BY <2>1, <2>2
<1>. QED
  BY <1>1, <1>2, <1>4, <1>5 DEF Down, AckedHave, CopiedHave, Readables, ListedInOrder

\* The invariant holds in every state of the shard.
LEMMA ReplicaInvariant == RSSpec => []ReplicaInv
<1>1. ReplicaInv /\ [RSNext]_rsVars => ReplicaInv'
  <2>. SUFFICES ASSUME ReplicaInv, [RSNext]_rsVars PROVE ReplicaInv'
    OBVIOUS
  <2>1. ASSUME NEW id \in DocId, NEW kind \in {"upsert", "remove", "add_edge"}, Begin(kind, id) PROVE ReplicaInv'
    BY <2>1, KeptByBegin DEF Kinds
  <2>2. CASE LogRecord \/ LogRecordFails
    BY <2>2, KeptByLog
  <2>3. CASE ApplyToPrimary \/ ApplyToReplica
    BY <2>3, KeptByApply
  <2>4. CASE ReplicaRefuses \/ Finish
    BY <2>4, KeptByReplicaRefuses, KeptByFinish
  <2>5. CASE failover_primary \/ Crash \/ Restart
    BY <2>5, KeptByFailover, KeptByCrash, KeptByRestart
  <2>6. CASE UNCHANGED rsVars
    <3>1. quorum' = quorum /\ running' = running /\ nodes' = nodes /\ data' = data /\ write' = write
          /\ readable' = readable /\ copied' = copied /\ spent' = spent
      BY <2>6 DEF rsVars
    <3>. USE DEF ReplicaInv
    <3>2. (ReplicaTypes /\ Down /\ Readables /\ ListedInOrder)'
      BY <3>1 DEF ReplicaTypes, Down, Readables, ListedInOrder, Idle
    <3>3. (AckedHave /\ CopiedHave)'
      BY ZenonT(60), <3>1 DEF AckedHave, CopiedHave, With, Idle, primary
    <3>4. GhostsRemoved'
      BY <3>1 DEF GhostsRemoved, NoMore, Idle, primary
    <3>. QED
      BY <3>2, <3>3, <3>4
  <2>. QED
    BY <2>1, <2>2, <2>3, <2>4, <2>5, <2>6 DEF RSNext
<1>. QED
  BY <1>1, ReplicaInitially, PTL DEF RSSpec

\* An acknowledged upsert is on as many collections as the quorum asks for, whatever replicas
\* refused it, until the process ends or loses its primary.
THEOREM QuorumKept == RSSpec => []QuorumHasAcknowledged
<1>1. ReplicaInv => QuorumHasAcknowledged
  <2>. SUFFICES ASSUME ReplicaInv, NEW id \in copied
               PROVE  Cardinality({k \in DOMAIN nodes :
                          \E item \in readable[id] : data[nodes[k]][id].ver = item.ver}) >= quorum
    BY DEF QuorumHasAcknowledged
  <2>. DEFINE Have == {k \in DOMAIN nodes : \E item \in readable[id] : data[nodes[k]][id].ver = item.ver}
  <2>1. nodes \in Seq(Dirs) /\ Len(nodes) \in Nat /\ DOMAIN nodes = 1..Len(nodes) /\ quorum \in Nat
    BY DEF ReplicaInv, ReplicaTypes
  <2>2. PICK v \in Nat : Cardinality(With(id, v, Len(nodes))) >= quorum /\ \E item \in readable[id] : item.ver = v
    BY DEF ReplicaInv, CopiedHave
  <2>3. With(id, v, Len(nodes)) \subseteq Have
    BY <2>1, <2>2 DEF With
  <2>4. IsFiniteSet(Have) /\ Cardinality(Have) \in Nat
    <3>1. IsFiniteSet(DOMAIN nodes)
      BY <2>1, FS_Interval
    <3>2. Have \subseteq DOMAIN nodes
      OBVIOUS
    <3>. QED
      BY <3>1, <3>2, FS_Subset, FS_CardinalityType
  <2>5. Cardinality(With(id, v, Len(nodes))) <= Cardinality(Have) /\ Cardinality(With(id, v, Len(nodes))) \in Nat
    BY <2>1, <2>3, <2>4, WithFinite, FS_Subset
  <2>6. Cardinality(Have) >= quorum
    <3>. HIDE DEF Have
    <3>. QED
      BY <2>1, <2>2, <2>4, <2>5
  <2>. QED
    BY <2>6
<1>. QED
  BY <1>1, ReplicaInvariant, PTL

\* Between writes no replica has a vector or an edge that the primary has not.
THEOREM NoGhosts == RSSpec => []NoGhostOnReplica
<1>1. ReplicaInv => NoGhostOnReplica
  <2>1. ReplicaInv => DOMAIN nodes = 1..Len(nodes)
    BY DEF ReplicaInv, ReplicaTypes
  <2>. QED
    BY <2>1 DEF ReplicaInv, GhostsRemoved, NoMore, NoGhostOnReplica
<1>. QED
  BY <1>1, ReplicaInvariant, PTL

-----------------------------------------------------------------------------
\* The names of the segments.

\* The equation Numeral solves, on some numbers.
Digits(g, D) == g = [n \in D |-> IF n < Radix THEN <<n>> ELSE Append(g[n \div Radix], n % Radix)]

LEMMA Quotient == ASSUME NEW n \in Nat, n >= Radix PROVE n \div Radix \in 0..(n - 1)
<1>1. Radix \in Nat /\ Radix >= 2
  BY WalAssumption
<1>. QED
  BY <1>1

LEMMA DigitsAre ==
    ASSUME NEW D \in SUBSET Nat, NEW g, Digits(g, D), NEW n \in D
    PROVE  g[n] = IF n < Radix THEN <<n>> ELSE Append(g[n \div Radix], n % Radix)
  BY Zenon DEF Digits

LEMMA DigitsLonger ==
    ASSUME NEW m \in Nat, NEW g, Digits(g, 0..m)
    PROVE  \E h : Digits(h, 0..(m + 1))
<1>. DEFINE last == IF m + 1 < Radix THEN <<m + 1>> ELSE Append(g[(m + 1) \div Radix], (m + 1) % Radix)
            h == [k \in 0..(m + 1) |-> IF k = m + 1 THEN last ELSE g[k]]
<1>0. 0..m \in SUBSET Nat
  OBVIOUS
<1>1. h[m + 1] = last /\ \A k \in 0..m : h[k] = g[k]
  OBVIOUS
<1>2. DOMAIN h = 0..(m + 1) /\ h = [k \in 0..(m + 1) |-> h[k]]
  OBVIOUS
<1>. HIDE DEF h
<1>3. ASSUME NEW k \in 0..(m + 1) PROVE h[k] = IF k < Radix THEN <<k>> ELSE Append(h[k \div Radix], k % Radix)
  <2>1. CASE k < Radix
    <3>1. CASE k = m + 1
      BY <1>1, <2>1, <3>1
    <3>2. CASE k # m + 1
      <4>1. k \in 0..m
        BY <3>2
      <4>. QED
        BY <1>0, <1>1, <2>1, <4>1, DigitsAre
    <3>. QED
      BY <3>1, <3>2
  <2>2. CASE k >= Radix
    <3>1. Radix \in Nat /\ ~(k < Radix)
      BY <2>2, WalAssumption
    <3>2. k \div Radix \in 0..(k - 1)
      BY <2>2, Quotient
    <3>3. k \div Radix \in 0..m
      BY <3>2
    <3>4. h[k \div Radix] = g[k \div Radix]
      BY <1>1, <3>3
    <3>5. CASE k = m + 1
      BY <1>1, <3>1, <3>4, <3>5
    <3>6. CASE k # m + 1
      <4>1. k \in 0..m
        BY <3>6
      <4>2. g[k] = Append(g[k \div Radix], k % Radix)
        BY <1>0, <3>1, <4>1, DigitsAre
      <4>. QED
        BY <1>1, <3>1, <3>4, <4>1, <4>2
    <3>. QED
      BY <3>5, <3>6
  <2>3. Radix \in Nat
    BY WalAssumption
  <2>. QED
    BY <2>1, <2>2, <2>3
<1>4. [k \in 0..(m + 1) |-> h[k]] = [k \in 0..(m + 1) |-> IF k < Radix THEN <<k>> ELSE Append(h[k \div Radix], k % Radix)]
  BY <1>3
<1>5. Digits(h, 0..(m + 1))
  BY <1>2, <1>4 DEF Digits
<1>. QED
  BY <1>5

LEMMA DigitsExist ==
    ASSUME NEW n \in Nat
    PROVE  \E g : Digits(g, 0..n)
<1>. DEFINE P(m) == \E g : Digits(g, 0..m)
            Bad == {m \in Nat : ~P(m)}
<1>1. P(0)
  <2>. DEFINE g == [k \in 0..0 |-> <<k>>]
  <2>1. \A k \in 0..0 : k < Radix
    BY WalAssumption
  <2>2. g = [k \in 0..0 |-> IF k < Radix THEN <<k>> ELSE Append(g[k \div Radix], k % Radix)]
    BY <2>1
  <2>. HIDE DEF g
  <2>. QED
    BY <2>2 DEF Digits
<1>2. ASSUME NEW m \in Nat, P(m) PROVE P(m + 1)
  BY <1>2, DigitsLonger
<1>. HIDE DEF P
<1>3. SUFFICES ASSUME NEW k \in Bad PROVE FALSE
  <2>1. P(n)
    BY <1>3
  <2>. QED
    BY <2>1 DEF P
<1>4. PICK m \in Bad : \A j \in Bad : m <= j
  <2>1. Bad \in SUBSET Nat
    OBVIOUS
  <2>. HIDE DEF Bad
  <2>. QED
    BY <2>1, <1>3, LeastNumber
<1>5. m \in Nat /\ ~P(m)
  OBVIOUS
<1>6. m # 0 /\ m - 1 \in Nat
  BY <1>1, <1>5
<1>7. P(m - 1)
  <2>1. m - 1 \notin Bad
    BY <1>4, <1>5, <1>6
  <2>. QED
    BY <1>6, <2>1
<1>. QED
  BY <1>2, <1>5, <1>6, <1>7

LEMMA DigitsUnique ==
    ASSUME NEW D \in SUBSET Nat, NEW E \in SUBSET Nat, NEW f, NEW g, Digits(f, D), Digits(g, E),
           NEW n \in Nat, 0..n \subseteq D, 0..n \subseteq E
    PROVE  f[n] = g[n]
<1>. DEFINE Bad == {k \in 0..n : f[k] # g[k]}
<1>1. SUFFICES ASSUME NEW k \in Bad PROVE FALSE
  BY <1>1
<1>2. PICK m \in Bad : \A j \in Bad : m <= j
  <2>1. Bad \in SUBSET Nat
    OBVIOUS
  <2>. HIDE DEF Bad
  <2>. QED
    BY <2>1, <1>1, LeastNumber
<1>3. m \in 0..n /\ f[m] # g[m] /\ m \in D /\ m \in E
  OBVIOUS
<1>4. f[m] = IF m < Radix THEN <<m>> ELSE Append(f[m \div Radix], m % Radix)
  BY <1>3, DigitsAre
<1>5. g[m] = IF m < Radix THEN <<m>> ELSE Append(g[m \div Radix], m % Radix)
  BY <1>3, DigitsAre
<1>6. Radix \in Nat /\ m \in Nat /\ ~(m < Radix) /\ m >= Radix
  BY <1>3, <1>4, <1>5, WalAssumption
<1>7. m \div Radix \in 0..(m - 1)
  BY <1>6, Quotient
<1>8. m \div Radix \in 0..n /\ m \div Radix \notin Bad
  BY <1>2, <1>3, <1>7
<1>. QED
  BY <1>3, <1>4, <1>5, <1>6, <1>8

LEMMA NumeralIs == ASSUME NEW n \in Nat, n < Radix PROVE Numeral[n] = <<n>>
<1>. DEFINE G == [k \in Nat |-> (CHOOSE g : Digits(g, 0..k))[k]]
<1>1. ASSUME NEW k \in Nat PROVE \E g : Digits(g, 0..k) /\ G[k] = g[k]
  <2>. DEFINE c == CHOOSE g : Digits(g, 0..k)
  <2>1. Digits(c, 0..k)
    BY DigitsExist, Zenon
  <2>2. G[k] = c[k]
    OBVIOUS
  <2>. HIDE DEF c, G
  <2>. QED
    BY <2>1, <2>2
<1>2. DOMAIN G = Nat /\ G = [k \in Nat |-> G[k]]
  OBVIOUS
<1>. HIDE DEF G
<1>3. ASSUME NEW k \in Nat PROVE G[k] = IF k < Radix THEN <<k>> ELSE Append(G[k \div Radix], k % Radix)
  <2>1. PICK g : Digits(g, 0..k) /\ G[k] = g[k]
    BY <1>1
  <2>2. 0..k \in SUBSET Nat /\ k \in 0..k /\ Radix \in Nat
    BY WalAssumption
  <2>3. G[k] = IF k < Radix THEN <<k>> ELSE Append(g[k \div Radix], k % Radix)
    BY <2>1, <2>2, DigitsAre
  <2>4. ASSUME k >= Radix PROVE G[k \div Radix] = g[k \div Radix]
    <3>1. PICK q \in 0..(k - 1) : q = k \div Radix
      BY <2>4, Quotient
    <3>2. PICK h : Digits(h, 0..q) /\ G[q] = h[q]
      BY <1>1, <3>1
    <3>3. q \in Nat /\ 0..q \in SUBSET Nat /\ 0..q \subseteq 0..k /\ 0..q \subseteq 0..q
      BY <3>1
    <3>4. Digits(h, 0..q) /\ Digits(g, 0..k)
      BY <2>1, <3>2
    <3>5. h[q] = g[q]
      BY <2>2, <3>3, <3>4, DigitsUnique
    <3>. QED
      BY <3>1, <3>2, <3>5
  <2>. QED
    BY <2>2, <2>3, <2>4
<1>4. [k \in Nat |-> G[k]] = [k \in Nat |-> IF k < Radix THEN <<k>> ELSE Append(G[k \div Radix], k % Radix)]
  BY <1>3
<1>5. Digits(G, Nat)
  BY <1>2, <1>4 DEF Digits
<1>6. Digits(Numeral, Nat)
  BY <1>5, Zenon DEF Numeral, Digits
<1>. QED
  BY <1>6, DigitsAre

\* Numerals of one digit are ordered as their numbers.
LEMMA NamesInOrder ==
    ASSUME NEW m \in Nat, NEW n \in Nat, m < Radix, n < Radix
    PROVE  NameBefore(m, n) <=> m < n
<1>1. Numeral[m] = <<m>> /\ Numeral[n] = <<n>>
  BY NumeralIs
<1>2. ~IsStrictPrefix(<<m>>, <<n>>)
  <2>1. \A x \in Nat : <<x>> \in Seq(Nat) /\ Len(<<x>>) = 1 /\ <<x>>[1] = x
    OBVIOUS
  <2>2. \A s \in Seq(Nat) : Len(s) = 1 => SubSeq(s, 1, 1) = s
    BY SubSeqFull
  <2>3. SUFFICES ASSUME SubSeq(<<m>>, 1, 1) = SubSeq(<<n>>, 1, 1), <<m>> # <<n>> PROVE FALSE
    BY <2>1 DEF IsStrictPrefix, IsPrefix
  <2>4. m = n
    BY <2>1, <2>2, <2>3
  <2>. QED
    BY <2>3, <2>4
<1>3. DOMAIN <<m>> = {1} /\ DOMAIN <<n>> = {1} /\ <<m>>[1] = m /\ <<n>>[1] = n
  OBVIOUS
<1>4. NameBefore(m, n) <=>
         \E k \in DOMAIN <<m>> \cap DOMAIN <<n>> : <<m>>[k] < <<n>>[k] /\ \A j \in 1..(k - 1) : <<m>>[j] = <<n>>[j]
  BY <1>1, <1>2, Zenon DEF NameBefore
<1>5. 1..(1 - 1) = {}
  OBVIOUS
<1>6. DOMAIN <<m>> \cap DOMAIN <<n>> = {1}
  BY <1>3
<1>7. (\E k \in {1} : <<m>>[k] < <<n>>[k] /\ \A j \in 1..(k - 1) : <<m>>[j] = <<n>>[j])
      <=> (<<m>>[1] < <<n>>[1] /\ \A j \in 1..(1 - 1) : <<m>>[j] = <<n>>[j])
  OBVIOUS
<1>. QED
  BY <1>3, <1>4, <1>5, <1>6, <1>7

\* How many of a set come before a place of its order.
LEMMA PlacesBefore ==
    ASSUME NEW S, NEW p, Cardinality(S) \in Nat, S \in SUBSET Nat, Orders(p, S), NEW k \in 1..Cardinality(S)
    PROVE  Cardinality({n \in S : n < p[k]}) = k - 1
<1>. DEFINE c == Cardinality(S)
<1>1. c \in Nat /\ k \in 1..c
  OBVIOUS
<1>. HIDE DEF c
<1>2. p \in [1..c -> S] /\ Range(p) = S /\ \A i, j \in 1..c : i < j => p[i] < p[j]
  BY DEF Orders, c
<1>. DEFINE T == {n \in S : n < p[k]}
            q == [j \in 1..(k - 1) |-> p[j]]
<1>3. \A j \in 1..(k - 1) : j \in 1..c /\ j < k /\ p[j] \in S /\ p[j] < p[k] /\ q[j] = p[j]
  BY <1>1, <1>2
<1>4. q \in [1..(k - 1) -> T]
  BY <1>3
<1>5. \A x \in T : \E j \in 1..(k - 1) : q[j] = x
  <2>. SUFFICES ASSUME NEW x \in T PROVE \E j \in 1..(k - 1) : q[j] = x
    OBVIOUS
  <2>1. PICK j \in 1..c : p[j] = x
    BY <1>2 DEF Range
  <2>0. x < p[k]
    BY DEF T
  <2>2. j < k
    <3>1. SUFFICES ASSUME j >= k PROVE FALSE
      BY <1>1, <2>1
    <3>2. p[j] \in Nat /\ p[k] \in Nat
      BY <1>1, <1>2
    <3>3. j = k \/ k < j
      BY <1>1, <3>1
    <3>4. j = k \/ p[k] < p[j]
      BY <1>1, <1>2, <3>3
    <3>. QED
      BY <2>0, <2>1, <3>2, <3>4
  <2>3. j \in 1..(k - 1)
    BY <1>1, <2>1, <2>2
  <2>. QED
    BY <1>3, <2>1, <2>3
<1>6. \A i, j \in 1..(k - 1) : q[i] = q[j] => i = j
  <2>. SUFFICES ASSUME NEW i \in 1..(k - 1), NEW j \in 1..(k - 1), q[i] = q[j] PROVE i = j
    OBVIOUS
  <2>1. p[i] = p[j] /\ i \in 1..c /\ j \in 1..c /\ p[i] \in Nat /\ p[j] \in Nat
    BY <1>2, <1>3
  <2>. QED
    BY <1>2, <2>1
<1>. HIDE DEF q, T
<1>7. q \in Bijection(1..(k - 1), T)
  BY <1>4, <1>5, <1>6, Fun_IsBij
<1>8. ExistsBijection(1..(k - 1), T)
  BY <1>7 DEF ExistsBijection
<1>9. IsFiniteSet(1..(k - 1)) /\ Cardinality(1..(k - 1)) = k - 1
  <2>1. 1 \in Int /\ k - 1 \in Int /\ k - 1 >= 0
    BY <1>1
  <2>2. IsFiniteSet(1..(k - 1)) /\ Cardinality(1..(k - 1)) = IF 1 > k - 1 THEN 0 ELSE (k - 1) - 1 + 1
    BY <2>1, FS_Interval
  <2>. QED
    BY <2>1, <2>2
<1>10. Cardinality(T) = k - 1
  BY <1>8, <1>9, FS_Bijection
<1>. QED
  BY <1>10 DEF T

\* The segments are listed in the order of their numbers.
LEMMA SegmentsListed ==
    ASSUME NEW files, DOMAIN files \in SUBSET (1..(Radix - 1))
    PROVE  Cardinality(DOMAIN files) \in Nat /\ Orders(_list_segments(files), DOMAIN files)
<1>. DEFINE S == DOMAIN files
            c == Cardinality(S)
<1>1. Radix \in Nat /\ Radix - 1 \in Nat
  BY WalAssumption
<1>2. S \in SUBSET (1..(Radix - 1)) /\ S \in SUBSET Nat
  OBVIOUS
<1>. HIDE DEF S
<1>0. IsFiniteSet(S) /\ \E p : Orders(p, S)
  BY <1>1, <1>2, OrderExists
<1>. PICK p : Orders(p, S)
  BY <1>0
<1>3. c \in Nat /\ Orders(p, S)
  BY <1>0, FS_CardinalityType
<1>4. ASSUME NEW m \in S
      PROVE  {n \in S : NameBefore(n, m)} = {n \in S : n < m}
  <2>1. \A n \in S : n \in Nat /\ n < Radix
    BY <1>1, <1>2
  <2>2. \A n \in S : NameBefore(n, m) <=> n < m
    BY <2>1, NamesInOrder
  <2>. QED
    BY <2>2
<1>5. p \in [1..c -> S] /\ Range(p) = S /\ \A i, j \in 1..c : i < j => p[i] < p[j]
  BY <1>3 DEF Orders
<1>6. \A k \in 1..c : Cardinality({n \in S : n < p[k]}) = k - 1
  BY <1>2, <1>3, PlacesBefore
<1>. HIDE DEF c
<1>7. ASSUME NEW k \in 1..c
      PROVE  (CHOOSE m \in S : Cardinality({n \in S : NameBefore(n, m)}) = k - 1) = p[k]
  <2>1. p[k] \in S /\ Cardinality({n \in S : NameBefore(n, p[k])}) = k - 1
    BY <1>4, <1>5, <1>6
  <2>2. ASSUME NEW m \in S, Cardinality({n \in S : NameBefore(n, m)}) = k - 1
        PROVE  m = p[k]
    <3>1. PICK j \in 1..c : p[j] = m
      BY <1>5 DEF Range
    <3>2. Cardinality({n \in S : n < p[j]}) = k - 1
      BY <1>4, <2>2, <3>1
    <3>3. j - 1 = k - 1
      BY <1>6, <3>2
    <3>. QED
      BY <1>3, <3>1, <3>3
  <2>. DEFINE chosen == CHOOSE m \in S : Cardinality({n \in S : NameBefore(n, m)}) = k - 1
  <2>3. chosen \in S /\ Cardinality({n \in S : NameBefore(n, chosen)}) = k - 1
    BY <2>1, Zenon
  <2>. HIDE DEF chosen
  <2>4. chosen = p[k]
    BY <2>2, <2>3
  <2>. QED
    BY <2>4 DEF chosen
<1>8. _list_segments(files) = [k \in 1..c |-> CHOOSE m \in S : Cardinality({n \in S : NameBefore(n, m)}) = k - 1]
  BY DEF _list_segments, S, c
<1>9. [k \in 1..c |-> CHOOSE m \in S : Cardinality({n \in S : NameBefore(n, m)}) = k - 1] = [k \in 1..c |-> p[k]]
  BY <1>7, Zenon
<1>10. _list_segments(files) = p
  BY <1>5, <1>8, <1>9
<1>. QED
  BY <1>3, <1>10 DEF S, c

-----------------------------------------------------------------------------
\* Segments one behind the other.

\* What FlattenSeq goes through, up to the n-th sequence.
Flattens(f, seqs, n) == f = [i \in 1..n |-> IF i = 1 THEN seqs[i] ELSE f[i - 1] \o seqs[i]]

LEMMA FlattensFirst ==
    ASSUME NEW n \in Nat, NEW f, NEW seqs, Flattens(f, seqs, n), n >= 1
    PROVE  f[1] = seqs[1]
<1>1. \A i \in 1..n : f[i] = IF i = 1 THEN seqs[i] ELSE f[i - 1] \o seqs[i]
  BY Zenon DEF Flattens
<1>2. 1 \in 1..n
  OBVIOUS
<1>. QED
  BY <1>1, <1>2

Continues(f, seqs, i) == f[i] = f[i - 1] \o seqs[i]

LEMMA FlattensNext ==
    ASSUME NEW n \in Nat, NEW f, NEW seqs, Flattens(f, seqs, n), NEW i \in 2..n
    PROVE  Continues(f, seqs, i)
<1>1. \A j \in 1..n : f[j] = IF j = 1 THEN seqs[j] ELSE f[j - 1] \o seqs[j]
  BY Zenon DEF Flattens
<1>2. i \in 1..n /\ i # 1
  OBVIOUS
<1>. QED
  BY <1>1, <1>2 DEF Continues

\* One sequence more, and what a function has to be like.
LEMMA FlattensIf ==
    ASSUME NEW n \in Nat, NEW f, DOMAIN f = 1..n, f = [i \in 1..n |-> f[i]], NEW seqs,
           n >= 1 => f[1] = seqs[1], \A i \in 2..n : f[i] = f[i - 1] \o seqs[i]
    PROVE  Flattens(f, seqs, n)
<1>1. ASSUME NEW i \in 1..n PROVE f[i] = IF i = 1 THEN seqs[i] ELSE f[i - 1] \o seqs[i]
  <2>1. CASE i = 1
    BY <2>1
  <2>2. CASE i # 1
    <3>1. i \in 2..n
      BY <2>2
    <3>. QED
      BY <2>2, <3>1
  <2>. QED
    BY <2>1, <2>2
<1>2. [i \in 1..n |-> f[i]] = [i \in 1..n |-> IF i = 1 THEN seqs[i] ELSE f[i - 1] \o seqs[i]]
  BY <1>1
<1>. QED
  BY <1>2 DEF Flattens

FlattensTo(more, n, last) == \E g : Flattens(g, more, n) /\ g[n] = last

LEMMA FlattensLonger ==
    ASSUME NEW n \in Nat, NEW f, NEW seqs, NEW more, Flattens(f, seqs, n), \A i \in 1..n : more[i] = seqs[i]
    PROVE  FlattensTo(more, n + 1, IF n = 0 THEN more[1] ELSE f[n] \o more[n + 1])
<1>0. \A i \in 2..n : Continues(f, seqs, i)
  BY FlattensNext
<1>1. n >= 1 => f[1] = seqs[1]
  BY FlattensFirst
<1>. DEFINE last == IF n = 0 THEN more[1] ELSE f[n] \o more[n + 1]
            g == [i \in 1..(n + 1) |-> IF i = n + 1 THEN last ELSE f[i]]
<1>2. DOMAIN g = 1..(n + 1) /\ g = [i \in 1..(n + 1) |-> g[i]]
  OBVIOUS
<1>3. g[n + 1] = last /\ \A i \in 1..n : g[i] = f[i]
  <2>1. n + 1 \in 1..(n + 1) /\ \A i \in 1..n : i \in 1..(n + 1) /\ i # n + 1
    OBVIOUS
  <2>. HIDE DEF last
  <2>. QED
    BY <2>1
<1>. HIDE DEF g
<1>4. g[1] = more[1]
  <2>1. CASE n = 0
    BY <1>3, <2>1
  <2>2. CASE n # 0
    <3>1. 1 \in 1..n /\ n >= 1
      BY <2>2
    <3>. QED
      BY <1>1, <1>3, <3>1
  <2>. QED
    BY <2>1, <2>2
<1>5. ASSUME NEW i \in 2..(n + 1) PROVE g[i] = g[i - 1] \o more[i]
  <2>0. i - 1 \in 1..n
    OBVIOUS
  <2>1. CASE i = n + 1
    <3>1. n # 0 /\ i - 1 = n
      BY <2>0, <2>1
    <3>2. g[i - 1] = f[n]
      BY <1>3, <2>0, <3>1
    <3>. QED
      BY <1>3, <2>1, <3>1, <3>2
  <2>2. CASE i # n + 1
    <3>1. i \in 2..n /\ i \in 1..n
      BY <2>2
    <3>. QED
      BY <1>0, <1>3, <2>0, <3>1 DEF Continues
  <2>. QED
    BY <2>1, <2>2
<1>6. n + 1 \in Nat
  OBVIOUS
<1>7. Flattens(g, more, n + 1)
  BY <1>2, <1>4, <1>5, <1>6, FlattensIf
<1>. QED
  BY <1>3, <1>7 DEF FlattensTo

LEMMA FlattensExist ==
    ASSUME NEW seqs, NEW n \in Nat
    PROVE  \E f : Flattens(f, seqs, n)
<1>. DEFINE P(m) == \E f : Flattens(f, seqs, m)
            Bad == {m \in Nat : ~P(m)}
<1>1. P(0)
  <2>. DEFINE f == [i \in 1..0 |-> i]
  <2>1. DOMAIN f = 1..0 /\ f = [i \in 1..0 |-> f[i]] /\ ~(0 >= 1) /\ \A i \in 2..0 : FALSE
    OBVIOUS
  <2>. HIDE DEF f
  <2>. QED
    BY <2>1, FlattensIf
<1>2. ASSUME NEW m \in Nat, P(m) PROVE P(m + 1)
  BY <1>2, FlattensLonger DEF FlattensTo
<1>. HIDE DEF P
<1>3. SUFFICES ASSUME NEW k \in Bad PROVE FALSE
  <2>1. P(n)
    BY <1>3
  <2>. QED
    BY <2>1 DEF P
<1>4. PICK m \in Bad : \A j \in Bad : m <= j
  <2>1. Bad \in SUBSET Nat
    OBVIOUS
  <2>. HIDE DEF Bad
  <2>. QED
    BY <2>1, <1>3, LeastNumber
<1>5. m \in Nat /\ ~P(m)
  OBVIOUS
<1>6. m # 0 /\ m - 1 \in Nat
  BY <1>1, <1>5
<1>7. P(m - 1)
  <2>1. m - 1 \notin Bad
    BY <1>4, <1>5, <1>6
  <2>. QED
    BY <1>6, <2>1
<1>. QED
  BY <1>2, <1>5, <1>6, <1>7

LEMMA FlattensUnique ==
    ASSUME NEW seqs, NEW n \in Nat, NEW f, NEW g, Flattens(f, seqs, n), Flattens(g, seqs, n), n >= 1
    PROVE  f[n] = g[n]
<1>1. f[1] = seqs[1] /\ g[1] = seqs[1]
  BY FlattensFirst
<1>. DEFINE Bad == {k \in 1..n : f[k] # g[k]}
<1>3. SUFFICES ASSUME NEW k \in Bad PROVE FALSE
  BY <1>3
<1>4. PICK m \in Bad : \A j \in Bad : m <= j
  <2>1. Bad \in SUBSET Nat
    OBVIOUS
  <2>. HIDE DEF Bad
  <2>. QED
    BY <2>1, <1>3, LeastNumber
<1>5. m \in 2..n /\ f[m] # g[m]
  BY <1>1
<1>6. m - 1 \in 1..n /\ m - 1 \notin Bad
  BY <1>4, <1>5
<1>7. f[m - 1] = g[m - 1]
  BY <1>6
<1>8. Continues(f, seqs, m) /\ Continues(g, seqs, m)
  BY <1>5, FlattensNext
<1>. QED
  BY <1>5, <1>7, <1>8 DEF Continues

LEMMA FlattenIs ==
    ASSUME NEW seqs, Len(seqs) \in Nat, Len(seqs) >= 1, NEW f, Flattens(f, seqs, Len(seqs))
    PROVE  FlattenSeq(seqs) = f[Len(seqs)]
<1>. DEFINE flatten == CHOOSE h : Flattens(h, seqs, Len(seqs))
<1>1. Flattens(flatten, seqs, Len(seqs))
  BY Zenon
<1>2. Len(seqs) # 0
  OBVIOUS
<1>3. FlattenSeq(seqs) = flatten[Len(seqs)]
  BY <1>2, Zenon DEF FlattenSeq, Flattens
<1>. HIDE DEF flatten
<1>. QED
  BY <1>1, <1>3, FlattensUnique

LEMMA FlattenTyped ==
    ASSUME NEW S, NEW seqs, Len(seqs) \in Nat, Len(seqs) >= 1, \A i \in 1..Len(seqs) : seqs[i] \in Seq(S)
    PROVE  FlattenSeq(seqs) \in Seq(S)
<1>. PICK n : n = Len(seqs)
  OBVIOUS
<1>1. PICK f : Flattens(f, seqs, n)
  BY FlattensExist
<1>2. f[1] = seqs[1]
  BY <1>1, FlattensFirst
<1>. DEFINE Bad == {k \in 1..n : f[k] \notin Seq(S)}
<1>3. Bad = {}
  <2>1. SUFFICES ASSUME NEW k \in Bad PROVE FALSE
    BY <2>1
  <2>2. PICK m \in Bad : \A j \in Bad : m <= j
    <3>1. Bad \in SUBSET Nat
      OBVIOUS
    <3>. HIDE DEF Bad
    <3>. QED
      BY <2>1, <3>1, LeastNumber
  <2>3. m \in 2..n /\ f[m] \notin Seq(S) /\ seqs[m] \in Seq(S)
    BY <1>2
  <2>4. m - 1 \in 1..n /\ m - 1 \notin Bad
    BY <2>2, <2>3
  <2>5. f[m - 1] \in Seq(S)
    BY <2>4
  <2>6. Continues(f, seqs, m)
    BY <1>1, <2>3, FlattensNext
  <2>7. \A x, y \in Seq(S) : x \o y \in Seq(S)
    OBVIOUS
  <2>. QED
    BY <2>3, <2>5, <2>6, <2>7 DEF Continues
<1>4. f[n] \in Seq(S)
  <2>1. n \in 1..n /\ n \notin Bad
    BY <1>3
  <2>. QED
    BY <2>1
<1>. QED
  BY <1>1, <1>4, FlattenIs

\* A record more at the end of the last sequence.
EndsIn(longer, s, r) == longer = Append(s, r)

LEMMA FlattenLongerLast ==
    ASSUME NEW S, NEW n \in Nat, n >= 1, NEW seqs, NEW more, NEW r \in S,
           Len(seqs) = n, Len(more) = n,
           \A i \in 1..n : seqs[i] \in Seq(S), \A i \in 1..(n - 1) : more[i] = seqs[i],
           EndsIn(more[n], seqs[n], r)
    PROVE  EndsIn(FlattenSeq(more), FlattenSeq(seqs), r)
<1>0. n - 1 \in Nat /\ n - 1 + 1 = n /\ n \in 1..n
  OBVIOUS
<1>1. PICK f : Flattens(f, seqs, n - 1)
  BY <1>0, FlattensExist
<1>. DEFINE a == IF n - 1 = 0 THEN seqs[1] ELSE f[n - 1] \o seqs[n]
            b == IF n - 1 = 0 THEN more[1] ELSE f[n - 1] \o more[n]
<1>2. FlattensTo(seqs, n, a)
  BY <1>0, <1>1, FlattensLonger
<1>3. FlattensTo(more, n, b)
  <2>1. \A i \in 1..(n - 1) : more[i] = seqs[i]
    OBVIOUS
  <2>. QED
    BY <1>0, <1>1, <2>1, FlattensLonger
<1>4. FlattenSeq(seqs) = a
  BY <1>2, FlattenIs DEF FlattensTo
<1>5. FlattenSeq(more) = b
  BY <1>3, FlattenIs DEF FlattensTo
<1>6. n - 1 # 0 => f[n - 1] \in Seq(S)
  <2>. SUFFICES ASSUME n - 1 # 0 PROVE f[n - 1] \in Seq(S)
    OBVIOUS
  <2>. DEFINE front == [i \in 1..(n - 1) |-> seqs[i]]
  <2>1. /\ Len(front) = n - 1 /\ n - 1 >= 1 /\ \A i \in 1..(n - 1) : seqs[i] = front[i]
        /\ \A i \in 1..(n - 1) : front[i] \in Seq(S)
    BY <1>0
  <2>. HIDE DEF front
  <2>2. f[1] = seqs[1] /\ DOMAIN f = 1..(n - 1) /\ f = [i \in 1..(n - 1) |-> f[i]]
    <3>1. f[1] = seqs[1]
      BY <1>0, <1>1, <2>1, FlattensFirst
    <3>2. DOMAIN f = 1..(n - 1) /\ f = [i \in 1..(n - 1) |-> f[i]]
      BY <1>1, Zenon DEF Flattens
    <3>. QED
      BY <3>1, <3>2
  <2>3. ASSUME NEW i \in 2..(n - 1) PROVE f[i] = f[i - 1] \o front[i]
    <3>1. Continues(f, seqs, i)
      BY <1>0, <1>1, FlattensNext
    <3>2. i \in 1..(n - 1)
      OBVIOUS
    <3>. QED
      BY <2>1, <3>1, <3>2 DEF Continues
  <2>4. front[1] = f[1] /\ \A i \in 2..(n - 1) : f[i] = f[i - 1] \o front[i]
    <3>1. 1 \in 1..(n - 1)
      BY <1>0, <2>1
    <3>. QED
      BY <2>1, <2>2, <2>3, <3>1
  <2>5. Flattens(f, front, n - 1)
    BY <1>0, <2>2, <2>4, FlattensIf
  <2>6. FlattenSeq(front) = f[n - 1]
    BY <1>0, <2>1, <2>5, FlattenIs
  <2>7. FlattenSeq(front) \in Seq(S)
    BY <1>0, <2>1, FlattenTyped
  <2>. QED
    BY <2>6, <2>7
<1>7. b = Append(a, r)
  <2>0. more[n] = Append(seqs[n], r)
    BY DEF EndsIn
  <2>1. CASE n - 1 = 0
    BY <2>0, <2>1
  <2>2. CASE n - 1 # 0
    <3>1. f[n - 1] \in Seq(S) /\ seqs[n] \in Seq(S)
      BY <1>0, <1>6, <2>2
    <3>2. \A x, y \in Seq(S) : x \o Append(y, r) = Append(x \o y, r)
      OBVIOUS
    <3>. QED
      BY <2>0, <2>2, <3>1, <3>2
  <2>. QED
    BY <2>1, <2>2
<1>. QED
  BY <1>4, <1>5, <1>7 DEF EndsIn

\* An empty sequence more.
LEMMA FlattenEmptyLast ==
    ASSUME NEW S, NEW n \in Nat, n >= 1, NEW seqs, NEW more, Len(seqs) = n, Len(more) = n + 1,
           \A i \in 1..n : seqs[i] \in Seq(S), \A i \in 1..n : more[i] = seqs[i], more[n + 1] = <<>>
    PROVE  FlattenSeq(more) = FlattenSeq(seqs)
<1>1. PICK f : Flattens(f, seqs, n)
  BY FlattensExist
<1>2. FlattensTo(more, n + 1, IF n = 0 THEN more[1] ELSE f[n] \o more[n + 1])
  BY <1>1, FlattensLonger
<1>3. FlattenSeq(more) = f[n] \o <<>>
  <2>1. (IF n = 0 THEN more[1] ELSE f[n] \o more[n + 1]) = f[n] \o <<>>
    OBVIOUS
  <2>2. n + 1 \in Nat /\ n + 1 >= 1
    OBVIOUS
  <2>. QED
    BY <1>2, <2>1, <2>2, FlattenIs DEF FlattensTo
<1>4. FlattenSeq(seqs) = f[n] /\ FlattenSeq(seqs) \in Seq(S)
  BY <1>1, FlattenIs, FlattenTyped
<1>. QED
  BY <1>3, <1>4

-----------------------------------------------------------------------------
\* What a replay finds in the files.

WalRecords == [kind : Kinds, id : DocId, ver : 1..MaxWrites]

Entries == WalRecords \cup {Torn}

LEMMA TornIsNoRecord == Torn \notin WalRecords
  BY ReplicaSetAssumption DEF WalRecords, Kinds

Segments(files) ==
    /\ 1 \in DOMAIN files /\ DOMAIN files \in SUBSET (Nat \ {0})
    /\ \A s \in DOMAIN files : files[s] \in Seq(Entries)

\* The records before the first torn one.
LEMMA ReadableIs ==
    ASSUME NEW segment \in Seq(Entries)
    PROVE  /\ Readable(segment) \in Seq(WalRecords)
           /\ segment \in Seq(WalRecords) =>
                 Readable(segment) = segment /\ Readable(Append(segment, Torn)) = segment
<1>. DEFINE I(s) == {i \in 1..Len(s) : s[i] = Torn}
<1>1. ASSUME NEW s \in Seq(Entries), I(s) = {}
      PROVE  Readable(s) = s
  <2>1. SelectInSeq(s, LAMBDA r : r = Torn) = 0
    BY <1>1 DEF SelectInSeq
  <2>. QED
    BY <2>1 DEF Readable
<1>2. ASSUME NEW s \in Seq(Entries), NEW m \in I(s), \A j \in I(s) : m <= j
      PROVE  Readable(s) = SubSeq(s, 1, m - 1) /\ m \in 1..Len(s)
  <2>1. \A x \in I(s) : (\A j \in I(s) : x <= j) => x = m
    BY <1>2
  <2>2. Min(I(s)) = m
    <3>. HIDE DEF I
    <3>. DEFINE least == CHOOSE x \in I(s) : \A y \in I(s) : x <= y
    <3>1. least \in I(s) /\ \A y \in I(s) : least <= y
      BY <1>2, Zenon
    <3>2. Min(I(s)) = least
      BY Zenon DEF Min
    <3>. HIDE DEF least
    <3>. QED
      BY <2>1, <3>1, <3>2
  <2>3. SelectInSeq(s, LAMBDA r : r = Torn) = m
    BY <1>2, <2>2 DEF SelectInSeq
  <2>4. m # 0 /\ m \in 1..Len(s)
    BY <1>2
  <2>. QED
    BY <2>3, <2>4 DEF Readable
<1>3. ASSUME NEW s \in Seq(Entries), I(s) # {}
      PROVE  \E m \in I(s) : \A j \in I(s) : m <= j
  <2>1. I(s) \in SUBSET Nat
    OBVIOUS
  <2>. HIDE DEF I
  <2>. QED
    BY <1>3, <2>1, LeastNumber
<1>4. \A s \in Seq(WalRecords) : I(s) = {} /\ s \in Seq(Entries)
  BY TornIsNoRecord DEF Entries
<1>5. Readable(segment) \in Seq(WalRecords)
  <2>1. CASE I(segment) = {}
    <3>1. \A i \in 1..Len(segment) : segment[i] \in WalRecords
      BY <2>1 DEF Entries
    <3>2. segment \in Seq(WalRecords)
      BY <3>1
    <3>. QED
      BY <1>1, <2>1, <3>2
  <2>2. CASE I(segment) # {}
    <3>1. PICK m \in I(segment) : \A j \in I(segment) : m <= j
      BY <1>3, <2>2
    <3>2. Readable(segment) = SubSeq(segment, 1, m - 1) /\ m \in 1..Len(segment)
      BY <1>2, <3>1
    <3>3. \A i \in 1..(m - 1) : segment[i] \in WalRecords
      <4>1. \A i \in 1..(m - 1) : i \in 1..Len(segment) /\ i < m
        BY <3>2
      <4>2. \A i \in 1..(m - 1) : i \notin I(segment)
        BY <3>1, <4>1
      <4>. QED
        BY <4>1, <4>2 DEF Entries
    <3>4. 1 \in Int /\ m - 1 \in Int
      BY <3>2
    <3>. QED
      BY <3>2, <3>3, <3>4, SubSeqProperties
  <2>. QED
    BY <2>1, <2>2
<1>6. ASSUME segment \in Seq(WalRecords) PROVE Readable(Append(segment, Torn)) = segment
  <2>1. PICK n, s : n = Len(segment) /\ s = Append(segment, Torn)
    OBVIOUS
  <2>2. /\ n \in Nat /\ s \in Seq(Entries) /\ Len(s) = n + 1 /\ s[n + 1] = Torn /\ \A i \in 1..n : s[i] = segment[i]
    BY <1>4, <1>6, <2>1 DEF Entries
  <2>3. \A i \in 1..n : s[i] # Torn
    BY <1>4, <1>6, <2>1, <2>2
  <2>4. n + 1 \in I(s) /\ \A j \in I(s) : n + 1 <= j
    BY <2>2, <2>3
  <2>5. Readable(s) = SubSeq(s, 1, n)
    <3>1. Readable(s) = SubSeq(s, 1, n + 1 - 1)
      BY <1>2, <2>2, <2>4
    <3>2. n + 1 - 1 = n
      BY <2>2
    <3>. QED
      BY <3>1, <3>2
  <2>6. SubSeq(s, 1, n) = segment
    <3>1. Len(SubSeq(s, 1, n)) = n /\ \A i \in 1..n : SubSeq(s, 1, n)[i] = s[i]
      BY <2>2
    <3>2. SubSeq(s, 1, n) \in Seq(Entries)
      BY <2>2
    <3>. QED
      BY <1>4, <1>6, <2>1, <2>2, <3>1, <3>2
  <2>. QED
    BY <2>1, <2>5, <2>6
<1>. QED
  BY <1>1, <1>4, <1>5, <1>6

\* What is read of every segment, in their order.
Read(files, names) == [k \in DOMAIN names |-> Readable(files[names[k]])]

LEMMA ReadIs ==
    ASSUME NEW files, NEW names, Segments(files), Cardinality(DOMAIN files) \in Nat, Orders(names, DOMAIN files)
    PROVE  /\ Cardinality(DOMAIN files) >= 1 /\ Len(Read(files, names)) = Cardinality(DOMAIN files)
           /\ \A k \in 1..Cardinality(DOMAIN files) :
                 /\ names[k] \in DOMAIN files /\ Read(files, names)[k] = Readable(files[names[k]])
                 /\ Read(files, names)[k] \in Seq(WalRecords)
<1>. PICK c : c = Cardinality(DOMAIN files)
  OBVIOUS
<1>1. c \in Nat /\ names \in [1..c -> DOMAIN files] /\ Range(names) = DOMAIN files /\ DOMAIN names = 1..c
  BY DEF Orders
<1>2. c >= 1
  <2>1. PICK k \in 1..c : names[k] = 1
    BY <1>1 DEF Segments, Range
  <2>. QED
    BY <1>1, <2>1
<1>3. \A k \in 1..c : names[k] \in DOMAIN files /\ Read(files, names)[k] = Readable(files[names[k]])
  BY <1>1 DEF Read
<1>4. \A k \in 1..c : Readable(files[names[k]]) \in Seq(WalRecords)
  BY <1>3, ReadableIs DEF Segments
<1>5. Len(Read(files, names)) = c
  BY <1>1 DEF Read
<1>. QED
  BY <1>2, <1>3, <1>4, <1>5

LEMMA ReplayReads ==
    ASSUME NEW files, DOMAIN files \in SUBSET (1..(Radix - 1)), Segments(files)
    PROVE  /\ Cardinality(DOMAIN files) \in Nat /\ Orders(_list_segments(files), DOMAIN files)
           /\ replay(files) = FlattenSeq(Read(files, _list_segments(files)))
           /\ replay(files) \in Seq(WalRecords)
<1>1. Cardinality(DOMAIN files) \in Nat /\ Orders(_list_segments(files), DOMAIN files)
  BY SegmentsListed
<1>2. replay(files) = FlattenSeq(Read(files, _list_segments(files)))
  BY DEF replay, Read
<1>3. FlattenSeq(Read(files, _list_segments(files))) \in Seq(WalRecords)
  BY <1>1, ReadIs, FlattenTyped
<1>. QED
  BY <1>1, <1>2, <1>3

\* Only the last segment changes: a record more can be read of it, or none.
LEMMA ReplayLastSegment ==
    ASSUME NEW f, NEW g, Segments(f), Segments(g), DOMAIN f \in SUBSET (1..(Radix - 1)), DOMAIN g = DOMAIN f,
           NEW last \in DOMAIN f, \A s \in DOMAIN f : s <= last /\ (s # last => g[s] = f[s])
    PROVE  /\ Readable(g[last]) = Readable(f[last]) => replay(g) = replay(f)
           /\ \A r \in WalRecords :
                 EndsIn(Readable(g[last]), Readable(f[last]), r) => EndsIn(replay(g), replay(f), r)
<1>. PICK names, c : names = _list_segments(f) /\ c = Cardinality(DOMAIN f)
  OBVIOUS
<1>1. c \in Nat /\ Orders(names, DOMAIN f) /\ replay(f) = FlattenSeq(Read(f, names))
  BY ReplayReads
<1>2. _list_segments(g) = names
  BY DEF _list_segments
<1>3. Cardinality(DOMAIN g) = c /\ Orders(names, DOMAIN g) /\ replay(g) = FlattenSeq(Read(g, names))
  BY <1>2, ReplayReads
<1>4. /\ c >= 1 /\ Len(Read(f, names)) = c
      /\ \A k \in 1..c : /\ names[k] \in DOMAIN f /\ Read(f, names)[k] = Readable(f[names[k]])
                         /\ Read(f, names)[k] \in Seq(WalRecords)
  BY <1>1, ReadIs
<1>5. Len(Read(g, names)) = c /\ \A k \in 1..c : Read(g, names)[k] = Readable(g[names[k]])
  BY <1>1, <1>3, ReadIs
<1>6. names \in [1..c -> DOMAIN f] /\ Range(names) = DOMAIN f /\ \A i, j \in 1..c : i < j => names[i] < names[j]
  BY <1>1 DEF Orders
<1>7. names[c] = last /\ \A k \in 1..(c - 1) : names[k] # last
  <2>1. PICK j \in 1..c : names[j] = last
    BY <1>6 DEF Range
  <2>2. \A k \in 1..c : names[k] \in Nat /\ names[k] <= last
    BY <1>6 DEF Segments
  <2>3. j = c
    <3>1. SUFFICES ASSUME j < c PROVE FALSE
      BY <1>1, <2>1
    <3>2. c \in 1..c
      BY <1>1, <1>4
    <3>3. names[j] < names[c] /\ names[c] <= last /\ names[c] \in Nat /\ names[j] \in Nat
      BY <1>6, <2>1, <2>2, <3>1, <3>2
    <3>. QED
      BY <2>1, <3>3
  <2>4. \A k \in 1..(c - 1) : k \in 1..c /\ k < c /\ c \in 1..c
    BY <1>1
  <2>5. ASSUME NEW k \in 1..(c - 1) PROVE names[k] # last
    <3>1. names[k] < names[c] /\ names[k] \in Nat
      BY <1>6, <2>2, <2>4
    <3>. QED
      BY <2>1, <2>3, <3>1
  <2>. QED
    BY <2>1, <2>3, <2>5
<1>8. \A k \in 1..(c - 1) : Read(g, names)[k] = Read(f, names)[k]
  <2>1. \A k \in 1..(c - 1) : k \in 1..c
    BY <1>1
  <2>2. \A k \in 1..(c - 1) : g[names[k]] = f[names[k]]
    BY <1>4, <1>7, <2>1
  <2>. QED
    BY <1>4, <1>5, <2>1, <2>2
<1>9. c \in 1..c
  BY <1>1, <1>4
<1>10. Read(f, names)[c] = Readable(f[last]) /\ Read(g, names)[c] = Readable(g[last])
  BY <1>4, <1>5, <1>7, <1>9
<1>11. ASSUME Readable(g[last]) = Readable(f[last]) PROVE replay(g) = replay(f)
  <2>1. ASSUME NEW k \in 1..c PROVE Readable(g[names[k]]) = Readable(f[names[k]])
    <3>1. k = c \/ k \in 1..(c - 1)
      BY <1>1
    <3>. QED
      BY <1>4, <1>5, <1>8, <1>10, <1>11, <1>9, <3>1
  <2>2. Read(g, names) = Read(f, names)
    BY <1>6, <2>1 DEF Read
  <2>. QED
    BY <1>1, <1>3, <2>2
<1>12. ASSUME NEW r \in WalRecords, EndsIn(Readable(g[last]), Readable(f[last]), r)
       PROVE  EndsIn(replay(g), replay(f), r)
  <2>1. EndsIn(Read(g, names)[c], Read(f, names)[c], r)
    BY <1>10, <1>12
  <2>2. \A k \in 1..c : Read(f, names)[k] \in Seq(WalRecords)
    BY <1>4
  <2>3. PICK x, y : x = Read(f, names) /\ y = Read(g, names)
    OBVIOUS
  <2>4. Len(x) = c /\ Len(y) = c /\ c >= 1
    BY <1>4, <1>5, <2>3
  <2>5. \A k \in 1..c : x[k] \in Seq(WalRecords)
    BY <2>2, <2>3
  <2>6. \A k \in 1..(c - 1) : y[k] = x[k]
    BY <1>8, <2>3
  <2>7. EndsIn(y[c], x[c], r)
    BY <2>1, <2>3
  <2>8. EndsIn(FlattenSeq(y), FlattenSeq(x), r)
    BY <1>1, <2>4, <2>5, <2>6, <2>7, FlattenLongerLast
  <2>. QED
    BY <1>1, <1>3, <2>3, <2>8
<1>. QED
  BY <1>11, <1>12

\* A set has one order.
LEMMA OneOrder ==
    ASSUME NEW S, S \in SUBSET Nat, Cardinality(S) \in Nat, NEW p, NEW q, Orders(p, S), Orders(q, S)
    PROVE  p = q
<1>. PICK c : c = Cardinality(S)
  OBVIOUS
<1>1. /\ p \in [1..c -> S] /\ q \in [1..c -> S] /\ Range(q) = S
  BY DEF Orders
<1>2. ASSUME NEW k \in 1..c PROVE p[k] = q[k]
  <2>6. \A i \in 1..c : i \in 1..Cardinality(S)
    OBVIOUS
  <2>7. \A i \in 1..Cardinality(S) : Cardinality({n \in S : n < p[i]}) = i - 1
    BY PlacesBefore, Zenon
  <2>8. \A i \in 1..Cardinality(S) : Cardinality({n \in S : n < q[i]}) = i - 1
    BY PlacesBefore, Zenon
  <2>1. Cardinality({n \in S : n < p[k]}) = k - 1
    BY <2>6, <2>7, Zenon
  <2>2. PICK j \in 1..c : q[j] = p[k]
    BY <1>1 DEF Range
  <2>3. Cardinality({n \in S : n < q[j]}) = j - 1
    BY <2>6, <2>8, <2>2, Zenon
  <2>4. k - 1 = j - 1
    BY <2>1, <2>2, <2>3
  <2>5. k = j
    BY <2>4
  <2>. QED
    BY <2>2, <2>5
<1>. QED
  BY <1>1, <1>2

\* A new segment changes nothing.
LEMMA ReplayNewSegment ==
    ASSUME NEW f, NEW g, Segments(f), Segments(g), NEW name \in 1..(Radix - 1), DOMAIN f \in SUBSET (1..(Radix - 1)),
           DOMAIN g = DOMAIN f \cup {name}, \A s \in DOMAIN f : s < name /\ g[s] = f[s], g[name] = <<>>
    PROVE  replay(g) = replay(f)
<1>. PICK names, c, S, T : names = _list_segments(f) /\ c = Cardinality(S) /\ S = DOMAIN f /\ T = DOMAIN g
  OBVIOUS
<1>0. DOMAIN g \in SUBSET (1..(Radix - 1))
  OBVIOUS
<1>1. c \in Nat /\ Orders(names, S) /\ replay(f) = FlattenSeq(Read(f, names))
  BY ReplayReads
<1>2. Cardinality(T) \in Nat /\ Orders(_list_segments(g), T) /\ replay(g) = FlattenSeq(Read(g, _list_segments(g)))
  BY <1>0, ReplayReads
<1>3. /\ c >= 1 /\ Len(Read(f, names)) = c
      /\ \A k \in 1..c : /\ names[k] \in S /\ Read(f, names)[k] = Readable(f[names[k]])
                         /\ Read(f, names)[k] \in Seq(WalRecords)
  BY <1>1, ReadIs
<1>4. names \in [1..c -> S] /\ Range(names) = S /\ \A i, j \in 1..c : i < j => names[i] < names[j]
  BY <1>1 DEF Orders
<1>5. T = S \cup {name} /\ name \notin S /\ name \in Nat /\ S \in SUBSET Nat /\ T \in SUBSET Nat
  <2>1. \A s \in S : s \in Nat /\ s < name
    BY DEF Segments
  <2>. QED
    BY <2>1
<1>6. IsFiniteSet(S) /\ Cardinality(T) = c + 1
  <2>1. Radix - 1 \in Nat
    BY WalAssumption
  <2>2. IsFiniteSet(S)
    BY <2>1, OrderExists
  <2>. QED
    BY <1>5, <2>2, FS_AddElement
<1>. DEFINE more == [k \in 1..(c + 1) |-> IF k = c + 1 THEN name ELSE names[k]]
<1>7. \A k \in 1..c : k \in 1..(c + 1) /\ k # c + 1 /\ more[k] = names[k]
  BY <1>1
<1>8. c + 1 \in 1..(c + 1) /\ more[c + 1] = name /\ \A k \in 1..(c + 1) : k = c + 1 \/ k \in 1..c
  BY <1>1
<1>9. Orders(more, T)
  <2>1. more \in [1..(c + 1) -> T] /\ DOMAIN more = 1..(c + 1)
    BY <1>4, <1>5, <1>7, <1>8
  <2>. HIDE DEF more
  <2>2. Range(more) = T
    <3>1. \A x \in T : \E k \in 1..(c + 1) : more[k] = x
      <4>. SUFFICES ASSUME NEW x \in T PROVE \E k \in 1..(c + 1) : more[k] = x
        OBVIOUS
      <4>1. CASE x = name
        BY <1>8, <4>1
      <4>2. CASE x # name
        <5>1. PICK k \in 1..c : names[k] = x
          BY <1>4, <1>5, <4>2 DEF Range
        <5>. QED
          BY <1>7, <5>1
      <4>. QED
        BY <4>1, <4>2
    <3>2. \A k \in 1..(c + 1) : more[k] \in T
      BY <2>1
    <3>. QED
      BY <2>1, <3>1, <3>2 DEF Range
  <2>3. ASSUME NEW i \in 1..(c + 1), NEW j \in 1..(c + 1), i < j PROVE more[i] < more[j]
    <3>1. i \in 1..c
      BY <1>1, <2>3
    <3>2. CASE j = c + 1
      <4>1. names[i] \in S
        BY <1>3, <3>1
      <4>. QED
        BY <1>7, <1>8, <3>1, <3>2, <4>1
    <3>3. CASE j # c + 1
      <4>1. j \in 1..c
        BY <1>8, <3>3
      <4>. QED
        BY <1>4, <1>7, <2>3, <3>1, <4>1
    <3>. QED
      BY <3>2, <3>3
  <2>. QED
    BY <1>6, <2>1, <2>2, <2>3 DEF Orders
<1>10. _list_segments(g) = more
  <2>. HIDE DEF more
  <2>. QED
    BY <1>2, <1>5, <1>9, OneOrder
<1>. HIDE DEF more
<1>11. Len(Read(g, more)) = c + 1 /\ \A k \in 1..(c + 1) : Read(g, more)[k] = Readable(g[more[k]])
  BY <1>2, <1>6, <1>9, ReadIs
<1>12. \A k \in 1..c : Read(g, more)[k] = Read(f, names)[k]
  BY <1>3, <1>7, <1>11
<1>13. Read(g, more)[c + 1] = <<>>
  <2>1. <<>> \in Seq(WalRecords) /\ <<>> \in Seq(Entries)
    OBVIOUS
  <2>2. Readable(<<>>) = <<>>
    BY <2>1, ReadableIs
  <2>. QED
    BY <1>8, <1>11, <2>2
<1>14. FlattenSeq(Read(g, more)) = FlattenSeq(Read(f, names))
  <2>1. \A k \in 1..c : Read(f, names)[k] \in Seq(WalRecords)
    BY <1>3
  <2>2. PICK x, y : x = Read(f, names) /\ y = Read(g, more)
    OBVIOUS
  <2>3. Len(x) = c /\ Len(y) = c + 1 /\ c >= 1 /\ y[c + 1] = <<>>
    BY <1>3, <1>11, <1>13, <2>2
  <2>4. \A k \in 1..c : x[k] \in Seq(WalRecords)
    BY <2>1, <2>2
  <2>5. \A k \in 1..c : y[k] = x[k]
    BY <1>12, <2>2
  <2>6. FlattenSeq(y) = FlattenSeq(x)
    BY <1>1, <2>3, <2>4, <2>5, FlattenEmptyLast
  <2>. QED
    BY <2>2, <2>6
<1>. QED
  BY <1>1, <1>2, <1>10, <1>14

-----------------------------------------------------------------------------
\* WalRecords one behind the other.

\* What ApplyAll goes through, up to the n-th record.
AppliesAll(f, records, n) == f = [k \in 0..n |-> IF k = 0 THEN Empty ELSE ApplyRecord(f[k - 1], records[k])]

LEMMA AppliesAre ==
    ASSUME NEW n \in Nat, NEW f, NEW records
    PROVE  AppliesAll(f, records, n) => f[0] = Empty /\ \A k \in 1..n : f[k] = ApplyRecord(f[k - 1], records[k])
<1>. SUFFICES ASSUME AppliesAll(f, records, n)
             PROVE  f[0] = Empty /\ \A k \in 1..n : f[k] = ApplyRecord(f[k - 1], records[k])
  OBVIOUS
<1>1. \A k \in 0..n : f[k] = IF k = 0 THEN Empty ELSE ApplyRecord(f[k - 1], records[k])
  BY Zenon DEF AppliesAll
<1>2. 0 \in 0..n /\ \A k \in 1..n : k \in 0..n /\ k # 0
  OBVIOUS
<1>. QED
  BY <1>1, <1>2

AppliesTo(more, n, last) == \E g : AppliesAll(g, more, n) /\ g[n] = last

LEMMA AppliesLonger ==
    ASSUME NEW n \in Nat, NEW f, NEW records, NEW more, AppliesAll(f, records, n),
           \A k \in 1..n : more[k] = records[k]
    PROVE  AppliesTo(more, n + 1, ApplyRecord(f[n], more[n + 1]))
<1>1. f[0] = Empty /\ \A k \in 1..n : f[k] = ApplyRecord(f[k - 1], records[k])
  BY AppliesAre
<1>. DEFINE g == [k \in 0..(n + 1) |-> IF k = n + 1 THEN ApplyRecord(f[n], more[n + 1]) ELSE f[k]]
<1>2. DOMAIN g = 0..(n + 1) /\ g = [k \in 0..(n + 1) |-> g[k]]
  OBVIOUS
<1>3. n + 1 \in 0..(n + 1) /\ g[n + 1] = ApplyRecord(f[n], more[n + 1])
  OBVIOUS
<1>4. \A k \in 0..n : k \in 0..(n + 1) /\ k # n + 1 /\ g[k] = f[k]
  OBVIOUS
<1>. HIDE DEF g
<1>5. ASSUME NEW k \in 0..(n + 1) PROVE g[k] = IF k = 0 THEN Empty ELSE ApplyRecord(g[k - 1], more[k])
  <2>1. CASE k = 0
    BY <1>1, <1>4, <2>1
  <2>2. CASE k = n + 1
    <3>1. k # 0 /\ k - 1 = n /\ n \in 0..n
      BY <2>2
    <3>2. g[k - 1] = f[n]
      BY <1>4, <3>1
    <3>. QED
      BY <1>3, <2>2, <3>1, <3>2
  <2>3. CASE k # 0 /\ k # n + 1
    <3>1. k \in 1..n /\ k \in 0..n /\ k - 1 \in 0..n
      BY <2>3
    <3>2. g[k] = f[k] /\ g[k - 1] = f[k - 1] /\ more[k] = records[k]
      BY <1>4, <3>1
    <3>. QED
      BY <1>1, <2>3, <3>1, <3>2
  <2>. QED
    BY <2>1, <2>2, <2>3
<1>6. [k \in 0..(n + 1) |-> g[k]] = [k \in 0..(n + 1) |-> IF k = 0 THEN Empty ELSE ApplyRecord(g[k - 1], more[k])]
  BY <1>5
<1>7. AppliesAll(g, more, n + 1)
  BY <1>2, <1>6 DEF AppliesAll
<1>. QED
  BY <1>3, <1>7 DEF AppliesTo

LEMMA AppliesExist ==
    ASSUME NEW records, NEW n \in Nat
    PROVE  \E f : AppliesAll(f, records, n)
<1>. DEFINE P(m) == \E f : AppliesAll(f, records, m)
            Bad == {m \in Nat : ~P(m)}
<1>1. P(0)
  <2>. DEFINE f == [k \in 0..0 |-> Empty]
  <2>1. \A k \in 0..0 : k = 0
    OBVIOUS
  <2>2. f = [k \in 0..0 |-> IF k = 0 THEN Empty ELSE ApplyRecord(f[k - 1], records[k])]
    BY <2>1
  <2>. HIDE DEF f
  <2>. QED
    BY <2>2 DEF AppliesAll
<1>2. ASSUME NEW m \in Nat, P(m) PROVE P(m + 1)
  BY <1>2, AppliesLonger DEF AppliesTo
<1>. HIDE DEF P
<1>3. SUFFICES ASSUME NEW k \in Bad PROVE FALSE
  <2>1. P(n)
    BY <1>3
  <2>. QED
    BY <2>1 DEF P
<1>4. PICK m \in Bad : \A j \in Bad : m <= j
  <2>1. Bad \in SUBSET Nat
    OBVIOUS
  <2>. HIDE DEF Bad
  <2>. QED
    BY <2>1, <1>3, LeastNumber
<1>5. m \in Nat /\ ~P(m)
  OBVIOUS
<1>6. m # 0 /\ m - 1 \in Nat
  BY <1>1, <1>5
<1>7. P(m - 1)
  <2>1. m - 1 \notin Bad
    BY <1>4, <1>5, <1>6
  <2>. QED
    BY <1>6, <2>1
<1>. QED
  BY <1>2, <1>5, <1>6, <1>7

LEMMA AppliesUnique ==
    ASSUME NEW records, NEW n \in Nat, NEW f, NEW g, AppliesAll(f, records, n), AppliesAll(g, records, n)
    PROVE  f[n] = g[n]
<1>1. f[0] = Empty /\ \A k \in 1..n : f[k] = ApplyRecord(f[k - 1], records[k])
  BY AppliesAre
<1>2. g[0] = Empty /\ \A k \in 1..n : g[k] = ApplyRecord(g[k - 1], records[k])
  BY AppliesAre
<1>. DEFINE Bad == {k \in 0..n : f[k] # g[k]}
<1>3. SUFFICES ASSUME NEW k \in Bad PROVE FALSE
  BY <1>3
<1>4. PICK m \in Bad : \A j \in Bad : m <= j
  <2>1. Bad \in SUBSET Nat
    OBVIOUS
  <2>. HIDE DEF Bad
  <2>. QED
    BY <2>1, <1>3, LeastNumber
<1>5. m \in 1..n /\ f[m] # g[m]
  BY <1>1, <1>2
<1>6. m - 1 \in 0..n /\ m - 1 \notin Bad
  BY <1>4, <1>5
<1>7. f[m - 1] = g[m - 1]
  BY <1>6
<1>. QED
  BY <1>1, <1>2, <1>5, <1>7

LEMMA ApplyAllIs ==
    ASSUME NEW records, Len(records) \in Nat, NEW f, AppliesAll(f, records, Len(records))
    PROVE  ApplyAll(records) = f[Len(records)]
<1>. DEFINE after == CHOOSE h : AppliesAll(h, records, Len(records))
<1>1. AppliesAll(after, records, Len(records))
  BY Zenon
<1>2. ApplyAll(records) = after[Len(records)]
  BY Zenon DEF ApplyAll, AppliesAll
<1>. HIDE DEF after
<1>. QED
  BY <1>1, <1>2, AppliesUnique

LEMMA ApplyNone == ApplyAll(<<>>) = Empty
<1>1. Len(<<>>) = 0
  OBVIOUS
<1>2. PICK f : AppliesAll(f, <<>>, 0)
  BY AppliesExist
<1>3. f[0] = Empty
  BY <1>2, AppliesAre
<1>. QED
  BY <1>1, <1>2, <1>3, ApplyAllIs

LEMMA ApplyOneMore ==
    ASSUME NEW records \in Seq(WalRecords), NEW r \in WalRecords
    PROVE  ApplyAll(Append(records, r)) = ApplyRecord(ApplyAll(records), r)
<1>1. PICK n, more : n = Len(records) /\ more = Append(records, r)
  OBVIOUS
<1>2. n \in Nat /\ Len(more) = n + 1 /\ more[n + 1] = r /\ \A k \in 1..n : more[k] = records[k]
  BY <1>1
<1>3. PICK f : AppliesAll(f, records, n)
  BY <1>2, AppliesExist
<1>4. AppliesTo(more, n + 1, ApplyRecord(f[n], more[n + 1]))
  BY <1>2, <1>3, AppliesLonger
<1>5. PICK g : AppliesAll(g, more, n + 1) /\ g[n + 1] = ApplyRecord(f[n], more[n + 1])
  BY <1>4 DEF AppliesTo
<1>6. ApplyAll(records) = f[n]
  BY <1>1, <1>2, <1>3, ApplyAllIs
<1>7. ApplyAll(more) = g[n + 1]
  BY <1>2, <1>5, ApplyAllIs
<1>. QED
  BY <1>1, <1>2, <1>5, <1>6, <1>7

-----------------------------------------------------------------------------
\* One log, as long as the disk is well.

WalOk(w) ==
    /\ DOMAIN w = {"files", "lsn", "current", "written", "bad"}
    /\ Segments(w.files) /\ w.lsn \in Nat /\ w.written \in Nat /\ w.bad = FALSE
    /\ w.current \in DOMAIN w.files

\* In the first process: the current segment is the last, each begins behind the one before, and
\* no record is torn.
Tidy(w) ==
    /\ w.lsn + 1 = w.current + w.written
    /\ \A s \in DOMAIN w.files : s <= w.current /\ w.files[s] \in Seq(WalRecords)

\* The files are in order for a replay: all of one process, or one segment of several.
Whole(files, restarts) ==
    /\ ~Buried(files)
    /\ DOMAIN files = {1} \/ (restarts = 0 /\ \A s \in DOMAIN files : s < Radix)

\* What happens to files: they get longer, and more.
Grows(f, g) ==
    /\ DOMAIN f \subseteq DOMAIN g
    /\ \A s \in DOMAIN f : \E t \in Seq(Entries) : g[s] = f[s] \o t

LEMMA WholeBefore ==
    ASSUME NEW f, NEW g, Segments(f), Segments(g), Grows(f, g), NEW n, Whole(g, n)
    PROVE  ~Buried(f) /\ (DOMAIN g = {1} => DOMAIN f = {1})
           /\ (DOMAIN g # {1} => n = 0 /\ \A s \in DOMAIN f : s < Radix)
<1>1. ASSUME Buried(f) PROVE FALSE
  <2>1. PICK s \in DOMAIN f : \E k \in DOMAIN f[s] : f[s][k] = Torn /\ k < Len(f[s])
    BY <1>1 DEF Buried
  <2>2. PICK k \in DOMAIN f[s] : f[s][k] = Torn /\ k < Len(f[s])
    BY <2>1
  <2>3. PICK t \in Seq(Entries) : g[s] = f[s] \o t
    BY DEF Grows
  <2>4. f[s] \in Seq(Entries) /\ s \in DOMAIN g
    BY DEF Segments, Grows
  <2>5. \A x, y \in Seq(Entries) : \A i \in DOMAIN x :
           i \in DOMAIN (x \o y) /\ (x \o y)[i] = x[i] /\ (i < Len(x) => i < Len(x \o y))
    OBVIOUS
  <2>6. k \in DOMAIN g[s] /\ g[s][k] = Torn /\ k < Len(g[s])
    BY <2>2, <2>3, <2>4, <2>5
  <2>7. Buried(g)
    BY <2>4, <2>6 DEF Buried
  <2>. QED
    BY <2>7 DEF Whole
<1>. QED
  BY <1>1 DEF Whole, Segments, Grows

LEMMA OpenIs ==
    ASSUME NEW files, Segments(files)
    PROVE  WalOk(OpenLog(files)) /\ OpenLog(files).files = files
<1>1. OpenLog(files) = [files |-> files, lsn |-> 0, current |-> 1, written |-> Len(files[1]), bad |-> FALSE]
  BY DEF OpenLog, _open_or_create_segment, Segments
<1>2. Len(files[1]) \in Nat
  BY DEF Segments
<1>. QED
  BY <1>1, <1>2 DEF WalOk, Segments

LEMMA OpenNew ==
    /\ WalOk(OpenLog(<<>>)) /\ Tidy(OpenLog(<<>>)) /\ DOMAIN OpenLog(<<>>).files = {1}
    /\ OpenLog(<<>>).files[1] = <<>>
<1>1. PICK files : files = [s \in DOMAIN <<>> \cup {1} |-> IF s = 1 THEN <<>> ELSE <<>>[s]]
  OBVIOUS
<1>2. OpenLog(<<>>) = [files |-> files, lsn |-> 0, current |-> 1, written |-> 0, bad |-> FALSE]
  BY <1>1 DEF OpenLog, _open_or_create_segment
<1>3. DOMAIN files = {1} /\ files[1] = <<>> /\ <<>> \in Seq(Entries) /\ <<>> \in Seq(WalRecords)
  BY <1>1
<1>4. DOMAIN files \in SUBSET (Nat \ {0}) /\ \A s \in DOMAIN files : s = 1
  BY <1>3
<1>5. Segments(files)
  BY <1>3, <1>4 DEF Segments
<1>. PICK w : w = OpenLog(<<>>)
  OBVIOUS
<1>6. /\ DOMAIN w = {"files", "lsn", "current", "written", "bad"} /\ w.files = files /\ w.lsn = 0
      /\ w.current = 1 /\ w.written = 0 /\ w.bad = FALSE
  BY <1>2
<1>7. WalOk(w)
  BY <1>3, <1>5, <1>6 DEF WalOk
<1>8. \A s \in DOMAIN files : s <= 1 /\ files[s] \in Seq(WalRecords)
  <2>1. ASSUME NEW s \in DOMAIN files PROVE s <= 1 /\ files[s] \in Seq(WalRecords)
    <3>1. s = 1 /\ s <= 1
      BY <1>4
    <3>2. files[s] = <<>>
      BY <1>3, <3>1
    <3>3. <<>> \in Seq(WalRecords)
      OBVIOUS
    <3>. QED
      BY <3>1, <3>2, <3>3
  <2>. QED
    BY <2>1
<1>9. Tidy(w)
  BY <1>6, <1>8 DEF Tidy
<1>. QED
  BY <1>3, <1>6, <1>7, <1>9

\* A rotation begins a new segment behind all others, or goes on in one that is there.
LEMMA RotatedIs ==
    ASSUME NEW w, WalOk(w), NEW max \in Nat \ {0}
    PROVE  /\ WalOk(Rotated(w, max)) /\ Rotated(w, max).lsn = w.lsn
           /\ \/ Rotated(w, max).files = w.files
              \/ /\ w.lsn + 1 \notin DOMAIN w.files /\ Rotated(w, max).current = w.lsn + 1
                 /\ DOMAIN Rotated(w, max).files = DOMAIN w.files \cup {w.lsn + 1}
                 /\ Rotated(w, max).files[w.lsn + 1] = <<>>
                 /\ \A s \in DOMAIN w.files : Rotated(w, max).files[s] = w.files[s]
           /\ Tidy(w) => Tidy(Rotated(w, max)) /\ (Rotated(w, max).files = w.files \/ \A s \in DOMAIN w.files : s < w.lsn + 1)
<1>1. CASE ~Rotates(w, max)
  BY <1>1 DEF Rotated
<1>2. CASE Rotates(w, max)
  <2>. PICK u, name : u = Rotated(w, max) /\ name = w.lsn + 1
    OBVIOUS
  <2>1. u = _open_or_create_segment(w) /\ w.written >= max
    BY <1>2 DEF Rotated, Rotates
  <2>2. w.lsn \in Nat /\ w.written \in Nat /\ Segments(w.files) /\ name \in Nat \ {0} /\ w.current \in DOMAIN w.files
        /\ w.current \in Nat /\ w.written >= 1
    BY <2>1 DEF WalOk, Segments
  <2>3. CASE name \in DOMAIN w.files
    <3>1. u = [files |-> w.files, lsn |-> w.lsn, current |-> name, written |-> Len(w.files[name]), bad |-> FALSE]
      BY <2>1, <2>3 DEF _open_or_create_segment
    <3>2. Len(w.files[name]) \in Nat
      BY <2>2, <2>3 DEF Segments
    <3>3. WalOk(u)
      BY <2>2, <2>3, <3>1, <3>2 DEF WalOk
    <3>4. ~Tidy(w)
      BY <2>2, <2>3 DEF Tidy
    <3>. QED
      BY <3>1, <3>3, <3>4
  <2>4. CASE name \notin DOMAIN w.files
    <3>1. PICK files : files = [s \in DOMAIN w.files \cup {name} |-> IF s = name THEN <<>> ELSE w.files[s]]
      OBVIOUS
    <3>2. u = [files |-> files, lsn |-> w.lsn, current |-> name, written |-> 0, bad |-> FALSE]
      BY <2>1, <2>4, <3>1 DEF _open_or_create_segment
    <3>3. /\ DOMAIN files = DOMAIN w.files \cup {name} /\ files[name] = <<>>
          /\ \A s \in DOMAIN w.files : files[s] = w.files[s]
      BY <2>4, <3>1
    <3>4. <<>> \in Seq(Entries) /\ <<>> \in Seq(WalRecords)
      OBVIOUS
    <3>5. Segments(files)
      BY <2>2, <3>3, <3>4 DEF Segments
    <3>6. WalOk(u)
      BY <2>2, <3>2, <3>3, <3>5 DEF WalOk
    <3>7. ASSUME Tidy(w) PROVE Tidy(u) /\ \A s \in DOMAIN w.files : s < name
      <4>1. w.lsn + 1 = w.current + w.written /\ \A s \in DOMAIN w.files : s <= w.current /\ w.files[s] \in Seq(WalRecords)
        BY <3>7 DEF Tidy
      <4>2. \A s \in DOMAIN w.files : s \in Nat
        BY <2>2 DEF Segments
      <4>3. \A s \in DOMAIN w.files : s < name
        BY <2>2, <4>1, <4>2
      <4>4. \A s \in DOMAIN files : s <= name /\ files[s] \in Seq(WalRecords)
        <5>1. ASSUME NEW s \in DOMAIN files PROVE s <= name /\ files[s] \in Seq(WalRecords)
          <6>1. CASE s = name
            <7>1. name <= name
              BY <2>2
            <7>. QED
              BY <3>3, <3>4, <6>1, <7>1
          <6>2. CASE s \in DOMAIN w.files
            <7>1. s \in Nat /\ s < name
              BY <4>2, <4>3, <6>2
            <7>2. s <= name
              BY <2>2, <7>1
            <7>. QED
              BY <3>3, <4>1, <6>2, <7>2
          <6>. QED
            BY <3>3, <6>1, <6>2
        <5>. QED
          BY <5>1
      <4>5. u.lsn + 1 = u.current + u.written
        BY <2>2, <3>2
      <4>. QED
        BY <3>2, <4>3, <4>4, <4>5 DEF Tidy
    <3>. QED
      BY <2>4, <3>2, <3>3, <3>6, <3>7
  <2>. QED
    BY <2>3, <2>4
<1>. QED
  BY <1>1, <1>2

\* What may come to the disk of a record.
Parts(r) == {<<>>, <<Torn>>, <<r>>}

LEMMA PartTyped ==
    ASSUME NEW r \in WalRecords, NEW part \in Parts(r)
    PROVE  part \in Seq(Entries) /\ (part = <<r>> => part \in Seq(WalRecords))
<1>1. r \in Entries /\ Torn \in Entries
  BY DEF Entries
<1>2. <<>> \in Seq(Entries) /\ <<Torn>> \in Seq(Entries) /\ <<r>> \in Seq(Entries) /\ <<r>> \in Seq(WalRecords)
  BY <1>1
<1>. QED
  BY <1>2 DEF Parts

LEMMA AppendIs ==
    ASSUME NEW u, WalOk(u), NEW r \in WalRecords, NEW part \in Parts(r)
    PROVE  /\ WalOk(AppendTo(u, part)) /\ AppendTo(u, part).current = u.current
           /\ DOMAIN AppendTo(u, part).files = DOMAIN u.files
           /\ AppendTo(u, part).files[u.current] = u.files[u.current] \o part
           /\ \A s \in DOMAIN u.files : s # u.current => AppendTo(u, part).files[s] = u.files[s]
           /\ part = <<r>> /\ Tidy(u) => Tidy(AppendTo(u, part))
<1>. PICK v, f, c : v = AppendTo(u, part) /\ f = u.files /\ c = u.current
  OBVIOUS
<1>1. /\ DOMAIN u = {"files", "lsn", "current", "written", "bad"} /\ Segments(f) /\ u.lsn \in Nat
      /\ u.written \in Nat /\ u.bad = FALSE /\ c \in DOMAIN f
  BY DEF WalOk
<1>2. part \in Seq(Entries) /\ (part = <<r>> => part \in Seq(WalRecords))
  BY PartTyped
<1>3. v = [u EXCEPT !.lsn = @ + 1, !.written = @ + 1, !.files[c] = @ \o part]
  BY <1>1 DEF AppendTo
<1>4. PICK g : g = [f EXCEPT ![c] = f[c] \o part]
  OBVIOUS
<1>5. /\ DOMAIN v = {"files", "lsn", "current", "written", "bad"} /\ v.files = g /\ v.lsn = u.lsn + 1
      /\ v.written = u.written + 1 /\ v.bad = FALSE /\ v.current = c
  BY <1>1, <1>3, <1>4
<1>6. DOMAIN g = DOMAIN f /\ g[c] = f[c] \o part /\ \A s \in DOMAIN f : s # c => g[s] = f[s]
  BY <1>1, <1>4
<1>7. \A x, y \in Seq(Entries) : x \o y \in Seq(Entries)
  OBVIOUS
<1>8. \A x, y \in Seq(WalRecords) : x \o y \in Seq(WalRecords)
  OBVIOUS
<1>9. g[c] \in Seq(Entries)
  BY <1>1, <1>2, <1>6, <1>7 DEF Segments
<1>10. Segments(g)
  BY <1>1, <1>6, <1>9 DEF Segments
<1>11. WalOk(v)
  BY <1>1, <1>5, <1>6, <1>10 DEF WalOk
<1>12. ASSUME part = <<r>>, Tidy(u) PROVE Tidy(v)
  <2>1. u.lsn + 1 = c + u.written /\ \A s \in DOMAIN f : s <= c /\ f[s] \in Seq(WalRecords)
    BY <1>12 DEF Tidy
  <2>2. g[c] \in Seq(WalRecords)
    BY <1>1, <1>2, <1>6, <1>8, <1>12, <2>1
  <2>3. c \in Nat
    BY <1>1 DEF Segments
  <2>4. v.lsn + 1 = v.current + v.written
    BY <1>1, <1>5, <2>1, <2>3
  <2>5. \A s \in DOMAIN g : s <= c /\ g[s] \in Seq(WalRecords)
    BY <1>6, <2>1, <2>2
  <2>. QED
    BY <1>5, <2>4, <2>5 DEF Tidy
<1>. QED
  BY <1>5, <1>6, <1>11, <1>12

\* A replay of g finds what a replay of f found, and the record if it is there.
ReadsOn(f, g, part, r) ==
    /\ part # <<r>> => replay(g) = replay(f)
    /\ part = <<r>> => EndsIn(replay(g), replay(f), r)

\* What is written, or left by a crash while it is: the files stay good for a replay only if what a
\* replay finds is what it found before, and the record at most.
LEMMA WrittenIs ==
    ASSUME NEW w, WalOk(w), NEW max \in Nat \ {0}, NEW r \in WalRecords, NEW part \in Parts(r),
           NEW n, n = 0 => Tidy(w), NEW m, m = 0 => n = 0,
           Whole(AppendTo(Rotated(w, max), part).files, m)
    PROVE  /\ Whole(w.files, n)
           /\ ReadsOn(w.files, AppendTo(Rotated(w, max), part).files, part, r)
           /\ replay(w.files) \in Seq(WalRecords)
<1>. PICK u, v, f, g, h, c :
        /\ u = Rotated(w, max) /\ v = AppendTo(u, part) /\ f = w.files /\ g = u.files /\ h = v.files
        /\ c = u.current
  OBVIOUS
<1>1. /\ WalOk(u) /\ u.lsn = w.lsn
      /\ \/ g = f
         \/ /\ w.lsn + 1 \notin DOMAIN f /\ c = w.lsn + 1
            /\ DOMAIN g = DOMAIN f \cup {w.lsn + 1} /\ g[w.lsn + 1] = <<>>
            /\ \A s \in DOMAIN f : g[s] = f[s]
      /\ Tidy(w) => Tidy(u) /\ (g = f \/ \A s \in DOMAIN f : s < w.lsn + 1)
  BY RotatedIs
<1>2. /\ WalOk(v) /\ DOMAIN h = DOMAIN g /\ h[c] = g[c] \o part
      /\ \A s \in DOMAIN g : s # c => h[s] = g[s]
  <2>1. WalOk(u)
    BY <1>1
  <2>2. /\ WalOk(AppendTo(u, part)) /\ DOMAIN AppendTo(u, part).files = DOMAIN u.files
        /\ AppendTo(u, part).files[u.current] = u.files[u.current] \o part
        /\ \A s \in DOMAIN u.files : s # u.current => AppendTo(u, part).files[s] = u.files[s]
    BY <2>1, AppendIs
  <2>. QED
    BY <2>2
<1>3. Segments(f) /\ Segments(g) /\ Segments(h) /\ c \in DOMAIN g /\ w.lsn \in Nat
  BY <1>1, <1>2 DEF WalOk
<1>4. part \in Seq(Entries)
  BY PartTyped
<1>5. Grows(g, h)
  <2>. SUFFICES ASSUME NEW s \in DOMAIN g PROVE \E t \in Seq(Entries) : h[s] = g[s] \o t
    BY <1>2 DEF Grows
  <2>1. CASE s = c
    BY <1>2, <1>4, <2>1
  <2>2. CASE s # c
    <3>1. g[s] \in Seq(Entries) /\ <<>> \in Seq(Entries)
      BY <1>3 DEF Segments
    <3>2. \A x \in Seq(Entries) : x \o <<>> = x
      OBVIOUS
    <3>. QED
      BY <1>2, <2>2, <3>1, <3>2
  <2>. QED
    BY <2>1, <2>2
<1>6. Grows(f, g)
  <2>. SUFFICES ASSUME NEW s \in DOMAIN f PROVE s \in DOMAIN g /\ \E t \in Seq(Entries) : g[s] = f[s] \o t
    BY DEF Grows
  <2>1. f[s] \in Seq(Entries) /\ <<>> \in Seq(Entries)
    BY <1>3 DEF Segments
  <2>2. \A x \in Seq(Entries) : x \o <<>> = x
    OBVIOUS
  <2>3. s \in DOMAIN g /\ g[s] = f[s]
    BY <1>1
  <2>. QED
    BY <2>1, <2>2, <2>3
<1>7. Whole(h, m)
  OBVIOUS
<1>8. Whole(g, m)
  BY <1>2, <1>3, <1>5, <1>7, WholeBefore DEF Whole
<1>9. Whole(f, m) /\ (DOMAIN g = {1} => DOMAIN f = {1})
  BY <1>3, <1>6, <1>8, WholeBefore DEF Whole
<1>10. Whole(f, n)
  BY <1>9 DEF Whole
<1>11. DOMAIN g \in SUBSET (1..(Radix - 1)) /\ DOMAIN f \in SUBSET (1..(Radix - 1)) /\ DOMAIN f \subseteq DOMAIN g
  <2>1. Radix \in Nat /\ Radix >= 2
    BY WalAssumption
  <2>2. \A s \in DOMAIN g : s \in Nat /\ s # 0 /\ (s = 1 \/ s < Radix)
    BY <1>3, <1>8 DEF Segments, Whole
  <2>3. DOMAIN f \subseteq DOMAIN g
    BY <1>6 DEF Grows
  <2>4. \A s \in DOMAIN g : s \in 1..(Radix - 1)
    BY <2>1, <2>2
  <2>. QED
    BY <2>3, <2>4, Zenon
<1>12. /\ replay(g) = replay(f) /\ \A s \in DOMAIN g : s <= c
  <2>1. CASE DOMAIN g = {1}
    <3>1. g = f
      <4>1. SUFFICES ASSUME g # f PROVE FALSE
        OBVIOUS
      <4>2. w.lsn + 1 \in DOMAIN g /\ w.lsn + 1 \notin DOMAIN f
        BY <1>1, <4>1
      <4>. QED
        BY <1>9, <2>1, <4>2
    <3>. QED
      BY <1>3, <2>1, <3>1
  <2>2. CASE DOMAIN g # {1}
    <3>1. Tidy(w)
      BY <1>8, <2>2 DEF Whole
    <3>2. \A s \in DOMAIN g : s <= c
      BY <1>1, <3>1 DEF Tidy
    <3>3. CASE g = f
      BY <3>2, <3>3
    <3>4. CASE g # f
      <4>1. PICK name : name = w.lsn + 1
        OBVIOUS
      <4>2. /\ DOMAIN g = DOMAIN f \cup {name} /\ g[name] = <<>> /\ \A s \in DOMAIN f : s < name /\ g[s] = f[s]
        BY <1>1, <3>1, <3>4, <4>1
      <4>3. name \in 1..(Radix - 1)
        BY <1>11, <4>2
      <4>4. replay(g) = replay(f)
        BY <1>3, <1>11, <4>2, <4>3, ReplayNewSegment
      <4>. QED
        BY <3>2, <4>4
    <3>. QED
      BY <3>3, <3>4
  <2>. QED
    BY <2>1, <2>2
<1>13. g[c] \in Seq(Entries)
  BY <1>3 DEF Segments
<1>14. part # <<>> => g[c] \in Seq(WalRecords)
  <2>. SUFFICES ASSUME part # <<>> PROVE g[c] \in Seq(WalRecords)
    OBVIOUS
  <2>1. Len(part) = 1
    BY DEF Parts
  <2>2. ASSUME NEW x \in Seq(Entries), NEW y \in Seq(Entries), NEW i \in DOMAIN x, Len(y) = 1
        PROVE  i \in DOMAIN (x \o y) /\ (x \o y)[i] = x[i] /\ i < Len(x \o y)
    <3>1. DOMAIN x = 1..Len(x) /\ Len(x) \in Nat /\ Len(x \o y) = Len(x) + 1 /\ x \o y \in Seq(Entries)
      BY <2>2, LenProperties, ConcatProperties
    <3>2. DOMAIN (x \o y) = 1..(Len(x) + 1)
      BY <3>1, LenProperties
    <3>3. (x \o y)[i] = x[i]
      BY <3>1, ConcatProperties
    <3>. QED
      BY <3>1, <3>2, <3>3
  <2>3. \A i \in DOMAIN g[c] : i \in DOMAIN h[c] /\ h[c][i] = g[c][i] /\ i < Len(h[c])
    BY <1>2, <1>4, <1>13, <2>1, <2>2
  <2>4. ~Buried(h)
    BY <1>7 DEF Whole
  <2>5. c \in DOMAIN h
    BY <1>2, <1>3
  <2>6. \A i \in DOMAIN g[c] : g[c][i] # Torn
    BY <2>3, <2>4, <2>5 DEF Buried
  <2>7. \A x \in Seq(Entries) : (\A i \in DOMAIN x : x[i] # Torn) => x \in Seq(WalRecords)
    BY DEF Entries
  <2>. QED
    BY <1>13, <2>6, <2>7
<1>15. ASSUME part # <<r>> PROVE Readable(h[c]) = Readable(g[c])
  <2>1. CASE part = <<>>
    BY <1>2, <1>13, <2>1
  <2>2. CASE part = <<Torn>>
    <3>1. h[c] = Append(g[c], Torn)
      BY <1>2, <1>13, <2>2 DEF Entries
    <3>2. g[c] \in Seq(WalRecords)
      BY <1>14, <2>2
    <3>. QED
      BY <1>13, <3>1, <3>2, ReadableIs
  <2>. QED
    BY <1>15, <2>1, <2>2 DEF Parts
<1>16. ASSUME part = <<r>> PROVE EndsIn(Readable(h[c]), Readable(g[c]), r)
  <2>1. g[c] \in Seq(WalRecords)
    BY <1>14, <1>16
  <2>2. h[c] = Append(g[c], r) /\ Append(g[c], r) \in Seq(WalRecords)
    BY <1>2, <1>16, <2>1
  <2>3. h[c] \in Seq(Entries)
    BY <1>2, <1>3 DEF Segments
  <2>4. Readable(g[c]) = g[c]
    BY <1>13, <2>1, ReadableIs
  <2>5. Readable(h[c]) = h[c]
    <3>1. h[c] \in Seq(WalRecords)
      BY <2>2
    <3>. QED
      BY <2>3, <3>1, ReadableIs
  <2>. QED
    BY <2>2, <2>4, <2>5 DEF EndsIn
<1>17. /\ Readable(h[c]) = Readable(g[c]) => replay(h) = replay(g)
       /\ \A x \in WalRecords : EndsIn(Readable(h[c]), Readable(g[c]), x) => EndsIn(replay(h), replay(g), x)
  <2>1. \A s \in DOMAIN g : s <= c /\ (s # c => h[s] = g[s])
    BY <1>2, <1>12
  <2>2. DOMAIN h = DOMAIN g /\ DOMAIN g \in SUBSET (1..(Radix - 1))
    BY <1>2, <1>11
  <2>. QED
    BY <1>3, <2>1, <2>2, ReplayLastSegment
<1>18. replay(f) \in Seq(WalRecords)
  BY <1>3, <1>11, ReplayReads
<1>. QED
  BY <1>10, <1>12, <1>15, <1>16, <1>17, <1>18 DEF ReadsOn

-----------------------------------------------------------------------------
\* What a restart would find. Nothing on disk is damaged, the numbers of the records are those of
\* writes, and the log is one that can be appended to.

Undisturbed == spent.full = 0 /\ spent.failovers = 0

LogSound ==
    /\ wals = [d \in Dirs |-> wals[d]]
    /\ segmentSize \in Nat \ {0}
    /\ ~Idle => write.ver <= MaxWrites
    /\ Undisturbed => WalOk(wals[0]) /\ (spent.restarts = 0 => Tidy(wals[0]))

Undamaged == Undisturbed /\ Whole(wals[0].files, spent.restarts)

\* The log is what the primary has, or one record ahead; and what the record makes of the primary
\* may be read already, or is there.
Recoverable ==
    /\ \A id \in DocId : Rebuilt(wals[0].files)[id] \in readable[id]
    /\ running => \A id \in DocId : data[0][id] \in readable[id]
    /\ running /\ (Idle \/ write.at # 1) => Rebuilt(wals[0].files) = data[0]
    /\ ~Idle /\ write.at = 1 => Rebuilt(wals[0].files) = ApplyRecord(data[0], Record(write))
    /\ ~Idle /\ write.at < 2 => Effect(Record(write), data[0][write.id]) \in readable[write.id]
    /\ ~Idle /\ write.at >= 2 => Effect(Record(write), data[0][write.id]) = data[0][write.id]

RecoveryInv == LogSound /\ (Undamaged => Recoverable)

\* Until a failover the primary is the collection of the first directory.
LEMMA PrimaryIsFirst == ASSUME ReplicaInv, spent.failovers = 0 PROVE primary = 0 /\ 0 \in Dirs
<1>1. Replicas \in Nat /\ nodes = [k \in 1..(Replicas + 1) |-> k - 1]
  BY ReplicaSetAssumption DEF ReplicaInv, ListedInOrder
<1>2. 1 \in 1..(Replicas + 1)
  BY <1>1
<1>. QED
  BY <1>1, <1>2 DEF primary, Dirs

LEMMA RecordIs ==
    ASSUME ReplicaInv, RecoveryInv, ~Idle
    PROVE  Record(write) \in WalRecords /\ write \in Writes
<1>1. write \in Writes /\ write.ver <= MaxWrites
  BY NotIdle DEF ReplicaInv, RecoveryInv, LogSound
<1>2. write.kind \in Kinds /\ write.id \in DocId /\ write.ver \in 1..MaxWrites
  BY <1>1, ReplicaSetAssumption DEF Writes
<1>. QED
  BY <1>1, <1>2 DEF Record, WalRecords

\* Doing it again changes nothing.
LEMMA EffectTwice ==
    ASSUME NEW r \in WalRecords, NEW item
    PROVE  Effect(r, Effect(r, item)) = Effect(r, item)
<1>1. r.kind \in Kinds
  BY DEF WalRecords
<1>2. CASE r.kind = "upsert"
  BY <1>2 DEF Effect
<1>3. CASE r.kind = "remove"
  BY <1>3 DEF Effect
<1>4. CASE r.kind = "add_edge"
  BY <1>4 DEF Effect
<1>. QED
  BY <1>1, <1>2, <1>3, <1>4 DEF Kinds

LEMMA AppliedIs ==
    ASSUME NEW r \in WalRecords, NEW col
    PROVE  /\ r.id \in DocId /\ ApplyRecord(col, r)[r.id] = Effect(r, col[r.id])
           /\ \A id \in DocId : id # r.id => ApplyRecord(col, r)[id] = col[id]
<1>1. r.id \in DocId
  BY DEF WalRecords
<1>. QED
  BY <1>1 DEF ApplyRecord

\* A record more in the log is a record more to apply.
LEMMA RebuiltIs ==
    ASSUME NEW f, NEW g, replay(f) \in Seq(WalRecords), NEW r \in WalRecords, EndsIn(replay(g), replay(f), r)
    PROVE  Rebuilt(g) = ApplyRecord(Rebuilt(f), r)
<1>1. replay(g) = Append(replay(f), r)
  BY DEF EndsIn
<1>2. PICK records : records = replay(f)
  OBVIOUS
<1>3. ApplyAll(Append(records, r)) = ApplyRecord(ApplyAll(records), r)
  BY <1>2, ApplyOneMore
<1>. QED
  BY <1>1, <1>2, <1>3 DEF Rebuilt

LEMMA RebuiltNew ==
    ASSUME NEW files, DOMAIN files = {1}, files[1] = <<>>
    PROVE  Rebuilt(files) = Empty
<1>1. <<>> \in Seq(Entries) /\ <<>> \in Seq(WalRecords)
  OBVIOUS
<1>2. \A s \in DOMAIN files : files[s] = <<>>
  OBVIOUS
<1>3. Segments(files)
  <2>1. DOMAIN files \in SUBSET (Nat \ {0})
    OBVIOUS
  <2>2. \A s \in DOMAIN files : files[s] \in Seq(Entries)
    BY <1>1, <1>2, Zenon
  <2>. QED
    BY <2>1, <2>2 DEF Segments
<1>4. DOMAIN files \in SUBSET (1..(Radix - 1))
  BY WalAssumption
<1>. PICK names : names = _list_segments(files)
  OBVIOUS
<1>5. Orders(names, DOMAIN files) /\ replay(files) = FlattenSeq(Read(files, names))
  BY <1>3, <1>4, ReplayReads
<1>6. Cardinality(DOMAIN files) = 1
  BY FS_Singleton
<1>. PICK seqs : seqs = Read(files, names)
  OBVIOUS
<1>7. Len(seqs) = 1 /\ seqs[1] = Readable(files[names[1]]) /\ names[1] \in DOMAIN files
  <2>1. /\ Len(Read(files, names)) = Cardinality(DOMAIN files)
        /\ \A k \in 1..Cardinality(DOMAIN files) :
              names[k] \in DOMAIN files /\ Read(files, names)[k] = Readable(files[names[k]])
    <3>1. Cardinality(DOMAIN files) \in Nat
      BY <1>6
    <3>. QED
      BY <1>3, <1>5, <3>1, ReadIs
  <2>2. 1 \in 1..Cardinality(DOMAIN files)
    BY <1>6
  <2>. QED
    BY <1>6, <2>1, <2>2
<1>8. seqs[1] = <<>>
  BY <1>1, <1>2, <1>7, ReadableIs
<1>9. PICK f : Flattens(f, seqs, 1)
  BY FlattensExist
<1>10. f[1] = seqs[1]
  BY <1>9, FlattensFirst
<1>11. FlattenSeq(seqs) = f[1]
  <2>1. Len(seqs) \in Nat /\ Len(seqs) >= 1 /\ Flattens(f, seqs, Len(seqs))
    BY <1>7, <1>9
  <2>2. FlattenSeq(seqs) = f[Len(seqs)]
    BY <2>1, FlattenIs
  <2>. QED
    BY <1>7, <2>2
<1>. QED
  BY <1>5, <1>8, <1>10, <1>11, ApplyNone DEF Rebuilt

LEMMA RecoveryInitially == RSInit => RecoveryInv
<1>. SUFFICES ASSUME RSInit PROVE RecoveryInv
  OBVIOUS
<1>1. /\ segmentSize \in SegmentSizes /\ wals = [d \in Dirs |-> OpenLog(<<>>)] /\ data = [d \in Dirs |-> Empty]
      /\ write = NoWrite /\ readable = [id \in DocId |-> {NoItem}] /\ spent.restarts = 0
  BY DEF RSInit
<1>2. Idle /\ 0 \in Dirs
  BY <1>1, ReplicaSetAssumption DEF Idle, Dirs
<1>3. wals[0] = OpenLog(<<>>) /\ data[0] = Empty
  BY <1>1, <1>2
<1>4. LogSound
  BY <1>1, <1>2, <1>3, OpenNew, ReplicaSetAssumption DEF LogSound
<1>5. Rebuilt(wals[0].files) = Empty
  BY <1>3, OpenNew, RebuiltNew
<1>6. \A id \in DocId : Empty[id] \in readable[id]
  BY <1>1, EmptyItems
<1>. QED
  BY <1>2, <1>3, <1>4, <1>5, <1>6 DEF RecoveryInv, Recoverable

\* Steps that leave the log and the primary alone.
Unlogged == wals' = [d \in Dirs |-> wals'[d]] /\ wals'[0] = wals[0] /\ data'[0] = data[0] /\ UNCHANGED <<segmentSize, running>>

LEMMA RecoveryOfBegin ==
    ASSUME ReplicaInv, RecoveryInv, NEW kind \in Kinds, NEW id \in DocId, Begin(kind, id)
    PROVE  RecoveryInv'
<1>. PICK w : w = [kind |-> kind, id |-> id, ver |-> spent.writes + 1, at |-> 0, acked |-> 0]
  OBVIOUS
<1>. PICK r : r = Record(w)
  OBVIOUS
<1>1. /\ running /\ Idle /\ spent.writes < MaxWrites /\ write' = w
      /\ readable' = [readable EXCEPT ![id] = @ \cup {Effect(r, item) : item \in @}]
      /\ spent' = [spent EXCEPT !.writes = @ + 1]
      /\ UNCHANGED <<segmentSize, running, wals, data>>
  BY DEF Begin, Count
<1>2. /\ spent.writes \in Nat /\ MaxWrites \in Nat /\ readable \in [DocId -> SUBSET [ver : Nat, edge : BOOLEAN]]
      /\ spent'.full = spent.full /\ spent'.failovers = spent.failovers /\ spent'.restarts = spent.restarts
  BY <1>1, ReplicaSetAssumption DEF ReplicaInv, ReplicaTypes
<1>3. w.at = 0 /\ w.id = id /\ w.ver = spent.writes + 1 /\ w.ver <= MaxWrites
  BY <1>1, <1>2
<1>4. LogSound'
  BY <1>1, <1>2, <1>3 DEF RecoveryInv, LogSound, Undisturbed
<1>5. ASSUME Undamaged' PROVE Recoverable'
  <2>1. Recoverable
    BY <1>1, <1>2, <1>5 DEF RecoveryInv, Undamaged, Undisturbed
  <2>2. \A x \in DocId : readable[x] \subseteq readable'[x]
    BY <1>1, <1>2
  <2>3. data[0][id] \in readable[id] /\ Rebuilt(wals[0].files) = data[0]
    BY <1>1, <2>1 DEF Recoverable
  <2>4. Effect(r, data[0][id]) \in readable'[id]
    BY <1>1, <1>2, <2>3
  <2>5. /\ \A x \in DocId : Rebuilt(wals'[0].files)[x] \in readable'[x]
        /\ \A x \in DocId : data'[0][x] \in readable'[x]
    BY <1>1, <2>1, <2>2 DEF Recoverable
  <2>6. write'.at = 0 /\ write'.id = id /\ Record(write') = r
    BY <1>1, <1>3
  <2>. QED
    BY <1>1, <2>3, <2>4, <2>5, <2>6 DEF Recoverable
<1>. QED
  BY <1>4, <1>5 DEF RecoveryInv

\* What a record that is written, or left by a crash, makes of the log.
LEMMA LogGrows ==
    ASSUME ReplicaInv, RecoveryInv, Undisturbed, ~Idle, write.at = 0, NEW part \in Parts(Record(write)),
           NEW u, u = AppendTo(Rotated(wals[0], segmentSize), part)
    PROVE  /\ WalOk(u) /\ (part = <<Record(write)>> /\ spent.restarts = 0 => Tidy(u))
           /\ \A m \in Nat : Whole(u.files, m) /\ (m = 0 => spent.restarts = 0) =>
                 /\ Undamaged
                 /\ part = <<Record(write)>> => Rebuilt(u.files) = ApplyRecord(data[0], Record(write))
                 /\ \A id \in DocId : Rebuilt(u.files)[id] \in readable[id]
<1>. PICK r, w, max, n : r = Record(write) /\ w = wals[0] /\ max = segmentSize /\ n = spent.restarts
  OBVIOUS
<1>1. r \in WalRecords /\ write \in Writes
  BY RecordIs
<1>2. WalOk(w) /\ (n = 0 => Tidy(w)) /\ max \in Nat \ {0} /\ n \in Nat
  BY DEF RecoveryInv, LogSound, ReplicaInv, ReplicaTypes
<1>3. PICK v : v = Rotated(w, max)
  OBVIOUS
<1>4. WalOk(v) /\ (Tidy(w) => Tidy(v))
  BY <1>2, <1>3, RotatedIs
<1>5. u = AppendTo(v, part) /\ part \in Parts(r)
  BY <1>3
<1>6. WalOk(u) /\ (part = <<r>> /\ Tidy(v) => Tidy(u))
  BY <1>1, <1>4, <1>5, AppendIs
<1>7. ASSUME NEW m \in Nat, Whole(u.files, m), m = 0 => n = 0
      PROVE  /\ Undamaged
             /\ part = <<r>> => Rebuilt(u.files) = ApplyRecord(data[0], r)
             /\ \A id \in DocId : Rebuilt(u.files)[id] \in readable[id]
  <2>1. /\ Whole(w.files, n)
        /\ part # <<r>> => replay(u.files) = replay(w.files)
        /\ part = <<r>> => EndsIn(replay(u.files), replay(w.files), r)
        /\ replay(w.files) \in Seq(WalRecords)
    <3>1. u = AppendTo(Rotated(w, max), part) /\ Whole(AppendTo(Rotated(w, max), part).files, m)
      BY <1>3, <1>5, <1>7
    <3>2. /\ Whole(w.files, n) /\ replay(w.files) \in Seq(WalRecords)
          /\ ReadsOn(w.files, AppendTo(Rotated(w, max), part).files, part, r)
      BY <1>1, <1>2, <1>5, <1>7, <3>1, WrittenIs
    <3>. QED
      BY <3>1, <3>2 DEF ReadsOn
  <2>2. Undamaged
    BY <2>1 DEF Undamaged
  <2>3. Recoverable /\ running
    BY <2>2 DEF RecoveryInv, ReplicaInv, Down
  <2>4. Rebuilt(w.files) = data[0] /\ Effect(r, data[0][write.id]) \in readable[write.id]
    BY <2>3 DEF Recoverable
  <2>5. \A id \in DocId : data[0][id] \in readable[id]
    BY <2>3 DEF Recoverable
  <2>6. CASE part # <<r>>
    BY <2>1, <2>2, <2>4, <2>5, <2>6 DEF Rebuilt
  <2>7. CASE part = <<r>>
    <3>1. Rebuilt(u.files) = ApplyRecord(Rebuilt(w.files), r)
      BY <1>1, <2>1, <2>7, RebuiltIs
    <3>2. r.id = write.id
      BY DEF Record
    <3>. PICK col : col = data[0]
      OBVIOUS
    <3>3. /\ r.id \in DocId /\ ApplyRecord(col, r)[r.id] = Effect(r, col[r.id])
          /\ \A id \in DocId : id # r.id => ApplyRecord(col, r)[id] = col[id]
      BY <1>1, AppliedIs
    <3>4. \A id \in DocId : ApplyRecord(col, r)[id] \in readable[id]
      BY <2>4, <2>5, <3>2, <3>3
    <3>. QED
      BY <2>2, <2>4, <3>1, <3>4
  <2>. QED
    BY <2>6, <2>7
<1>. QED
  BY <1>2, <1>4, <1>6, <1>7

LEMMA RecoveryOfLog == ASSUME ReplicaInv, RecoveryInv, LogRecord PROVE RecoveryInv'
<1>1. /\ running /\ ~Idle /\ write.at = 0 /\ wals' = [wals EXCEPT ![primary] = _write(@, Record(write), segmentSize)]
      /\ write' = [write EXCEPT !.at = 1] /\ UNCHANGED <<segmentSize, running, data, readable, spent>>
  BY DEF LogRecord
<1>2. Record(write) \in WalRecords /\ write \in Writes
  BY <1>1, RecordIs
<1>3. /\ write' \in Writes /\ write'.at = 1 /\ write'.id = write.id /\ write'.ver = write.ver
      /\ Record(write') = Record(write)
  BY <1>1, <1>2 DEF Writes, Record
<1>4. ~Idle'
  BY <1>3, WritesAreWrites DEF Idle
<1>. PICK u : u = AppendTo(Rotated(wals[0], segmentSize), <<Record(write)>>)
  OBVIOUS
<1>5. wals' = [d \in Dirs |-> wals'[d]] /\ (Undisturbed => wals'[0] = u)
  <2>1. wals' = [d \in Dirs |-> wals'[d]]
    BY <1>1 DEF RecoveryInv, LogSound
  <2>2. Undisturbed => primary = 0 /\ 0 \in Dirs
    BY PrimaryIsFirst DEF Undisturbed
  <2>3. _write(wals[0], Record(write), segmentSize) = u
    BY DEF _write
  <2>4. wals = [d \in Dirs |-> wals[d]]
    BY DEF RecoveryInv, LogSound
  <2>. QED
    BY <1>1, <2>1, <2>2, <2>3, <2>4
<1>6. ASSUME Undisturbed
      PROVE  /\ WalOk(u) /\ (spent.restarts = 0 => Tidy(u))
             /\ Whole(u.files, spent.restarts) =>
                  /\ Undamaged
                  /\ Rebuilt(u.files) = ApplyRecord(data[0], Record(write))
                  /\ \A id \in DocId : Rebuilt(u.files)[id] \in readable[id]
  <2>. PICK part : part = <<Record(write)>>
    OBVIOUS
  <2>1. part \in Parts(Record(write)) /\ spent.restarts \in Nat
    BY DEF Parts, ReplicaInv, ReplicaTypes
  <2>. QED
    BY <1>1, <1>6, <2>1, LogGrows
<1>7. LogSound'
  BY <1>1, <1>3, <1>4, <1>5, <1>6 DEF RecoveryInv, LogSound, Undisturbed
<1>8. ASSUME Undamaged' PROVE Recoverable'
  <2>1. Undisturbed /\ wals'[0] = u /\ Whole(u.files, spent.restarts)
    BY <1>1, <1>5, <1>8 DEF Undamaged, Undisturbed
  <2>2. /\ Undamaged /\ Rebuilt(u.files) = ApplyRecord(data[0], Record(write))
        /\ \A id \in DocId : Rebuilt(u.files)[id] \in readable[id]
    BY <1>6, <2>1
  <2>3. Recoverable
    BY <2>2 DEF RecoveryInv
  <2>4. (\A id \in DocId : data[0][id] \in readable[id]) /\ Effect(Record(write), data[0][write.id]) \in readable[write.id]
    BY <1>1, <2>3 DEF Recoverable
  <2>. QED
    BY <1>1, <1>3, <1>4, <2>1, <2>2, <2>4 DEF Recoverable
<1>. QED
  BY <1>7, <1>8 DEF RecoveryInv

LEMMA RecoveryOfLogFails == ASSUME ReplicaInv, RecoveryInv, LogRecordFails PROVE RecoveryInv'
<1>1. /\ ~Idle /\ write' = [write EXCEPT !.at = 1] /\ spent' = [spent EXCEPT !.full = @ + 1]
      /\ \E part \in {<<>>, <<Torn>>} : wals' = [wals EXCEPT ![primary] = WriteFails(@, segmentSize, part)]
      /\ UNCHANGED segmentSize
  BY DEF LogRecordFails, Count
<1>2. write \in Writes
  BY <1>1, RecordIs
<1>3. ~Undisturbed'
  <2>1. spent \in [writes : Nat, restarts : Nat, failovers : Nat, refusals : Nat, full : Nat]
    BY DEF ReplicaInv, ReplicaTypes
  <2>2. spent' = [spent EXCEPT !.full = spent.full + 1] /\ spent.full + 1 # 0
    BY <1>1, <2>1
  <2>. QED
    BY <2>1, <2>2 DEF Undisturbed
<1>4. write'.ver = write.ver
  BY <1>1, <1>2 DEF Writes
<1>5. wals' = [d \in Dirs |-> wals'[d]]
  BY <1>1 DEF RecoveryInv, LogSound
<1>. QED
  BY <1>1, <1>3, <1>4, <1>5 DEF RecoveryInv, LogSound, Undamaged

LEMMA RecoveryOfApply == ASSUME ReplicaInv, RecoveryInv, ApplyToPrimary PROVE RecoveryInv'
<1>1. /\ running /\ ~Idle /\ write.at = 1 /\ data' = [data EXCEPT ![primary] = ApplyRecord(@, Record(write))]
      /\ write' = [write EXCEPT !.at = 2, !.acked = 1] /\ UNCHANGED <<segmentSize, running, wals, readable, spent>>
  BY DEF ApplyToPrimary
<1>. PICK r : r = Record(write)
  OBVIOUS
<1>2. r \in WalRecords /\ write \in Writes /\ r.id = write.id
  BY <1>1, RecordIs DEF Record
<1>3. /\ write' \in Writes /\ write'.at = 2 /\ write'.id = write.id /\ write'.ver = write.ver
      /\ Record(write') = r
  BY <1>1, <1>2 DEF Writes, Record
<1>4. ~Idle'
  BY <1>3, WritesAreWrites DEF Idle
<1>5. LogSound'
  BY <1>1, <1>3, <1>4 DEF RecoveryInv, LogSound, Undisturbed
<1>6. ASSUME Undamaged' PROVE Recoverable'
  <2>1. Recoverable /\ Undisturbed
    BY <1>1, <1>6 DEF RecoveryInv, Undamaged, Undisturbed
  <2>2. primary = 0 /\ 0 \in Dirs /\ data = [d \in Dirs |-> data[d]]
    BY <2>1, PrimaryIsFirst DEF Undisturbed, ReplicaInv, ReplicaTypes
  <2>. PICK col : col = data[0]
    OBVIOUS
  <2>3. data'[0] = ApplyRecord(col, r)
    BY <1>1, <2>2
  <2>4. Rebuilt(wals[0].files) = ApplyRecord(col, r)
    BY <1>1, <2>1 DEF Recoverable
  <2>5. \A id \in DocId : data'[0][id] \in readable[id]
    BY <2>1, <2>3, <2>4 DEF Recoverable
  <2>6. ApplyRecord(col, r)[r.id] = Effect(r, col[r.id])
    BY <1>2, AppliedIs
  <2>7. Effect(r, data'[0][write.id]) = data'[0][write.id]
    BY <1>2, <2>3, <2>6, EffectTwice
  <2>. QED
    BY <1>1, <1>3, <1>4, <2>1, <2>3, <2>4, <2>5, <2>7 DEF Recoverable
<1>. QED
  BY <1>5, <1>6 DEF RecoveryInv

\* On the way through the replicas.
LEMMA RecoveryOfNext ==
    ASSUME ReplicaInv, RecoveryInv, running, ~Idle, write.at >= 2, Undisturbed => Unlogged,
           wals' = [d \in Dirs |-> wals'[d]], write' \in Writes, write'.at >= 2, write'.ver = write.ver, write'.id = write.id,
           write'.kind = write.kind, spent'.full = spent.full, spent'.failovers = spent.failovers,
           spent'.restarts = spent.restarts, readable' = readable, segmentSize' = segmentSize, running' = running
    PROVE  RecoveryInv'
<1>1. ~Idle' /\ Record(write') = Record(write)
  BY WritesAreWrites DEF Idle, Record
<1>2. LogSound'
  BY <1>1 DEF RecoveryInv, LogSound, Undisturbed, Unlogged
<1>3. write.at \in Nat /\ write'.at \in Nat
  BY RecordIs DEF Writes
<1>4. ASSUME Undamaged' PROVE Recoverable'
  <2>1. Undisturbed /\ wals'[0] = wals[0] /\ data'[0] = data[0]
    BY <1>4 DEF Undamaged, Undisturbed, Unlogged
  <2>2. Recoverable
    BY <1>4, <2>1 DEF RecoveryInv, Undamaged
  <2>3. write.at # 1 /\ write'.at # 1 /\ ~(write'.at < 2)
    BY <1>3
  <2>. QED
    BY <1>1, <2>1, <2>2, <2>3 DEF Recoverable
<1>. QED
  BY <1>2, <1>4 DEF RecoveryInv

LEMMA RecoveryOfReplica == ASSUME ReplicaInv, RecoveryInv, ApplyToReplica PROVE RecoveryInv'
<1>1. /\ running /\ ~Idle /\ write.at >= 2 /\ MoreReplicas(write)
      /\ wals' = IF LogsOnReplica(write)
                 THEN [wals EXCEPT ![nodes[write.at]] = _write(@, Record(write), segmentSize)] ELSE wals
      /\ data' = [data EXCEPT ![nodes[write.at]] = ApplyRecord(@, Record(write))]
      /\ write' = [write EXCEPT !.at = @ + 1, !.acked = @ + 1]
      /\ UNCHANGED <<segmentSize, running, readable, spent>>
  BY DEF ApplyToReplica
<1>2. write \in Writes /\ write.at \in Nat /\ write.acked \in Nat
  BY <1>1, RecordIs DEF Writes
<1>3. /\ write' \in Writes /\ write'.at = write.at + 1 /\ write'.id = write.id /\ write'.ver = write.ver
      /\ write'.kind = write.kind
  <2>1. write' = [write EXCEPT !.at = write.at + 1, !.acked = write.acked + 1]
    BY <1>1
  <2>2. write.at + 1 \in Nat /\ write.acked + 1 \in Nat
    BY <1>2
  <2>. QED
    BY <1>2, <2>1, <2>2 DEF Writes
<1>4. wals' = [d \in Dirs |-> wals'[d]]
  BY <1>1 DEF RecoveryInv, LogSound
<1>5. ASSUME Undisturbed PROVE Unlogged
  <2>1. nodes = [k \in 1..(Replicas + 1) |-> k - 1] /\ write.at \in DOMAIN nodes
    BY <1>1, <1>5 DEF ReplicaInv, ListedInOrder, Undisturbed, MoreReplicas
  <2>2. nodes[write.at] # 0
    BY <1>1, <1>2, <2>1
  <2>3. 0 \in Dirs /\ wals = [d \in Dirs |-> wals[d]] /\ data = [d \in Dirs |-> data[d]]
    BY <1>5, PrimaryIsFirst DEF Undisturbed, RecoveryInv, LogSound, ReplicaInv, ReplicaTypes
  <2>4. wals'[0] = wals[0] /\ data'[0] = data[0]
    BY <1>1, <2>2, <2>3
  <2>. QED
    BY <1>1, <1>4, <2>4 DEF Unlogged
<1>6. write'.at >= 2
  BY <1>1, <1>2, <1>3
<1>. QED
  BY <1>1, <1>3, <1>4, <1>5, <1>6, RecoveryOfNext

LEMMA RecoveryOfRefusal == ASSUME ReplicaInv, RecoveryInv, ReplicaRefuses PROVE RecoveryInv'
<1>1. /\ running /\ ~Idle /\ write.at >= 2 /\ write' = [write EXCEPT !.at = @ + 1]
      /\ spent' = [spent EXCEPT !.refusals = @ + 1] /\ UNCHANGED <<segmentSize, running, wals, data, readable>>
  BY DEF ReplicaRefuses, Count
<1>2. write \in Writes /\ write.at \in Nat
  BY <1>1, RecordIs DEF Writes
<1>3. /\ write' \in Writes /\ write'.at = write.at + 1 /\ write'.id = write.id /\ write'.ver = write.ver
      /\ write'.kind = write.kind
  <2>1. write' = [write EXCEPT !.at = write.at + 1] /\ write.at + 1 \in Nat
    BY <1>1, <1>2
  <2>. QED
    BY <1>2, <2>1 DEF Writes
<1>4. wals' = [d \in Dirs |-> wals'[d]]
  BY <1>1 DEF RecoveryInv, LogSound
<1>5. Unlogged
  BY <1>1, <1>4 DEF Unlogged
<1>6. write'.at >= 2
  BY <1>1, <1>2, <1>3
<1>7. spent'.full = spent.full /\ spent'.failovers = spent.failovers /\ spent'.restarts = spent.restarts
  BY <1>1 DEF ReplicaInv, ReplicaTypes
<1>. QED
  BY <1>1, <1>3, <1>4, <1>5, <1>6, <1>7, RecoveryOfNext

\* What is acknowledged is what the write makes of all that was readable.
LEMMA RecoveryOfFinish == ASSUME ReplicaInv, RecoveryInv, Finish PROVE RecoveryInv'
<1>. PICK r : r = Record(write)
  OBVIOUS
<1>1. /\ running /\ ~Idle /\ write.at >= 2 /\ write' = NoWrite
      /\ readable' = IF Accepted(write)
                     THEN [readable EXCEPT ![write.id] = {Effect(r, item) : item \in @}] ELSE readable
      /\ UNCHANGED <<segmentSize, running, wals, data, spent>>
  BY DEF Finish
<1>2. Idle' /\ write \in Writes /\ write.id \in DocId /\ write.at \in Nat
  BY <1>1, RecordIs DEF Idle, Writes
<1>3. LogSound'
  BY <1>1, <1>2 DEF RecoveryInv, LogSound, Undisturbed
<1>4. ASSUME Undamaged' PROVE Recoverable'
  <2>1. Recoverable
    BY <1>1, <1>4 DEF RecoveryInv, Undamaged, Undisturbed
  <2>2. write.at # 1
    BY <1>1, <1>2
  <2>3. /\ Rebuilt(wals[0].files) = data[0] /\ Effect(r, data[0][write.id]) = data[0][write.id]
        /\ \A id \in DocId : data[0][id] \in readable[id]
    BY <1>1, <2>1, <2>2 DEF Recoverable
  <2>4. readable \in [DocId -> SUBSET [ver : Nat, edge : BOOLEAN]]
    BY DEF ReplicaInv, ReplicaTypes
  <2>5. \A id \in DocId : data[0][id] \in readable'[id]
    <3>1. CASE ~Accepted(write)
      BY <1>1, <2>3, <3>1
    <3>2. CASE Accepted(write)
      <4>1. /\ readable'[write.id] = {Effect(r, item) : item \in readable[write.id]}
            /\ \A id \in DocId : id # write.id => readable'[id] = readable[id]
        BY <1>1, <1>2, <2>4, <3>2
      <4>2. data[0][write.id] \in readable'[write.id]
        BY <1>2, <2>3, <4>1
      <4>. QED
        BY <2>3, <4>1, <4>2
    <3>. QED
      BY <3>1, <3>2
  <2>. QED
    BY <1>1, <1>2, <2>3, <2>5 DEF Recoverable
<1>. QED
  BY <1>3, <1>4 DEF RecoveryInv

LEMMA RecoveryOfFailover == ASSUME ReplicaInv, RecoveryInv, failover_primary PROVE RecoveryInv'
<1>1. spent' = [spent EXCEPT !.failovers = @ + 1] /\ UNCHANGED <<segmentSize, wals, write>>
  BY DEF failover_primary, Count
<1>2. ~Undisturbed'
  <2>1. spent \in [writes : Nat, restarts : Nat, failovers : Nat, refusals : Nat, full : Nat]
    BY DEF ReplicaInv, ReplicaTypes
  <2>2. spent' = [spent EXCEPT !.failovers = spent.failovers + 1] /\ spent.failovers + 1 # 0
    BY <1>1, <2>1
  <2>. QED
    BY <2>1, <2>2 DEF Undisturbed
<1>. QED
  BY <1>1, <1>2 DEF RecoveryInv, LogSound, Undamaged, Idle

\* The next process finds the files of the last one, with what the crash left of a record.
LEMMA RecoveryOfCrash == ASSUME ReplicaInv, RecoveryInv, Crash PROVE RecoveryInv'
<1>1. PICK files \in FilesLeft : wals' = [d \in Dirs |-> OpenLog(files[d])]
  BY DEF Crash
<1>2. /\ running' = FALSE /\ write' = NoWrite /\ spent' = [spent EXCEPT !.restarts = @ + 1]
      /\ UNCHANGED <<segmentSize, readable>>
  BY DEF Crash, Count
<1>3. Idle'
  BY <1>2 DEF Idle
<1>4. /\ spent'.full = spent.full /\ spent'.failovers = spent.failovers /\ spent.restarts \in Nat
      /\ spent'.restarts = spent.restarts + 1
  <2>1. spent \in [writes : Nat, restarts : Nat, failovers : Nat, refusals : Nat, full : Nat]
    BY DEF ReplicaInv, ReplicaTypes
  <2>2. spent' = [spent EXCEPT !.restarts = spent.restarts + 1]
    BY <1>2
  <2>. QED
    BY <2>1, <2>2
<1>5. spent'.restarts \in Nat /\ spent'.restarts # 0
  BY <1>4
<1>6. ASSUME Undisturbed
      PROVE  /\ Segments(files[0])
             /\ Whole(files[0], spent'.restarts) => \A id \in DocId : Rebuilt(files[0])[id] \in readable[id]
  <2>1. primary = 0 /\ 0 \in Dirs /\ WalOk(wals[0])
    BY <1>6, PrimaryIsFirst DEF Undisturbed, RecoveryInv, LogSound
  <2>2. CASE ~Idle /\ write.at = 0
    <3>1. PICK f \in CrashOutcomes(wals[0], Record(write), segmentSize) :
             files = [d \in Dirs |-> IF d = primary THEN f ELSE wals[d].files]
      BY <1>1, <2>1, <2>2 DEF FilesLeft
    <3>2. PICK part \in Parts(Record(write)) : f = AppendTo(Rotated(wals[0], segmentSize), part).files
      BY DEF CrashOutcomes, Parts
    <3>. PICK u : u = AppendTo(Rotated(wals[0], segmentSize), part)
      OBVIOUS
    <3>3. files[0] = u.files
      BY <2>1, <3>1, <3>2
    <3>4. WalOk(u) /\ \A m \in Nat : Whole(u.files, m) /\ (m = 0 => spent.restarts = 0) =>
                         \A id \in DocId : Rebuilt(u.files)[id] \in readable[id]
      BY <1>6, <2>2, LogGrows
    <3>. QED
      BY <1>5, <3>3, <3>4 DEF WalOk
  <2>3. CASE ~(~Idle /\ write.at = 0)
    <3>1. files = [d \in Dirs |-> wals[d].files]
      BY <1>1, <2>3 DEF FilesLeft
    <3>2. files[0] = wals[0].files
      BY <2>1, <3>1
    <3>3. ASSUME Whole(files[0], spent'.restarts) PROVE Whole(files[0], spent.restarts)
      BY <1>5, <3>3 DEF Whole
    <3>4. Whole(files[0], spent'.restarts) => Recoverable
      BY <1>6, <3>2, <3>3 DEF RecoveryInv, Undamaged
    <3>. QED
      BY <2>1, <3>2, <3>4 DEF Recoverable, WalOk
  <2>. QED
    BY <2>2, <2>3
<1>7. wals' = [d \in Dirs |-> wals'[d]]
  BY <1>1
<1>8. Undisturbed' => Undisturbed /\ 0 \in Dirs
  BY <1>4, PrimaryIsFirst DEF Undisturbed
<1>9. ASSUME Undisturbed' PROVE WalOk(wals'[0]) /\ wals'[0].files = files[0]
  <2>1. wals'[0] = OpenLog(files[0])
    BY <1>1, <1>8, <1>9
  <2>. PICK f : f = files[0]
    OBVIOUS
  <2>2. WalOk(OpenLog(f)) /\ OpenLog(f).files = f
    BY <1>6, <1>8, <1>9, OpenIs
  <2>. QED
    BY <2>1, <2>2
<1>10. LogSound'
  BY <1>2, <1>3, <1>5, <1>7, <1>9 DEF RecoveryInv, LogSound
<1>11. ASSUME Undamaged' PROVE Recoverable'
  <2>1. Undisturbed' /\ Undisturbed /\ wals'[0].files = files[0] /\ Whole(files[0], spent'.restarts)
    BY <1>8, <1>9, <1>11 DEF Undamaged
  <2>2. \A id \in DocId : Rebuilt(files[0])[id] \in readable[id]
    BY <1>6, <2>1
  <2>. QED
    BY <1>2, <1>3, <2>1, <2>2 DEF Recoverable
<1>. QED
  BY <1>10, <1>11 DEF RecoveryInv

LEMMA RecoveryOfRestart == ASSUME ReplicaInv, RecoveryInv, Restart PROVE RecoveryInv'
<1>. PICK rebuilt : rebuilt = Rebuilt(wals[0].files)
  OBVIOUS
<1>1. /\ ~running /\ running' = TRUE /\ data' = [data EXCEPT ![0] = rebuilt]
      /\ UNCHANGED <<segmentSize, wals, write, readable, spent>>
  BY DEF Restart
<1>2. Idle /\ Idle' /\ data = [d \in Dirs |-> data[d]]
  BY <1>1 DEF ReplicaInv, ReplicaTypes, Down, Idle
<1>3. LogSound'
  BY <1>1, <1>2 DEF RecoveryInv, LogSound, Undisturbed
<1>4. ASSUME Undamaged' PROVE Recoverable'
  <2>1. Recoverable /\ Undisturbed
    BY <1>1, <1>4 DEF RecoveryInv, Undamaged, Undisturbed
  <2>2. data'[0] = rebuilt
    BY <1>1, <1>2, <2>1, PrimaryIsFirst DEF Undisturbed
  <2>. QED
    BY <1>1, <1>2, <2>1, <2>2 DEF Recoverable
<1>. QED
  BY <1>3, <1>4 DEF RecoveryInv

\* The invariant holds in every state.
LEMMA RecoveryInvariant == RSSpec => []RecoveryInv
<1>1. ReplicaInv /\ RecoveryInv /\ [RSNext]_rsVars => RecoveryInv'
  <2>. SUFFICES ASSUME ReplicaInv, RecoveryInv, [RSNext]_rsVars PROVE RecoveryInv'
    OBVIOUS
  <2>1. ASSUME NEW id \in DocId, NEW kind \in {"upsert", "remove", "add_edge"}, Begin(kind, id) PROVE RecoveryInv'
    BY <2>1, RecoveryOfBegin DEF Kinds
  <2>2. CASE LogRecord \/ LogRecordFails
    BY <2>2, RecoveryOfLog, RecoveryOfLogFails
  <2>3. CASE ApplyToPrimary \/ ApplyToReplica
    BY <2>3, RecoveryOfApply, RecoveryOfReplica
  <2>4. CASE ReplicaRefuses \/ Finish
    BY <2>4, RecoveryOfRefusal, RecoveryOfFinish
  <2>5. CASE failover_primary \/ Crash \/ Restart
    BY <2>5, RecoveryOfFailover, RecoveryOfCrash, RecoveryOfRestart
  <2>6. CASE UNCHANGED rsVars
    <3>1. segmentSize' = segmentSize /\ running' = running /\ wals' = wals /\ data' = data /\ write' = write
          /\ readable' = readable /\ spent' = spent
      BY <2>6 DEF rsVars
    <3>. QED
      BY <3>1 DEF RecoveryInv, LogSound, Undamaged, Undisturbed, Recoverable, Idle
  <2>. QED
    BY <2>1, <2>2, <2>3, <2>4, <2>5, <2>6 DEF RSNext
<1>. QED
  BY <1>1, RecoveryInitially, ReplicaInvariant, PTL DEF RSSpec

\* Whenever the process may crash, a restart finds a state that a reader may see, with every
\* acknowledged write, and the running primary has one - unless a record is buried behind a torn
\* one, segments are out of order, the disk ran full, or the primary was replaced.
THEOREM WritesAreRecovered == RSSpec => []RecoversAcknowledged
<1>1. ReplicaInv /\ RecoveryInv => RecoversAcknowledged
  <2>. SUFFICES ASSUME ReplicaInv, RecoveryInv, ~Damaged(wals[0].files)
               PROVE  \A id \in DocId : /\ Rebuilt(wals[0].files)[id] \in readable[id]
                                        /\ running => data[primary][id] \in readable[id]
    BY DEF RecoversAcknowledged
  <2>1. spent \in [writes : Nat, restarts : Nat, failovers : Nat, refusals : Nat, full : Nat]
    BY DEF ReplicaInv, ReplicaTypes
  <2>2. /\ ~Buried(wals[0].files) /\ ~OutOfOrder(wals[0].files) /\ ~(spent.full > 0) /\ ~(spent.failovers > 0)
    BY DEF Damaged
  <2>3. Undisturbed
    BY <2>1, <2>2 DEF Undisturbed
  <2>4. \A s \in DOMAIN wals[0].files : s \in Nat
    BY <2>3 DEF RecoveryInv, LogSound, WalOk, Segments
  <2>5. Radix \in Nat /\ spent.restarts \in Nat
    BY <2>1, WalAssumption
  <2>6. DOMAIN wals[0].files = {1} \/ (spent.restarts = 0 /\ \A s \in DOMAIN wals[0].files : s < Radix)
    BY <2>2, <2>4, <2>5 DEF OutOfOrder
  <2>7. Undamaged
    BY <2>2, <2>3, <2>6 DEF Undamaged, Whole
  <2>8. Recoverable /\ primary = 0
    BY <2>3, <2>7, PrimaryIsFirst DEF RecoveryInv, Undisturbed
  <2>. QED
    BY <2>8 DEF Recoverable
<1>. QED
  BY <1>1, ReplicaInvariant, RecoveryInvariant, PTL

-----------------------------------------------------------------------------
\* The durable collection.

EdgeTypes == {"UPDATES", "SUPERSEDED_BY", "CONTRADICTS"}

Edges == [src : Vertex, tgt : Vertex, type : EdgeTypes]

GraphsTyped == [out : [Vertex -> SUBSET Edges], in : [Vertex -> SUBSET Edges]]

Upserts == [stage : {"plan", "write", "link", "edge", "mirror"}, op : {"upsert"}, id : Vertex, at : Nat \ {0},
            next : Nat, links : SUBSET (Vertex \X Vertex), edge : {NoEdge} \cup Edges]

AddsEdge == [stage : {"edge", "mirror", "link"}, op : {"add_edge"}, links : {{}}, edge : Edges]

DurableTypes ==
    /\ shard \in [Shard -> [at : [Vertex -> Nat], graph : GraphsTyped]]
    /\ call \in [Caller -> {NoCall} \cup Upserts \cup AddsEdge]
    /\ stored \in [Vertex -> Nat]
    /\ removed \subseteq Vertex

At(id) == shard[Home[id]].at[id]

\* Vectors are on their own shard, and a graph has each edge at its source and at its target.
InPlace ==
    /\ \A s \in Shard, id \in Vertex : shard[s].at[id] > 0 => s = Home[id]
    /\ \A s \in Shard : Mirrored(shard[s].graph)

\* What a thread is doing fits its stage.
StagesSound ==
    \A t \in Caller :
        /\ call[t].stage = "plan" => call[t].next \in Shard
        /\ call[t].stage \in {"edge", "mirror"} => call[t].edge \in Edges
        /\ call[t].stage \in {"edge", "mirror"} /\ Upserting(t) => call[t].edge.type = "UPDATES"
        /\ call[t] # NoCall /\ call[t].op = "add_edge" => call[t].edge.type = "CONTRADICTS"

\* The times an id has, or gets when a call that is under way writes it.
Awaits(t, id) == Upserting(t) /\ call[t].id = id /\ call[t].stage \in {"plan", "write"}

TimesOf(id) == ({At(id)} \ {0}) \cup {call[t].at : t \in {u \in Caller : Awaits(u, id)}}

\* An id that was written once has one time.
OneTime ==
    \A id \in Vertex :
        /\ stored[id] = 0 => TimesOf(id) = {}
        /\ stored[id] = 1 => \A a, b \in TimesOf(id) : a = b
        /\ \A t \in Caller : Upserting(t) /\ call[t].id = id => stored[id] > 0

\* Version a may be linked as newer than b.
Newer(a, b) ==
    /\ stored[a] > 0 /\ stored[b] > 0
    /\ \/ stored[a] > 1 \/ stored[b] > 1 \/ {a, b} \cap removed # {}
       \/ \A ta \in TimesOf(a), tb \in TimesOf(b) : tb <= ta

EdgeSound(e) ==
    /\ e.type = "UPDATES" => Newer(e.src, e.tgt)
    /\ e.type = "SUPERSEDED_BY" => Newer(e.tgt, e.src)

\* Links and edges lead from the newer version to the older one.
LinksSound ==
    /\ \A s \in Shard, id \in Vertex : \A e \in shard[s].graph.out[id] : EdgeSound(e)
    /\ \A t \in Caller : call[t] # NoCall => \A l \in call[t].links : Newer(l[1], l[2])
    /\ \A t \in Caller : call[t].stage \in {"edge", "mirror"} => EdgeSound(call[t].edge)

HasUpdates(n, o) == Edge(n, o, "UPDATES") \in shard[Home[n]].graph.out[n]

\* The edge at the newer version is written before the one at the older.
UpdatesFirst ==
    /\ \A x, y \in Vertex \ removed :
          Edge(x, y, "SUPERSEDED_BY") \in shard[Home[x]].graph.out[x] => HasUpdates(y, x)
    /\ \A t \in Caller, n, o \in Vertex \ removed :
          Upserting(t) /\ call[t].stage = "mirror" /\ call[t].edge = Edge(n, o, "UPDATES") => HasUpdates(n, o)

\* Pairs of ids whose upserts are under way together are excused.
OverlapsKnown ==
    \A t, u \in Caller : Upserting(t) /\ Upserting(u) /\ call[t].id # call[u].id => {call[t].id, call[u].id} \in excused

\* A shard that the search has passed is in the plan with every vector it had and has, but for those
\* the search left out.
PlanComplete ==
    \A t \in Caller, y \in Vertex :
        Upserting(t) /\ call[t].stage \in {"plan", "write"} /\ y # call[t].id
        /\ Present(y) /\ {call[t].id, y} \notin excused /\ (call[t].stage = "write" \/ Home[y] < call[t].next) =>
            Link(call[t].id, call[t].at, y, At(y)) \in call[t].links

\* The older of two versions has its edge to the newer one ...
Linked(n, o) == At(o) <= At(n) /\ has_edge(shard[Home[o]].graph, o, n, "SUPERSEDED_BY")

\* ... or the call that wrote one of them last has still to write it.
Owes(t, x, y) ==
    /\ Upserting(t) /\ call[t].id = x /\ call[t].at = At(x)
    /\ \/ call[t].stage \in {"link", "edge", "mirror"} /\ Link(x, At(x), y, At(y)) \in call[t].links
       \/ /\ call[t].stage \in {"edge", "mirror"}
          /\ call[t].edge = Edge(Link(x, At(x), y, At(y))[1], Link(x, At(x), y, At(y))[2], "UPDATES")

LinkedOrOwed ==
    \A x, y \in Vertex :
        x # y /\ Present(x) /\ Present(y) /\ {x, y} \notin excused =>
            Linked(x, y) \/ Linked(y, x) \/ \E t \in Caller : Owes(t, x, y) \/ Owes(t, y, x)

DurableInv ==
    /\ DurableTypes /\ InPlace /\ StagesSound /\ OneTime /\ LinksSound /\ UpdatesFirst
    /\ OverlapsKnown /\ PlanComplete /\ LinkedOrOwed

-----------------------------------------------------------------------------
LEMMA EdgeTyped ==
    ASSUME NEW x \in Vertex, NEW y \in Vertex, NEW type \in EdgeTypes
    PROVE  /\ Edge(x, y, type) \in Edges
           /\ Edge(x, y, type).src = x /\ Edge(x, y, type).tgt = y /\ Edge(x, y, type).type = type
  BY DEF Edge, Edges

\* The edges of a graph by their source.
LEMMA AtSource ==
    ASSUME NEW g \in GraphsTyped, Mirrored(g), NEW id \in Vertex, NEW e \in g.out[id]
    PROVE  e \in Edges /\ e.src = id
  BY DEF Mirrored, GraphsTyped

LEMMA AddKeepsGraph ==
    ASSUME NEW g \in GraphsTyped, NEW e \in Edges
    PROVE  /\ add_edge(g, e) \in GraphsTyped
           /\ add_edge(g, e).out = [g.out EXCEPT ![e.src] = @ \cup {e}]
           /\ Mirrored(g) => Mirrored(add_edge(g, e))
<1>. PICK h : h = add_edge(g, e)
  OBVIOUS
<1>1. e.src \in Vertex /\ e.tgt \in Vertex
  BY DEF Edges
<1>2. h.out = [g.out EXCEPT ![e.src] = g.out[e.src] \cup {e}] /\ h.in = [g.in EXCEPT ![e.tgt] = g.in[e.tgt] \cup {e}]
  BY DEF add_edge, GraphsTyped
<1>3. h \in [out : {h.out}, in : {h.in}]
  BY DEF add_edge, GraphsTyped
<1>4. \A id \in Vertex : h.out[id] = IF id = e.src THEN g.out[id] \cup {e} ELSE g.out[id]
  BY <1>1, <1>2 DEF GraphsTyped
<1>5. \A id \in Vertex : h.in[id] = IF id = e.tgt THEN g.in[id] \cup {e} ELSE g.in[id]
  BY <1>1, <1>2 DEF GraphsTyped
<1>6. h \in GraphsTyped
  <2>1. h.out \in [Vertex -> SUBSET Edges] /\ h.in \in [Vertex -> SUBSET Edges]
    BY <1>1, <1>2 DEF GraphsTyped
  <2>. QED
    BY <1>3, <2>1 DEF GraphsTyped
<1>7. ASSUME Mirrored(g) PROVE Mirrored(h)
  <2>. DEFINE all == UNION {g.out[k] : k \in Vertex}
  <2>1. UNION {h.out[id] : id \in Vertex} = all \cup {e}
    <3>1. e \in h.out[e.src]
      BY <1>1, <1>4
    <3>2. \A x \in all : x \in UNION {h.out[id] : id \in Vertex}
      BY ZenonT(60), <1>4
    <3>3. \A id \in Vertex : h.out[id] \subseteq all \cup {e}
      BY <1>4
    <3>. QED
      BY <1>1, <3>1, <3>2, <3>3
  <2>2. \A id \in Vertex : g.out[id] = {x \in all : x.src = id} /\ g.in[id] = {x \in all : x.tgt = id}
    BY <1>7 DEF Mirrored
  <2>. HIDE DEF all
  <2>3. \A id \in Vertex : h.out[id] = {x \in all \cup {e} : x.src = id}
    <3>1. ASSUME NEW id \in Vertex, id = e.src PROVE h.out[id] = {x \in all \cup {e} : x.src = id}
      BY <1>4, <2>2, <3>1
    <3>2. ASSUME NEW id \in Vertex, id # e.src PROVE h.out[id] = {x \in all \cup {e} : x.src = id}
      <4>1. h.out[id] = {x \in all : x.src = id}
        BY <1>4, <2>2, <3>2
      <4>2. {x \in all : x.src = id} = {x \in all \cup {e} : x.src = id}
        BY <3>2
      <4>. QED
        BY <4>1, <4>2
    <3>. QED
      BY <3>1, <3>2
  <2>4. \A id \in Vertex : h.in[id] = {x \in all \cup {e} : x.tgt = id}
    <3>1. ASSUME NEW id \in Vertex, id = e.tgt PROVE h.in[id] = {x \in all \cup {e} : x.tgt = id}
      BY <1>5, <2>2, <3>1
    <3>2. ASSUME NEW id \in Vertex, id # e.tgt PROVE h.in[id] = {x \in all \cup {e} : x.tgt = id}
      <4>1. h.in[id] = {x \in all : x.tgt = id}
        BY <1>5, <2>2, <3>2
      <4>2. {x \in all : x.tgt = id} = {x \in all \cup {e} : x.tgt = id}
        BY <3>2
      <4>. QED
        BY <4>1, <4>2
    <3>. QED
      BY <3>1, <3>2
  <2>. QED
    BY <2>1, <2>3, <2>4 DEF Mirrored
<1>. QED
  BY <1>2, <1>6, <1>7

LEMMA RemoveKeepsGraph ==
    ASSUME NEW g \in GraphsTyped, NEW id \in Vertex
    PROVE  /\ remove_node(g, id) \in GraphsTyped
           /\ Mirrored(g) => /\ Mirrored(remove_node(g, id))
                             /\ \A k \in Vertex : remove_node(g, id).out[k]
                                                      = {e \in g.out[k] : e.src # id /\ e.tgt # id}
<1>. PICK h : h = remove_node(g, id)
  OBVIOUS
<1>1. /\ h.out = [k \in Vertex |-> IF k = id THEN {} ELSE {e \in g.out[k] : e.tgt # id}]
      /\ h.in = [k \in Vertex |-> IF k = id THEN {} ELSE {e \in g.in[k] : e.src # id}]
      /\ h = [out |-> h.out, in |-> h.in]
  BY DEF remove_node
<1>2. h \in GraphsTyped
  <2>1. h.out \in [Vertex -> SUBSET Edges] /\ h.in \in [Vertex -> SUBSET Edges]
    BY <1>1 DEF GraphsTyped
  <2>. QED
    BY <1>1, <2>1 DEF GraphsTyped
<1>3. ASSUME Mirrored(g) PROVE Mirrored(h) /\ \A k \in Vertex : h.out[k] = {e \in g.out[k] : e.src # id /\ e.tgt # id}
  <2>. DEFINE all == UNION {g.out[k] : k \in Vertex}
  <2>1. \A k \in Vertex : g.out[k] = {e \in all : e.src = k} /\ g.in[k] = {e \in all : e.tgt = k}
    BY <1>3 DEF Mirrored
  <2>. HIDE DEF all
  <2>2. \A k \in Vertex : h.out[k] = {e \in g.out[k] : e.src # id /\ e.tgt # id}
    BY <1>1, <2>1
  <2>3. \A k \in Vertex : h.out[k] = {e \in all : e.src = k /\ e.src # id /\ e.tgt # id}
    BY <2>1, <2>2
  <2>4. \A k \in Vertex : h.in[k] = {e \in all : e.tgt = k /\ e.src # id /\ e.tgt # id}
    BY <1>1, <2>1
  <2>5. \A e \in all : e.src \in Vertex
    BY DEF all, GraphsTyped, Edges
  <2>6. UNION {h.out[k] : k \in Vertex} = {e \in all : e.src # id /\ e.tgt # id}
    BY <2>3, <2>5
  <2>. QED
    BY <2>2, <2>3, <2>4, <2>6 DEF Mirrored
<1>. QED
  BY <1>2, <1>3

-----------------------------------------------------------------------------
\* The calls.
LEMMA FailForm ==
    ASSUME DurableTypes, NEW t \in Caller, CallFails(t)
    PROVE  /\ call' = [call EXCEPT ![t] = call'[t]] /\ call'[t] = NoCall
           /\ shard' = shard /\ stored' = stored /\ removed' = removed
           /\ excused \subseteq excused'
           /\ Upserting(t) => \A x \in Vertex : {call[t].id, x} \in excused'
  BY DEF CallFails, DurableTypes

LEMMA CallKinds ==
    ASSUME DurableTypes, NEW t \in Caller
    PROVE  /\ call[t] = NoCall \/ call[t] \in Upserts \/ call[t] \in AddsEdge
           /\ NoCall.stage = "idle" /\ NoCall \notin Upserts /\ NoCall \notin AddsEdge
           /\ Upserting(t) <=> call[t] \in Upserts
           /\ call[t].stage = "idle" <=> call[t] = NoCall
           /\ call[t].stage \in {"plan", "write"} => call[t] \in Upserts
  BY DEF DurableTypes, NoCall, Upserts, AddsEdge, Upserting

LEMMA PlanForm ==
    ASSUME DurableTypes, StagesSound, NEW t \in Caller, PlanShard(t)
    PROVE  \E found \in SUBSET VectorsOf(shard[call[t].next]) :
           LET c == call[t]
               d == call'[t]
           IN  /\ c \in Upserts /\ c.stage = "plan" /\ c.next \in Shard
               /\ d \in Upserts /\ d.id = c.id /\ d.at = c.at /\ d.edge = c.edge
               /\ d.links = c.links \cup Plan(c.id, c.at, shard[c.next], found) /\ d.next = c.next + 1
               /\ excused' = excused \cup LeftOut(c.id, shard[c.next], found)
               /\ d.stage = IF c.next + 1 \in Shard THEN "plan" ELSE "write"
               /\ call' = [call EXCEPT ![t] = d]
<1>. PICK c : c = call[t]
  OBVIOUS
<1>0. PICK found \in Nearest(shard[c.next]) :
        /\ call' = [call EXCEPT ![t].links = @ \cup Plan(c.id, c.at, shard[c.next], found), ![t].next = @ + 1,
                                ![t].stage = IF c.next + 1 \in Shard THEN "plan" ELSE "write"]
        /\ excused' = excused \cup LeftOut(c.id, shard[c.next], found)
  BY DEF PlanShard
<1>. PICK p : p = Plan(c.id, c.at, shard[c.next], found)
  OBVIOUS
<1>. PICK s : s = IF c.next + 1 \in Shard THEN "plan" ELSE "write"
  OBVIOUS
<1>1. c \in Upserts /\ c.stage = "plan" /\ c.next \in Shard /\ s \in {"plan", "write"}
  BY CallKinds DEF PlanShard, StagesSound
<1>2. call' = [call EXCEPT ![t].links = @ \cup p, ![t].next = @ + 1, ![t].stage = s]
  BY <1>0
<1>3. call \in [Caller -> {NoCall} \cup Upserts \cup AddsEdge]
  BY DEF DurableTypes
<1>4. call' = [call EXCEPT ![t] = [c EXCEPT !.links = c.links \cup p, !.next = c.next + 1, !.stage = s]]
  BY <1>1, <1>2, <1>3 DEF Upserts
<1>5. call'[t] = [c EXCEPT !.links = c.links \cup p, !.next = c.next + 1, !.stage = s]
  BY <1>3, <1>4
<1>6. found \in SUBSET VectorsOf(shard[c.next])
  BY <1>0 DEF Nearest
<1>7. p \in SUBSET (Vertex \X Vertex)
  <2>1. c.id \in Vertex
    BY <1>1 DEF Upserts
  <2>. QED
    BY <1>6, <2>1 DEF Plan, Link, VectorsOf
<1>8. call'[t] \in Upserts
  <2>1. /\ c = [stage |-> c.stage, op |-> c.op, id |-> c.id, at |-> c.at, next |-> c.next, links |-> c.links, edge |-> c.edge]
        /\ c.op = "upsert" /\ c.id \in Vertex /\ c.at \in Nat \ {0} /\ c.next \in Nat /\ c.edge \in {NoEdge} \cup Edges
        /\ c.links \in SUBSET (Vertex \X Vertex)
    BY <1>1 DEF Upserts
  <2>2. call'[t] = [stage |-> s, op |-> c.op, id |-> c.id, at |-> c.at, next |-> c.next + 1, links |-> c.links \cup p, edge |-> c.edge]
    BY <1>5, <2>1
  <2>3. c.links \cup p \in SUBSET (Vertex \X Vertex) /\ c.next + 1 \in Nat
    BY <1>7, <2>1
  <2>. QED
    BY <1>1, <2>1, <2>2, <2>3 DEF Upserts
<1>9. /\ call'[t].id = c.id /\ call'[t].at = c.at /\ call'[t].edge = c.edge
      /\ call'[t].links = c.links \cup p /\ call'[t].next = c.next + 1 /\ call'[t].stage = s
  BY <1>1, <1>5 DEF Upserts
<1>. QED
  BY <1>0, <1>1, <1>4, <1>8, <1>9, <1>6

LEMMA WriteForm ==
    ASSUME DurableTypes, NEW t \in Caller, WriteShard(t)
    PROVE  LET c == call[t]
               d == call'[t]
               h == Home[c.id]
           IN  /\ c \in Upserts /\ c.stage = "write" /\ h \in Shard
               /\ d \in Upserts /\ d.id = c.id /\ d.at = c.at /\ d.edge = c.edge
               /\ d.links = c.links /\ d.next = c.next /\ d.stage = "link"
               /\ call' = [call EXCEPT ![t] = d]
               /\ shard' \in [Shard -> [at : [Vertex -> Nat], graph : GraphsTyped]]
               /\ \A s \in Shard, id \in Vertex :
                      shard'[s].at[id] = IF s = h /\ id = c.id THEN c.at ELSE shard[s].at[id]
               /\ \A s \in Shard : shard'[s].graph = shard[s].graph
<1>. PICK c : c = call[t]
  OBVIOUS
<1>1. c \in Upserts /\ c.stage = "write" /\ c.id \in Vertex /\ c.at \in Nat
  BY CallKinds DEF WriteShard, Upserts
<1>2. PICK h : h = Home[c.id]
  OBVIOUS
<1>3. h \in Shard
  BY <1>1, <1>2, DurableCollectionAssumption
<1>4. shard' = [shard EXCEPT ![h].at[c.id] = c.at] /\ call' = [call EXCEPT ![t].stage = "link"]
  BY <1>2 DEF WriteShard
<1>5. /\ shard \in [Shard -> [at : [Vertex -> Nat], graph : GraphsTyped]]
      /\ call \in [Caller -> {NoCall} \cup Upserts \cup AddsEdge]
  BY DEF DurableTypes
<1>6. shard' = [shard EXCEPT ![h] = [shard[h] EXCEPT !.at = [shard[h].at EXCEPT ![c.id] = c.at]]]
  BY <1>4
<1>7. [shard[h].at EXCEPT ![c.id] = c.at] \in [Vertex -> Nat]
  BY <1>1, <1>3, <1>5
<1>8. PICK a : a = [shard[h].at EXCEPT ![c.id] = c.at]
  OBVIOUS
<1>9. [shard[h] EXCEPT !.at = a] \in [at : [Vertex -> Nat], graph : GraphsTyped]
      /\ [shard[h] EXCEPT !.at = a].at = a /\ [shard[h] EXCEPT !.at = a].graph = shard[h].graph
  BY <1>3, <1>5, <1>7, <1>8
<1>10. shard' \in [Shard -> [at : [Vertex -> Nat], graph : GraphsTyped]]
  BY <1>3, <1>5, <1>6, <1>8, <1>9
<1>11. shard'[h].at = a /\ shard'[h].graph = shard[h].graph /\ \A s \in Shard \ {h} : shard'[s] = shard[s]
  BY <1>3, <1>5, <1>6, <1>8, <1>9
<1>12. \A id \in Vertex : a[id] = IF id = c.id THEN c.at ELSE shard[h].at[id]
  <2>1. shard[h].at \in [Vertex -> Nat]
    BY <1>3, <1>5
  <2>. QED
    BY <1>8, <2>1
<1>13. call' = [call EXCEPT ![t] = [c EXCEPT !.stage = "link"]] /\ call'[t] = [c EXCEPT !.stage = "link"]
  BY <1>4, <1>5
<1>14. /\ call'[t] \in Upserts /\ call'[t].id = c.id /\ call'[t].at = c.at /\ call'[t].edge = c.edge
       /\ call'[t].links = c.links /\ call'[t].next = c.next /\ call'[t].stage = "link"
  BY <1>1, <1>13 DEF Upserts
<1>15. \A s \in Shard, id \in Vertex : shard'[s].at[id] = IF s = h /\ id = c.id THEN c.at ELSE shard[s].at[id]
  BY <1>11, <1>12
<1>16. \A s \in Shard : shard'[s].graph = shard[s].graph
  BY <1>11
<1>. QED
  BY <1>1, <1>2, <1>3, <1>10, <1>13, <1>14, <1>15, <1>16

LEMMA NextForm ==
    ASSUME DurableTypes, NEW t \in Caller, NextLink(t)
    PROVE  LET c == call[t]
               d == call'[t]
           IN  /\ c \in Upserts /\ c.stage = "link"
               /\ \E link \in c.links :
                     /\ d.links = c.links \ {link}
                     /\ d.edge = Edge(link[1], link[2], "UPDATES") /\ d.edge \in Edges
                     /\ d.stage = IF AlreadyLinked(link) THEN "link" ELSE "edge"
               /\ d \in Upserts /\ d.id = c.id /\ d.at = c.at /\ d.next = c.next
               /\ call' = [call EXCEPT ![t] = d]
<1>. PICK c : c = call[t]
  OBVIOUS
<1>1. c.stage = "link" /\ (c \in Upserts \/ c \in AddsEdge)
  BY CallKinds DEF NextLink
<1>2. PICK link \in c.links : call' = [call EXCEPT ![t].links = @ \ {link},
                                                   ![t].edge = Edge(link[1], link[2], "UPDATES"),
                                                   ![t].stage = IF AlreadyLinked(link) THEN "link" ELSE "edge"]
  BY DEF NextLink
<1>3. c \in Upserts
  BY <1>1, <1>2 DEF AddsEdge
<1>4. PICK s : s = IF AlreadyLinked(link) THEN "link" ELSE "edge"
  OBVIOUS
<1>5. PICK e : e = Edge(link[1], link[2], "UPDATES")
  OBVIOUS
<1>6. s \in {"link", "edge"} /\ link[1] \in Vertex /\ link[2] \in Vertex
  BY <1>2, <1>3, <1>4 DEF Upserts
<1>7. e \in Edges
  BY <1>5, <1>6, EdgeTyped DEF EdgeTypes
<1>8. call' = [call EXCEPT ![t] = [c EXCEPT !.links = c.links \ {link}, !.edge = e, !.stage = s]]
  BY <1>2, <1>3, <1>4, <1>5 DEF DurableTypes, Upserts
<1>9. call'[t] = [c EXCEPT !.links = c.links \ {link}, !.edge = e, !.stage = s]
  BY <1>8 DEF DurableTypes
<1>10. /\ c = [stage |-> c.stage, op |-> c.op, id |-> c.id, at |-> c.at, next |-> c.next, links |-> c.links, edge |-> c.edge]
       /\ c.op = "upsert" /\ c.id \in Vertex /\ c.at \in Nat \ {0} /\ c.next \in Nat
       /\ c.links \in SUBSET (Vertex \X Vertex)
  BY <1>3 DEF Upserts
<1>11. call'[t] = [stage |-> s, op |-> c.op, id |-> c.id, at |-> c.at, next |-> c.next, links |-> c.links \ {link}, edge |-> e]
  BY <1>9, <1>10
<1>12. call'[t] \in Upserts
  BY <1>6, <1>7, <1>10, <1>11 DEF Upserts
<1>13. /\ call'[t].links = c.links \ {link} /\ call'[t].edge = e /\ call'[t].stage = s
       /\ call'[t].id = c.id /\ call'[t].at = c.at /\ call'[t].next = c.next
  BY <1>11
<1>14. call' = [call EXCEPT ![t] = call'[t]]
  BY <1>8, <1>9
<1>. QED
  BY <1>1, <1>2, <1>3, <1>4, <1>5, <1>7, <1>12, <1>13, <1>14

\* A step changes one shard's graph in one place.
LEMMA GraphAt ==
    ASSUME DurableTypes, NEW s \in Shard, NEW g \in GraphsTyped,
           shard' = [shard EXCEPT ![s] = [shard[s] EXCEPT !.graph = g]]
    PROVE  /\ shard' \in [Shard -> [at : [Vertex -> Nat], graph : GraphsTyped]]
           /\ \A r \in Shard : shard'[r].at = shard[r].at
           /\ \A r \in Shard : shard'[r].graph = IF r = s THEN g ELSE shard[r].graph
<1>1. shard \in [Shard -> [at : [Vertex -> Nat], graph : GraphsTyped]]
  BY DEF DurableTypes
<1>2. PICK n : n = [shard[s] EXCEPT !.graph = g]
  OBVIOUS
<1>3. n \in [at : [Vertex -> Nat], graph : GraphsTyped] /\ n.at = shard[s].at /\ n.graph = g
  BY <1>1, <1>2
<1>. QED
  BY <1>1, <1>2, <1>3

LEMMA MirrorTyped ==
    ASSUME NEW e \in Edges
    PROVE  /\ MirrorOf(e) \in Edges /\ MirrorOf(e).src = e.tgt /\ MirrorOf(e).tgt = e.src
           /\ MirrorOf(e).type = IF e.type = "UPDATES" THEN "SUPERSEDED_BY" ELSE e.type
           /\ \A stage : EdgeAt(e, stage) \in Edges
  BY DEF MirrorOf, EdgeAt, Edge, Edges, EdgeTypes

LEMMA WriteEdgeForm ==
    ASSUME DurableTypes, StagesSound, NEW t \in Caller, WriteEdge(t)
    PROVE  LET c == call[t]
               d == call'[t]
               e == EdgeAt(c.edge, c.stage)
           IN  /\ c.stage \in {"edge", "mirror"} /\ c.edge \in Edges /\ c \in Upserts \cup AddsEdge
               /\ e \in Edges /\ Home[e.src] \in Shard
               /\ d.stage = IF c.stage = "edge" /\ MirrorsEdge(c.edge) THEN "mirror" ELSE "link"
               /\ d.links = c.links /\ d.edge = c.edge
               /\ c \in Upserts => d \in Upserts /\ d.id = c.id /\ d.at = c.at /\ d.next = c.next
               /\ c \in AddsEdge => d \in AddsEdge
               /\ call' = [call EXCEPT ![t] = d]
               /\ shard' \in [Shard -> [at : [Vertex -> Nat], graph : GraphsTyped]]
               /\ \A s \in Shard : shard'[s].at = shard[s].at
               /\ \A s \in Shard : Mirrored(shard[s].graph) => Mirrored(shard'[s].graph)
               /\ \A s \in Shard, id \in Vertex :
                     shard'[s].graph.out[id] = IF s = Home[e.src] /\ id = e.src THEN shard[s].graph.out[id] \cup {e}
                                                                                ELSE shard[s].graph.out[id]
<1>. PICK c : c = call[t]
  OBVIOUS
<1>1. c.stage \in {"edge", "mirror"} /\ c.edge \in Edges
  BY DEF WriteEdge, StagesSound
<1>2. c \in Upserts \/ c \in AddsEdge
  BY <1>1, CallKinds
<1>3. PICK e : e = EdgeAt(c.edge, c.stage)
  OBVIOUS
<1>4. e \in Edges /\ e.src \in Vertex
  BY <1>1, <1>3, MirrorTyped DEF Edges
<1>5. PICK h : h = Home[e.src]
  OBVIOUS
<1>6. h \in Shard
  BY <1>4, <1>5, DurableCollectionAssumption
<1>7. PICK s : s = IF c.stage = "edge" /\ MirrorsEdge(c.edge) THEN "mirror" ELSE "link"
  OBVIOUS
<1>8. s \in {"mirror", "link"}
  BY <1>7
<1>9. call' = [call EXCEPT ![t].stage = s] /\ shard' = [shard EXCEPT ![h].graph = add_edge(@, e)]
  BY <1>3, <1>5, <1>7 DEF WriteEdge
<1>10. call' = [call EXCEPT ![t] = [c EXCEPT !.stage = s]] /\ call'[t] = [c EXCEPT !.stage = s]
  BY <1>9 DEF DurableTypes
<1>11. call'[t].stage = s /\ call'[t].links = c.links /\ call'[t].edge = c.edge
  BY <1>2, <1>10 DEF Upserts, AddsEdge
<1>12. c \in Upserts => /\ call'[t] \in Upserts /\ call'[t].id = c.id /\ call'[t].at = c.at /\ call'[t].next = c.next
  BY <1>8, <1>10 DEF Upserts
<1>13. c \in AddsEdge => call'[t] \in AddsEdge
  BY <1>8, <1>10 DEF AddsEdge
<1>14. PICK g : g = add_edge(shard[h].graph, e)
  OBVIOUS
<1>15. shard[h].graph \in GraphsTyped
  BY <1>6 DEF DurableTypes
<1>16. /\ g \in GraphsTyped /\ g.out = [shard[h].graph.out EXCEPT ![e.src] = shard[h].graph.out[e.src] \cup {e}]
       /\ Mirrored(shard[h].graph) => Mirrored(g)
  BY <1>4, <1>14, <1>15, AddKeepsGraph
<1>17. shard' = [shard EXCEPT ![h] = [shard[h] EXCEPT !.graph = g]]
  BY <1>9, <1>14
<1>18. /\ shard' \in [Shard -> [at : [Vertex -> Nat], graph : GraphsTyped]]
       /\ \A r \in Shard : shard'[r].at = shard[r].at
       /\ \A r \in Shard : shard'[r].graph = IF r = h THEN g ELSE shard[r].graph
  BY <1>6, <1>16, <1>17, GraphAt
<1>19. \A id \in Vertex : g.out[id] = IF id = e.src THEN shard[h].graph.out[id] \cup {e} ELSE shard[h].graph.out[id]
  <2>1. shard[h].graph.out \in [Vertex -> SUBSET Edges]
    BY <1>15 DEF GraphsTyped
  <2>. QED
    BY <1>16, <2>1
<1>20. \A r \in Shard, id \in Vertex :
          shard'[r].graph.out[id] = IF r = h /\ id = e.src THEN shard[r].graph.out[id] \cup {e} ELSE shard[r].graph.out[id]
  BY <1>18, <1>19
<1>21. \A r \in Shard : Mirrored(shard[r].graph) => Mirrored(shard'[r].graph)
  BY <1>16, <1>18
<1>22. call' = [call EXCEPT ![t] = call'[t]]
  BY <1>10
<1>23. call'[t].stage = IF c.stage = "edge" /\ MirrorsEdge(c.edge) THEN "mirror" ELSE "link"
  BY <1>7, <1>11
<1>24. LET d == call'[t]
       IN  /\ c.stage \in {"edge", "mirror"} /\ c.edge \in Edges /\ c \in Upserts \cup AddsEdge
           /\ e \in Edges /\ h \in Shard
           /\ d.stage = IF c.stage = "edge" /\ MirrorsEdge(c.edge) THEN "mirror" ELSE "link"
           /\ d.links = c.links /\ d.edge = c.edge
           /\ c \in Upserts => d \in Upserts /\ d.id = c.id /\ d.at = c.at /\ d.next = c.next
           /\ c \in AddsEdge => d \in AddsEdge
           /\ call' = [call EXCEPT ![t] = d]
  BY <1>1, <1>2, <1>4, <1>6, <1>11, <1>12, <1>13, <1>22, <1>23
<1>25. LET k == call[t]
           d == call'[t]
           x == EdgeAt(k.edge, k.stage)
       IN  /\ k.stage \in {"edge", "mirror"} /\ k.edge \in Edges /\ k \in Upserts \cup AddsEdge
           /\ x \in Edges /\ Home[x.src] \in Shard
           /\ d.stage = IF k.stage = "edge" /\ MirrorsEdge(k.edge) THEN "mirror" ELSE "link"
           /\ d.links = k.links /\ d.edge = k.edge
           /\ k \in Upserts => d \in Upserts /\ d.id = k.id /\ d.at = k.at /\ d.next = k.next
           /\ k \in AddsEdge => d \in AddsEdge
           /\ call' = [call EXCEPT ![t] = d]
  BY <1>3, <1>5, <1>24
<1>26. LET k == call[t]
           x == EdgeAt(k.edge, k.stage)
       IN  \A r \in Shard, id \in Vertex :
              shard'[r].graph.out[id] = IF r = Home[x.src] /\ id = x.src THEN shard[r].graph.out[id] \cup {x}
                                                                           ELSE shard[r].graph.out[id]
  BY <1>3, <1>5, <1>20
<1>. QED
  BY <1>18, <1>21, <1>25, <1>26

LEMMA RemoveForm ==
    ASSUME DurableTypes, NEW id \in Vertex, RemoveEverywhere(id)
    PROVE  /\ shard' \in [Shard -> [at : [Vertex -> Nat], graph : GraphsTyped]]
           /\ Home[id] \in Shard
           /\ \A s \in Shard, x \in Vertex : shard'[s].at[x] = IF s = Home[id] /\ x = id THEN 0 ELSE shard[s].at[x]
           /\ \A s \in Shard : Mirrored(shard[s].graph) =>
                 /\ Mirrored(shard'[s].graph)
                 /\ \A x \in Vertex : shard'[s].graph.out[x] =
                       IF s = Home[id] THEN {e \in shard[s].graph.out[x] : e.src # id /\ e.tgt # id}
                                       ELSE shard[s].graph.out[x]
<1>1. PICK h : h = Home[id]
  OBVIOUS
<1>2. h \in Shard
  BY <1>1, DurableCollectionAssumption
<1>3. shard \in [Shard -> [at : [Vertex -> Nat], graph : GraphsTyped]]
  BY DEF DurableTypes
<1>4. PICK g : g = remove_node(shard[h].graph, id)
  OBVIOUS
<1>5. PICK a : a = [shard[h].at EXCEPT ![id] = 0]
  OBVIOUS
<1>6. shard' = [shard EXCEPT ![h].at[id] = 0, ![h].graph = remove_node(@, id)]
  BY <1>1 DEF RemoveEverywhere
<1>7. shard' = [shard EXCEPT ![h] = [shard[h] EXCEPT !.at = a, !.graph = g]]
  BY <1>2, <1>3, <1>4, <1>5, <1>6
<1>8. g \in GraphsTyped /\ (Mirrored(shard[h].graph) => /\ Mirrored(g)
                             /\ \A k \in Vertex : g.out[k] = {e \in shard[h].graph.out[k] : e.src # id /\ e.tgt # id})
  <2>1. shard[h].graph \in GraphsTyped
    BY <1>2, <1>3
  <2>. QED
    BY <1>4, <2>1, RemoveKeepsGraph
<1>9. a \in [Vertex -> Nat] /\ \A x \in Vertex : a[x] = IF x = id THEN 0 ELSE shard[h].at[x]
  <2>1. shard[h].at \in [Vertex -> Nat]
    BY <1>2, <1>3
  <2>. QED
    BY <1>5, <2>1
<1>10. PICK n : n = [shard[h] EXCEPT !.at = a, !.graph = g]
  OBVIOUS
<1>11. n \in [at : [Vertex -> Nat], graph : GraphsTyped] /\ n.at = a /\ n.graph = g
  BY <1>2, <1>3, <1>8, <1>9, <1>10
<1>12. shard' \in [Shard -> [at : [Vertex -> Nat], graph : GraphsTyped]]
  BY <1>2, <1>3, <1>7, <1>10, <1>11
<1>13. \A s \in Shard : shard'[s].at = (IF s = h THEN a ELSE shard[s].at) /\ shard'[s].graph = IF s = h THEN g ELSE shard[s].graph
  BY <1>2, <1>3, <1>7, <1>10, <1>11
<1>. QED
  BY <1>1, <1>2, <1>8, <1>9, <1>12, <1>13

LEMMA BeginForm ==
    ASSUME DurableTypes, NEW t \in Caller, NEW id \in Vertex, NEW at \in Time, BeginUpsert(t, id, at)
    PROVE  LET d == call'[t]
           IN  /\ call[t] = NoCall
               /\ d \in Upserts /\ d.stage = "plan" /\ d.id = id /\ d.at = at /\ d.next = 0 /\ d.links = {}
               /\ call' = [call EXCEPT ![t] = d]
               /\ stored' \in [Vertex -> Nat]
               /\ \A x \in Vertex : stored'[x] = IF x = id THEN stored[x] + 1 ELSE stored[x]
<1>1. at \in Nat \ {0}
  BY DurableCollectionAssumption
<1>2. PICK d : d = [stage |-> "plan", op |-> "upsert", id |-> id, at |-> at, next |-> 0, links |-> {}, edge |-> NoEdge]
  OBVIOUS
<1>3. d \in Upserts
  BY <1>1, <1>2 DEF Upserts
<1>4. call[t] = NoCall /\ call' = [call EXCEPT ![t] = d] /\ stored' = [stored EXCEPT ![id] = stored[id] + 1]
  BY <1>2 DEF BeginUpsert, Start
<1>5. call'[t] = d
  BY <1>4 DEF DurableTypes
<1>6. stored' \in [Vertex -> Nat] /\ \A x \in Vertex : stored'[x] = IF x = id THEN stored[x] + 1 ELSE stored[x]
  BY <1>4 DEF DurableTypes
<1>7. call' = [call EXCEPT ![t] = call'[t]]
  BY <1>4, <1>5
<1>8. /\ call'[t].stage = "plan" /\ call'[t].id = id /\ call'[t].at = at /\ call'[t].next = 0
      /\ call'[t].links = {} /\ call'[t] \in Upserts
  BY <1>2, <1>3, <1>5
<1>. QED
  BY <1>4, <1>6, <1>7, <1>8

LEMMA BeginEdgeForm ==
    ASSUME DurableTypes, NEW t \in Caller, NEW e \in UserEdges, BeginAddEdge(t, e)
    PROVE  LET d == call'[t]
           IN  /\ call[t] = NoCall
               /\ d \in AddsEdge /\ d.stage = "edge" /\ d.edge = e /\ e \in Edges /\ e.type = "CONTRADICTS"
               /\ call' = [call EXCEPT ![t] = d]
<1>1. e \in Edges /\ e.type = "CONTRADICTS"
  BY EdgeTyped DEF UserEdges, EdgeTypes
<1>2. PICK d : d = [stage |-> "edge", op |-> "add_edge", links |-> {}, edge |-> e]
  OBVIOUS
<1>3. d \in AddsEdge
  BY <1>1, <1>2 DEF AddsEdge
<1>4. call[t] = NoCall /\ call' = [call EXCEPT ![t] = d]
  BY <1>2 DEF BeginAddEdge, Start
<1>5. call'[t] = d
  BY <1>4 DEF DurableTypes
<1>6. call' = [call EXCEPT ![t] = call'[t]]
  BY <1>4, <1>5
<1>. QED
  BY <1>1, <1>2, <1>3, <1>4, <1>5, <1>6

LEMMA TypesKept ==
    ASSUME DurableTypes, StagesSound, [DCNext]_dcVars
    PROVE  DurableTypes'
<1>. USE DEF DurableTypes
<1>1. ASSUME NEW t \in Caller, NEW id \in Vertex, NEW at \in Time, BeginUpsert(t, id, at) PROVE DurableTypes'
  <2>1. call'[t] \in Upserts /\ call' = [call EXCEPT ![t] = call'[t]] /\ stored' \in [Vertex -> Nat]
    BY <1>1, BeginForm
  <2>2. shard' = shard /\ removed' = removed
    BY <1>1 DEF BeginUpsert
  <2>. QED
    BY <2>1, <2>2
<1>2. ASSUME NEW t \in Caller, NEW e \in UserEdges, BeginAddEdge(t, e) PROVE DurableTypes'
  <2>1. call'[t] \in AddsEdge /\ call' = [call EXCEPT ![t] = call'[t]]
    BY <1>2, BeginEdgeForm
  <2>2. shard' = shard /\ removed' = removed /\ stored' = stored
    BY <1>2 DEF BeginAddEdge
  <2>. QED
    BY <2>1, <2>2
<1>3. ASSUME NEW t \in Caller, PlanShard(t) PROVE DurableTypes'
  <2>1. call'[t] \in Upserts /\ call' = [call EXCEPT ![t] = call'[t]]
    BY <1>3, PlanForm
  <2>2. shard' = shard /\ removed' = removed /\ stored' = stored
    BY <1>3 DEF PlanShard
  <2>. QED
    BY <2>1, <2>2
<1>4. ASSUME NEW t \in Caller, WriteShard(t) PROVE DurableTypes'
  <2>1. /\ call'[t] \in Upserts /\ call' = [call EXCEPT ![t] = call'[t]]
        /\ shard' \in [Shard -> [at : [Vertex -> Nat], graph : GraphsTyped]]
    BY <1>4, WriteForm
  <2>2. removed' = removed /\ stored' = stored
    BY <1>4 DEF WriteShard
  <2>. QED
    BY <2>1, <2>2
<1>5. ASSUME NEW t \in Caller, NextLink(t) PROVE DurableTypes'
  <2>1. call'[t] \in Upserts /\ call' = [call EXCEPT ![t] = call'[t]]
    BY <1>5, NextForm
  <2>2. shard' = shard /\ removed' = removed /\ stored' = stored
    BY <1>5 DEF NextLink
  <2>. QED
    BY <2>1, <2>2
<1>6. ASSUME NEW t \in Caller, WriteEdge(t) PROVE DurableTypes'
  <2>1. /\ call'[t] \in Upserts \/ call'[t] \in AddsEdge
        /\ call' = [call EXCEPT ![t] = call'[t]]
        /\ shard' \in [Shard -> [at : [Vertex -> Nat], graph : GraphsTyped]]
    BY <1>6, WriteEdgeForm
  <2>2. removed' = removed /\ stored' = stored
    BY <1>6 DEF WriteEdge
  <2>. QED
    BY <2>1, <2>2
<1>7. ASSUME NEW t \in Caller, Return(t) PROVE DurableTypes'
  BY <1>7 DEF Return
<1>11. ASSUME NEW t \in Caller, CallFails(t) PROVE DurableTypes'
  BY <1>11, FailForm
<1>8. ASSUME NEW id \in Vertex, RemoveEverywhere(id) PROVE DurableTypes'
  <2>1. shard' \in [Shard -> [at : [Vertex -> Nat], graph : GraphsTyped]]
    BY <1>8, RemoveForm
  <2>2. removed' = removed \cup {id} /\ stored' = stored /\ call' = call
    BY <1>8 DEF RemoveEverywhere
  <2>. QED
    BY <2>1, <2>2
<1>9. CASE CrashAndRecover
  BY <1>9 DEF CrashAndRecover
<1>10. CASE UNCHANGED dcVars
  BY <1>10 DEF dcVars
<1>. QED
  BY <1>1, <1>2, <1>3, <1>4, <1>5, <1>6, <1>7, <1>8, <1>9, <1>10, <1>11 DEF DCNext

\* Only a shard's own write, an edge and a removal change what the shards hold.
LEMMA ShardsStay ==
    ASSUME NEW t \in Caller,
           \/ \E id \in Vertex, at \in Time : BeginUpsert(t, id, at)
           \/ \E e \in UserEdges : BeginAddEdge(t, e)
           \/ PlanShard(t) \/ NextLink(t) \/ Return(t) \/ CallFails(t)
    PROVE  shard' = shard
<1>1. CASE PlanShard(t)
  BY <1>1 DEF PlanShard
<1>2. CASE CallFails(t)
  BY <1>2 DEF CallFails
<1>3. CASE (\E id \in Vertex, at \in Time : BeginUpsert(t, id, at)) \/ (\E e \in UserEdges : BeginAddEdge(t, e))
  BY <1>3 DEF BeginUpsert, BeginAddEdge
<1>4. CASE NextLink(t) \/ Return(t)
  BY <1>4 DEF NextLink, Return
<1>. QED
  BY <1>1, <1>2, <1>3, <1>4

LEMMA InPlaceKept ==
    ASSUME DurableTypes, StagesSound, InPlace, [DCNext]_dcVars
    PROVE  InPlace'
<1>1. ASSUME shard' = shard PROVE InPlace'
  BY <1>1 DEF InPlace
<1>2. ASSUME NEW t \in Caller, WriteShard(t) PROVE InPlace'
  BY <1>2, WriteForm DEF InPlace
<1>3. ASSUME NEW t \in Caller, WriteEdge(t) PROVE InPlace'
  <2>1. /\ \A s \in Shard : shard'[s].at = shard[s].at
        /\ \A s \in Shard : Mirrored(shard[s].graph) => Mirrored(shard'[s].graph)
    BY <1>3, WriteEdgeForm
  <2>. QED
    BY <2>1 DEF InPlace
<1>4. ASSUME NEW id \in Vertex, RemoveEverywhere(id) PROVE InPlace'
  <2>1. /\ \A s \in Shard, x \in Vertex : shard'[s].at[x] = IF s = Home[id] /\ x = id THEN 0 ELSE shard[s].at[x]
        /\ \A s \in Shard : Mirrored(shard[s].graph) => Mirrored(shard'[s].graph)
    BY <1>4, RemoveForm
  <2>. QED
    BY <2>1 DEF InPlace
<1>5. ASSUME NEW t \in Caller,
             (\/ \E id \in Vertex, at \in Time : BeginUpsert(t, id, at)
              \/ \E e \in UserEdges : BeginAddEdge(t, e)
              \/ PlanShard(t) \/ NextLink(t) \/ Return(t) \/ CallFails(t))
      PROVE  InPlace'
  BY <1>1, <1>5, ShardsStay
<1>6. CASE CrashAndRecover \/ UNCHANGED dcVars
  BY <1>1, <1>6 DEF CrashAndRecover, dcVars
<1>. QED
  BY <1>2, <1>3, <1>4, <1>5, <1>6 DEF DCNext

LEMMA StagesKept ==
    ASSUME DurableTypes, StagesSound, [DCNext]_dcVars
    PROVE  StagesSound'
<1>. DEFINE Sound(c) == /\ c.stage = "plan" => c.next \in Shard
                        /\ c.stage \in {"edge", "mirror"} => c.edge \in Edges
                        /\ c.stage \in {"edge", "mirror"} /\ c \in Upserts => c.edge.type = "UPDATES"
                        /\ c # NoCall /\ c.op = "add_edge" => c.edge.type = "CONTRADICTS"
<1>1. \A u \in Caller : Sound(call[u])
  BY CallKinds DEF StagesSound
<1>2. ASSUME NEW t \in Caller, call' = [call EXCEPT ![t] = call'[t]], Sound(call'[t]) PROVE StagesSound'
  <2>1. \A u \in Caller : Sound(call'[u])
    BY <1>1, <1>2 DEF DurableTypes
  <2>2. \A u \in Caller : call'[u] # NoCall /\ call'[u].op = "upsert" => call'[u] \in Upserts
    <3>1. DurableTypes'
      BY TypesKept
    <3>. QED
      BY <3>1 DEF DurableTypes, AddsEdge
  <2>. QED
    BY <2>1, <2>2 DEF StagesSound, Upserting
<1>3. ASSUME NEW t \in Caller, NEW id \in Vertex, NEW at \in Time, BeginUpsert(t, id, at) PROVE StagesSound'
  <2>1. call'[t] \in Upserts /\ call'[t].stage = "plan" /\ call'[t].next = 0 /\ call' = [call EXCEPT ![t] = call'[t]]
    BY <1>3, BeginForm
  <2>2. 0 \in Shard
    <3>1. Home[id] \in Shard /\ Home[id] \in Nat /\ 0..Home[id] \subseteq Shard
      BY DurableCollectionAssumption
    <3>. QED
      BY <3>1
  <2>3. Sound(call'[t])
    BY <2>1, <2>2 DEF Upserts
  <2>. QED
    BY <1>2, <2>1, <2>3
<1>4. ASSUME NEW t \in Caller, NEW e \in UserEdges, BeginAddEdge(t, e) PROVE StagesSound'
  <2>1. /\ call'[t] \in AddsEdge /\ call'[t].stage = "edge" /\ call'[t].edge = e /\ e \in Edges /\ e.type = "CONTRADICTS"
        /\ call' = [call EXCEPT ![t] = call'[t]]
    BY <1>4, BeginEdgeForm
  <2>2. Sound(call'[t])
    BY <2>1 DEF Upserts, AddsEdge
  <2>. QED
    BY <1>2, <2>1, <2>2
<1>5. ASSUME NEW t \in Caller, PlanShard(t) PROVE StagesSound'
  <2>1. /\ call'[t] \in Upserts /\ call'[t].next = call[t].next + 1
        /\ call'[t].stage = IF call[t].next + 1 \in Shard THEN "plan" ELSE "write"
        /\ call' = [call EXCEPT ![t] = call'[t]]
    BY <1>5, PlanForm
  <2>2. Sound(call'[t])
    BY <2>1 DEF Upserts
  <2>. QED
    BY <1>2, <2>1, <2>2
<1>6. ASSUME NEW t \in Caller, WriteShard(t) PROVE StagesSound'
  <2>1. call'[t] \in Upserts /\ call'[t].stage = "link" /\ call' = [call EXCEPT ![t] = call'[t]]
    BY <1>6, WriteForm
  <2>2. Sound(call'[t])
    BY <2>1 DEF Upserts
  <2>. QED
    BY <1>2, <2>1, <2>2
<1>7. ASSUME NEW t \in Caller, NextLink(t) PROVE StagesSound'
  <2>1. PICK link \in call[t].links :
           /\ call'[t] \in Upserts /\ call'[t].stage \in {"link", "edge"} /\ call'[t].edge \in Edges
           /\ call'[t].edge = Edge(link[1], link[2], "UPDATES")
           /\ call' = [call EXCEPT ![t] = call'[t]]
    BY <1>7, NextForm
  <2>2. call'[t].edge.type = "UPDATES"
    BY <2>1 DEF Edge
  <2>3. Sound(call'[t])
    BY <2>1, <2>2 DEF Upserts
  <2>. QED
    BY <1>2, <2>1, <2>3
<1>8. ASSUME NEW t \in Caller, WriteEdge(t) PROVE StagesSound'
  <2>1. /\ call[t].stage \in {"edge", "mirror"} /\ call'[t].edge = call[t].edge /\ call[t].edge \in Edges
        /\ (call[t] \in Upserts /\ call'[t] \in Upserts) \/ (call[t] \in AddsEdge /\ call'[t] \in AddsEdge)
        /\ call'[t].stage \in {"mirror", "link"}
        /\ call' = [call EXCEPT ![t] = call'[t]]
    BY <1>8, WriteEdgeForm
  <2>2. Sound(call'[t])
    BY <1>1, <2>1 DEF Upserts, AddsEdge, NoCall
  <2>. QED
    BY <1>2, <2>1, <2>2
<1>9. ASSUME NEW t \in Caller, Return(t) PROVE StagesSound'
  <2>1. call' = [call EXCEPT ![t] = call'[t]] /\ call'[t] = NoCall
    BY <1>9 DEF Return, DurableTypes
  <2>2. Sound(call'[t])
    BY <2>1, CallKinds DEF NoCall
  <2>. QED
    BY <1>2, <2>1, <2>2
<1>12. ASSUME NEW t \in Caller, CallFails(t) PROVE StagesSound'
  <2>1. call' = [call EXCEPT ![t] = call'[t]] /\ call'[t] = NoCall
    BY <1>12, FailForm
  <2>2. Sound(call'[t])
    BY <2>1, CallKinds DEF NoCall
  <2>. QED
    BY <1>2, <2>1, <2>2
<1>10. ASSUME call' = call PROVE StagesSound'
  BY <1>10 DEF StagesSound, Upserting
<1>11. CASE CrashAndRecover
  BY <1>11 DEF CrashAndRecover, StagesSound, Upserting, NoCall
<1>. QED
  BY <1>3, <1>4, <1>5, <1>6, <1>7, <1>8, <1>9, <1>10, <1>11, <1>12 DEF DCNext, dcVars, RemoveEverywhere

-----------------------------------------------------------------------------
\* Histories grow.
LEMMA HistoriesGrow ==
    ASSUME DurableTypes, StagesSound, [DCNext]_dcVars
    PROVE  /\ \A x \in Vertex : stored[x] \in Nat /\ stored'[x] \in Nat /\ stored'[x] >= stored[x]
           /\ removed \subseteq removed' /\ excused \subseteq excused'
<1>1. \A x \in Vertex : stored[x] \in Nat /\ stored'[x] \in Nat
  BY TypesKept DEF DurableTypes
<1>2. ASSUME NEW t \in Caller, NEW id \in Vertex, NEW at \in Time, BeginUpsert(t, id, at)
      PROVE  (\A x \in Vertex : stored'[x] >= stored[x]) /\ removed \subseteq removed' /\ excused \subseteq excused'
  <2>1. \A x \in Vertex : stored'[x] = IF x = id THEN stored[x] + 1 ELSE stored[x]
    BY <1>2, BeginForm
  <2>2. removed' = removed /\ excused \subseteq excused'
    BY <1>2 DEF BeginUpsert
  <2>. QED
    BY <1>1, <2>1, <2>2
<1>3. ASSUME stored' = stored, removed \subseteq removed', excused \subseteq excused'
      PROVE  (\A x \in Vertex : stored'[x] >= stored[x]) /\ removed \subseteq removed' /\ excused \subseteq excused'
  BY <1>1, <1>3
<1>4. ASSUME NEW t \in Caller,
             (\E e \in UserEdges : BeginAddEdge(t, e)) \/ PlanShard(t) \/ WriteShard(t) \/ NextLink(t)
             \/ WriteEdge(t) \/ Return(t) \/ CallFails(t)
      PROVE  stored' = stored /\ removed \subseteq removed' /\ excused \subseteq excused'
  <2>1. CASE PlanShard(t)
    BY <2>1 DEF PlanShard
  <2>2. CASE CallFails(t)
    BY <2>2 DEF CallFails
  <2>3. CASE (\E e \in UserEdges : BeginAddEdge(t, e)) \/ WriteShard(t) \/ NextLink(t) \/ WriteEdge(t) \/ Return(t)
    BY <2>3 DEF BeginAddEdge, WriteShard, NextLink, WriteEdge, Return
  <2>. QED
    BY <1>4, <2>1, <2>2, <2>3
<1>5. ASSUME NEW id \in Vertex, RemoveEverywhere(id)
      PROVE  stored' = stored /\ removed \subseteq removed' /\ excused \subseteq excused'
  BY <1>5 DEF RemoveEverywhere
<1>6. ASSUME CrashAndRecover
      PROVE  stored' = stored /\ removed \subseteq removed' /\ excused \subseteq excused'
  BY <1>6 DEF CrashAndRecover
<1>7. ASSUME UNCHANGED dcVars
      PROVE  stored' = stored /\ removed \subseteq removed' /\ excused \subseteq excused'
  BY <1>7 DEF dcVars
<1>. QED
  BY <1>1, <1>2, <1>3, <1>4, <1>5, <1>6, <1>7 DEF DCNext

\* Only the call that is about to write an id adds to its times.
LEMMA TimesShrink ==
    ASSUME DurableTypes, StagesSound, [DCNext]_dcVars, NEW id \in Vertex,
           ~ \E t \in Caller, at \in Time : BeginUpsert(t, id, at)
    PROVE  TimesOf(id)' \subseteq TimesOf(id)
<1>. DEFINE Waits(c) == c # NoCall /\ c.op = "upsert" /\ c.id = id /\ c.stage \in {"plan", "write"}
<1>1. ASSUME \A u \in Caller : Waits(call'[u]) => Waits(call[u]) /\ call'[u].at = call[u].at,
             At(id)' \in {0, At(id)}
      PROVE  TimesOf(id)' \subseteq TimesOf(id)
  BY <1>1 DEF TimesOf, Awaits, Upserting
<1>2. ASSUME NEW t \in Caller, call' = [call EXCEPT ![t] = call'[t]],
             Waits(call'[t]) => Waits(call[t]) /\ call'[t].at = call[t].at
      PROVE  \A u \in Caller : Waits(call'[u]) => Waits(call[u]) /\ call'[u].at = call[u].at
  BY <1>2 DEF DurableTypes
<1>3. Home[id] \in Shard
  BY DurableCollectionAssumption
<1>4. ASSUME shard' = shard PROVE At(id)' \in {0, At(id)}
  BY <1>4 DEF At
<1>5. ASSUME NEW t \in Caller, NEW x \in Vertex, NEW at \in Time, BeginUpsert(t, x, at) PROVE TimesOf(id)' \subseteq TimesOf(id)
  <2>1. call'[t].id = x /\ x # id /\ call' = [call EXCEPT ![t] = call'[t]]
    BY <1>5, BeginForm
  <2>2. shard' = shard
    BY <1>5 DEF BeginUpsert
  <2>. QED
    BY <1>1, <1>2, <1>4, <2>1, <2>2
<1>6. ASSUME NEW t \in Caller, NEW e \in UserEdges, BeginAddEdge(t, e) PROVE TimesOf(id)' \subseteq TimesOf(id)
  <2>1. call'[t].stage = "edge" /\ call' = [call EXCEPT ![t] = call'[t]]
    BY <1>6, BeginEdgeForm
  <2>2. shard' = shard
    BY <1>6 DEF BeginAddEdge
  <2>. QED
    BY <1>1, <1>2, <1>4, <2>1, <2>2
<1>7. ASSUME NEW t \in Caller, PlanShard(t) PROVE TimesOf(id)' \subseteq TimesOf(id)
  <2>1. /\ call[t] \in Upserts /\ call[t].stage = "plan" /\ call'[t].id = call[t].id /\ call'[t].at = call[t].at
        /\ call' = [call EXCEPT ![t] = call'[t]]
    BY <1>7, PlanForm
  <2>2. shard' = shard
    BY <1>7 DEF PlanShard
  <2>3. Waits(call'[t]) => Waits(call[t]) /\ call'[t].at = call[t].at
    BY <2>1, CallKinds DEF Upserts
  <2>. QED
    BY <1>1, <1>2, <1>4, <2>1, <2>2, <2>3
<1>8. ASSUME NEW t \in Caller, WriteShard(t) PROVE TimesOf(id)' \subseteq TimesOf(id)
  <2>1. /\ call[t] \in Upserts /\ call[t].stage = "write" /\ call'[t].stage = "link"
        /\ call' = [call EXCEPT ![t] = call'[t]]
        /\ \A s \in Shard, x \in Vertex :
              shard'[s].at[x] = IF s = Home[call[t].id] /\ x = call[t].id THEN call[t].at ELSE shard[s].at[x]
    BY <1>8, WriteForm
  <2>2. CASE call[t].id # id
    <3>1. At(id)' = At(id)
      BY <1>3, <2>1, <2>2 DEF At
    <3>. QED
      BY <1>1, <1>2, <2>1, <3>1
  <2>3. CASE call[t].id = id
    <3>1. At(id)' = call[t].at
      BY <1>3, <2>1, <2>3 DEF At
    <3>2. Waits(call[t])
      BY <2>1, <2>3, CallKinds DEF Upserts
    <3>3. \A u \in Caller : Waits(call'[u]) => Waits(call[u]) /\ call'[u].at = call[u].at
      BY <1>2, <2>1
    <3>. QED
      BY <3>1, <3>2, <3>3 DEF TimesOf, Awaits, Upserting
  <2>. QED
    BY <2>2, <2>3
<1>9. ASSUME NEW t \in Caller, NextLink(t) PROVE TimesOf(id)' \subseteq TimesOf(id)
  <2>1. call'[t].stage \in {"link", "edge"} /\ call' = [call EXCEPT ![t] = call'[t]]
    BY <1>9, NextForm
  <2>2. shard' = shard
    BY <1>9 DEF NextLink
  <2>. QED
    BY <1>1, <1>2, <1>4, <2>1, <2>2
<1>10. ASSUME NEW t \in Caller, WriteEdge(t) PROVE TimesOf(id)' \subseteq TimesOf(id)
  <2>1. /\ call'[t].stage \in {"link", "mirror"} /\ call' = [call EXCEPT ![t] = call'[t]]
        /\ \A s \in Shard : shard'[s].at = shard[s].at
    BY <1>10, WriteEdgeForm
  <2>2. At(id)' = At(id)
    BY <1>3, <2>1 DEF At
  <2>. QED
    BY <1>1, <1>2, <2>1, <2>2
<1>11. ASSUME NEW t \in Caller, Return(t) PROVE TimesOf(id)' \subseteq TimesOf(id)
  <2>1. call' = [call EXCEPT ![t] = call'[t]] /\ call'[t] = NoCall /\ shard' = shard
    BY <1>11 DEF Return, DurableTypes
  <2>. QED
    BY <1>1, <1>2, <1>4, <2>1
<1>15. ASSUME NEW t \in Caller, CallFails(t) PROVE TimesOf(id)' \subseteq TimesOf(id)
  BY <1>1, <1>2, <1>4, <1>15, FailForm
<1>12. ASSUME NEW x \in Vertex, RemoveEverywhere(x) PROVE TimesOf(id)' \subseteq TimesOf(id)
  <2>1. \A s \in Shard, y \in Vertex : shard'[s].at[y] = IF s = Home[x] /\ y = x THEN 0 ELSE shard[s].at[y]
    BY <1>12, RemoveForm
  <2>2. call' = call
    BY <1>12 DEF RemoveEverywhere
  <2>. QED
    BY <1>1, <1>3, <2>1, <2>2 DEF At
<1>13. CASE CrashAndRecover
  BY <1>1, <1>4, <1>13 DEF CrashAndRecover
<1>14. CASE UNCHANGED dcVars
  BY <1>1, <1>4, <1>14 DEF dcVars
<1>. QED
  BY <1>5, <1>6, <1>7, <1>8, <1>9, <1>10, <1>11, <1>12, <1>13, <1>14, <1>15 DEF DCNext

LEMMA TimesGrow ==
    ASSUME DurableTypes, StagesSound, NEW id \in Vertex, NEW t \in Caller, NEW at \in Time, BeginUpsert(t, id, at)
    PROVE  TimesOf(id)' \subseteq TimesOf(id) \cup {at}
<1>. DEFINE Waits(c) == c # NoCall /\ c.op = "upsert" /\ c.id = id /\ c.stage \in {"plan", "write"}
<1>1. call'[t].at = at /\ call' = [call EXCEPT ![t] = call'[t]]
  BY BeginForm
<1>2. shard' = shard
  BY DEF BeginUpsert
<1>3. \A u \in Caller : Waits(call'[u]) => call'[u].at = at \/ (Waits(call[u]) /\ call'[u].at = call[u].at)
  BY <1>1 DEF DurableTypes
<1>. QED
  BY <1>2, <1>3 DEF TimesOf, Awaits, Upserting, At

LEMMA OneTimeKept ==
    ASSUME DurableTypes, StagesSound, OneTime, [DCNext]_dcVars
    PROVE  OneTime'
<1>1. \A x \in Vertex : stored[x] \in Nat /\ stored'[x] \in Nat /\ stored'[x] >= stored[x]
  BY HistoriesGrow
<1>2. ASSUME NEW id \in Vertex
      PROVE  /\ stored'[id] = 0 => TimesOf(id)' = {}
             /\ stored'[id] = 1 => \A a, b \in TimesOf(id)' : a = b
  <2>1. CASE \E t \in Caller, at \in Time : BeginUpsert(t, id, at)
    <3>1. PICK t \in Caller, at \in Time : BeginUpsert(t, id, at)
      BY <2>1
    <3>2. stored'[id] = stored[id] + 1
      BY <3>1, BeginForm
    <3>3. TimesOf(id)' \subseteq TimesOf(id) \cup {at}
      BY <3>1, TimesGrow
    <3>4. stored'[id] = 1 => stored[id] = 0
      BY <1>1, <3>2
    <3>5. stored'[id] = 1 => TimesOf(id) = {}
      BY <3>4 DEF OneTime
    <3>6. stored'[id] # 0
      BY <1>1, <3>2
    <3>. QED
      BY <3>3, <3>5, <3>6
  <2>2. CASE ~ \E t \in Caller, at \in Time : BeginUpsert(t, id, at)
    <3>1. TimesOf(id)' \subseteq TimesOf(id)
      BY <2>2, TimesShrink
    <3>2. stored'[id] \in {0, 1} => stored[id] \in {0, 1} /\ (stored'[id] = 0 => stored[id] = 0)
      BY <1>1
    <3>3. stored[id] = 0 => TimesOf(id) = {}
      BY DEF OneTime
    <3>4. stored[id] = 1 => \A a, b \in TimesOf(id) : a = b
      BY DEF OneTime
    <3>. QED
      BY <3>1, <3>2, <3>3, <3>4
  <2>. QED
    BY <2>1, <2>2
<1>3. ASSUME NEW t \in Caller, call' = [call EXCEPT ![t] = call'[t]],
             call'[t] \in Upserts => stored'[call'[t].id] > 0
      PROVE  \A id \in Vertex, u \in Caller : Upserting(u)' /\ call'[u].id = id => stored'[id] > 0
  <2>1. SUFFICES ASSUME NEW u \in Caller, Upserting(u)', call'[u].id \in Vertex PROVE stored'[call'[u].id] > 0
    OBVIOUS
  <2>2. DurableTypes'
    BY TypesKept
  <2>3. call'[u] \in Upserts
    BY <2>1, <2>2 DEF DurableTypes, AddsEdge, Upserting
  <2>4. CASE u = t
    BY <1>3, <2>3, <2>4
  <2>5. CASE u # t
    <3>1. call'[u] = call[u]
      BY <1>3, <2>5 DEF DurableTypes
    <3>2. stored[call[u].id] > 0
      BY <2>1, <3>1 DEF OneTime, Upserting
    <3>. QED
      BY <1>1, <2>1, <3>1, <3>2
  <2>. QED
    BY <2>4, <2>5
<1>4. \A u \in Caller : call[u] \in Upserts => call[u].id \in Vertex /\ stored[call[u].id] > 0
  BY CallKinds DEF OneTime, Upserts
<1>5. \A id \in Vertex, u \in Caller : Upserting(u)' /\ call'[u].id = id => stored'[id] > 0
  <2>1. ASSUME NEW t \in Caller, NEW id \in Vertex, NEW at \in Time, BeginUpsert(t, id, at)
        PROVE  call'[t].id = id /\ stored'[id] > 0 /\ call' = [call EXCEPT ![t] = call'[t]]
    <3>1. call'[t].id = id /\ call' = [call EXCEPT ![t] = call'[t]] /\ stored'[id] = stored[id] + 1
      BY <2>1, BeginForm
    <3>. QED
      BY <1>1, <3>1
  <2>2. ASSUME NEW t \in Caller, NEW e \in UserEdges, BeginAddEdge(t, e)
        PROVE  call'[t] \in AddsEdge /\ call' = [call EXCEPT ![t] = call'[t]]
    BY <2>2, BeginEdgeForm
  <2>3. ASSUME NEW t \in Caller, PlanShard(t) \/ WriteShard(t) \/ NextLink(t)
        PROVE  call[t] \in Upserts /\ call'[t].id = call[t].id /\ call' = [call EXCEPT ![t] = call'[t]]
    <3>1. CASE PlanShard(t)
      BY <3>1, PlanForm
    <3>2. CASE WriteShard(t)
      BY <3>2, WriteForm
    <3>3. CASE NextLink(t)
      BY <3>3, NextForm
    <3>. QED
      BY <2>3, <3>1, <3>2, <3>3
  <2>4. ASSUME NEW t \in Caller, WriteEdge(t)
        PROVE  /\ (call[t] \in Upserts /\ call'[t].id = call[t].id) \/ call'[t] \in AddsEdge
               /\ call' = [call EXCEPT ![t] = call'[t]]
    BY <2>4, WriteEdgeForm
  <2>5. ASSUME NEW t \in Caller, Return(t)
        PROVE  call'[t] = NoCall /\ call' = [call EXCEPT ![t] = call'[t]]
    BY <2>5 DEF Return, DurableTypes
  <2>14. ASSUME NEW t \in Caller, CallFails(t)
        PROVE  call'[t] = NoCall /\ call' = [call EXCEPT ![t] = call'[t]]
    BY <2>14, FailForm
  <2>6. \A u \in Caller : call[u] \in Upserts => stored'[call[u].id] > 0
    BY <1>1, <1>4
  <2>7. \A c : c \in AddsEdge \/ c = NoCall => c \notin Upserts
    BY DEF AddsEdge, Upserts, NoCall
  <2>8. ASSUME call' = call PROVE \A id \in Vertex, u \in Caller : Upserting(u)' /\ call'[u].id = id => stored'[id] > 0
    BY <1>4, <2>6, <2>8, CallKinds DEF Upserting
  <2>9. CASE CrashAndRecover
    BY <2>9 DEF CrashAndRecover, Upserting
  <2>10. CASE UNCHANGED dcVars \/ \E id \in Vertex : RemoveEverywhere(id)
    BY <2>8, <2>10 DEF dcVars, RemoveEverywhere
  <2>11. ASSUME NEW t \in Caller, NEW id \in Vertex, NEW at \in Time, BeginUpsert(t, id, at)
         PROVE  \A x \in Vertex, u \in Caller : Upserting(u)' /\ call'[u].id = x => stored'[x] > 0
    BY <1>3, <2>1, <2>11
  <2>12. ASSUME NEW t \in Caller, (\E e \in UserEdges : BeginAddEdge(t, e)) \/ Return(t) \/ CallFails(t)
         PROVE  \A x \in Vertex, u \in Caller : Upserting(u)' /\ call'[u].id = x => stored'[x] > 0
    BY <1>3, <2>2, <2>5, <2>7, <2>12, <2>14
  <2>13. ASSUME NEW t \in Caller, PlanShard(t) \/ WriteShard(t) \/ NextLink(t) \/ WriteEdge(t)
         PROVE  \A x \in Vertex, u \in Caller : Upserting(u)' /\ call'[u].id = x => stored'[x] > 0
    BY <1>3, <2>3, <2>4, <2>6, <2>7, <2>13
  <2>. QED
    BY <2>9, <2>10, <2>11, <2>12, <2>13 DEF DCNext
<1>. QED
  BY <1>2, <1>5 DEF OneTime

LEMMA NewerKept ==
    ASSUME DurableTypes, StagesSound, [DCNext]_dcVars, NEW a \in Vertex, NEW b \in Vertex, Newer(a, b)
    PROVE  Newer(a, b)'
<1>1. /\ stored[a] \in Nat /\ stored'[a] \in Nat /\ stored'[a] >= stored[a]
      /\ stored[b] \in Nat /\ stored'[b] \in Nat /\ stored'[b] >= stored[b]
      /\ removed \subseteq removed'
  BY HistoriesGrow
<1>2. stored[a] > 0 /\ stored[b] > 0
  BY DEF Newer
<1>3. stored'[a] > 0 /\ stored'[b] > 0
  BY <1>1, <1>2
<1>4. CASE stored[a] > 1 \/ stored[b] > 1 \/ {a, b} \cap removed # {}
  <2>1. stored'[a] > 1 \/ stored'[b] > 1 \/ {a, b} \cap removed' # {}
    BY <1>1, <1>4
  <2>. QED
    BY <1>3, <2>1 DEF Newer
<1>5. CASE \E x \in {a, b} : \E t \in Caller, at \in Time : BeginUpsert(t, x, at)
  <2>1. PICK x \in {a, b} : \E t \in Caller, at \in Time : BeginUpsert(t, x, at)
    BY <1>5
  <2>2. stored'[x] = stored[x] + 1
    BY <2>1, BeginForm
  <2>3. stored'[x] > 1
    BY <1>1, <1>2, <2>2
  <2>. QED
    BY <1>3, <2>3 DEF Newer
<1>6. CASE /\ \A ta \in TimesOf(a), tb \in TimesOf(b) : tb <= ta
           /\ ~ \E x \in {a, b} : \E t \in Caller, at \in Time : BeginUpsert(t, x, at)
  <2>1. TimesOf(a)' \subseteq TimesOf(a) /\ TimesOf(b)' \subseteq TimesOf(b)
    BY <1>6, TimesShrink
  <2>. QED
    BY <1>3, <1>6, <2>1 DEF Newer
<1>. QED
  BY <1>4, <1>5, <1>6 DEF Newer

\* Edges stay until one of their ends is removed ...
LEMMA EdgeStays ==
    ASSUME DurableTypes, StagesSound, InPlace, [DCNext]_dcVars,
           NEW s \in Shard, NEW id \in Vertex, NEW e \in shard[s].graph.out[id],
           ~RemoveEverywhere(e.src), ~RemoveEverywhere(e.tgt)
    PROVE  e \in shard'[s].graph.out[id]
<1>1. ASSUME shard' = shard PROVE e \in shard'[s].graph.out[id]
  BY <1>1
<1>2. ASSUME NEW t \in Caller, WriteShard(t) PROVE e \in shard'[s].graph.out[id]
  <2>1. shard'[s].graph = shard[s].graph
    BY <1>2, WriteForm
  <2>. QED
    BY <2>1
<1>3. ASSUME NEW t \in Caller, WriteEdge(t) PROVE e \in shard'[s].graph.out[id]
  <2>1. \A r \in Shard, k \in Vertex :
           shard'[r].graph.out[k] = IF r = Home[EdgeAt(call[t].edge, call[t].stage).src] /\ k = EdgeAt(call[t].edge, call[t].stage).src
                                    THEN shard[r].graph.out[k] \cup {EdgeAt(call[t].edge, call[t].stage)}
                                    ELSE shard[r].graph.out[k]
    BY <1>3, WriteEdgeForm
  <2>. QED
    BY <2>1
<1>4. ASSUME NEW x \in Vertex, RemoveEverywhere(x) PROVE e \in shard'[s].graph.out[id]
  <2>1. e.src # x /\ e.tgt # x
    BY <1>4
  <2>2. \A r \in Shard : \A k \in Vertex :
           shard'[r].graph.out[k] = IF r = Home[x] THEN {l \in shard[r].graph.out[k] : l.src # x /\ l.tgt # x}
                                                   ELSE shard[r].graph.out[k]
    <3>1. \A r \in Shard : Mirrored(shard[r].graph)
      BY DEF InPlace
    <3>2. \A r \in Shard : Mirrored(shard[r].graph) =>
             \A k \in Vertex : shard'[r].graph.out[k] = IF r = Home[x] THEN {l \in shard[r].graph.out[k] : l.src # x /\ l.tgt # x}
                                                                     ELSE shard[r].graph.out[k]
      BY <1>4, RemoveForm
    <3>. QED
      BY <3>1, <3>2
  <2>3. shard'[s].graph.out[id] = IF s = Home[x] THEN {k \in shard[s].graph.out[id] : k.src # x /\ k.tgt # x}
                                                 ELSE shard[s].graph.out[id]
    BY <2>2
  <2>. QED
    BY <2>1, <2>3
<1>5. ASSUME NEW t \in Caller,
             (\/ \E x \in Vertex, at \in Time : BeginUpsert(t, x, at)
              \/ \E x \in UserEdges : BeginAddEdge(t, x)
              \/ PlanShard(t) \/ NextLink(t) \/ Return(t) \/ CallFails(t))
      PROVE  shard' = shard
  BY <1>5, ShardsStay
<1>6. CASE CrashAndRecover \/ UNCHANGED dcVars
  BY <1>1, <1>6 DEF CrashAndRecover, dcVars
<1>. QED
  BY <1>1, <1>2, <1>3, <1>4, <1>5, <1>6 DEF DCNext

\* ... and new ones are written by the calls.
LEMMA EdgeIsWritten ==
    ASSUME DurableTypes, StagesSound, InPlace, [DCNext]_dcVars,
           NEW s \in Shard, NEW id \in Vertex, NEW e \in shard'[s].graph.out[id], e \notin shard[s].graph.out[id]
    PROVE  \E t \in Caller : WriteEdge(t) /\ e = EdgeAt(call[t].edge, call[t].stage)
<1>1. shard' # shard
  OBVIOUS
<1>2. ASSUME NEW t \in Caller, WriteShard(t) PROVE FALSE
  <2>1. shard'[s].graph = shard[s].graph
    BY <1>2, WriteForm
  <2>. QED
    BY <2>1
<1>3. ASSUME NEW t \in Caller, WriteEdge(t) PROVE e = EdgeAt(call[t].edge, call[t].stage)
  <2>1. \A r \in Shard, k \in Vertex :
           shard'[r].graph.out[k] = IF r = Home[EdgeAt(call[t].edge, call[t].stage).src] /\ k = EdgeAt(call[t].edge, call[t].stage).src
                                    THEN shard[r].graph.out[k] \cup {EdgeAt(call[t].edge, call[t].stage)}
                                    ELSE shard[r].graph.out[k]
    BY <1>3, WriteEdgeForm
  <2>. QED
    BY ZenonT(60), <2>1
<1>4. ASSUME NEW x \in Vertex, RemoveEverywhere(x) PROVE FALSE
  <2>1. \A r \in Shard : \A k \in Vertex :
           shard'[r].graph.out[k] = IF r = Home[x] THEN {l \in shard[r].graph.out[k] : l.src # x /\ l.tgt # x}
                                                   ELSE shard[r].graph.out[k]
    BY <1>4, RemoveForm DEF InPlace
  <2>2. shard'[s].graph.out[id] = IF s = Home[x] THEN {k \in shard[s].graph.out[id] : k.src # x /\ k.tgt # x}
                                                 ELSE shard[s].graph.out[id]
    BY <2>1
  <2>. QED
    BY <2>2
<1>5. ASSUME NEW t \in Caller,
             (\/ \E x \in Vertex, at \in Time : BeginUpsert(t, x, at)
              \/ \E x \in UserEdges : BeginAddEdge(t, x)
              \/ PlanShard(t) \/ NextLink(t) \/ Return(t) \/ CallFails(t))
      PROVE  FALSE
  BY <1>1, <1>5, ShardsStay
<1>6. ~CrashAndRecover /\ ~UNCHANGED dcVars
  BY <1>1 DEF CrashAndRecover, dcVars
<1>. QED
  BY <1>2, <1>3, <1>4, <1>5, <1>6 DEF DCNext

\* A call goes on with what it was asked to write.
LEMMA UpsertStays ==
    ASSUME DurableTypes, StagesSound, [DCNext]_dcVars, NEW u \in Caller, Upserting(u)'
    PROVE  \/ Upserting(u) /\ call'[u].id = call[u].id /\ call'[u].at = call[u].at
           \/ \E id \in Vertex, at \in Time : BeginUpsert(u, id, at)
<1>. DEFINE Goal == \/ Upserting(u) /\ call'[u].id = call[u].id /\ call'[u].at = call[u].at
                    \/ \E id \in Vertex, at \in Time : BeginUpsert(u, id, at)
<1>1. ASSUME call'[u] = call[u] PROVE Goal
  BY <1>1 DEF Upserting
<1>2. ASSUME NEW t \in Caller, t # u, call' = [call EXCEPT ![t] = call'[t]] PROVE Goal
  BY <1>1, <1>2 DEF DurableTypes
<1>3. ASSUME call[u] \in Upserts, call'[u].id = call[u].id, call'[u].at = call[u].at PROVE Goal
  BY <1>3, CallKinds
<1>4. ASSUME NEW t \in Caller, NEW id \in Vertex, NEW at \in Time, BeginUpsert(t, id, at) PROVE Goal
  BY <1>2, <1>4, BeginForm
<1>5. ASSUME NEW t \in Caller, NEW e \in UserEdges, BeginAddEdge(t, e) PROVE Goal
  <2>1. call'[t] \in AddsEdge /\ call' = [call EXCEPT ![t] = call'[t]]
    BY <1>5, BeginEdgeForm
  <2>2. t # u
    BY <2>1 DEF AddsEdge, Upserting
  <2>. QED
    BY <1>2, <2>1, <2>2
<1>6. ASSUME NEW t \in Caller, PlanShard(t) PROVE Goal
  BY <1>2, <1>3, <1>6, PlanForm
<1>7. ASSUME NEW t \in Caller, WriteShard(t) PROVE Goal
  BY <1>2, <1>3, <1>7, WriteForm
<1>8. ASSUME NEW t \in Caller, NextLink(t) PROVE Goal
  BY <1>2, <1>3, <1>8, NextForm
<1>9. ASSUME NEW t \in Caller, WriteEdge(t) PROVE Goal
  <2>1. /\ call[t] \in Upserts \/ call'[t] \in AddsEdge
        /\ call[t] \in Upserts => call'[t].id = call[t].id /\ call'[t].at = call[t].at
        /\ call' = [call EXCEPT ![t] = call'[t]]
    BY <1>9, WriteEdgeForm
  <2>2. t = u => call'[t] \notin AddsEdge
    BY DEF AddsEdge, Upserting
  <2>. QED
    BY <1>2, <1>3, <2>1, <2>2
<1>10. ASSUME NEW t \in Caller, Return(t) PROVE Goal
  <2>1. call'[t] = NoCall /\ call' = [call EXCEPT ![t] = call'[t]]
    BY <1>10 DEF Return, DurableTypes
  <2>. QED
    BY <1>2, <2>1 DEF Upserting
<1>13. ASSUME NEW t \in Caller, CallFails(t) PROVE Goal
  BY <1>2, <1>13, FailForm DEF Upserting
<1>11. ~CrashAndRecover
  BY DEF CrashAndRecover, Upserting
<1>12. CASE UNCHANGED dcVars \/ \E id \in Vertex : RemoveEverywhere(id)
  BY <1>1, <1>12 DEF dcVars, RemoveEverywhere
<1>. QED
  BY <1>4, <1>5, <1>6, <1>7, <1>8, <1>9, <1>10, <1>11, <1>12, <1>13 DEF DCNext

LEMMA OverlapsKept ==
    ASSUME DurableTypes, StagesSound, OverlapsKnown, [DCNext]_dcVars
    PROVE  OverlapsKnown'
<1>. SUFFICES ASSUME NEW t \in Caller, NEW u \in Caller, Upserting(t)', Upserting(u)', call'[t].id # call'[u].id
              PROVE  {call'[t].id, call'[u].id} \in excused'
  BY DEF OverlapsKnown
<1>1. excused \subseteq excused'
  BY HistoriesGrow
<1>2. ASSUME NEW a \in Caller, NEW b \in Caller, NEW id \in Vertex, NEW at \in Time, BeginUpsert(a, id, at),
             Upserting(b)', a # b
      PROVE  {call'[a].id, call'[b].id} \in excused'
  <2>1. call'[a].id = id /\ call'[b] = call[b]
    BY <1>2, BeginForm DEF DurableTypes
  <2>2. Upserting(b)
    BY <1>2, <2>1 DEF Upserting
  <2>. QED
    BY <1>2, <2>1, <2>2 DEF BeginUpsert
<1>3. CASE \E id \in Vertex, at \in Time : BeginUpsert(t, id, at)
  BY <1>2, <1>3
<1>4. CASE \E id \in Vertex, at \in Time : BeginUpsert(u, id, at)
  <2>1. {call'[u].id, call'[t].id} \in excused'
    BY <1>2, <1>4
  <2>2. {call'[u].id, call'[t].id} = {call'[t].id, call'[u].id}
    OBVIOUS
  <2>. QED
    BY <2>1, <2>2
<1>5. CASE /\ Upserting(t) /\ call'[t].id = call[t].id
           /\ Upserting(u) /\ call'[u].id = call[u].id
  BY <1>1, <1>5 DEF OverlapsKnown
<1>. QED
  BY <1>3, <1>4, <1>5, UpsertStays

-----------------------------------------------------------------------------
\* What a search plans to link are the newer and the older of two versions.
LEMMA PlanSound ==
    ASSUME DurableTypes, StagesSound, InPlace, OneTime, NEW t \in Caller, PlanShard(t),
           NEW found \in SUBSET VectorsOf(shard[call[t].next]),
           NEW l \in Plan(call[t].id, call[t].at, shard[call[t].next], found)
    PROVE  l[1] \in Vertex /\ l[2] \in Vertex /\ Newer(l[1], l[2])
<1>. PICK x : x = call[t].id
  OBVIOUS
<1>. PICK at : at = call[t].at
  OBVIOUS
<1>1. /\ call[t] \in Upserts /\ call[t].stage = "plan" /\ call[t].next \in Shard
      /\ x \in Vertex /\ at \in Nat /\ Upserting(t)
  BY PlanForm, CallKinds DEF Upserts
<1>2. PICK y \in Vertex \ {x} : shard[call[t].next].at[y] > 0 /\ l = Link(x, at, y, shard[call[t].next].at[y])
  BY DEF Plan, VectorsOf
<1>3. Home[y] = call[t].next
  BY <1>1, <1>2 DEF InPlace
<1>4. l = IF At(y) <= at THEN <<x, y>> ELSE <<y, x>>
  BY <1>2, <1>3 DEF Link, At
<1>5. At(y) \in Nat /\ At(y) > 0
  BY <1>1, <1>2, <1>3 DEF DurableTypes, At
<1>6. Awaits(t, x)
  BY <1>1 DEF Awaits
<1>7. at \in TimesOf(x) /\ At(y) \in TimesOf(y)
  BY <1>5, <1>6 DEF TimesOf
<1>8. /\ stored[x] \in Nat /\ stored[y] \in Nat
      /\ stored[x] # 0 /\ stored[y] # 0
  BY <1>1, <1>2, <1>7 DEF DurableTypes, OneTime
<1>9. ASSUME stored[x] = 1, stored[y] = 1
      PROVE  (\A a \in TimesOf(x) : a = at) /\ \A b \in TimesOf(y) : b = At(y)
  BY <1>1, <1>2, <1>7, <1>9 DEF OneTime
<1>10. (stored[x] > 1 \/ stored[y] > 1) \/ (stored[x] = 1 /\ stored[y] = 1)
  BY <1>8
<1>11. ASSUME NEW n \in {x, y}, NEW o \in {x, y},
              stored[x] = 1 /\ stored[y] = 1 => \A tn \in TimesOf(n), to \in TimesOf(o) : to <= tn
       PROVE  Newer(n, o) \/ n = o
  <2>1. n = o \/ (n = x /\ o = y) \/ (n = y /\ o = x)
    BY <1>11
  <2>. QED
    BY <1>8, <1>10, <1>11, <2>1 DEF Newer
<1>12. CASE At(y) <= at
  <2>1. stored[x] = 1 /\ stored[y] = 1 => \A tn \in TimesOf(x), to \in TimesOf(y) : to <= tn
    BY <1>9, <1>12
  <2>2. Newer(x, y)
    BY <1>2, <1>11, <2>1
  <2>. QED
    BY <1>1, <1>2, <1>4, <1>12, <2>2
<1>13. CASE ~(At(y) <= at)
  <2>1. at <= At(y)
    BY <1>1, <1>5, <1>13
  <2>2. stored[x] = 1 /\ stored[y] = 1 => \A tn \in TimesOf(y), to \in TimesOf(x) : to <= tn
    BY <1>9, <2>1
  <2>3. Newer(y, x)
    BY <1>2, <1>11, <2>2
  <2>. QED
    BY <1>1, <1>2, <1>4, <1>13, <2>3
<1>. QED
  BY <1>12, <1>13

LEMMA WrittenSound ==
    ASSUME DurableTypes, StagesSound, LinksSound, NEW t \in Caller, WriteEdge(t)
    PROVE  EdgeSound(EdgeAt(call[t].edge, call[t].stage))
<1>. PICK c : c = call[t].edge
  OBVIOUS
<1>1. call[t].stage \in {"edge", "mirror"} /\ c \in Edges /\ EdgeSound(c)
  BY DEF WriteEdge, StagesSound, LinksSound
<1>2. c.type \in {"UPDATES", "CONTRADICTS"}
  BY <1>1, CallKinds DEF StagesSound, AddsEdge, Upserts, NoCall
<1>3. EdgeSound(MirrorOf(c))
  BY <1>1, <1>2, MirrorTyped DEF EdgeSound
<1>. QED
  BY <1>1, <1>3 DEF EdgeAt

LEMMA LinksKept ==
    ASSUME DurableTypes, StagesSound, InPlace, OneTime, LinksSound, [DCNext]_dcVars
    PROVE  LinksSound'
<1>1. DurableTypes' /\ StagesSound'
  BY TypesKept, StagesKept
<1>2. ASSUME NEW e \in Edges, EdgeSound(e) PROVE EdgeSound(e)'
  <2>1. e.src \in Vertex /\ e.tgt \in Vertex
    BY DEF Edges
  <2>. QED
    BY <1>2, <2>1, NewerKept DEF EdgeSound
<1>3. ASSUME NEW s \in Shard, NEW id \in Vertex, NEW e \in shard'[s].graph.out[id] PROVE EdgeSound(e)'
  <2>1. e \in Edges
    BY <1>1 DEF DurableTypes, GraphsTyped
  <2>2. CASE e \in shard[s].graph.out[id]
    BY <1>2, <2>1, <2>2 DEF LinksSound
  <2>3. CASE e \notin shard[s].graph.out[id]
    <3>1. PICK t \in Caller : WriteEdge(t) /\ e = EdgeAt(call[t].edge, call[t].stage)
      BY <2>3, EdgeIsWritten
    <3>2. EdgeSound(e)
      BY <3>1, WrittenSound
    <3>. QED
      BY <1>2, <2>1, <3>2
  <2>. QED
    BY <2>2, <2>3
<1>. DEFINE Sound(c) == /\ c # NoCall => \A l \in c.links : l[1] \in Vertex /\ l[2] \in Vertex /\ Newer(l[1], l[2])
                        /\ c.stage \in {"edge", "mirror"} => c.edge \in Edges /\ EdgeSound(c.edge)
<1>5. \A u \in Caller : Sound(call[u])
  <2>1. \A u \in Caller : call[u] # NoCall => \A l \in call[u].links : l[1] \in Vertex /\ l[2] \in Vertex
    BY CallKinds DEF Upserts, AddsEdge
  <2>. QED
    BY <2>1 DEF LinksSound, StagesSound
<1>6. ASSUME NEW t \in Caller, call' = [call EXCEPT ![t] = call'[t]], Sound(call'[t]) PROVE \A u \in Caller : Sound(call'[u])
  BY <1>5, <1>6 DEF DurableTypes
<1>7. \A u \in Caller : Sound(call'[u])
  <2>1. ASSUME NEW t \in Caller, NEW id \in Vertex, NEW at \in Time, BeginUpsert(t, id, at) PROVE \A u \in Caller : Sound(call'[u])
    <3>1. call'[t].stage = "plan" /\ call'[t].links = {} /\ call' = [call EXCEPT ![t] = call'[t]]
      BY <2>1, BeginForm
    <3>. QED
      BY <1>6, <3>1
  <2>2. ASSUME NEW t \in Caller, NEW e \in UserEdges, BeginAddEdge(t, e) PROVE \A u \in Caller : Sound(call'[u])
    <3>1. /\ call'[t] \in AddsEdge /\ call'[t].edge = e /\ e \in Edges /\ e.type = "CONTRADICTS"
          /\ call' = [call EXCEPT ![t] = call'[t]]
      BY <2>2, BeginEdgeForm
    <3>2. call'[t].links = {} /\ EdgeSound(e)
      BY <3>1 DEF AddsEdge, EdgeSound
    <3>3. Sound(call'[t])
      BY <3>1, <3>2
    <3>. QED
      BY <1>6, <3>1, <3>3
  <2>3. ASSUME NEW t \in Caller, PlanShard(t) PROVE \A u \in Caller : Sound(call'[u])
    <3>1. PICK found \in SUBSET VectorsOf(shard[call[t].next]) :
          /\ call'[t].links = call[t].links \cup Plan(call[t].id, call[t].at, shard[call[t].next], found)
          /\ call'[t].stage \in {"plan", "write"} /\ call[t] \in Upserts
          /\ call' = [call EXCEPT ![t] = call'[t]]
      BY <2>3, PlanForm
    <3>2. \A l \in call[t].links : l[1] \in Vertex /\ l[2] \in Vertex /\ Newer(l[1], l[2])
      BY <1>5, <3>1, CallKinds
    <3>3. \A l \in Plan(call[t].id, call[t].at, shard[call[t].next], found) : l[1] \in Vertex /\ l[2] \in Vertex /\ Newer(l[1], l[2])
      BY <2>3, PlanSound
    <3>4. Sound(call'[t])
      BY <3>1, <3>2, <3>3
    <3>. QED
      BY <1>6, <3>1, <3>4
  <2>4. ASSUME NEW t \in Caller, WriteShard(t) PROVE \A u \in Caller : Sound(call'[u])
    <3>1. /\ call'[t].links = call[t].links /\ call'[t].stage = "link" /\ call[t] \in Upserts
          /\ call' = [call EXCEPT ![t] = call'[t]]
      BY <2>4, WriteForm
    <3>2. Sound(call'[t])
      BY <1>5, <3>1, CallKinds
    <3>. QED
      BY <1>6, <3>1, <3>2
  <2>5. ASSUME NEW t \in Caller, NextLink(t) PROVE \A u \in Caller : Sound(call'[u])
    <3>1. PICK link \in call[t].links :
             /\ call'[t].links = call[t].links \ {link} /\ call[t] \in Upserts
             /\ call'[t].edge = Edge(link[1], link[2], "UPDATES") /\ call'[t].edge \in Edges
             /\ call' = [call EXCEPT ![t] = call'[t]]
      BY <2>5, NextForm
    <3>2. \A l \in call[t].links : l[1] \in Vertex /\ l[2] \in Vertex /\ Newer(l[1], l[2])
      BY <1>5, <3>1, CallKinds
    <3>3. EdgeSound(call'[t].edge)
      BY <3>1, <3>2 DEF EdgeSound, Edge
    <3>4. Sound(call'[t])
      BY <3>1, <3>2, <3>3
    <3>. QED
      BY <1>6, <3>1, <3>4
  <2>6. ASSUME NEW t \in Caller, WriteEdge(t) PROVE \A u \in Caller : Sound(call'[u])
    <3>1. /\ call'[t].links = call[t].links /\ call'[t].edge = call[t].edge /\ call[t].stage \in {"edge", "mirror"}
          /\ call' = [call EXCEPT ![t] = call'[t]]
      BY <2>6, WriteEdgeForm
    <3>2. Sound(call[t]) /\ call[t] # NoCall
      BY <1>5, <3>1 DEF NoCall
    <3>3. Sound(call'[t])
      BY <3>1, <3>2
    <3>. QED
      BY <1>6, <3>1, <3>3
  <2>7. ASSUME NEW t \in Caller, Return(t) PROVE \A u \in Caller : Sound(call'[u])
    <3>1. call'[t] = NoCall /\ call' = [call EXCEPT ![t] = call'[t]]
      BY <2>7 DEF Return, DurableTypes
    <3>2. Sound(NoCall)
      BY DEF NoCall
    <3>. QED
      BY <1>6, <3>1, <3>2
  <2>10. ASSUME NEW t \in Caller, CallFails(t) PROVE \A u \in Caller : Sound(call'[u])
    <3>1. call'[t] = NoCall /\ call' = [call EXCEPT ![t] = call'[t]]
      BY <2>10, FailForm
    <3>2. Sound(NoCall)
      BY DEF NoCall
    <3>. QED
      BY <1>6, <3>1, <3>2
  <2>8. CASE CrashAndRecover
    BY <2>8 DEF CrashAndRecover, NoCall
  <2>9. CASE UNCHANGED dcVars \/ \E id \in Vertex : RemoveEverywhere(id)
    BY <1>5, <2>9 DEF dcVars, RemoveEverywhere
  <2>. HIDE DEF Sound
  <2>. QED
    BY <2>1, <2>2, <2>3, <2>4, <2>5, <2>6, <2>7, <2>8, <2>9, <2>10 DEF DCNext
<1>8. ASSUME NEW u \in Caller
      PROVE  /\ (call[u] # NoCall => \A l \in call[u].links : Newer(l[1], l[2]))'
             /\ (call[u].stage \in {"edge", "mirror"} => EdgeSound(call[u].edge))'
  <2>1. PICK c : c = call'[u]
    OBVIOUS
  <2>2. Sound(c)
    BY <1>7, <2>1
  <2>3. c # NoCall => \A l \in c.links : Newer(l[1], l[2])'
    BY <2>2, NewerKept
  <2>4. c.stage \in {"edge", "mirror"} => EdgeSound(c.edge)'
    BY <1>2, <2>2
  <2>. QED
    BY <2>1, <2>3, <2>4
<1>. QED
  BY <1>3, <1>8 DEF LinksSound

LEMMA UpdatesKept ==
    ASSUME DurableTypes, StagesSound, InPlace, UpdatesFirst, [DCNext]_dcVars
    PROVE  UpdatesFirst'
<1>1. removed \subseteq removed' /\ \A x \in Vertex : RemoveEverywhere(x) => x \in removed'
  BY HistoriesGrow DEF RemoveEverywhere
<1>2. ASSUME NEW n \in Vertex \ removed', NEW o \in Vertex \ removed', HasUpdates(n, o) PROVE HasUpdates(n, o)'
  <2>1. PICK e : e = Edge(n, o, "UPDATES")
    OBVIOUS
  <2>2. e.src = n /\ e.tgt = o /\ Home[n] \in Shard
    BY <2>1, DurableCollectionAssumption DEF Edge
  <2>3. e \in shard'[Home[n]].graph.out[n]
    BY <1>1, <1>2, <2>1, <2>2, EdgeStays DEF HasUpdates
  <2>. QED
    BY <2>1, <2>3 DEF HasUpdates
<1>3. ASSUME NEW x \in Vertex \ removed', NEW y \in Vertex \ removed',
             Edge(x, y, "SUPERSEDED_BY") \in shard'[Home[x]].graph.out[x]
      PROVE  HasUpdates(y, x)'
  <2>1. CASE Edge(x, y, "SUPERSEDED_BY") \in shard[Home[x]].graph.out[x]
    BY <1>1, <1>2, <2>1 DEF UpdatesFirst
  <2>2. CASE Edge(x, y, "SUPERSEDED_BY") \notin shard[Home[x]].graph.out[x]
    <3>1. PICK t \in Caller : WriteEdge(t) /\ Edge(x, y, "SUPERSEDED_BY") = EdgeAt(call[t].edge, call[t].stage)
      BY <1>3, <2>2, EdgeIsWritten, DurableCollectionAssumption
    <3>2. call[t].stage \in {"edge", "mirror"} /\ call[t].edge \in Edges /\ (call[t] \in Upserts \/ call[t] \in AddsEdge)
      BY <3>1, WriteEdgeForm
    <3>3. call[t].edge.type = (IF Upserting(t) THEN "UPDATES" ELSE "CONTRADICTS")
      BY <3>2, CallKinds DEF StagesSound, AddsEdge
    <3>4. call[t].stage = "mirror" /\ Upserting(t)
      BY <3>1, <3>2, <3>3, MirrorTyped DEF EdgeAt, Edge
    <3>5. call[t].edge = Edge(y, x, "UPDATES")
      BY <3>1, <3>2, <3>3, <3>4 DEF EdgeAt, MirrorOf, Edge, Edges
    <3>6. HasUpdates(y, x)
      BY <1>1, <3>4, <3>5 DEF UpdatesFirst
    <3>. QED
      BY <1>2, <3>6
  <2>. QED
    BY <2>1, <2>2
<1>4. ASSUME NEW u \in Caller, NEW n \in Vertex \ removed', NEW o \in Vertex \ removed',
             Upserting(u)', call'[u].stage = "mirror", call'[u].edge = Edge(n, o, "UPDATES")
      PROVE  HasUpdates(n, o)'
  <2>1. ASSUME call'[u] = call[u] PROVE HasUpdates(n, o)'
    <3>1. HasUpdates(n, o)
      BY <1>1, <1>4, <2>1 DEF UpdatesFirst, Upserting
    <3>. QED
      BY <1>2, <3>1
  <2>2. ASSUME NEW t \in Caller, call' = [call EXCEPT ![t] = call'[t]], t # u PROVE HasUpdates(n, o)'
    BY <2>1, <2>2 DEF DurableTypes
  <2>3. ASSUME NEW t \in Caller, call' = [call EXCEPT ![t] = call'[t]], call'[t].stage # "mirror" PROVE HasUpdates(n, o)'
    BY <1>4, <2>2, <2>3
  <2>4. ASSUME NEW t \in Caller, (\E id \in Vertex, at \in Time : BeginUpsert(t, id, at)) PROVE HasUpdates(n, o)'
    BY <2>3, <2>4, BeginForm
  <2>5. ASSUME NEW t \in Caller, (\E e \in UserEdges : BeginAddEdge(t, e)) PROVE HasUpdates(n, o)'
    BY <2>3, <2>5, BeginEdgeForm
  <2>6. ASSUME NEW t \in Caller, PlanShard(t) PROVE HasUpdates(n, o)'
    BY <2>3, <2>6, PlanForm
  <2>7. ASSUME NEW t \in Caller, WriteShard(t) PROVE HasUpdates(n, o)'
    BY <2>3, <2>7, WriteForm
  <2>8. ASSUME NEW t \in Caller, NextLink(t) PROVE HasUpdates(n, o)'
    BY <2>3, <2>8, NextForm
  <2>9. ASSUME NEW t \in Caller, WriteEdge(t) PROVE HasUpdates(n, o)'
    <3>1. /\ call' = [call EXCEPT ![t] = call'[t]] /\ call'[t].edge = call[t].edge
          /\ call'[t].stage = IF call[t].stage = "edge" /\ MirrorsEdge(call[t].edge) THEN "mirror" ELSE "link"
          /\ \A r \in Shard, k \in Vertex :
                shard'[r].graph.out[k] = IF r = Home[EdgeAt(call[t].edge, call[t].stage).src]
                                            /\ k = EdgeAt(call[t].edge, call[t].stage).src
                                         THEN shard[r].graph.out[k] \cup {EdgeAt(call[t].edge, call[t].stage)}
                                         ELSE shard[r].graph.out[k]
      BY <2>9, WriteEdgeForm
    <3>2. CASE t # u
      BY <2>2, <3>1, <3>2
    <3>3. CASE t = u
      <4>1. call[t].stage = "edge" /\ EdgeAt(call[t].edge, call[t].stage) = Edge(n, o, "UPDATES")
        BY <1>4, <3>1, <3>3 DEF EdgeAt
      <4>2. Edge(n, o, "UPDATES").src = n /\ Home[n] \in Shard
        BY DurableCollectionAssumption DEF Edge
      <4>3. Edge(n, o, "UPDATES") \in shard'[Home[n]].graph.out[n]
        BY <3>1, <4>1, <4>2
      <4>. QED
        BY <4>3 DEF HasUpdates
    <3>. QED
      BY <3>2, <3>3
  <2>10. ASSUME NEW t \in Caller, Return(t) PROVE HasUpdates(n, o)'
    <3>1. call'[t] = NoCall /\ call' = [call EXCEPT ![t] = call'[t]]
      BY <2>10 DEF Return, DurableTypes
    <3>. QED
      BY <2>3, <3>1 DEF NoCall
  <2>13. ASSUME NEW t \in Caller, CallFails(t) PROVE HasUpdates(n, o)'
    BY <2>3, <2>13, FailForm DEF NoCall
  <2>11. ~CrashAndRecover
    BY <1>4 DEF CrashAndRecover, Upserting
  <2>12. CASE UNCHANGED dcVars \/ \E id \in Vertex : RemoveEverywhere(id)
    BY <2>1, <2>12 DEF dcVars, RemoveEverywhere
  <2>. QED
    BY <2>4, <2>5, <2>6, <2>7, <2>8, <2>9, <2>10, <2>11, <2>12, <2>13 DEF DCNext
<1>. QED
  BY <1>3, <1>4 DEF UpdatesFirst

\* What a call has not linked yet must be in its plan.
LEMMA PlanKept ==
    ASSUME DurableTypes, StagesSound, InPlace, OverlapsKnown, PlanComplete, [DCNext]_dcVars
    PROVE  PlanComplete'
<1>. DEFINE Planned(t, y) ==
               Upserting(t) /\ call[t].stage \in {"plan", "write"} /\ y # call[t].id
               /\ Present(y) /\ {call[t].id, y} \notin excused /\ (call[t].stage = "write" \/ Home[y] < call[t].next) =>
                   Link(call[t].id, call[t].at, y, At(y)) \in call[t].links
<1>. SUFFICES ASSUME NEW u \in Caller, NEW y \in Vertex,
                     Upserting(u)', call'[u].stage \in {"plan", "write"}, y # call'[u].id,
                     Present(y)', {call'[u].id, y} \notin excused', call'[u].stage = "write" \/ Home[y] < call'[u].next
              PROVE  Link(call'[u].id, call'[u].at, y, At(y)') \in call'[u].links
  BY DEF PlanComplete
<1>1. Home[y] \in Shard /\ Home[y] \in Nat
  BY DurableCollectionAssumption
<1>2. excused \subseteq excused'
  BY HistoriesGrow
<1>. DEFINE Goal == Link(call'[u].id, call'[u].at, y, At(y)') \in call'[u].links
<1>3. ASSUME call'[u] = call[u], At(y)' = At(y), Present(y) PROVE Goal
  BY <1>2, <1>3 DEF PlanComplete, Upserting
<1>4. ASSUME NEW t \in Caller, call' = [call EXCEPT ![t] = call'[t]], t # u \/ call'[t].stage \notin {"plan", "write"} PROVE call'[u] = call[u]
  BY <1>4 DEF DurableTypes
<1>5. ASSUME shard' = shard PROVE At(y)' = At(y) /\ Present(y)
  BY <1>5 DEF At, Present
<1>6. ASSUME NEW t \in Caller, NEW id \in Vertex, NEW at \in Time, BeginUpsert(t, id, at) PROVE Goal
  <2>1. /\ call'[t].stage = "plan" /\ call'[t].next = 0
        /\ call' = [call EXCEPT ![t] = call'[t]]
    BY <1>6, BeginForm
  <2>2. t # u
    BY <1>1, <2>1
  <2>3. shard' = shard
    BY <1>6 DEF BeginUpsert
  <2>. QED
    BY <1>3, <1>4, <1>5, <2>1, <2>2, <2>3
<1>7. ASSUME NEW t \in Caller, NEW e \in UserEdges, BeginAddEdge(t, e) PROVE Goal
  <2>1. call'[t].stage = "edge" /\ call' = [call EXCEPT ![t] = call'[t]]
    BY <1>7, BeginEdgeForm
  <2>2. shard' = shard
    BY <1>7 DEF BeginAddEdge
  <2>. QED
    BY <1>3, <1>4, <1>5, <2>1, <2>2
<1>8. ASSUME NEW t \in Caller, PlanShard(t) PROVE Goal
  <2>1. shard' = shard
    BY <1>8 DEF PlanShard
  <2>2. PICK found \in SUBSET VectorsOf(shard[call[t].next]) :
        /\ call[t] \in Upserts /\ call[t].stage = "plan" /\ call[t].next \in Shard /\ call[t].next \in Nat
        /\ call'[t].id = call[t].id /\ call'[t].at = call[t].at /\ call'[t].next = call[t].next + 1
        /\ call'[t].links = call[t].links \cup Plan(call[t].id, call[t].at, shard[call[t].next], found)
        /\ excused' = excused \cup LeftOut(call[t].id, shard[call[t].next], found)
        /\ call'[t].stage = IF call[t].next + 1 \in Shard THEN "plan" ELSE "write"
        /\ call' = [call EXCEPT ![t] = call'[t]]
    BY <1>8, PlanForm DEF Upserts
  <2>3. CASE t # u
    BY <1>3, <1>4, <1>5, <2>1, <2>2, <2>3
  <2>4. CASE t = u
    <3>1. Home[y] <= call[u].next
      <4>1. CASE call'[u].stage = "write"
        <5>1. call[u].next + 1 \notin Shard
          BY <2>2, <2>4, <4>1
        <5>2. 0..Home[y] \subseteq Shard
          BY <1>1, DurableCollectionAssumption
        <5>3. call[u].next + 1 \notin 0..Home[y]
          BY <5>1, <5>2
        <5>. QED
          BY <1>1, <2>2, <2>4, <5>3
      <4>2. CASE Home[y] < call'[u].next
        BY <1>1, <2>2, <2>4, <4>2
      <4>. QED
        BY <4>1, <4>2
    <3>2. At(y)' = At(y) /\ Present(y)
      BY <1>5, <2>1
    <3>3. CASE Home[y] < call[u].next
      <4>1. Link(call[u].id, call[u].at, y, At(y)) \in call[u].links
        BY <1>2, <2>2, <2>4, <3>2, <3>3, CallKinds DEF PlanComplete
      <4>. QED
        BY <2>2, <2>4, <3>2, <4>1
    <3>4. CASE Home[y] = call[u].next
      <4>1. shard[call[u].next].at[y] = At(y) /\ At(y) > 0
        BY <3>2, <3>4 DEF At, Present
      <4>2. y \in found
        BY <2>2, <2>4, <4>1 DEF VectorsOf, LeftOut
      <4>3. Link(call[u].id, call[u].at, y, At(y)) \in Plan(call[u].id, call[u].at, shard[call[u].next], found)
        BY <2>2, <2>4, <4>1, <4>2 DEF Plan
      <4>. QED
        BY <2>2, <2>4, <3>2, <4>3
    <3>. QED
      BY <1>1, <2>2, <2>4, <3>1, <3>3, <3>4
  <2>. QED
    BY <2>3, <2>4
<1>9. ASSUME NEW t \in Caller, WriteShard(t) PROVE Goal
  <2>1. /\ call[t] \in Upserts /\ call'[t].stage = "link" /\ call' = [call EXCEPT ![t] = call'[t]]
        /\ \A s \in Shard, x \in Vertex :
              shard'[s].at[x] = IF s = Home[call[t].id] /\ x = call[t].id THEN call[t].at ELSE shard[s].at[x]
    BY <1>9, WriteForm
  <2>2. call'[u] = call[u]
    BY <1>4, <2>1
  <2>3. Upserting(u) /\ Upserting(t)
    BY <2>1, <2>2, CallKinds DEF Upserting
  <2>4. y # call[t].id
    <3>1. ASSUME y = call[t].id PROVE FALSE
      <4>1. {call[u].id, call[t].id} \in excused
        BY <2>2, <2>3, <3>1 DEF OverlapsKnown
      <4>. QED
        BY <1>2, <2>2, <3>1, <4>1
    <3>. QED
      BY <3>1
  <2>5. At(y)' = At(y) /\ Present(y)
    BY <1>1, <2>1, <2>4 DEF At, Present
  <2>. QED
    BY <1>3, <2>2, <2>5
<1>10. ASSUME NEW t \in Caller, NextLink(t) PROVE Goal
  <2>1. call'[t].stage \in {"link", "edge"} /\ call' = [call EXCEPT ![t] = call'[t]]
    BY <1>10, NextForm
  <2>2. shard' = shard
    BY <1>10 DEF NextLink
  <2>. QED
    BY <1>3, <1>4, <1>5, <2>1, <2>2
<1>11. ASSUME NEW t \in Caller, WriteEdge(t) PROVE Goal
  <2>1. call'[t].stage \in {"link", "mirror"} /\ call' = [call EXCEPT ![t] = call'[t]]
        /\ \A s \in Shard : shard'[s].at = shard[s].at
    BY <1>11, WriteEdgeForm
  <2>2. At(y)' = At(y) /\ Present(y)
    BY <1>1, <2>1 DEF At, Present
  <2>. QED
    BY <1>3, <1>4, <2>1, <2>2
<1>12. ASSUME NEW t \in Caller, Return(t) PROVE Goal
  <2>1. call' = [call EXCEPT ![t] = call'[t]] /\ call'[t] = NoCall /\ shard' = shard
    BY <1>12 DEF Return, DurableTypes
  <2>. QED
    BY <1>3, <1>4, <1>5, <2>1 DEF NoCall
<1>13. ASSUME NEW x \in Vertex, RemoveEverywhere(x) PROVE Goal
  <2>1. \A s \in Shard, z \in Vertex : shard'[s].at[z] = IF s = Home[x] /\ z = x THEN 0 ELSE shard[s].at[z]
    BY <1>13, RemoveForm
  <2>2. At(y)' = At(y) /\ Present(y) /\ call' = call
    <3>1. call' = call
      BY <1>13 DEF RemoveEverywhere
    <3>2. shard'[Home[y]].at[y] > 0
      BY DEF Present
    <3>3. y # x
      BY <1>1, <2>1, <3>2
    <3>4. shard'[Home[y]].at[y] = shard[Home[y]].at[y]
      BY <1>1, <2>1, <3>3
    <3>. QED
      BY <3>1, <3>2, <3>4 DEF At, Present
  <2>. QED
    BY <1>3, <2>2
<1>16. ASSUME NEW t \in Caller, CallFails(t) PROVE Goal
  BY <1>3, <1>4, <1>5, <1>16, FailForm DEF NoCall
<1>14. ~CrashAndRecover
  BY DEF CrashAndRecover, Upserting
<1>15. CASE UNCHANGED dcVars
  BY <1>3, <1>5, <1>15 DEF dcVars
<1>. QED
  BY <1>6, <1>7, <1>8, <1>9, <1>10, <1>11, <1>12, <1>13, <1>14, <1>15, <1>16 DEF DCNext

\* A link that is owed is written, or found to be there.
LEMMA LinkedKept ==
    ASSUME DurableInv, [DCNext]_dcVars
    PROVE  LinkedOrOwed'
<1>. USE DEF DurableInv
<1>. SUFFICES ASSUME NEW x \in Vertex, NEW y \in Vertex, x # y, Present(x)', Present(y)', {x, y} \notin excused'
              PROVE  Linked(x, y)' \/ Linked(y, x)' \/ \E t \in Caller : Owes(t, x, y)' \/ Owes(t, y, x)'
  BY DEF LinkedOrOwed
<1>1. excused \subseteq excused' /\ {y, x} = {x, y}
  BY HistoriesGrow
<1>2. \A id \in Vertex : Home[id] \in Shard
  BY DurableCollectionAssumption
<1>. DEFINE Goal == Linked(x, y)' \/ Linked(y, x)' \/ \E t \in Caller : Owes(t, x, y)' \/ Owes(t, y, x)'
<1>3. ~RemoveEverywhere(x) /\ ~RemoveEverywhere(y)
  <2>1. ASSUME NEW id \in Vertex, RemoveEverywhere(id), Present(id)' PROVE FALSE
    <3>1. shard'[Home[id]].at[id] = 0
      BY <2>1, RemoveForm
    <3>. QED
      BY <2>1, <3>1 DEF Present
  <2>. QED
    BY <2>1
<1>4. ASSUME NEW n \in {x, y}, NEW o \in {x, y}, Linked(n, o), At(n)' = At(n), At(o)' = At(o) PROVE Linked(n, o)'
  <2>1. PICK e : e = Edge(o, n, "SUPERSEDED_BY")
    OBVIOUS
  <2>2. e.src = o /\ e.tgt = n /\ Home[o] \in Shard
    BY <1>2, <2>1 DEF Edge
  <2>3. e \in shard[Home[o]].graph.out[o]
    BY <1>4, <2>1 DEF Linked, has_edge
  <2>4. e \in shard'[Home[o]].graph.out[o]
    BY <1>3, <2>2, <2>3, EdgeStays
  <2>. QED
    BY <1>4, <2>1, <2>4 DEF Linked, has_edge
<1>5. ASSUME At(x)' = At(x), At(y)' = At(y), NEW t \in Caller, call' = [call EXCEPT ![t] = call'[t]],
             \A n, o \in {x, y} : Owes(t, n, o) => Owes(t, n, o)' \/ Linked(n, o)' \/ Linked(o, n)'
      PROVE  Goal
  <2>1. Present(x) /\ Present(y)
    BY <1>5 DEF Present, At
  <2>2. ASSUME NEW n \in {x, y}, NEW o \in {x, y}, NEW u \in Caller, u # t, Owes(u, n, o) PROVE Owes(u, n, o)'
    <3>1. call'[u] = call[u]
      BY <1>5, <2>2 DEF DurableTypes
    <3>2. At(n)' = At(n) /\ At(o)' = At(o)
      BY <1>5
    <3>. QED
      BY <2>2, <3>1, <3>2 DEF Owes, Upserting
  <2>3. Linked(x, y) \/ Linked(y, x) \/ \E u \in Caller : Owes(u, x, y) \/ Owes(u, y, x)
    BY <1>1, <2>1 DEF LinkedOrOwed
  <2>4. CASE Linked(x, y) \/ Linked(y, x)
    BY <1>4, <1>5, <2>4
  <2>5. ASSUME NEW u \in Caller, Owes(u, x, y) \/ Owes(u, y, x) PROVE Goal
    BY <1>5, <2>2, <2>5
  <2>. QED
    BY <2>3, <2>4, <2>5
<1>6. ASSUME shard' = shard PROVE At(x)' = At(x) /\ At(y)' = At(y)
  BY <1>6 DEF At
<1>7. ASSUME NEW t \in Caller, call[t].stage \notin {"link", "edge", "mirror"}, NEW n, NEW o PROVE ~Owes(t, n, o)
  BY <1>7 DEF Owes
<1>8. ASSUME NEW t \in Caller, NEW id \in Vertex, NEW at \in Time, BeginUpsert(t, id, at) PROVE Goal
  <2>1. call[t] = NoCall /\ call' = [call EXCEPT ![t] = call'[t]]
    BY <1>8, BeginForm
  <2>2. shard' = shard
    BY <1>8 DEF BeginUpsert
  <2>. QED
    BY <1>5, <1>6, <1>7, <2>1, <2>2 DEF NoCall
<1>9. ASSUME NEW t \in Caller, NEW e \in UserEdges, BeginAddEdge(t, e) PROVE Goal
  <2>1. call[t] = NoCall /\ call' = [call EXCEPT ![t] = call'[t]]
    BY <1>9, BeginEdgeForm
  <2>2. shard' = shard
    BY <1>9 DEF BeginAddEdge
  <2>. QED
    BY <1>5, <1>6, <1>7, <2>1, <2>2 DEF NoCall
<1>10. ASSUME NEW t \in Caller, PlanShard(t) PROVE Goal
  <2>1. call[t].stage = "plan" /\ call' = [call EXCEPT ![t] = call'[t]]
    BY <1>10, PlanForm
  <2>2. shard' = shard
    BY <1>10 DEF PlanShard
  <2>. QED
    BY <1>5, <1>6, <1>7, <2>1, <2>2
<1>11. ASSUME NEW t \in Caller, WriteShard(t) PROVE Goal
  <2>1. /\ call[t] \in Upserts /\ call[t].stage = "write"
        /\ call'[t] \in Upserts /\ call'[t].id = call[t].id /\ call'[t].at = call[t].at
        /\ call'[t].links = call[t].links /\ call'[t].stage = "link"
        /\ call' = [call EXCEPT ![t] = call'[t]]
        /\ \A s \in Shard, z \in Vertex :
              shard'[s].at[z] = IF s = Home[call[t].id] /\ z = call[t].id THEN call[t].at ELSE shard[s].at[z]
    BY <1>11, WriteForm
  <2>2. Upserting(t) /\ Upserting(t)'
    BY <2>1, CallKinds DEF Upserts, NoCall, Upserting
  <2>3. \A z \in {x, y} : At(z)' = IF z = call[t].id THEN call[t].at ELSE At(z)
    BY <1>2, <2>1 DEF At
  <2>4. ASSUME NEW n \in {x, y}, NEW o \in {x, y}, n # o, n = call[t].id PROVE Owes(t, n, o)'
    <3>1. At(n)' = call[t].at /\ At(o)' = At(o)
      BY <2>3, <2>4
    <3>2. Present(o)
      BY <2>4, <3>1 DEF Present, At
    <3>3. {n, o} = {x, y}
      BY <2>4
    <3>4. Link(n, call[t].at, o, At(o)) \in call[t].links
      BY <1>1, <2>1, <2>2, <2>4, <3>2, <3>3 DEF PlanComplete
    <3>5. call'[t].id = n /\ call'[t].at = At(n)' /\ Link(n, At(n)', o, At(o)') \in call'[t].links
      BY <2>1, <2>4, <3>1, <3>4
    <3>. QED
      BY <2>1, <2>2, <3>5 DEF Owes
  <2>5. CASE call[t].id \in {x, y}
    BY <2>4, <2>5
  <2>6. CASE call[t].id \notin {x, y}
    BY <1>5, <1>7, <2>1, <2>3, <2>6
  <2>. QED
    BY <2>5, <2>6
<1>12. ASSUME NEW t \in Caller, NextLink(t) PROVE Goal
  <2>1. shard' = shard
    BY <1>12 DEF NextLink
  <2>2. PICK link \in call[t].links :
           /\ call[t] \in Upserts /\ call[t].stage = "link"
           /\ call'[t] \in Upserts /\ call'[t].id = call[t].id /\ call'[t].at = call[t].at
           /\ call'[t].links = call[t].links \ {link}
           /\ call'[t].edge = Edge(link[1], link[2], "UPDATES")
           /\ call'[t].stage = IF AlreadyLinked(link) THEN "link" ELSE "edge"
           /\ call' = [call EXCEPT ![t] = call'[t]]
    BY <1>12, NextForm
  <2>3. Upserting(t)'
    BY <2>2 DEF Upserts, NoCall, Upserting
  <2>4. At(x)' = At(x) /\ At(y)' = At(y)
    BY <1>6, <2>1
  <2>5. ASSUME NEW n \in {x, y}, NEW o \in {x, y}, Owes(t, n, o)
        PROVE  Owes(t, n, o)' \/ Linked(n, o)' \/ Linked(o, n)'
    <3>1. PICK l : l = Link(n, At(n), o, At(o))
      OBVIOUS
    <3>2. call[t].id = n /\ call[t].at = At(n) /\ l \in call[t].links
      BY <2>2, <2>5, <3>1 DEF Owes
    <3>3. At(n)' = At(n) /\ At(o)' = At(o)
      BY <2>4
    <3>4. l = Link(n, At(n)', o, At(o)') /\ call'[t].id = n /\ call'[t].at = At(n)'
      BY <2>2, <3>1, <3>2, <3>3
    <3>5. CASE l # link
      <4>1. l \in call'[t].links /\ call'[t].stage \in {"link", "edge"}
        BY <2>2, <3>2, <3>5
      <4>. QED
        BY <2>3, <3>4, <4>1 DEF Owes
    <3>6. CASE l = link /\ ~AlreadyLinked(link)
      <4>1. call'[t].stage = "edge" /\ call'[t].edge = Edge(l[1], l[2], "UPDATES")
        BY <2>2, <3>6
      <4>2. l[1] = Link(n, At(n)', o, At(o)')[1] /\ l[2] = Link(n, At(n)', o, At(o)')[2]
        BY <3>4
      <4>. QED
        BY <2>3, <3>4, <4>1, <4>2 DEF Owes
    <3>7. CASE l = link /\ AlreadyLinked(link)
      <4>1. has_edge(shard[Home[l[2]]].graph, l[2], l[1], "SUPERSEDED_BY")
        BY <3>7 DEF AlreadyLinked
      <4>2. /\ (At(o) <= At(n) /\ l = <<n, o>>) \/ (~(At(o) <= At(n)) /\ l = <<o, n>>)
            /\ At(n) \in Nat /\ At(o) \in Nat
        BY <1>2, <3>1 DEF Link, At, DurableTypes
      <4>3. Linked(n, o) \/ Linked(o, n)
        BY <4>1, <4>2 DEF Linked
      <4>. QED
        BY <1>4, <3>3, <4>3
    <3>. QED
      BY <3>5, <3>6, <3>7
  <2>. QED
    BY <1>5, <2>2, <2>4, <2>5
<1>13. ASSUME NEW t \in Caller, WriteEdge(t) PROVE Goal
  <2>1. /\ call[t].stage \in {"edge", "mirror"} /\ call[t].edge \in Edges
        /\ call'[t].stage = (IF call[t].stage = "edge" /\ MirrorsEdge(call[t].edge) THEN "mirror" ELSE "link")
        /\ call'[t].links = call[t].links /\ call'[t].edge = call[t].edge
        /\ call[t] \in Upserts => call'[t] \in Upserts /\ call'[t].id = call[t].id /\ call'[t].at = call[t].at
        /\ call' = [call EXCEPT ![t] = call'[t]]
        /\ \A s \in Shard : shard'[s].at = shard[s].at
        /\ \A r \in Shard, k \in Vertex :
                shard'[r].graph.out[k] = IF r = Home[EdgeAt(call[t].edge, call[t].stage).src]
                                            /\ k = EdgeAt(call[t].edge, call[t].stage).src
                                         THEN shard[r].graph.out[k] \cup {EdgeAt(call[t].edge, call[t].stage)}
                                         ELSE shard[r].graph.out[k]
    BY <1>13, WriteEdgeForm
  <2>2. At(x)' = At(x) /\ At(y)' = At(y)
    BY <1>2, <2>1 DEF At
  <2>3. ASSUME NEW n \in {x, y}, NEW o \in {x, y}, Owes(t, n, o)
        PROVE  Owes(t, n, o)' \/ Linked(n, o)' \/ Linked(o, n)'
    <3>1. PICK l : l = Link(n, At(n), o, At(o))
      OBVIOUS
    <3>2. At(n)' = At(n) /\ At(o)' = At(o) /\ At(n) \in Nat /\ At(o) \in Nat
      BY <1>2, <2>2 DEF At, DurableTypes
    <3>3. call[t] \in Upserts /\ call[t].id = n /\ call[t].at = At(n)
      BY <2>3, CallKinds DEF Owes
    <3>4. Upserting(t)' /\ call'[t].id = n /\ call'[t].at = At(n)' /\ l = Link(n, At(n)', o, At(o)')
      BY <2>1, <3>1, <3>2, <3>3 DEF Upserts, NoCall, Upserting
    <3>5. CASE l \in call[t].links
      <4>1. l \in call'[t].links /\ call'[t].stage \in {"link", "mirror"}
        BY <2>1, <3>5
      <4>. QED
        BY <3>4, <4>1 DEF Owes
    <3>6. CASE call[t].edge = Edge(l[1], l[2], "UPDATES") /\ call[t].stage = "edge"
      <4>1. call'[t].stage = "mirror" /\ call'[t].edge = Edge(l[1], l[2], "UPDATES")
        BY <2>1, <3>6 DEF MirrorsEdge, Edge
      <4>2. l[1] = Link(n, At(n)', o, At(o)')[1] /\ l[2] = Link(n, At(n)', o, At(o)')[2]
        BY <3>4
      <4>. QED
        BY <3>4, <4>1, <4>2 DEF Owes
    <3>7. CASE call[t].edge = Edge(l[1], l[2], "UPDATES") /\ call[t].stage = "mirror"
      <4>1. EdgeAt(call[t].edge, call[t].stage) = Edge(l[2], l[1], "SUPERSEDED_BY")
        BY <3>7 DEF EdgeAt, MirrorOf, Edge
      <4>2. /\ (At(o) <= At(n) /\ l[1] = n /\ l[2] = o) \/ (At(n) <= At(o) /\ l[1] = o /\ l[2] = n)
        BY <3>1, <3>2 DEF Link
      <4>3. Edge(l[2], l[1], "SUPERSEDED_BY").src = l[2] /\ l[2] \in Vertex /\ Home[l[2]] \in Shard
        BY <1>2, <4>2 DEF Edge
      <4>4. Edge(l[2], l[1], "SUPERSEDED_BY") \in shard'[Home[l[2]]].graph.out[l[2]]
        BY <2>1, <4>1, <4>3
      <4>5. CASE At(o) <= At(n) /\ l[1] = n /\ l[2] = o
        BY <3>2, <4>4, <4>5 DEF Linked, has_edge
      <4>6. CASE At(n) <= At(o) /\ l[1] = o /\ l[2] = n
        BY <3>2, <4>4, <4>6 DEF Linked, has_edge
      <4>. QED
        BY <4>2, <4>5, <4>6
    <3>. QED
      BY <2>1, <2>3, <3>1, <3>5, <3>6, <3>7 DEF Owes
  <2>. QED
    BY <1>5, <2>1, <2>2, <2>3
<1>14. ASSUME NEW t \in Caller, Return(t) PROVE Goal
  <2>1. call' = [call EXCEPT ![t] = call'[t]] /\ call[t].stage = "link" /\ call[t].links = {} /\ shard' = shard
    BY <1>14 DEF Return, DurableTypes
  <2>2. ASSUME NEW n, NEW o PROVE ~Owes(t, n, o)
    BY <2>1 DEF Owes
  <2>. QED
    BY <1>5, <1>6, <2>1, <2>2
<1>18. ASSUME NEW t \in Caller, CallFails(t) PROVE Goal
  <2>1. call' = [call EXCEPT ![t] = call'[t]] /\ shard' = shard
    BY <1>18, FailForm
  <2>2. ASSUME NEW n \in {x, y}, NEW o \in {x, y}, n # o, Owes(t, n, o) PROVE FALSE
    <3>1. Upserting(t) /\ call[t].id = n
      BY <2>2 DEF Owes
    <3>2. {n, o} \in excused' /\ {n, o} = {x, y}
      BY <1>18, <2>2, <3>1, FailForm
    <3>. QED
      BY <3>2
  <2>3. At(x)' = At(x) /\ At(y)' = At(y)
    BY <1>6, <2>1
  <2>4. ASSUME NEW u \in Caller, u # t, NEW n \in {x, y}, NEW o \in {x, y}, Owes(u, n, o) PROVE Owes(u, n, o)'
    <3>1. call'[u] = call[u]
      BY <2>1, <2>4 DEF DurableTypes
    <3>2. At(n)' = At(n) /\ At(o)' = At(o)
      BY <2>3
    <3>. QED
      BY <2>4, <3>1, <3>2 DEF Owes, Upserting
  <2>5. Present(x) /\ Present(y)
    BY <2>3 DEF Present, At
  <2>6. Linked(x, y) \/ Linked(y, x) \/ \E u \in Caller : Owes(u, x, y) \/ Owes(u, y, x)
    BY <1>1, <2>5 DEF LinkedOrOwed
  <2>7. CASE Linked(x, y) \/ Linked(y, x)
    BY <1>4, <2>3, <2>7
  <2>8. ASSUME NEW u \in Caller, Owes(u, x, y) \/ Owes(u, y, x) PROVE Goal
    BY <2>2, <2>4, <2>8
  <2>. QED
    BY <2>6, <2>7, <2>8
<1>15. ASSUME NEW id \in Vertex, RemoveEverywhere(id) PROVE Goal
  <2>1. \A s \in Shard, z \in Vertex : shard'[s].at[z] = IF s = Home[id] /\ z = id THEN 0 ELSE shard[s].at[z]
    BY <1>15, RemoveForm
  <2>2. x # id /\ y # id
    BY <1>3, <1>15
  <2>3. At(x)' = At(x) /\ At(y)' = At(y) /\ call' = call
    <3>1. call' = call
      BY <1>15 DEF RemoveEverywhere
    <3>2. shard'[Home[x]].at[x] = shard[Home[x]].at[x] /\ shard'[Home[y]].at[y] = shard[Home[y]].at[y]
      BY <1>2, <2>1, <2>2
    <3>. QED
      BY <3>1, <3>2 DEF At
  <2>4. Present(x) /\ Present(y)
    BY <2>3 DEF Present, At
  <2>5. Linked(x, y) \/ Linked(y, x) \/ \E t \in Caller : Owes(t, x, y) \/ Owes(t, y, x)
    BY <1>1, <2>4 DEF LinkedOrOwed
  <2>6. ASSUME NEW n \in {x, y}, NEW o \in {x, y}, NEW t \in Caller, Owes(t, n, o) PROVE Owes(t, n, o)'
    <3>1. At(n)' = At(n) /\ At(o)' = At(o)
      BY <2>3
    <3>. QED
      BY <2>3, <2>6, <3>1 DEF Owes, Upserting
  <2>. QED
    BY <1>4, <2>3, <2>5, <2>6
<1>16. CASE CrashAndRecover
  <2>1. shard' = shard
    BY <1>16 DEF CrashAndRecover
  <2>2. ASSUME NEW n \in {x, y}, NEW o \in {x, y}, n # o, NEW t \in Caller, Owes(t, n, o) PROVE FALSE
    <3>1. {call[t].id, o} \in excused'
      BY <1>16, <2>2 DEF CrashAndRecover, Owes
    <3>2. {n, o} = {x, y} /\ call[t].id = n
      BY <2>2 DEF Owes
    <3>. QED
      BY <3>1, <3>2
  <2>3. At(x)' = At(x) /\ At(y)' = At(y)
    BY <1>6, <2>1
  <2>4. Present(x) /\ Present(y)
    BY <2>3 DEF Present, At
  <2>5. Linked(x, y) \/ Linked(y, x)
    BY <1>1, <2>2, <2>4 DEF LinkedOrOwed
  <2>. QED
    BY <1>4, <2>3, <2>5
<1>17. CASE UNCHANGED dcVars
  <2>1. shard' = shard /\ call' = call
    BY <1>17 DEF dcVars
  <2>2. At(x)' = At(x) /\ At(y)' = At(y)
    BY <1>6, <2>1
  <2>3. Present(x) /\ Present(y)
    BY <2>2 DEF Present, At
  <2>4. Linked(x, y) \/ Linked(y, x) \/ \E t \in Caller : Owes(t, x, y) \/ Owes(t, y, x)
    BY <1>1, <2>3 DEF LinkedOrOwed
  <2>. QED
    BY <2>1, <2>4 DEF Linked, Owes, Upserting, At
<1>. QED
  BY <1>8, <1>9, <1>10, <1>11, <1>12, <1>13, <1>14, <1>15, <1>16, <1>17, <1>18 DEF DCNext

-----------------------------------------------------------------------------
LEMMA DurableInit == DCInit => DurableInv
<1>. SUFFICES ASSUME DCInit PROVE DurableInv
  OBVIOUS
<1>1. /\ \A s \in Shard : shard[s].graph = EmptyGraph /\ \A id \in Vertex : shard[s].at[id] = 0
      /\ \A t \in Caller : call[t] = NoCall
      /\ \A id \in Vertex : stored[id] = 0 /\ Home[id] \in Shard
      /\ \A t \in Caller : ~Upserting(t)
  BY DurableCollectionAssumption DEF DCInit, Upserting
<1>2. EmptyGraph \in GraphsTyped /\ Mirrored(EmptyGraph) /\ \A id \in Vertex : EmptyGraph.out[id] = {}
  BY DEF EmptyGraph, GraphsTyped, Mirrored
<1>3. DurableTypes
  <2>1. shard \in [Shard -> [at : [Vertex -> Nat], graph : GraphsTyped]]
    BY <1>2 DEF DCInit
  <2>. QED
    BY <2>1 DEF DCInit, DurableTypes
<1>4. InPlace
  BY <1>1, <1>2 DEF InPlace
<1>5. StagesSound
  BY <1>1 DEF StagesSound, NoCall
<1>6. OneTime
  BY <1>1 DEF OneTime, TimesOf, At, Awaits
<1>7. LinksSound
  BY <1>1, <1>2 DEF LinksSound, NoCall
<1>8. UpdatesFirst
  BY <1>1, <1>2 DEF UpdatesFirst
<1>9. OverlapsKnown /\ PlanComplete
  BY <1>1 DEF OverlapsKnown, PlanComplete
<1>10. LinkedOrOwed
  BY <1>1 DEF LinkedOrOwed, Present
<1>. QED
  BY <1>3, <1>4, <1>5, <1>6, <1>7, <1>8, <1>9, <1>10 DEF DurableInv

LEMMA DurableStep == DurableInv /\ [DCNext]_dcVars => DurableInv'
<1>. SUFFICES ASSUME DurableInv, [DCNext]_dcVars PROVE DurableInv'
  OBVIOUS
<1>1. DurableTypes /\ InPlace /\ StagesSound /\ OneTime /\ LinksSound /\ UpdatesFirst /\ OverlapsKnown /\ PlanComplete
  BY DEF DurableInv
<1>2. DurableTypes'
  BY <1>1, TypesKept
<1>3. InPlace'
  BY <1>1, InPlaceKept
<1>4. StagesSound'
  BY <1>1, StagesKept
<1>5. OneTime'
  BY <1>1, OneTimeKept
<1>6. LinksSound'
  BY <1>1, LinksKept
<1>7. UpdatesFirst'
  BY <1>1, UpdatesKept
<1>8. OverlapsKnown'
  BY <1>1, OverlapsKept
<1>9. PlanComplete'
  BY <1>1, PlanKept
<1>10. LinkedOrOwed'
  BY LinkedKept
<1>. QED
  BY <1>2, <1>3, <1>4, <1>5, <1>6, <1>7, <1>8, <1>9, <1>10 DEF DurableInv

LEMMA DurableInvariant == DCSpec => []DurableInv
  BY DurableInit, DurableStep, PTL DEF DCSpec

LEMMA LinkedWhenIdle == DurableInv => VersionsLinked
<1>. SUFFICES ASSUME DurableInv, \A t \in Caller : call[t] = NoCall,
                     NEW x \in Vertex, NEW y \in Vertex, x # y, Present(x), Present(y), {x, y} \notin excused
              PROVE  \/ shard[Home[x]].at[x] <= shard[Home[y]].at[y] /\ y \in superseded_by(x)
                     \/ shard[Home[y]].at[y] <= shard[Home[x]].at[x] /\ x \in superseded_by(y)
  BY DEF VersionsLinked
<1>1. Linked(x, y) \/ Linked(y, x)
  BY DEF DurableInv, LinkedOrOwed, Owes, Upserting
<1>2. ASSUME NEW n, NEW o, Linked(n, o)
      PROVE  shard[Home[o]].at[o] <= shard[Home[n]].at[n] /\ n \in superseded_by(o)
  BY <1>2 DEF Linked, At, has_edge, superseded_by, find_superseding, Edge
<1>. QED
  BY <1>1, <1>2

\* What finds a newer version finds it by a sound edge.
LEMMA SupersedingIsNewer ==
    ASSUME DurableInv, NEW x \in Vertex, NEW y \in superseded_by(x)
    PROVE  y \in Vertex /\ Newer(y, x)
<1>. PICK g : g = shard[Home[x]].graph
  OBVIOUS
<1>1. Home[x] \in Shard
  BY DurableCollectionAssumption
<1>2. g \in GraphsTyped /\ Mirrored(g)
  BY <1>1 DEF DurableInv, DurableTypes, InPlace
<1>3. \A k \in Vertex : \A e \in g.out[k] : EdgeSound(e)
  BY <1>1 DEF DurableInv, LinksSound
<1>4. CASE \E e \in g.out[x] : e.type = "SUPERSEDED_BY" /\ y = e.tgt
  <2>1. PICK e \in g.out[x] : e.type = "SUPERSEDED_BY" /\ y = e.tgt
    BY <1>4
  <2>2. e \in Edges /\ e.src = x
    BY <1>2, AtSource
  <2>. QED
    BY <1>3, <2>1, <2>2 DEF EdgeSound, Edges
<1>5. CASE \E e \in g.in[x] : e.type = "UPDATES" /\ y = e.src
  <2>1. PICK e \in g.in[x] : e.type = "UPDATES" /\ y = e.src
    BY <1>5
  <2>2. e \in UNION {g.out[k] : k \in Vertex} /\ e.tgt = x
    BY <1>2, <2>1 DEF Mirrored
  <2>3. PICK k \in Vertex : e \in g.out[k]
    BY <2>2
  <2>4. e \in Edges
    BY <1>2, <2>3, AtSource
  <2>. QED
    BY <1>3, <2>1, <2>2, <2>3, <2>4 DEF EdgeSound, Edges
<1>. QED
  BY <1>4, <1>5 DEF superseded_by, find_superseding

LEMMA NewerSupersedes == DurableInv => SupersededByNewer
<1>. SUFFICES ASSUME DurableInv, NEW x \in Vertex, NEW y \in superseded_by(x)
              PROVE  /\ \/ stored[x] > 1 \/ stored[y] > 1 \/ {x, y} \cap removed # {}
                        \/ ~Present(x) \/ ~Present(y)
                        \/ shard[Home[x]].at[x] <= shard[Home[y]].at[y]
                     /\ has_edge(shard[Home[x]].graph, x, y, "SUPERSEDED_BY") /\ {x, y} \cap removed = {} =>
                            has_edge(shard[Home[y]].graph, y, x, "UPDATES")
  BY DEF SupersededByNewer
<1>1. y \in Vertex /\ Newer(y, x) /\ {y, x} = {x, y}
  BY SupersedingIsNewer
<1>2. CASE \A ta \in TimesOf(y), tb \in TimesOf(x) : tb <= ta
  <2>1. Present(x) /\ Present(y) => At(x) \in TimesOf(x) /\ At(y) \in TimesOf(y)
    BY DEF Present, TimesOf, At
  <2>. QED
    BY <1>1, <1>2, <2>1 DEF At, DurableInv, UpdatesFirst, has_edge, HasUpdates
<1>3. CASE stored[y] > 1 \/ stored[x] > 1 \/ {y, x} \cap removed # {}
  BY <1>1, <1>3 DEF DurableInv, UpdatesFirst, has_edge, HasUpdates
<1>. QED
  BY <1>1, <1>2, <1>3 DEF Newer

\* The breadth-first search of two levels, unrolled.
LEMMA SearchUnrolled ==
    ASSUME NEW g, NEW start, NEW first, first = Targets(g, {start}) \ {start}
    PROVE  get_neighbours(g, start, 2) = (({start} \cup first) \cup (Targets(g, first) \ ({start} \cup first))) \ {start}
<1>. DEFINE search[h \in 0..2] ==
                IF h = 0 THEN [visited |-> {start}, frontier |-> {start}]
                ELSE LET next == Targets(g, search[h - 1].frontier) \ search[h - 1].visited
                     IN  [visited |-> search[h - 1].visited \cup next, frontier |-> next]
            Level(f) == [h \in 0..2 |->
                IF h = 0 THEN [visited |-> {start}, frontier |-> {start}]
                ELSE LET next == Targets(g, f[h - 1].frontier) \ f[h - 1].visited
                     IN  [visited |-> f[h - 1].visited \cup next, frontier |-> next]]
<1>1. get_neighbours(g, start, 2) = search[2].visited \ {start}
  BY DEF get_neighbours
<1>. PICK s0 : s0 = [visited |-> {start}, frontier |-> {start}]
  OBVIOUS
<1>. PICK s1 : s1 = [visited |-> {start} \cup first, frontier |-> first]
  OBVIOUS
<1>. PICK second : second = Targets(g, first) \ ({start} \cup first)
  OBVIOUS
<1>. PICK s2 : s2 = [visited |-> ({start} \cup first) \cup second, frontier |-> second]
  OBVIOUS
<1>. PICK f : f = [h \in 0..2 |-> IF h = 0 THEN s0 ELSE IF h = 1 THEN s1 ELSE s2]
  OBVIOUS
<1>2. f[0] = s0 /\ f[1] = s1 /\ f[2] = s2
  OBVIOUS
<1>3. \A h \in 0..2 : h = 0 \/ h = 1 \/ h = 2
  OBVIOUS
<1>4. \A h \in 0..2 : Level(f)[h] = f[h]
  <2>1. Level(f)[0] = s0
    OBVIOUS
  <2>2. Level(f)[1] = s1
    <3>1. f[1 - 1] = s0
      BY <1>2
    <3>. QED
      BY <3>1
  <2>3. Level(f)[2] = s2
    <3>1. f[2 - 1] = s1
      BY <1>2
    <3>. QED
      BY <3>1
  <2>. HIDE DEF Level
  <2>. QED
    BY <1>2, <1>3, <2>1, <2>2, <2>3
<1>5. f = Level(f)
  BY <1>4
<1>6. search = CHOOSE k : k = Level(k)
  OBVIOUS
<1>. HIDE DEF search, Level
<1>7. search = Level(search)
  BY <1>5, <1>6
<1>8. search[0] = s0
  BY <1>7 DEF Level
<1>9. search[1] = s1
  <2>1. search[1 - 1] = s0
    BY <1>8
  <2>2. search[1] = LET next == Targets(g, search[1 - 1].frontier) \ search[1 - 1].visited
                    IN  [visited |-> search[1 - 1].visited \cup next, frontier |-> next]
    BY <1>7, 1 \in 0..2, 1 # 0 DEF Level
  <2>. QED
    BY <2>1, <2>2
<1>10. search[2] = s2
  <2>1. search[2 - 1] = s1
    BY <1>9
  <2>2. search[2] = LET next == Targets(g, search[2 - 1].frontier) \ search[2 - 1].visited
                    IN  [visited |-> search[2 - 1].visited \cup next, frontier |-> next]
    BY <1>7, 2 \in 0..2, 2 # 0 DEF Level
  <2>. QED
    BY <2>1, <2>2
<1>11. search[2].visited = ({start} \cup first) \cup (Targets(g, first) \ ({start} \cup first))
  BY <1>10
<1>. QED
  BY <1>1, <1>11

\* The walks of one and of two edges.
LEMMA WalksUnrolled ==
    ASSUME NEW g, NEW start
    PROVE  Within(g, start, 2) = (Targets(g, {start}) \cup Targets(g, Targets(g, {start}))) \ {start}
<1>. DEFINE walk[h \in 0..2] == IF h = 0 THEN {start} ELSE Targets(g, walk[h - 1])
            Level(f) == [h \in 0..2 |-> IF h = 0 THEN {start} ELSE Targets(g, f[h - 1])]
<1>1. Within(g, start, 2) = (UNION {walk[h] : h \in 1..2}) \ {start}
  BY DEF Within
<1>. PICK t1 : t1 = Targets(g, {start})
  OBVIOUS
<1>. PICK t2 : t2 = Targets(g, t1)
  OBVIOUS
<1>. PICK f : f = [h \in 0..2 |-> IF h = 0 THEN {start} ELSE IF h = 1 THEN t1 ELSE t2]
  OBVIOUS
<1>2. f[0] = {start} /\ f[1] = t1 /\ f[2] = t2
  OBVIOUS
<1>3. \A h \in 0..2 : h = 0 \/ h = 1 \/ h = 2
  OBVIOUS
<1>4. \A h \in 0..2 : Level(f)[h] = f[h]
  <2>1. Level(f)[0] = {start}
    OBVIOUS
  <2>2. Level(f)[1] = t1
    <3>1. f[1 - 1] = {start}
      BY <1>2
    <3>. QED
      BY <3>1
  <2>3. Level(f)[2] = t2
    <3>1. f[2 - 1] = t1
      BY <1>2
    <3>. QED
      BY <3>1
  <2>. HIDE DEF Level
  <2>. QED
    BY <1>2, <1>3, <2>1, <2>2, <2>3
<1>5. f = Level(f)
  BY <1>4
<1>6. walk = CHOOSE k : k = Level(k)
  OBVIOUS
<1>. HIDE DEF walk
<1>7. walk = Level(walk)
  BY <1>5, <1>6
<1>8. walk[0] = {start}
  BY <1>7
<1>9. walk[1] = t1
  <2>1. walk[1 - 1] = {start} /\ walk[1] = Targets(g, walk[1 - 1])
    BY <1>7, <1>8
  <2>. QED
    BY <2>1
<1>10. walk[2] = t2
  <2>1. walk[2 - 1] = t1 /\ walk[2] = Targets(g, walk[2 - 1])
    BY <1>7, <1>9
  <2>. QED
    BY <2>1
<1>11. \A h \in 1..2 : h = 1 \/ h = 2
  OBVIOUS
<1>12. UNION {walk[h] : h \in 1..2} = t1 \cup t2
  <2>1. 1 \in 1..2 /\ 2 \in 1..2
    OBVIOUS
  <2>. QED
    BY <1>9, <1>10, <1>11, <2>1
<1>13. (UNION {walk[h] : h \in 1..2}) \ {start} = (t1 \cup t2) \ {start}
  BY <1>12
<1>14. Within(g, start, 2) = (t1 \cup t2) \ {start}
  BY <1>1, <1>13
<1>. QED
  BY <1>14

\* Two levels of the search find what walks of two edges lead to.
LEMMA SearchFindsWalks ==
    ASSUME NEW g, NEW start
    PROVE  get_neighbours(g, start, 2) = Within(g, start, 2)
<1>. PICK t1 : t1 = Targets(g, {start})
  OBVIOUS
<1>. PICK first : first = t1 \ {start}
  OBVIOUS
<1>1. get_neighbours(g, start, 2) = (({start} \cup first) \cup (Targets(g, first) \ ({start} \cup first))) \ {start}
  <2>1. first = Targets(g, {start}) \ {start}
    OBVIOUS
  <2>. QED
    BY <2>1, SearchUnrolled
<1>2. Within(g, start, 2) = (t1 \cup Targets(g, t1)) \ {start}
  BY WalksUnrolled
<1>3. Targets(g, t1) \subseteq Targets(g, first) \cup t1
  BY DEF Targets
<1>4. Targets(g, first) \subseteq Targets(g, t1)
  BY DEF Targets
<1>. QED
  BY <1>1, <1>2, <1>3, <1>4

LEMMA GraphsFound == DurableInv => GraphsConsistent
  BY SearchFindsWalks DEF DurableInv, InPlace, GraphsConsistent

-----------------------------------------------------------------------------
\* Of two versions that are there when no call is at work, the older is superseded by the newer,
\* unless their upserts overlapped, a crash or an exception cut one of them off, or one was not
\* among the candidates of the search for the other.
THEOREM OlderIsLinked == DCSpec => []VersionsLinked
  BY DurableInvariant, LinkedWhenIdle, PTL

\* What supersedes a vector is not older than it, unless one of them was written again or removed;
\* and whatever a crash or an exception cuts off, the shard of the newer one has the UPDATES edge.
THEOREM NewerSupersedesOlder == DCSpec => []SupersededByNewer
  BY DurableInvariant, NewerSupersedes, PTL

\* In every graph the edges out of a vector are those into the others, and a search of two levels
\* finds what is within reach.
THEOREM GraphsStayConsistent == DCSpec => []GraphsConsistent
  BY DurableInvariant, GraphsFound, PTL
=============================================================================
