---------------------------- MODULE StorageProofs ----------------------------
(***************************************************************************)
(* What the disks and the memory of a node promise, for every number of    *)
(* vectors, threads, writes and crashes.                                  *)
(*                                                                         *)
(* Segment store: a vector of the shards that the store's map has not is   *)
(* being written or removed, or was left by a call that threw; and of an   *)
(* id that was never removed, nor written by two at once, nor left so, the *)
(* last record in the buffer, or else the one the map points to in a file  *)
(* that was not written again, is the shard's. Group commit: the queue,    *)
(* the batch and the file hold the numbers of the writes in one unbroken   *)
(* run. Raft store: the files hold the log the node has, or the one a      *)
(* snapshot is about to leave, and all that was acknowledged, until an     *)
(* error spoils them. Vector index: what the compaction would swap in, had *)
(* it replayed the whole journal, tracks what the readers of the index     *)
(* find.                                                                   *)
(***************************************************************************)
EXTENDS CollectionProofs, SegmentStore, GroupCommit, RaftStore, TVIndex,
        FiniteSetTheorems, SequenceTheorems, WellFoundedInduction, TLAPS

-----------------------------------------------------------------------------
\* The segment store.

\* What a thread may be doing.
Tasks == {Free} \cup [op : {"put"}, id : VecId, ver : Nat] \cup [op : {"remove"}, id : VecId]

\* Until the store is loaded from the disk, its map has a place, or none, for every id.
LocatesAll(s) == {"buffer", "segments", "files", "loc", "deleted"} = DOMAIN s /\ s.loc = [id \in VecId |-> s.loc[id]]

SegmentTypes ==
    /\ held \in [VecId -> Nat]
    /\ doing \in [Thread -> Tasks]
    /\ count \in [upserts : Nat, removes : Nat, reloads : Nat]
    /\ count.reloads = 0 => LocatesAll(store)

\* A vector that the shards have and the map has not is being written or removed, or was left by a
\* call that threw.
MissingIsBusy ==
    count.reloads = 0 => \A id \in VecId : held[id] > 0 /\ store.loc[id] = NoLoc => Busy(id) \/ id \in half

SegmentInv == SegmentTypes /\ MissingIsBusy

LEMMA PendingIsPlace == Pending # NoLoc
  BY DEF Pending, NoLoc

\* A flush takes no id out of the map.
LEMMA FlushLocates ==
    ASSUME NEW s, LocatesAll(s), NEW file
    PROVE  /\ LocatesAll(_flush_locked(s, file))
           /\ \A id \in VecId : s.loc[id] # NoLoc => _flush_locked(s, file).loc[id] # NoLoc
<1>1. CASE s.buffer = <<>> \/ file = 0
  BY <1>1 DEF _flush_locked
<1>2. CASE ~(s.buffer = <<>> \/ file = 0)
  <2>1. PICK l, g : /\ l = LocateIn(s.loc, Len(s.segments) + 1, Kept(s))
                    /\ g = IF file \in DOMAIN s.files THEN [s.files EXCEPT ![file] = Kept(s)] ELSE Append(s.files, Kept(s))
    OBVIOUS
  <2>2. _flush_locked(s, file) = [s EXCEPT !.files = g, !.segments = Append(@, file), !.loc = l, !.buffer = <<>>]
    BY <1>2, <2>1 DEF _flush_locked
  <2>3. DOMAIN _flush_locked(s, file) = DOMAIN s /\ _flush_locked(s, file).loc = l
    BY <2>2 DEF LocatesAll
  <2>4. l = [id \in VecId |-> l[id]]
    BY <2>1 DEF LocateIn
  <2>5. ASSUME NEW id \in VecId, s.loc[id] # NoLoc PROVE l[id] # NoLoc
    <3>1. PICK k : k = SelectLastInSeq(Kept(s), LAMBDA v : v.id = id)
      OBVIOUS
    <3>2. l[id] = IF k = 0 THEN s.loc[id] ELSE <<Len(s.segments) + 1, k>>
      BY <2>1, <3>1 DEF LocateIn
    <3>. QED
      BY <2>5, <3>2 DEF NoLoc
  <2>. QED
    BY <2>3, <2>4, <2>5 DEF LocatesAll
<1>. QED
  BY <1>1, <1>2

\* A put brings its id into the map and takes none out.
LEMMA PutLocates ==
    ASSUME NEW s, LocatesAll(s), NEW v, v.id \in VecId, NEW file
    PROVE  /\ LocatesAll(put(s, v, file)) /\ put(s, v, file).loc[v.id] # NoLoc
           /\ \A id \in VecId : s.loc[id] # NoLoc => put(s, v, file).loc[id] # NoLoc
<1>. PICK b : b = Buffered(s, v)
  OBVIOUS
<1>1. b = [s EXCEPT !.buffer = Append(@, v), !.loc[v.id] = Pending]
  BY DEF Buffered
<1>2. DOMAIN b = DOMAIN s /\ b.loc = [s.loc EXCEPT ![v.id] = Pending]
  BY <1>1 DEF LocatesAll
<1>3. b.loc = [id \in VecId |-> b.loc[id]] /\ b.loc[v.id] = Pending /\ \A id \in VecId : id # v.id => b.loc[id] = s.loc[id]
  BY <1>2 DEF LocatesAll
<1>4. LocatesAll(b) /\ b.loc[v.id] # NoLoc /\ \A id \in VecId : s.loc[id] # NoLoc => b.loc[id] # NoLoc
  BY <1>2, <1>3, PendingIsPlace DEF LocatesAll
<1>5. put(s, v, file) = b \/ put(s, v, file) = _flush_locked(b, file)
  BY DEF put
<1>. QED
  BY <1>4, <1>5, FlushLocates

\* Removing an id takes only that one out.
LEMMA MarkLocates ==
    ASSUME NEW s, LocatesAll(s), NEW id \in VecId
    PROVE  LocatesAll(mark_deleted(s, id)) /\ \A x \in VecId : x # id => mark_deleted(s, id).loc[x] = s.loc[x]
<1>. PICK b : b = mark_deleted(s, id)
  OBVIOUS
<1>1. b = [s EXCEPT !.deleted = @ \cup {id}, !.loc[id] = NoLoc]
  BY DEF mark_deleted
<1>2. DOMAIN b = DOMAIN s /\ b.loc = [s.loc EXCEPT ![id] = NoLoc]
  BY <1>1 DEF LocatesAll
<1>. QED
  BY <1>2 DEF LocatesAll

LEMMA SegmentInitially == SSInit => SegmentInv
<1>. SUFFICES ASSUME SSInit PROVE SegmentInv
  OBVIOUS
<1>1. /\ store = EmptyStore /\ held = [id \in VecId |-> 0] /\ doing = [t \in Thread |-> Free]
      /\ count = [upserts |-> 0, removes |-> 0, reloads |-> 0]
  BY DEF SSInit
<1>2. LocatesAll(EmptyStore)
  BY DEF LocatesAll, EmptyStore
<1>. QED
  BY <1>1, <1>2 DEF SegmentInv, SegmentTypes, MissingIsBusy, Tasks

\* A call that begins: its thread is busy with its id, the others with theirs.
LEMMA EnterIsBusy ==
    ASSUME SegmentTypes, NEW t \in Thread, NEW id \in VecId, NEW c \in Tasks, c # Free, c.id = id, Enter(t, id, c)
    PROVE  doing' \in [Thread -> Tasks] /\ Busy(id)' /\ \A x \in VecId : Busy(x) => Busy(x)'
<1>1. doing[t] = Free /\ doing' = [doing EXCEPT ![t] = c]
  BY DEF Enter
<1>2. doing' \in [Thread -> Tasks] /\ doing'[t] = c /\ \A u \in Thread : u # t => doing'[u] = doing[u]
  BY <1>1 DEF SegmentTypes
<1>. QED
  BY <1>1, <1>2 DEF Busy

\* A call that ends: every other id is as busy as before.
LEMMA OthersStayBusy ==
    ASSUME SegmentTypes, NEW t \in Thread, doing' = [doing EXCEPT ![t] = Free]
    PROVE  doing' \in [Thread -> Tasks] /\ \A x \in VecId : Busy(x) /\ doing[t].id # x => Busy(x)'
<1>1. doing' \in [Thread -> Tasks] /\ \A u \in Thread : u # t => doing'[u] = doing[u]
  BY DEF SegmentTypes, Tasks
<1>. QED
  BY <1>1 DEF Busy

LEMMA SegmentStep == SegmentInv /\ [SSNext]_ssVars => SegmentInv'
<1>. SUFFICES ASSUME SegmentInv, [SSNext]_ssVars PROVE SegmentInv'
  OBVIOUS
<1>. USE DEF SegmentInv
<1>0. /\ held \in [VecId -> Nat] /\ doing \in [Thread -> Tasks]
      /\ count \in [upserts : Nat, removes : Nat, reloads : Nat]
      /\ count.reloads = 0 => LocatesAll(store)
  BY DEF SegmentTypes
<1>1. ASSUME NEW t \in Thread, NEW id \in VecId, UpsertShard(t, id) PROVE SegmentInv'
  <2>. PICK c : c = [op |-> "put", id |-> id, ver |-> count.upserts + 1]
    OBVIOUS
  <2>1. /\ Enter(t, id, c) /\ held' = [held EXCEPT ![id] = count.upserts + 1]
        /\ count' = [count EXCEPT !.upserts = @ + 1] /\ store' = store /\ half' = half
    BY <1>1 DEF UpsertShard
  <2>2. count.upserts + 1 \in Nat /\ count' \in [upserts : Nat, removes : Nat, reloads : Nat] /\ count'.reloads = count.reloads
    BY <1>0, <2>1
  <2>3. c \in Tasks /\ c # Free /\ c.id = id
    BY <2>2 DEF Tasks, Free
  <2>4. doing' \in [Thread -> Tasks] /\ Busy(id)' /\ \A x \in VecId : Busy(x) => Busy(x)'
    BY <2>1, <2>3, EnterIsBusy
  <2>5. held' \in [VecId -> Nat] /\ \A x \in VecId : x # id => held'[x] = held[x]
    BY <1>0, <2>1, <2>2
  <2>6. SegmentTypes'
    BY <1>0, <2>1, <2>2, <2>4, <2>5 DEF SegmentTypes
  <2>7. MissingIsBusy'
    BY <2>1, <2>2, <2>4, <2>5 DEF MissingIsBusy
  <2>. QED
    BY <2>6, <2>7
<1>2. ASSUME NEW t \in Thread, NEW id \in VecId, MarkDeleted(t, id) PROVE SegmentInv'
  <2>. PICK c : c = [op |-> "remove", id |-> id]
    OBVIOUS
  <2>1. /\ Enter(t, id, c) /\ store' = mark_deleted(store, id) /\ held' = held
        /\ count' = [count EXCEPT !.removes = @ + 1] /\ half' = half
    BY <1>2 DEF MarkDeleted
  <2>2. count' \in [upserts : Nat, removes : Nat, reloads : Nat] /\ count'.reloads = count.reloads
    BY <1>0, <2>1
  <2>3. c \in Tasks /\ c # Free /\ c.id = id
    BY DEF Tasks, Free
  <2>4. doing' \in [Thread -> Tasks] /\ Busy(id)' /\ \A x \in VecId : Busy(x) => Busy(x)'
    BY <2>1, <2>3, EnterIsBusy
  <2>5. count.reloads = 0 => LocatesAll(store') /\ \A x \in VecId : x # id => store'.loc[x] = store.loc[x]
    BY <1>0, <2>1, MarkLocates
  <2>6. SegmentTypes'
    BY <1>0, <2>1, <2>2, <2>4, <2>5 DEF SegmentTypes
  <2>7. MissingIsBusy'
    BY <2>1, <2>2, <2>4, <2>5 DEF MissingIsBusy
  <2>. QED
    BY <2>6, <2>7
<1>3. ASSUME NEW t \in Thread, PutInStore(t) PROVE SegmentInv'
  <2>. PICK id, v : id = doing[t].id /\ v = [id |-> doing[t].id, ver |-> doing[t].ver]
    OBVIOUS
  <2>0. PICK file : store' = put(store, v, file)
    BY <1>3 DEF PutInStore
  <2>1. /\ doing[t].op = "put" /\ doing' = [doing EXCEPT ![t] = Free] /\ held' = held /\ count' = count
        /\ half' = half \ {id}
    BY <1>3 DEF PutInStore
  <2>2. id \in VecId /\ v.id = id
    BY <1>0, <2>1 DEF Tasks, Free
  <2>3. doing' \in [Thread -> Tasks] /\ \A x \in VecId : Busy(x) /\ id # x => Busy(x)'
    BY <2>1, OthersStayBusy
  <2>4. count.reloads = 0 => /\ LocatesAll(store') /\ store'.loc[id] # NoLoc
                             /\ \A x \in VecId : store.loc[x] # NoLoc => store'.loc[x] # NoLoc
    <3>1. ASSUME LocatesAll(store)
          PROVE  /\ LocatesAll(put(store, v, file)) /\ put(store, v, file).loc[v.id] # NoLoc
                 /\ \A x \in VecId : store.loc[x] # NoLoc => put(store, v, file).loc[x] # NoLoc
      BY <2>2, <3>1, PutLocates
    <3>. QED
      BY <1>0, <2>0, <2>2, <3>1
  <2>5. SegmentTypes'
    BY <1>0, <2>1, <2>3, <2>4 DEF SegmentTypes
  <2>6. MissingIsBusy'
    BY <2>1, <2>3, <2>4 DEF MissingIsBusy
  <2>. QED
    BY <2>5, <2>6
<1>4. ASSUME NEW t \in Thread, RemoveFromShard(t) PROVE SegmentInv'
  <2>. PICK id : id = doing[t].id
    OBVIOUS
  <2>1. doing[t].op = "remove" /\ held' = [held EXCEPT ![id] = 0] /\ doing' = [doing EXCEPT ![t] = Free]
        /\ store' = store /\ count' = count /\ half' = half
    BY <1>4 DEF RemoveFromShard
  <2>2. id \in VecId
    BY <1>0, <2>1 DEF Tasks, Free
  <2>3. doing' \in [Thread -> Tasks] /\ \A x \in VecId : Busy(x) /\ id # x => Busy(x)'
    BY <2>1, OthersStayBusy
  <2>4. held' \in [VecId -> Nat] /\ held'[id] = 0 /\ \A x \in VecId : x # id => held'[x] = held[x]
    BY <1>0, <2>1, <2>2
  <2>5. SegmentTypes'
    BY <1>0, <2>1, <2>3, <2>4 DEF SegmentTypes
  <2>6. MissingIsBusy'
    BY <2>1, <2>3, <2>4 DEF MissingIsBusy
  <2>. QED
    BY <2>5, <2>6
<1>5. CASE Flush
  <2>0. PICK file : store' = _flush_locked(store, file)
    BY <1>5 DEF Flush
  <2>1. held' = held /\ doing' = doing /\ count' = count /\ half' = half
    BY <1>5 DEF Flush
  <2>2. count.reloads = 0 => LocatesAll(store') /\ \A x \in VecId : store.loc[x] # NoLoc => store'.loc[x] # NoLoc
    BY <1>0, <2>0, <2>1, FlushLocates
  <2>. QED
    BY <1>0, <2>1, <2>2 DEF SegmentTypes, MissingIsBusy, Busy
<1>6. CASE Reload
  <2>1. doing' = [t \in Thread |-> Free] /\ count' = [count EXCEPT !.reloads = @ + 1] /\ held' = held
    BY <1>6 DEF Reload
  <2>2. count' \in [upserts : Nat, removes : Nat, reloads : Nat] /\ count'.reloads # 0
    BY <1>0, <2>1
  <2>3. doing' \in [Thread -> Tasks]
    BY <2>1 DEF Tasks
  <2>. QED
    BY <1>0, <2>1, <2>2, <2>3 DEF SegmentTypes, MissingIsBusy
<1>7. ASSUME NEW t \in Thread, ShardThrows(t) PROVE SegmentInv'
  <2>1. /\ doing' = [doing EXCEPT ![t] = Free] /\ half' = half \cup {doing[t].id}
        /\ store' = store /\ held' = held /\ count' = count
    BY <1>7 DEF ShardThrows
  <2>2. doing' \in [Thread -> Tasks] /\ \A x \in VecId : Busy(x) /\ doing[t].id # x => Busy(x)'
    BY <2>1, OthersStayBusy
  <2>3. SegmentTypes'
    BY <1>0, <2>1, <2>2 DEF SegmentTypes
  <2>4. MissingIsBusy'
    BY <2>1, <2>2 DEF MissingIsBusy
  <2>. QED
    BY <2>3, <2>4
<1>8. CASE UNCHANGED ssVars
  BY <1>0, <1>8 DEF ssVars, SegmentTypes, MissingIsBusy, Busy
<1>. QED
  BY <1>1, <1>2, <1>3, <1>4, <1>5, <1>6, <1>7, <1>8 DEF SSNext

\* Until a restart, the store's map has every vector of the shards that no call is at work on, and
\* that none left when it threw between the shard and the store.
THEOREM MapCoversShards == SSSpec => []StoreCoversShards
<1>1. SegmentInv => StoreCoversShards
  BY DEF SegmentInv, MissingIsBusy, StoreCoversShards
<1>. QED
  BY <1>1, SegmentInitially, SegmentStep, PTL DEF SSSpec

-----------------------------------------------------------------------------
\* What the segment store has.

LEMMA InOrderIs ==
    ASSUME NEW n \in Nat, NEW S \in SUBSET (1..n)
    PROVE  Cardinality(S) \in Nat /\ Orders(InOrder(S), S)
<1>1. IsFiniteSet(S) /\ \E p : Orders(p, S)
  BY OrderExists
<1>. QED
  BY <1>1, FS_CardinalityType DEF InOrder, Orders

-----------------------------------------------------------------------------
Vectors == [id : VecId, ver : Nat]

Stores == [buffer : Seq(Vectors), segments : Seq(Nat), files : Seq(Seq(Vectors)),
           loc : [VecId -> Nat \X Nat], deleted : SUBSET VecId]

\* The last of the records of an id.
LastOf(records, id) == records[Max(Versions(records, id))]

LEMMA LastOfIs ==
    ASSUME NEW records \in Seq(Vectors), NEW id, Versions(records, id) # {}
    PROVE  /\ Max(Versions(records, id)) \in DOMAIN records /\ Max(Versions(records, id)) \in 1..Len(records)
           /\ LastOf(records, id) \in Vectors /\ LastOf(records, id).id = id
           /\ \A k \in Versions(records, id) : k <= Max(Versions(records, id))
<1>1. Len(records) \in Nat /\ DOMAIN records = 1..Len(records)
  OBVIOUS
<1>2. PICK k : k \in Versions(records, id)
  OBVIOUS
<1>3. Versions(records, id) \in SUBSET (1..Len(records))
  BY <1>1 DEF Versions
<1>4. /\ Max(Versions(records, id)) \in Versions(records, id)
      /\ \A j \in Versions(records, id) : j <= Max(Versions(records, id))
  BY <1>1, <1>2, <1>3, LastPlace
<1>. QED
  BY <1>1, <1>4 DEF Versions, LastOf

\* Writing the records that are kept leaves each id its last record.
LEMMA KeptIs ==
    ASSUME NEW s \in Stores
    PROVE  /\ Kept(s) \in Seq(Vectors)
           /\ \A id \in VecId \ s.deleted :
                 /\ Versions(Kept(s), id) = {} <=> Versions(s.buffer, id) = {}
                 /\ Versions(s.buffer, id) # {} => LastOf(Kept(s), id) = LastOf(s.buffer, id)
<1>. DEFINE buffer == s.buffer
            S == {k \in DOMAIN buffer : buffer[k].id \notin s.deleted}
            p == InOrder(S)
            c == Cardinality(S)
<1>1. buffer \in Seq(Vectors) /\ Len(buffer) \in Nat /\ DOMAIN buffer = 1..Len(buffer)
  BY DEF Stores
<1>2. S \in SUBSET (1..Len(buffer))
  BY <1>1
<1>3. c \in Nat /\ Orders(p, S)
  BY <1>1, <1>2, InOrderIs
<1>4. Kept(s) = [k \in DOMAIN p |-> buffer[p[k]]]
  BY DEF Kept
<1>5. \A k \in S : buffer[k] \in Vectors /\ k \in 1..Len(buffer)
  BY <1>1, <1>2
<1>6. \A k \in 1..Len(buffer) : buffer[k].id \notin s.deleted => k \in S
  BY <1>1
<1>. HIDE DEF S, c, p
<1>7. p \in [1..c -> S] /\ Range(p) = S /\ \A j, k \in 1..c : j < k => p[j] < p[k]
  BY <1>3 DEF Orders, c
<1>8. Kept(s) = [k \in 1..c |-> buffer[p[k]]]
  BY <1>4, <1>7
<1>9. Kept(s) \in Seq(Vectors) /\ Len(Kept(s)) = c
  BY <1>3, <1>5, <1>7, <1>8
<1>. DEFINE K == Kept(s)
<1>10. DOMAIN K = 1..c /\ \A k \in 1..c : K[k] = buffer[p[k]] /\ p[k] \in S /\ p[k] \in 1..Len(buffer)
  BY <1>5, <1>7, <1>8
<1>. HIDE DEF K, buffer
<1>11. ASSUME NEW id \in VecId \ s.deleted
       PROVE  /\ Versions(K, id) = {} <=> Versions(buffer, id) = {}
              /\ Versions(buffer, id) # {} => LastOf(K, id) = LastOf(buffer, id)
  <2>1. \A k \in Versions(K, id) : p[k] \in Versions(buffer, id)
    BY <1>1, <1>10 DEF Versions
  <2>2. ASSUME NEW k \in Versions(buffer, id) PROVE \E j \in Versions(K, id) : p[j] = k
    <3>1. k \in S
      BY <1>1, <1>6, <2>2 DEF Versions
    <3>2. PICK j \in 1..c : p[j] = k
      BY <1>7, <3>1 DEF Range
    <3>. QED
      BY <1>10, <2>2, <3>2 DEF Versions
  <2>3. ASSUME Versions(buffer, id) # {} PROVE LastOf(K, id) = LastOf(buffer, id)
    <3>. DEFINE M == Max(Versions(buffer, id))
                m == Max(Versions(K, id))
    <3>1. M \in Versions(buffer, id) /\ \A k \in Versions(buffer, id) : k <= M
      BY <1>1, <2>3, LastOfIs DEF LastOf, Versions
    <3>2. PICK j \in Versions(K, id) : p[j] = M
      BY <2>2, <3>1
    <3>3. K \in Seq(Vectors) /\ Versions(K, id) # {}
      BY <1>9, <3>2 DEF K
    <3>4. m \in Versions(K, id) /\ j <= m
      BY <3>2, <3>3, LastOfIs DEF LastOf, Versions
    <3>5. p[m] \in Versions(buffer, id) /\ p[m] <= M
      BY <2>1, <3>1, <3>4
    <3>6. j \in 1..c /\ m \in 1..c
      BY <1>10, <3>2, <3>4 DEF Versions
    <3>. HIDE DEF M, m
    <3>7. M \in 1..Len(buffer) /\ p[m] \in 1..Len(buffer)
      BY <1>1, <1>10, <3>1, <3>6 DEF Versions
    <3>8. m = j
      BY <1>1, <1>7, <3>2, <3>4, <3>5, <3>6, <3>7
    <3>9. K[m] = buffer[M]
      BY <1>10, <3>2, <3>6, <3>8
    <3>. QED
      BY <3>9 DEF LastOf, M, m
  <2>. QED
    BY <2>1, <2>2, <2>3
<1>. QED
  BY <1>9, <1>11 DEF K, buffer

\* The place that an id gets when records are written as a segment.
LEMMA LocateInIs ==
    ASSUME NEW loc, NEW n, NEW records \in Seq(Vectors), NEW id \in VecId
    PROVE  LocateIn(loc, n, records)[id] =
              IF Versions(records, id) = {} THEN loc[id] ELSE <<n, Max(Versions(records, id))>>
<1>. DEFINE I == {k \in 1..Len(records) : records[k].id = id}
<1>1. DOMAIN records = 1..Len(records)
  OBVIOUS
<1>2. I = Versions(records, id)
  BY <1>1 DEF Versions
<1>. DEFINE k == IF I # {} THEN Max(I) ELSE 0
<1>3. LocateIn(loc, n, records)[id] = IF k = 0 THEN loc[id] ELSE <<n, k>>
  BY DEF LocateIn, SelectLastInSeq
<1>. HIDE DEF I
<1>4. Versions(records, id) # {} => k # 0
  BY <1>2, LastOfIs
<1>. QED
  BY <1>2, <1>3, <1>4

\* The store has the version of an id: the last of its records in the buffer, or else, unless the
\* file was written again, the record the map points to.
Has(s, id, ver) ==
    IF Versions(s.buffer, id) # {} THEN LastOf(s.buffer, id).ver = ver
    ELSE /\ s.loc[id] \notin {NoLoc, Pending}
         /\ Overwritten(s, id) \/ RecordsOf(s, s.loc[id][1])[s.loc[id][2]].ver = ver

\* The record is the id's; or, if the store was loaded, that of an id that was cut to it.
OfId(record, id, reloads) == record.id = id \/ (reloads > 0 /\ CutTo[record.id] = id)

\* Where the map says an id is there is a record of it, unless the file was written again.
LocatedId(s, id, reloads) ==
    \/ s.loc[id] \in {NoLoc, Pending}
    \/ /\ s.loc[id][1] \in DOMAIN s.segments
       /\ \/ Overwritten(s, id)
          \/ /\ s.loc[id][2] \in DOMAIN RecordsOf(s, s.loc[id][1])
             /\ OfId(RecordsOf(s, s.loc[id][1])[s.loc[id][2]], id, reloads)

Located(s, reloads) ==
    /\ \A n \in DOMAIN s.segments : s.segments[n] \in DOMAIN s.files
    /\ \A id \in VecId : LocatedId(s, id, reloads)

\* The files when a flush wrote the records K: a fresh one, or an old one over what it had.
FilesWith(files, file, K) == IF file \in DOMAIN files THEN [files EXCEPT ![file] = K] ELSE Append(files, K)

\* The files after a flush: the one that was written has the records, the others what they had.
LEMMA FilesAfter ==
    ASSUME NEW s \in Stores, NEW K \in Seq(Vectors), NEW file \in MayWrite(s), file # 0,
           NEW g, g = FilesWith(s.files, file, K)
    PROVE  /\ g \in Seq(Seq(Vectors)) /\ file \in DOMAIN g /\ g[file] = K /\ file \in Nat
           /\ \A i \in DOMAIN s.files : i \in DOMAIN g /\ (i # file => g[i] = s.files[i])
<1>1. PICK h : h = s.files
  OBVIOUS
<1>. USE DEF FilesWith
<1>2. h \in Seq(Seq(Vectors)) /\ Len(h) \in Nat /\ DOMAIN h = 1..Len(h)
  BY <1>1 DEF Stores
<1>3. file \in 1..(Len(h) + 1)
  BY <1>1, <1>2 DEF MayWrite
<1>4. CASE file \in DOMAIN h
  <2>1. g = [h EXCEPT ![file] = K]
    BY <1>1, <1>4
  <2>. QED
    BY <1>1, <1>2, <1>4, <2>1
<1>5. CASE file \notin DOMAIN h
  <2>1. g = Append(h, K) /\ file = Len(h) + 1
    BY <1>1, <1>2, <1>3, <1>5
  <2>. QED
    BY <1>1, <1>2, <2>1
<1>. QED
  BY <1>4, <1>5

\* A flush keeps what the store has of the ids that were not removed.
LEMMA FlushKeeps ==
    ASSUME NEW s \in Stores, NEW reloads \in Nat, Located(s, reloads), NEW file \in MayWrite(s)
    PROVE  /\ _flush_locked(s, file) \in Stores /\ Located(_flush_locked(s, file), reloads)
           /\ _flush_locked(s, file).deleted = s.deleted
           /\ \A id \in VecId \ s.deleted, ver \in Nat : Has(s, id, ver) => Has(_flush_locked(s, file), id, ver)
<1>1. CASE s.buffer = <<>> \/ file = 0
  BY <1>1 DEF _flush_locked
<1>2. CASE ~(s.buffer = <<>> \/ file = 0)
  <2>. DEFINE n == Len(s.segments) + 1
  <2>1. PICK K, l, f, g :
           /\ K = Kept(s) /\ l = LocateIn(s.loc, n, K) /\ f = _flush_locked(s, file)
           /\ g = FilesWith(s.files, file, K)
    OBVIOUS
  <2>2. f = [s EXCEPT !.files = g, !.segments = Append(@, file), !.loc = l, !.buffer = <<>>]
    BY <1>2, <2>1 DEF _flush_locked, FilesWith
  <2>3. K \in Seq(Vectors)
    BY <2>1, KeptIs
  <2>4. /\ s.segments \in Seq(Nat) /\ s.files \in Seq(Seq(Vectors)) /\ s.buffer \in Seq(Vectors)
        /\ s.loc \in [VecId -> Nat \X Nat] /\ s.deleted \in SUBSET VecId
    BY DEF Stores
  <2>5. n \in Nat \ {0} /\ n = Len(s.segments) + 1 /\ DOMAIN s.segments = 1..Len(s.segments)
    BY <2>4
  <2>. HIDE DEF n
  <2>6. \A id \in VecId : l[id] = IF Versions(K, id) = {} THEN s.loc[id] ELSE <<n, Max(Versions(K, id))>>
    BY <2>1, <2>3, LocateInIs
  <2>7. \A id \in VecId : Versions(K, id) # {} =>
           Max(Versions(K, id)) \in DOMAIN K /\ Max(Versions(K, id)) \in Nat /\ LastOf(K, id).id = id
    BY <2>3, LastOfIs
  <2>8. l \in [VecId -> Nat \X Nat]
    <3>1. l = [id \in VecId |-> l[id]]
      BY <2>1 DEF LocateIn
    <3>2. ASSUME NEW id \in VecId PROVE l[id] \in Nat \X Nat
      <4>1. CASE Versions(K, id) = {}
        BY <2>4, <2>6, <4>1
      <4>2. CASE Versions(K, id) # {}
        <5>1. PICK m : m = Max(Versions(K, id))
          OBVIOUS
        <5>2. m \in Nat /\ l[id] = <<n, m>>
          BY <2>6, <2>7, <4>2, <5>1
        <5>. QED
          BY <2>5, <5>2
      <4>. QED
        BY <4>1, <4>2
    <3>. QED
      BY <3>1, <3>2
  <2>9. f = [buffer |-> <<>>, segments |-> Append(s.segments, file), files |-> g, loc |-> l, deleted |-> s.deleted]
    BY <2>2 DEF Stores
  <2>10. /\ g \in Seq(Seq(Vectors)) /\ file \in DOMAIN g /\ g[file] = K /\ file \in Nat
         /\ \A i \in DOMAIN s.files : i \in DOMAIN g /\ (i # file => g[i] = s.files[i])
    <3>1. file # 0 /\ g = FilesWith(s.files, file, K)
      BY <1>2, <2>1
    <3>. QED
      BY <2>3, <3>1, FilesAfter
  <2>11. /\ f.segments[n] = file /\ n \in DOMAIN f.segments /\ DOMAIN f.segments = 1..n
         /\ \A i \in DOMAIN s.segments : i \in DOMAIN f.segments /\ f.segments[i] = s.segments[i] /\ i < n
    BY <2>4, <2>5, <2>9, <2>10
  <2>12. f.loc = l /\ f.deleted = s.deleted /\ f.buffer = <<>> /\ f.files = g
    BY <2>9
  <2>13. f \in Stores
    <3>1. Append(s.segments, file) \in Seq(Nat)
      BY <2>4, <2>10
    <3>. QED
      BY <2>4, <2>8, <2>9, <2>10, <3>1 DEF Stores
  <2>14. RecordsOf(f, n) = K
    BY <2>10, <2>11, <2>12 DEF RecordsOf
  \* An id that the flush does not write stays where it was, or its file is written again.
  <2>15. ASSUME NEW id \in VecId, Versions(K, id) = {}, s.loc[id] \notin {NoLoc, Pending}
         PROVE  /\ f.loc[id] = s.loc[id] /\ s.loc[id][1] \in DOMAIN s.segments
                /\ \/ Overwritten(f, id)
                   \/ ~Overwritten(s, id) /\ RecordsOf(f, s.loc[id][1]) = RecordsOf(s, s.loc[id][1])
    <3>1. f.loc[id] = s.loc[id]
      BY <2>6, <2>12, <2>15
    <3>2. PICK at : at = s.loc[id][1]
      OBVIOUS
    <3>3. at \in DOMAIN s.segments /\ s.segments[at] \in DOMAIN s.files
      BY <2>15, <3>2 DEF Located, LocatedId
    <3>4. f.segments[at] = s.segments[at] /\ at < n
      BY <2>11, <3>3
    <3>5. CASE s.segments[at] = file
      <4>1. f.segments[n] = f.segments[at] /\ n > at /\ n \in DOMAIN f.segments
        BY <2>11, <3>4, <3>5
      <4>2. f.loc[id][1] = at /\ f.loc[id] \notin {NoLoc, Pending}
        BY <2>15, <3>1, <3>2
      <4>3. Overwritten(f, id)
        BY <4>1, <4>2 DEF Overwritten
      <4>. QED
        BY <2>15, <3>1, <3>2, <3>3, <4>3
    <3>6. CASE Overwritten(s, id)
      <4>1. PICK i \in DOMAIN s.segments : i > at /\ s.segments[i] = s.segments[at]
        BY <3>2, <3>6 DEF Overwritten
      <4>2. i \in DOMAIN f.segments /\ f.segments[i] = f.segments[at]
        BY <2>11, <3>4, <4>1
      <4>. QED
        BY <2>15, <3>1, <3>2, <3>3, <4>1, <4>2 DEF Overwritten
    <3>7. CASE s.segments[at] # file /\ ~Overwritten(s, id)
      <4>1. g[s.segments[at]] = s.files[s.segments[at]]
        BY <2>10, <3>3, <3>7
      <4>2. RecordsOf(f, at) = RecordsOf(s, at)
        BY <2>12, <3>4, <4>1 DEF RecordsOf
      <4>. QED
        BY <3>1, <3>2, <3>3, <3>7, <4>2
    <3>. QED
      BY <3>5, <3>6, <3>7
  <2>16. ASSUME NEW id \in VecId, Versions(K, id) # {}
         PROVE  /\ f.loc[id] \notin {NoLoc, Pending} /\ f.loc[id][1] = n /\ f.loc[id][2] \in DOMAIN K
                /\ RecordsOf(f, f.loc[id][1])[f.loc[id][2]] = LastOf(K, id) /\ LastOf(K, id).id = id
    <3>1. PICK m : m = Max(Versions(K, id))
      OBVIOUS
    <3>2. f.loc[id] = <<n, m>>
      BY <2>6, <2>12, <2>16, <3>1
    <3>3. f.loc[id] \notin {NoLoc, Pending} /\ f.loc[id][1] = n /\ f.loc[id][2] = m
      BY <2>5, <3>2 DEF NoLoc, Pending
    <3>4. m \in DOMAIN K /\ K[m] = LastOf(K, id) /\ LastOf(K, id).id = id
      BY <2>7, <2>16, <3>1 DEF LastOf
    <3>. QED
      BY <2>14, <3>3, <3>4
  <2>17. Located(f, reloads)
    <3>1. ASSUME NEW i \in DOMAIN f.segments PROVE f.segments[i] \in DOMAIN f.files
      <4>1. CASE i \in DOMAIN s.segments
        BY <2>10, <2>11, <2>12, <4>1 DEF Located
      <4>2. CASE i \notin DOMAIN s.segments
        <5>1. i = n
          BY <2>4, <2>5, <2>11, <3>1, <4>2
        <5>. QED
          BY <2>10, <2>11, <2>12, <5>1
      <4>. QED
        BY <4>1, <4>2
    <3>2. ASSUME NEW id \in VecId PROVE LocatedId(f, id, reloads)
      <4>1. CASE Versions(K, id) = {}
        <5>1. CASE s.loc[id] \in {NoLoc, Pending}
          BY <2>6, <2>12, <4>1, <5>1 DEF LocatedId
        <5>2. CASE s.loc[id] \notin {NoLoc, Pending}
          <6>1. LocatedId(s, id, reloads)
            BY DEF Located
          <6>. QED
            BY <2>11, <2>15, <4>1, <5>2, <6>1 DEF LocatedId
        <5>. QED
          BY <5>1, <5>2
      <4>2. CASE Versions(K, id) # {}
        BY <2>11, <2>14, <2>16, <4>2 DEF LocatedId, OfId
      <4>. QED
        BY <4>1, <4>2
    <3>. QED
      BY <3>1, <3>2 DEF Located
  <2>18. ASSUME NEW id \in VecId \ s.deleted, NEW ver \in Nat, Has(s, id, ver)
         PROVE  Has(f, id, ver)
    <3>1. Versions(f.buffer, id) = {}
      BY <2>12 DEF Versions
    <3>2. CASE Versions(s.buffer, id) = {}
      <4>1. Versions(K, id) = {}
        BY <2>1, <3>2, KeptIs
      <4>2. /\ s.loc[id] \notin {NoLoc, Pending}
            /\ Overwritten(s, id) \/ RecordsOf(s, s.loc[id][1])[s.loc[id][2]].ver = ver
        BY <2>18, <3>2 DEF Has
      <4>. QED
        BY <2>15, <3>1, <4>1, <4>2 DEF Has
    <3>3. CASE Versions(s.buffer, id) # {}
      <4>1. Versions(K, id) # {} /\ LastOf(K, id).ver = ver
        BY <2>1, <2>18, <3>3, KeptIs DEF Has
      <4>. QED
        BY <2>16, <3>1, <4>1 DEF Has
    <3>. QED
      BY <3>2, <3>3
  <2>. QED
    BY <2>1, <2>12, <2>13, <2>17, <2>18
<1>. QED
  BY <1>1, <1>2

\* A put gives the store the version that was put, and leaves the other ids alone.
LEMMA PutKeeps ==
    ASSUME NEW s \in Stores, NEW reloads \in Nat, Located(s, reloads), NEW v \in Vectors, NEW file \in MayWrite(s)
    PROVE  /\ put(s, v, file) \in Stores /\ Located(put(s, v, file), reloads) /\ put(s, v, file).deleted = s.deleted
           /\ v.id \notin s.deleted => Has(put(s, v, file), v.id, v.ver)
           /\ \A id \in VecId \ s.deleted, ver \in Nat : id # v.id /\ Has(s, id, ver) => Has(put(s, v, file), id, ver)
<1>. PICK b : b = Buffered(s, v)
  OBVIOUS
<1>1. v.id \in VecId /\ v.ver \in Nat
  BY DEF Vectors
<1>2. /\ s.segments \in Seq(Nat) /\ s.files \in Seq(Seq(Vectors)) /\ s.buffer \in Seq(Vectors)
      /\ s.loc \in [VecId -> Nat \X Nat] /\ s.deleted \in SUBSET VecId
  BY DEF Stores
<1>3. b = [buffer |-> Append(s.buffer, v), segments |-> s.segments, files |-> s.files,
           loc |-> [s.loc EXCEPT ![v.id] = Pending], deleted |-> s.deleted]
  BY DEF Buffered, Stores
<1>4. b.buffer \in Seq(Vectors) /\ b.loc \in [VecId -> Nat \X Nat]
  BY <1>1, <1>2, <1>3 DEF Pending
<1>5. b \in Stores /\ b.deleted = s.deleted /\ b.segments = s.segments /\ b.files = s.files
  BY <1>2, <1>3, <1>4 DEF Stores
<1>6. b.loc[v.id] = Pending /\ \A id \in VecId : id # v.id => b.loc[id] = s.loc[id]
  BY <1>1, <1>2, <1>3
<1>7. \A id \in VecId : id # v.id => (Overwritten(s, id) => Overwritten(b, id))
  BY <1>5, <1>6 DEF Overwritten
<1>8. \A i : RecordsOf(b, i) = RecordsOf(s, i)
  BY <1>5 DEF RecordsOf
<1>9. Located(b, reloads)
  <2>1. ASSUME NEW id \in VecId PROVE LocatedId(b, id, reloads)
    <3>1. CASE id = v.id
      BY <1>6, <3>1 DEF LocatedId
    <3>2. CASE id # v.id
      <4>1. LocatedId(s, id, reloads)
        BY DEF Located
      <4>. QED
        BY <1>5, <1>6, <1>7, <1>8, <3>2, <4>1 DEF LocatedId
    <3>. QED
      BY <3>1, <3>2
  <2>. QED
    BY <1>5, <2>1 DEF Located
<1>. DEFINE n == Len(s.buffer) + 1
<1>10. /\ n \in Nat \ {0} /\ DOMAIN s.buffer = 1..(n - 1) /\ DOMAIN b.buffer = 1..n /\ b.buffer[n] = v
       /\ \A k \in 1..(n - 1) : b.buffer[k] = s.buffer[k]
  BY <1>2, <1>3
<1>. HIDE DEF n
<1>11. Has(b, v.id, v.ver)
  <2>1. n \in Versions(b.buffer, v.id)
    BY <1>10 DEF Versions
  <2>2. Max(Versions(b.buffer, v.id)) \in 1..n /\ n <= Max(Versions(b.buffer, v.id))
    BY <1>4, <1>10, <2>1, LastOfIs
  <2>3. Max(Versions(b.buffer, v.id)) = n
    BY <1>10, <2>2
  <2>. QED
    BY <1>10, <2>1, <2>3 DEF Has, LastOf
<1>12. ASSUME NEW id \in VecId \ s.deleted, NEW ver \in Nat, id # v.id, Has(s, id, ver)
       PROVE  Has(b, id, ver)
  <2>1. Versions(b.buffer, id) = Versions(s.buffer, id)
    BY <1>10, <1>12 DEF Versions
  <2>2. Versions(s.buffer, id) # {} => LastOf(b.buffer, id) = LastOf(s.buffer, id)
    <3>1. Versions(s.buffer, id) # {} => Max(Versions(s.buffer, id)) \in DOMAIN s.buffer
      BY <1>2, LastOfIs
    <3>. QED
      BY <1>10, <2>1, <3>1 DEF LastOf
  <2>. QED
    BY <1>6, <1>7, <1>8, <1>12, <2>1, <2>2 DEF Has
<1>13. put(s, v, file) = b \/ put(s, v, file) = _flush_locked(b, file)
  BY DEF put
<1>14. CASE put(s, v, file) = b
  BY <1>5, <1>9, <1>11, <1>12, <1>14
<1>15. CASE put(s, v, file) = _flush_locked(b, file)
  <2>1. file \in MayWrite(b)
    BY <1>5 DEF MayWrite
  <2>2. /\ _flush_locked(b, file) \in Stores /\ Located(_flush_locked(b, file), reloads)
        /\ _flush_locked(b, file).deleted = s.deleted
        /\ \A id \in VecId \ s.deleted, ver \in Nat : Has(b, id, ver) => Has(_flush_locked(b, file), id, ver)
    BY <1>5, <1>9, <2>1, FlushKeeps
  <2>. QED
    BY <1>1, <1>11, <1>12, <1>15, <2>2
<1>. QED
  BY <1>13, <1>14, <1>15

\* A removal leaves the other ids alone.
LEMMA MarkKeeps ==
    ASSUME NEW s \in Stores, NEW reloads \in Nat, Located(s, reloads), NEW x \in VecId
    PROVE  /\ mark_deleted(s, x) \in Stores /\ Located(mark_deleted(s, x), reloads)
           /\ mark_deleted(s, x).deleted = s.deleted \cup {x}
           /\ \A id \in VecId, ver \in Nat : id # x /\ Has(s, id, ver) => Has(mark_deleted(s, x), id, ver)
<1>. PICK b : b = mark_deleted(s, x)
  OBVIOUS
<1>1. /\ s.segments \in Seq(Nat) /\ s.files \in Seq(Seq(Vectors)) /\ s.buffer \in Seq(Vectors)
      /\ s.loc \in [VecId -> Nat \X Nat] /\ s.deleted \in SUBSET VecId
  BY DEF Stores
<1>2. b = [buffer |-> s.buffer, segments |-> s.segments, files |-> s.files, loc |-> [s.loc EXCEPT ![x] = NoLoc],
           deleted |-> s.deleted \cup {x}]
  BY DEF mark_deleted, Stores
<1>3. b.loc \in [VecId -> Nat \X Nat] /\ b.loc[x] = NoLoc /\ \A id \in VecId : id # x => b.loc[id] = s.loc[id]
  BY <1>1, <1>2 DEF NoLoc
<1>4. /\ b \in Stores /\ b.deleted = s.deleted \cup {x} /\ b.segments = s.segments /\ b.files = s.files
      /\ b.buffer = s.buffer
  BY <1>1, <1>2, <1>3 DEF Stores
<1>5. \A id \in VecId : id # x => (Overwritten(s, id) => Overwritten(b, id))
  BY <1>3, <1>4 DEF Overwritten
<1>6. \A i : RecordsOf(b, i) = RecordsOf(s, i)
  BY <1>4 DEF RecordsOf
<1>7. Located(b, reloads)
  <2>1. ASSUME NEW id \in VecId PROVE LocatedId(b, id, reloads)
    <3>1. CASE id = x
      BY <1>3, <3>1 DEF LocatedId
    <3>2. CASE id # x
      <4>1. LocatedId(s, id, reloads)
        BY DEF Located
      <4>. QED
        BY <1>3, <1>4, <1>5, <1>6, <3>2, <4>1 DEF LocatedId
    <3>. QED
      BY <3>1, <3>2
  <2>. QED
    BY <1>4, <2>1 DEF Located
<1>8. \A id \in VecId, ver \in Nat : id # x /\ Has(s, id, ver) => Has(b, id, ver)
  BY <1>3, <1>4, <1>5, <1>6 DEF Has
<1>. QED
  BY <1>4, <1>7, <1>8

\* Reading a file back changes the ids only, to what they were cut to.
LEMMA AsRecordedIs ==
    ASSUME NEW records \in Seq(Vectors)
    PROVE  /\ AsRecorded(records) \in Seq(Vectors) /\ DOMAIN AsRecorded(records) = DOMAIN records
           /\ \A k \in DOMAIN records : AsRecorded(records)[k].id = CutTo[records[k].id]
<1>1. ASSUME NEW k \in DOMAIN records
      PROVE  [records[k] EXCEPT !.id = CutTo[@]] \in Vectors /\ [records[k] EXCEPT !.id = CutTo[@]].id = CutTo[records[k].id]
  <2>1. records[k] \in Vectors
    OBVIOUS
  <2>2. PICK r \in Vectors : r = records[k]
    BY <2>1
  <2>3. r.id \in VecId /\ CutTo[r.id] \in VecId
    BY SegmentStoreAssumption DEF Vectors
  <2>. QED
    BY <2>2, <2>3 DEF Vectors
<1>2. DOMAIN records = 1..Len(records) /\ Len(records) \in Nat
  OBVIOUS
<1>3. AsRecorded(records) = [k \in 1..Len(records) |-> [records[k] EXCEPT !.id = CutTo[@]]]
  BY <1>2 DEF AsRecorded
<1>4. \A k \in DOMAIN records : AsRecorded(records)[k] = [records[k] EXCEPT !.id = CutTo[@]]
  BY <1>2, <1>3
<1>5. \A k \in DOMAIN records : AsRecorded(records)[k] \in Vectors /\ AsRecorded(records)[k].id = CutTo[records[k].id]
  BY <1>1, <1>4
<1>6. DOMAIN AsRecorded(records) = DOMAIN records
  BY <1>2, <1>3
<1>7. AsRecorded(records) \in Seq(Vectors)
  <2>1. PICK h : h = AsRecorded(records)
    OBVIOUS
  <2>2. h = [k \in 1..Len(records) |-> h[k]]
    BY <1>2, <1>3, <2>1
  <2>3. \A k \in 1..Len(records) : h[k] \in Vectors
    BY <1>2, <1>5, <2>1
  <2>. QED
    BY <1>2, <2>1, <2>2, <2>3
<1>. QED
  BY <1>5, <1>6, <1>7

\* Whatever order the files are loaded in, the map points to records of the ids, or of ids that were cut to them.
LEMMA LoadLocates ==
    ASSUME NEW files \in Seq(Seq(Vectors)), NEW listing \in Listings(files), NEW reloads \in Nat \ {0}
    PROVE  Loaded(files, listing) \in Stores /\ Located(Loaded(files, listing), reloads)
<1>. DEFINE records(n) == AsRecorded(files[listing[n]])
            having(id) == {n \in DOMAIN listing : Versions(records(n), id) # {}}
            last(id) == Max(having(id))
            place(id) == LocateIn(EmptyStore.loc, last(id), records(last(id)))[id]
<1>0. PICK l, b : /\ l = [id \in VecId |-> IF having(id) = {} THEN NoLoc ELSE place(id)]
                  /\ b = Loaded(files, listing)
  OBVIOUS
<1>1. b = [buffer |-> <<>>, segments |-> listing, files |-> files, loc |-> l, deleted |-> {}]
  BY <1>0 DEF Loaded, EmptyStore
<1>2. /\ DOMAIN files = 1..Len(files) /\ Len(files) \in Nat /\ DOMAIN listing = 1..Len(files)
      /\ \A n \in DOMAIN listing : listing[n] \in DOMAIN files /\ listing[n] \in Nat
  <2>1. listing \in [DOMAIN files -> DOMAIN files]
    BY DEF Listings
  <2>. QED
    BY <2>1
<1>3. listing \in Seq(Nat)
  <2>1. listing = [n \in 1..Len(files) |-> listing[n]]
    BY DEF Listings
  <2>. QED
    BY <1>2, <2>1
<1>4. ASSUME NEW n \in DOMAIN listing
      PROVE  /\ files[listing[n]] \in Seq(Vectors) /\ records(n) \in Seq(Vectors)
             /\ DOMAIN records(n) = DOMAIN files[listing[n]]
             /\ \A k \in DOMAIN files[listing[n]] : records(n)[k].id = CutTo[files[listing[n]][k].id]
  <2>1. files[listing[n]] \in Seq(Vectors)
    BY <1>2
  <2>. QED
    BY <2>1, AsRecordedIs
<1>. HIDE DEF records
<1>5. ASSUME NEW id \in VecId, having(id) # {}
      PROVE  /\ last(id) \in DOMAIN listing /\ last(id) \in Nat /\ Versions(records(last(id)), id) # {}
             /\ l[id] = <<last(id), Max(Versions(records(last(id)), id))>>
  <2>1. PICK k : k \in having(id)
    BY <1>5
  <2>2. having(id) \in SUBSET (1..Len(files))
    BY <1>2
  <2>3. last(id) \in having(id)
    <3>. HIDE DEF having
    <3>. QED
      BY <1>2, <2>1, <2>2, LastPlace
  <2>4. last(id) \in DOMAIN listing /\ Versions(records(last(id)), id) # {}
    BY <2>3
  <2>5. l[id] = place(id)
    BY <1>0, <1>5
  <2>. HIDE DEF having, last, place
  <2>6. PICK n, e : n = last(id) /\ e = EmptyStore.loc
    OBVIOUS
  <2>7. PICK rs : rs = records(n) /\ rs \in Seq(Vectors) /\ Versions(rs, id) # {}
    BY <1>4, <2>4, <2>6
  <2>8. LocateIn(e, n, rs)[id] = <<n, Max(Versions(rs, id))>>
    <3>1. \A x \in VecId : LocateIn(e, n, rs)[x] =
             IF Versions(rs, x) = {} THEN e[x] ELSE <<n, Max(Versions(rs, x))>>
      BY <2>7, LocateInIs
    <3>. QED
      BY <2>7, <3>1
  <2>. QED
    BY <1>2, <2>4, <2>5, <2>6, <2>7, <2>8 DEF place
<1>6. \A id \in VecId : having(id) = {} => l[id] = NoLoc
  BY <1>0
<1>7. l = [id \in VecId |-> l[id]]
  BY <1>0
<1>. HIDE DEF having, last, place
<1>8. ASSUME NEW id \in VecId
      PROVE  \/ l[id] = NoLoc
             \/ /\ l[id] \in Nat \X Nat /\ l[id][1] \in DOMAIN listing
                /\ l[id][2] \in DOMAIN files[listing[l[id][1]]]
                /\ CutTo[files[listing[l[id][1]]][l[id][2]].id] = id
  <2>1. CASE having(id) = {}
    BY <1>6, <2>1
  <2>2. CASE having(id) # {}
    <3>. DEFINE n == last(id)
                m == Max(Versions(records(n), id))
    <3>1. n \in DOMAIN listing /\ n \in Nat /\ Versions(records(n), id) # {} /\ l[id] = <<n, m>>
      BY <1>5, <2>2
    <3>2. m \in DOMAIN records(n) /\ m \in 1..Len(records(n)) /\ records(n)[m].id = id
      BY <1>4, <3>1, LastOfIs DEF LastOf
    <3>3. m \in Nat
      BY <1>4, <3>1, <3>2
    <3>. HIDE DEF n, m
    <3>4. l[id] = <<n, m>> /\ n \in Nat
      BY <3>1
    <3>5. l[id][1] = n /\ l[id][2] = m
      BY <3>4
    <3>6. l[id] \in Nat \X Nat
      BY <3>3, <3>4
    <3>7. m \in DOMAIN files[listing[n]] /\ CutTo[files[listing[n]][m].id] = id
      BY <1>4, <3>1, <3>2
    <3>. QED
      BY <3>1, <3>5, <3>6, <3>7
  <2>. QED
    BY <2>1, <2>2
<1>9. l \in [VecId -> Nat \X Nat]
  <2>1. ASSUME NEW id \in VecId PROVE l[id] \in Nat \X Nat
    <3>1. NoLoc \in Nat \X Nat
      BY DEF NoLoc
    <3>. QED
      BY <1>8, <3>1
  <2>. QED
    BY <1>7, <2>1
<1>10. b.loc = l /\ b.segments = listing /\ b.files = files
  BY <1>1
<1>11. b \in Stores
  BY <1>1, <1>3, <1>9 DEF Stores
<1>12. Located(b, reloads)
  <2>1. ASSUME NEW id \in VecId PROVE LocatedId(b, id, reloads)
    <3>1. RecordsOf(b, l[id][1]) = files[listing[l[id][1]]]
      BY <1>10 DEF RecordsOf
    <3>. QED
      BY <1>8, <1>10, <3>1 DEF LocatedId, OfId
  <2>. QED
    BY <1>2, <1>10, <2>1 DEF Located
<1>. QED
  BY <1>0, <1>11, <1>12

\* Two calls at work on one id have overlapped.
AloneOrOverlapped ==
    \A t, u \in Thread :
        t # u /\ doing[t] # Free /\ doing[u] # Free /\ doing[t].id = doing[u].id => doing[t].id \in overlapped

\* Until a restart, the store has the version that the shard has of an id that was not removed and
\* that no two calls worked on at once and none left when it threw; while it is being written, the
\* call has that version.
StoreIsCurrent ==
    count.reloads = 0 =>
        \A id \in VecId : id \notin overlapped /\ id \notin store.deleted =>
            /\ \A t \in Thread : doing[t].op = "put" /\ doing[t].id = id => doing[t].ver = held[id]
            /\ held[id] > 0 /\ ~Busy(id) /\ id \notin half => Has(store, id, held[id])

RescoreInv == store \in Stores /\ Located(store, count.reloads) /\ AloneOrOverlapped /\ StoreIsCurrent

LEMMA RescoreSound == SegmentTypes /\ RescoreInv => RescoresCurrent
<1>. SUFFICES ASSUME SegmentTypes, RescoreInv, NEW id \in VecId
              PROVE  /\ \/ held[id] = 0 \/ Busy(id) \/ id \in overlapped \/ id \in half
                        \/ Cardinality(Versions(store.buffer, id)) > 1
                        \/ id \in store.deleted
                        \/ Overwritten(store, id)
                        \/ count.reloads > 0
                        \/ get(store, id) = held[id]
                     /\ \/ store.loc[id] \in {NoLoc, Pending}
                        \/ Overwritten(store, id)
                        \/ count.reloads > 0 /\ \E x \in VecId \ {id} : CutTo[x] = id
                        \/ LocatesItself(id)
  BY DEF RescoresCurrent
<1>1. \/ store.loc[id] \in {NoLoc, Pending}
      \/ Overwritten(store, id)
      \/ count.reloads > 0 /\ \E x \in VecId \ {id} : CutTo[x] = id
      \/ LocatesItself(id)
  <2>1. SUFFICES ASSUME store.loc[id] \notin {NoLoc, Pending}, ~Overwritten(store, id)
                 PROVE  \/ count.reloads > 0 /\ \E x \in VecId \ {id} : CutTo[x] = id
                        \/ LocatesItself(id)
    OBVIOUS
  <2>2. PICK n, k : n = store.loc[id][1] /\ k = store.loc[id][2]
    OBVIOUS
  <2>3. n \in DOMAIN store.segments /\ k \in DOMAIN RecordsOf(store, n) /\ OfId(RecordsOf(store, n)[k], id, count.reloads)
    BY <2>1, <2>2 DEF RescoreInv, Located, LocatedId
  <2>4. RecordsOf(store, n) \in Seq(Vectors)
    <3>1. store.segments[n] \in DOMAIN store.files /\ store.files \in Seq(Seq(Vectors))
      BY <2>3 DEF RescoreInv, Located, Stores
    <3>. QED
      BY <3>1 DEF RecordsOf
  <2>5. RecordsOf(store, n)[k].id \in VecId
    <3>1. PICK R \in Seq(Vectors) : R = RecordsOf(store, n)
      BY <2>4
    <3>2. R[k] \in Vectors
      BY <2>3, <3>1
    <3>. QED
      BY <3>1, <3>2 DEF Vectors
  <2>6. CASE RecordsOf(store, n)[k].id = id
    BY <2>2, <2>3, <2>6 DEF LocatesItself
  <2>7. CASE RecordsOf(store, n)[k].id # id
    BY <2>3, <2>5, <2>7 DEF OfId
  <2>. QED
    BY <2>6, <2>7
<1>2. SUFFICES ASSUME /\ held[id] # 0 /\ ~Busy(id) /\ id \notin overlapped /\ id \notin half
                      /\ id \notin store.deleted /\ ~Overwritten(store, id)
                      /\ ~(Cardinality(Versions(store.buffer, id)) > 1) /\ ~(count.reloads > 0)
               PROVE  get(store, id) = held[id]
  BY <1>1
<1>3. Has(store, id, held[id])
  <2>1. count.reloads = 0 /\ held[id] > 0
    BY <1>2 DEF SegmentTypes
  <2>. QED
    BY <1>2, <2>1 DEF RescoreInv, StoreIsCurrent
<1>4. store.buffer \in Seq(Vectors) /\ DOMAIN store.buffer = 1..Len(store.buffer) /\ Len(store.buffer) \in Nat
  BY DEF RescoreInv, Stores
<1>. DEFINE V == Versions(store.buffer, id)
<1>5. CASE V # {}
  <2>1. V \in SUBSET (1..Len(store.buffer))
    BY <1>4 DEF Versions
  <2>2. Max(V) \in V
    BY <1>4, <1>5, <2>1, LastPlace
  <2>3. IsFiniteSet(V)
    BY <1>4, <2>1, OrderExists
  <2>. HIDE DEF V
  <2>4. V = {Max(V)}
    <3>1. SUFFICES ASSUME NEW k \in V, k # Max(V) PROVE FALSE
      BY <2>2
    <3>2. PICK m : m = Max(V)
      OBVIOUS
    <3>3. IsFiniteSet({k}) /\ Cardinality({k}) = 1
      BY FS_Singleton
    <3>4. IsFiniteSet({k} \cup {m}) /\ Cardinality({k} \cup {m}) = 2
      BY <3>1, <3>2, <3>3, FS_AddElement
    <3>5. {k} \cup {m} \subseteq V
      BY <2>2, <3>2
    <3>6. Cardinality(V) \in Nat /\ Cardinality({k} \cup {m}) <= Cardinality(V)
      BY <2>3, <3>5, FS_Subset, FS_CardinalityType
    <3>. QED
      BY <1>2, <3>4, <3>6 DEF V
  <2>5. PICK m : m = Max(V)
    OBVIOUS
  <2>6. \E x \in V : \A y \in V : x =< y
    <3>1. \A k \in V : k \in Nat
      BY <1>4, <2>1
    <3>2. m \in V /\ m \in Nat /\ \A k \in V : k = m
      BY <2>2, <2>4, <2>5, <3>1
    <3>. QED
      BY <3>2
  <2>7. Min(V) \in V
    BY <2>6, Zenon DEF Min
  <2>8. Min(V) = Max(V)
    BY <2>4, <2>7
  <2>9. get(store, id) = store.buffer[Min(V)].ver
    BY <1>5 DEF get, V
  <2>. QED
    BY <1>3, <1>5, <2>8, <2>9 DEF Has, LastOf, V
<1>6. CASE V = {}
  <2>1. store.loc[id] \notin {NoLoc, Pending} /\ RecordsOf(store, store.loc[id][1])[store.loc[id][2]].ver = held[id]
    BY <1>2, <1>3, <1>6 DEF Has
  <2>2. store.loc[id][2] \in DOMAIN RecordsOf(store, store.loc[id][1])
    BY <1>1, <1>2, <2>1 DEF LocatesItself
  <2>. QED
    BY <1>6, <2>1, <2>2 DEF get
<1>. QED
  BY <1>5, <1>6

LEMMA RescoreInitially == SSInit => RescoreInv
<1>. SUFFICES ASSUME SSInit PROVE RescoreInv
  OBVIOUS
<1>1. store = EmptyStore /\ held = [id \in VecId |-> 0] /\ doing = [t \in Thread |-> Free] /\ count.reloads = 0
  BY DEF SSInit
<1>2. NoLoc \in Nat \X Nat
  BY DEF NoLoc
<1>3. EmptyStore \in Stores
  BY <1>2 DEF EmptyStore, Stores
<1>4. Located(store, count.reloads)
  BY <1>1 DEF EmptyStore, Located, LocatedId
<1>5. AloneOrOverlapped
  BY <1>1 DEF AloneOrOverlapped
<1>6. StoreIsCurrent
  BY <1>1 DEF StoreIsCurrent, Free
<1>. QED
  BY <1>1, <1>3, <1>4, <1>5, <1>6 DEF RescoreInv

\* A call that begins leaves every two calls at one id overlapped.
LEMMA EnterOverlaps ==
    ASSUME SegmentTypes, AloneOrOverlapped, NEW t \in Thread, NEW id \in VecId, NEW c \in Tasks, c.id = id, Enter(t, id, c)
    PROVE  /\ AloneOrOverlapped' /\ overlapped \subseteq overlapped'
           /\ \A x \in VecId : x # id => (Busy(x)' => Busy(x))
           /\ id \notin overlapped' => \A u \in Thread : u # t => doing'[u] = Free \/ doing'[u].id # id
<1>1. doing[t] = Free /\ doing' = [doing EXCEPT ![t] = c] /\ overlapped' = IF Busy(id) THEN overlapped \cup {id} ELSE overlapped
  BY DEF Enter
<1>2. doing'[t] = c /\ \A u \in Thread : u # t => doing'[u] = doing[u]
  BY <1>1 DEF SegmentTypes
<1>3. \A u \in Thread : u # t /\ doing'[u] # Free /\ doing'[u].id = id => id \in overlapped'
  BY <1>1, <1>2 DEF Busy
<1>4. overlapped \subseteq overlapped'
  BY <1>1
<1>5. AloneOrOverlapped'
  <2>1. SUFFICES ASSUME NEW a \in Thread, NEW b \in Thread, a # b, doing'[a] # Free, doing'[b] # Free, doing'[a].id = doing'[b].id
                 PROVE  doing'[a].id \in overlapped'
    BY DEF AloneOrOverlapped
  <2>2. CASE a = t
    BY <1>2, <1>3, <2>1, <2>2
  <2>3. CASE b = t
    BY <1>2, <1>3, <2>1, <2>3
  <2>4. CASE a # t /\ b # t
    BY <1>2, <1>4, <2>1, <2>4 DEF AloneOrOverlapped
  <2>. QED
    BY <2>2, <2>3, <2>4
<1>6. \A x \in VecId : x # id => (Busy(x)' => Busy(x))
  BY <1>2 DEF Busy
<1>. QED
  BY <1>3, <1>4, <1>5, <1>6

\* A call that ends leaves the others.
LEMMA LeaveOverlaps ==
    ASSUME SegmentTypes, AloneOrOverlapped, NEW t \in Thread, doing' = [doing EXCEPT ![t] = Free], overlapped' = overlapped
    PROVE  /\ AloneOrOverlapped' /\ doing'[t] = Free /\ \A u \in Thread : u # t => doing'[u] = doing[u]
           /\ \A x \in VecId : Busy(x) /\ (doing[t] # Free => doing[t].id # x) => Busy(x)'
<1>1. doing'[t] = Free /\ \A u \in Thread : u # t => doing'[u] = doing[u]
  BY DEF SegmentTypes
<1>2. AloneOrOverlapped'
  BY <1>1 DEF AloneOrOverlapped
<1>. QED
  BY <1>1, <1>2 DEF Busy

LEMMA RescoreStep == SegmentTypes /\ RescoreInv /\ [SSNext]_ssVars => RescoreInv'
<1>. SUFFICES ASSUME SegmentTypes, RescoreInv, [SSNext]_ssVars PROVE RescoreInv'
  OBVIOUS
<1>0. /\ store \in Stores /\ Located(store, count.reloads) /\ AloneOrOverlapped /\ StoreIsCurrent
      /\ held \in [VecId -> Nat] /\ doing \in [Thread -> Tasks]
      /\ count \in [upserts : Nat, removes : Nat, reloads : Nat]
  BY DEF SegmentTypes, RescoreInv
<1>1. ASSUME NEW t \in Thread, NEW id \in VecId, UpsertShard(t, id) PROVE RescoreInv'
  <2>. PICK c : c = [op |-> "put", id |-> id, ver |-> count.upserts + 1]
    OBVIOUS
  <2>1. /\ Enter(t, id, c) /\ held' = [held EXCEPT ![id] = count.upserts + 1]
        /\ count' = [count EXCEPT !.upserts = @ + 1] /\ store' = store /\ half' = half
    BY <1>1 DEF UpsertShard
  <2>2. count.upserts + 1 \in Nat /\ count'.reloads = count.reloads
    BY <1>0, <2>1
  <2>3. c \in Tasks /\ c # Free /\ c.id = id /\ c.ver = count.upserts + 1
    BY <2>2 DEF Tasks, Free
  <2>4. /\ AloneOrOverlapped' /\ overlapped \subseteq overlapped'
        /\ \A x \in VecId : x # id => (Busy(x)' => Busy(x))
        /\ id \notin overlapped' => \A u \in Thread : u # t => doing'[u] = Free \/ doing'[u].id # id
    BY <1>0, <2>1, <2>3, EnterOverlaps
  <2>5. held'[id] = count.upserts + 1 /\ \A x \in VecId : x # id => held'[x] = held[x]
    BY <1>0, <2>1
  <2>6. doing'[t] = c /\ \A u \in Thread : u # t => doing'[u] = doing[u]
    BY <1>0, <2>1 DEF Enter
  <2>7. Busy(id)' /\ \A x \in VecId : Busy(x) => Busy(x)'
    BY <2>1, <2>3, EnterIsBusy
  <2>8. StoreIsCurrent'
    <3>1. SUFFICES ASSUME count.reloads = 0, NEW x \in VecId, x \notin overlapped', x \notin store.deleted
                   PROVE  /\ \A u \in Thread : doing'[u].op = "put" /\ doing'[u].id = x => doing'[u].ver = held'[x]
                          /\ held'[x] > 0 /\ ~Busy(x)' /\ x \notin half' => Has(store, x, held'[x])
      BY <2>1, <2>2 DEF StoreIsCurrent
    <3>2. CASE x = id
      BY <2>3, <2>4, <2>5, <2>6, <2>7, <3>1, <3>2 DEF Free
    <3>3. CASE x # id
      <4>1. x \notin overlapped /\ held'[x] = held[x]
        BY <2>4, <2>5, <3>1, <3>3
      <4>2. /\ \A u \in Thread : doing[u].op = "put" /\ doing[u].id = x => doing[u].ver = held[x]
            /\ held[x] > 0 /\ ~Busy(x) /\ x \notin half => Has(store, x, held[x])
        BY <1>0, <3>1, <4>1 DEF StoreIsCurrent
      <4>3. \A u \in Thread : doing'[u].id = x => doing'[u] = doing[u]
        BY <2>3, <2>6, <3>3
      <4>. QED
        BY <2>1, <2>7, <4>1, <4>2, <4>3
    <3>. QED
      BY <3>2, <3>3
  <2>. QED
    BY <1>0, <2>1, <2>4, <2>8 DEF RescoreInv
<1>2. ASSUME NEW t \in Thread, NEW id \in VecId, MarkDeleted(t, id) PROVE RescoreInv'
  <2>. PICK c : c = [op |-> "remove", id |-> id]
    OBVIOUS
  <2>1. /\ Enter(t, id, c) /\ store' = mark_deleted(store, id) /\ held' = held
        /\ count' = [count EXCEPT !.removes = @ + 1] /\ half' = half
    BY <1>2 DEF MarkDeleted
  <2>2. count'.reloads = count.reloads
    BY <1>0, <2>1
  <2>3. c \in Tasks /\ c # Free /\ c.id = id
    BY DEF Tasks, Free
  <2>4. AloneOrOverlapped' /\ overlapped \subseteq overlapped' /\ \A x \in VecId : x # id => (Busy(x)' => Busy(x))
    BY <1>0, <2>1, <2>3, EnterOverlaps
  <2>5. \A x \in VecId : Busy(x) => Busy(x)'
    BY <2>1, <2>3, EnterIsBusy
  <2>6. doing'[t] = c /\ \A u \in Thread : u # t => doing'[u] = doing[u]
    BY <1>0, <2>1 DEF Enter
  <2>7. /\ store' \in Stores /\ Located(store', count.reloads) /\ store'.deleted = store.deleted \cup {id}
        /\ \A x \in VecId, ver \in Nat : x # id /\ Has(store, x, ver) => Has(store', x, ver)
    BY <1>0, <2>1, MarkKeeps
  <2>8. StoreIsCurrent'
    <3>1. SUFFICES ASSUME count.reloads = 0, NEW x \in VecId, x \notin overlapped', x \notin store'.deleted
                   PROVE  /\ \A u \in Thread : doing'[u].op = "put" /\ doing'[u].id = x => doing'[u].ver = held[x]
                          /\ held[x] > 0 /\ ~Busy(x)' /\ x \notin half' => Has(store', x, held[x])
      BY <2>1, <2>2 DEF StoreIsCurrent
    <3>2. x # id /\ x \notin store.deleted /\ x \notin overlapped /\ held[x] \in Nat
      BY <1>0, <2>4, <2>7, <3>1
    <3>. QED
      <4>1. /\ \A u \in Thread : doing[u].op = "put" /\ doing[u].id = x => doing[u].ver = held[x]
            /\ held[x] > 0 /\ ~Busy(x) /\ x \notin half => Has(store, x, held[x])
        BY <1>0, <3>1, <3>2 DEF StoreIsCurrent
      <4>2. \A u \in Thread : doing'[u].id = x => doing'[u] = doing[u]
        BY <2>3, <2>6, <3>2
      <4>3. \A u \in Thread : doing'[u].op = "put" /\ doing'[u].id = x => doing'[u].ver = held[x]
        BY <4>1, <4>2
      <4>. QED
        BY <2>1, <2>5, <2>7, <3>2, <4>1, <4>3
  <2>. QED
    BY <2>2, <2>4, <2>7, <2>8 DEF RescoreInv
<1>3. ASSUME NEW t \in Thread, PutInStore(t) PROVE RescoreInv'
  <2>. PICK id, v : id = doing[t].id /\ v = [id |-> doing[t].id, ver |-> doing[t].ver]
    OBVIOUS
  <2>0. PICK file \in MayWrite(store) : store' = put(store, v, file)
    BY <1>3 DEF PutInStore
  <2>1. /\ doing[t].op = "put" /\ doing' = [doing EXCEPT ![t] = Free] /\ half' = half \ {id}
        /\ held' = held /\ count' = count /\ overlapped' = overlapped
    BY <1>3 DEF PutInStore
  <2>2. id \in VecId /\ v \in Vectors /\ v.id = id /\ v.ver = doing[t].ver
    BY <1>0, <2>1 DEF Tasks, Free, Vectors
  <2>3. /\ AloneOrOverlapped' /\ doing'[t] = Free /\ \A u \in Thread : u # t => doing'[u] = doing[u]
        /\ \A x \in VecId : Busy(x) /\ id # x => Busy(x)'
    BY <1>0, <2>1, LeaveOverlaps
  <2>4. /\ store' \in Stores /\ Located(store', count.reloads) /\ store'.deleted = store.deleted
        /\ id \notin store.deleted => Has(store', id, v.ver)
        /\ \A x \in VecId \ store.deleted, ver \in Nat : x # id /\ Has(store, x, ver) => Has(store', x, ver)
    BY <1>0, <2>0, <2>2, PutKeeps
  <2>5. StoreIsCurrent'
    <3>1. SUFFICES ASSUME count.reloads = 0, NEW x \in VecId, x \notin overlapped, x \notin store.deleted
                   PROVE  /\ \A u \in Thread : doing'[u].op = "put" /\ doing'[u].id = x => doing'[u].ver = held[x]
                          /\ held[x] > 0 /\ ~Busy(x)' /\ x \notin half' => Has(store', x, held[x])
      BY <2>1, <2>4 DEF StoreIsCurrent
    <3>2. \A u \in Thread : doing[u].op = "put" /\ doing[u].id = x => doing[u].ver = held[x]
      BY <1>0, <3>1 DEF StoreIsCurrent
    <3>3. \A u \in Thread : doing'[u].op = "put" /\ doing'[u].id = x => doing'[u].ver = held[x]
      BY <2>3, <3>2 DEF Free
    <3>4. CASE x = id
      BY <2>1, <2>2, <2>4, <3>1, <3>2, <3>3, <3>4
    <3>5. CASE x # id
      BY <1>0, <2>1, <2>3, <2>4, <3>1, <3>3, <3>5 DEF StoreIsCurrent
    <3>. QED
      BY <3>4, <3>5
  <2>. QED
    BY <2>1, <2>3, <2>4, <2>5 DEF RescoreInv
<1>4. ASSUME NEW t \in Thread, RemoveFromShard(t) PROVE RescoreInv'
  <2>. PICK id : id = doing[t].id
    OBVIOUS
  <2>1. doing[t].op = "remove" /\ held' = [held EXCEPT ![id] = 0] /\ doing' = [doing EXCEPT ![t] = Free]
        /\ store' = store /\ count' = count /\ overlapped' = overlapped /\ half' = half
    BY <1>4 DEF RemoveFromShard
  <2>2. id \in VecId /\ doing[t] # Free
    BY <1>0, <2>1 DEF Tasks, Free
  <2>3. /\ AloneOrOverlapped' /\ doing'[t] = Free /\ \A u \in Thread : u # t => doing'[u] = doing[u]
        /\ \A x \in VecId : Busy(x) /\ id # x => Busy(x)'
    BY <1>0, <2>1, LeaveOverlaps
  <2>4. held'[id] = 0 /\ \A x \in VecId : x # id => held'[x] = held[x]
    BY <1>0, <2>1, <2>2
  <2>5. StoreIsCurrent'
    <3>1. SUFFICES ASSUME count.reloads = 0, NEW x \in VecId, x \notin overlapped, x \notin store.deleted
                   PROVE  /\ \A u \in Thread : doing'[u].op = "put" /\ doing'[u].id = x => doing'[u].ver = held'[x]
                          /\ held'[x] > 0 /\ ~Busy(x)' /\ x \notin half' => Has(store, x, held'[x])
      BY <2>1 DEF StoreIsCurrent
    <3>2. CASE x = id
      <4>1. ASSUME NEW u \in Thread, doing'[u].op = "put", doing'[u].id = x PROVE FALSE
        <5>1. u # t /\ doing[u] = doing'[u] /\ doing[u] # Free
          BY <2>3, <4>1 DEF Free
        <5>. QED
          BY <1>0, <2>2, <3>1, <3>2, <4>1, <5>1 DEF AloneOrOverlapped
      <4>. QED
        BY <2>4, <3>2, <4>1
    <3>3. CASE x # id
      BY <1>0, <2>1, <2>3, <2>4, <3>1, <3>3 DEF StoreIsCurrent, Free
    <3>. QED
      BY <3>2, <3>3
  <2>. QED
    BY <1>0, <2>1, <2>3, <2>5 DEF RescoreInv
<1>5. CASE Flush
  <2>0. PICK file \in MayWrite(store) : store' = _flush_locked(store, file)
    BY <1>5 DEF Flush
  <2>1. held' = held /\ doing' = doing /\ count' = count /\ overlapped' = overlapped /\ half' = half
    BY <1>5 DEF Flush
  <2>2. /\ store' \in Stores /\ Located(store', count.reloads) /\ store'.deleted = store.deleted
        /\ \A id \in VecId \ store.deleted, ver \in Nat : Has(store, id, ver) => Has(store', id, ver)
    BY <1>0, <2>0, FlushKeeps
  <2>3. AloneOrOverlapped'
    BY <1>0, <2>1 DEF AloneOrOverlapped
  <2>4. StoreIsCurrent'
    BY <1>0, <2>1, <2>2 DEF StoreIsCurrent, Busy
  <2>. QED
    BY <2>1, <2>2, <2>3, <2>4 DEF RescoreInv
<1>6. CASE Reload
  <2>1. /\ doing' = [t \in Thread |-> Free] /\ count' = [count EXCEPT !.reloads = @ + 1]
        /\ \E listing \in Listings(store.files) : store' = Loaded(store.files, listing)
    BY <1>6 DEF Reload
  <2>2. count'.reloads \in Nat \ {0}
    BY <1>0, <2>1
  <2>3. store.files \in Seq(Seq(Vectors))
    BY <1>0 DEF Stores
  <2>4. store' \in Stores /\ Located(store', count'.reloads)
    BY <2>1, <2>2, <2>3, LoadLocates
  <2>5. AloneOrOverlapped'
    BY <2>1 DEF AloneOrOverlapped
  <2>. QED
    BY <2>2, <2>4, <2>5 DEF RescoreInv, StoreIsCurrent
<1>7. ASSUME NEW t \in Thread, ShardThrows(t) PROVE RescoreInv'
  <2>. PICK id : id = doing[t].id
    OBVIOUS
  <2>1. /\ doing[t] # Free /\ doing' = [doing EXCEPT ![t] = Free] /\ half' = half \cup {id}
        /\ store' = store /\ held' = held /\ count' = count /\ overlapped' = overlapped
    BY <1>7 DEF ShardThrows
  <2>2. /\ AloneOrOverlapped' /\ doing'[t] = Free /\ \A u \in Thread : u # t => doing'[u] = doing[u]
        /\ \A x \in VecId : Busy(x) /\ id # x => Busy(x)'
    BY <1>0, <2>1, LeaveOverlaps
  <2>3. StoreIsCurrent'
    <3>1. SUFFICES ASSUME count.reloads = 0, NEW x \in VecId, x \notin overlapped, x \notin store.deleted
                   PROVE  /\ \A u \in Thread : doing'[u].op = "put" /\ doing'[u].id = x => doing'[u].ver = held[x]
                          /\ held[x] > 0 /\ ~Busy(x)' /\ x \notin half' => Has(store, x, held[x])
      BY <2>1 DEF StoreIsCurrent
    <3>2. \A u \in Thread : doing'[u].op = "put" /\ doing'[u].id = x => doing'[u].ver = held[x]
      BY <1>0, <2>2, <3>1 DEF StoreIsCurrent, Free
    <3>3. ASSUME held[x] > 0, ~Busy(x)', x \notin half' PROVE Has(store, x, held[x])
      BY <1>0, <2>1, <2>2, <3>1, <3>3 DEF StoreIsCurrent
    <3>. QED
      BY <3>2, <3>3
  <2>. QED
    BY <1>0, <2>1, <2>2, <2>3 DEF RescoreInv
<1>8. CASE UNCHANGED ssVars
  BY <1>0, <1>8 DEF ssVars, RescoreInv, AloneOrOverlapped, StoreIsCurrent, Busy
<1>. QED
  BY <1>1, <1>2, <1>3, <1>4, <1>5, <1>6, <1>7, <1>8 DEF SSNext

\* Rescoring uses the vector that the shard has, but for the cases the property names (a removal, two
\* calls at once, a call that threw, two versions in the buffer, a file that was written again, a restart);
\* another id's only from a file that was written again, or from a loaded one by an id that was cut.
THEOREM StoreIsFresh == SSSpec => []RescoresCurrent
<1>1. SegmentInv => SegmentTypes
  BY DEF SegmentInv
<1>. QED
  BY <1>1, SegmentInitially, SegmentStep, RescoreInitially, RescoreStep, RescoreSound, PTL DEF SSSpec

-----------------------------------------------------------------------------
\* The group commit.

\* s holds the numbers that follow base.
Run(s, base) == s \in Seq(Nat) /\ \A k \in 1..Len(s) : s[k] = base + k

\* How many writes were in the file when the current batch was begun.
Before == Len(walFile) - Len(flusher.lsns)

GCTypes ==
    /\ flusher \in [stage : {"ended", "top", "log", "sync", "answer"},
                    batch : Seq(Nat), lsns : Seq(Nat), answers : Nat]
    /\ synced \in Nat /\ submits \in Nat
    /\ results \in [1..MaxSubmits -> Nat]
    /\ submits <= MaxSubmits

\* The numbers in file, batch and queue.
Unbroken ==
    /\ Before \in Nat
    /\ Run(walFile, 0)
    /\ Run(flusher.lsns, Before) /\ Run(flusher.batch, Before)
    /\ Run(pending_, Before + Len(flusher.batch))
    /\ Before + Len(flusher.batch) + Len(pending_) = submits

\* What the stages of the loop know.
Stages ==
    /\ flusher.stage \in {"ended", "top"} => flusher.batch = <<>> /\ flusher.lsns = <<>>
    /\ flusher.stage \in {"sync", "answer"} => Len(flusher.lsns) = Len(flusher.batch)
    /\ Len(flusher.lsns) <= Len(flusher.batch)
    /\ synced <= Len(walFile)
    /\ flusher.stage = "answer" => synced = Len(walFile)

\* A write that was answered has its own number for its LSN.
OwnLsn == \A n \in 1..MaxSubmits : results[n] > 0 => results[n] = n /\ n <= synced

GCInv == GCTypes /\ Unbroken /\ Stages /\ OwnLsn

LEMMA RunEmpty == ASSUME NEW base \in Nat PROVE Run(<<>>, base) /\ Len(<<>>) = 0
  BY DEF Run

LEMMA RunAppend ==
    ASSUME NEW base \in Nat, NEW s, Run(s, base)
    PROVE  /\ Run(Append(s, base + Len(s) + 1), base)
           /\ Len(Append(s, base + Len(s) + 1)) = Len(s) + 1
<1>. DEFINE x == base + Len(s) + 1
            t == Append(s, x)
<1>1. s \in Seq(Nat) /\ Len(s) \in Nat /\ x \in Nat
  BY LenProperties DEF Run
<1>2. t \in Seq(Nat) /\ Len(t) = Len(s) + 1 /\ t[Len(s) + 1] = x
  BY <1>1, AppendProperties
<1>3. \A k \in 1..Len(s) : t[k] = s[k]
  BY <1>1, AppendProperties
<1>4. \A k \in 1..Len(t) : t[k] = base + k
  <2>. TAKE k \in 1..Len(t)
  <2>1. CASE k = Len(s) + 1
    BY <2>1, <1>1, <1>2
  <2>2. CASE k # Len(s) + 1
    BY <2>2, <1>1, <1>2, <1>3 DEF Run
  <2>. QED
    BY <2>1, <2>2
<1>. QED
  BY <1>2, <1>4 DEF Run

LEMMA RunCut ==
    ASSUME NEW base \in Nat, NEW s, Run(s, base), NEW n \in 0..Len(s)
    PROVE  /\ Run(SubSeq(s, 1, n), base) /\ Len(SubSeq(s, 1, n)) = n
           /\ Run(SubSeq(s, n + 1, Len(s)), base + n)
           /\ Len(SubSeq(s, n + 1, Len(s))) = Len(s) - n
<1>1. s \in Seq(Nat) /\ Len(s) \in Nat /\ n \in Nat /\ n <= Len(s)
  BY LenProperties DEF Run
<1>2. \A k \in 1..Len(s) : s[k] = base + k
  BY DEF Run
<1>3. /\ SubSeq(s, 1, n) \in Seq(Nat) /\ Len(SubSeq(s, 1, n)) = n
      /\ \A k \in 1..n : SubSeq(s, 1, n)[k] = s[k]
  BY <1>1
<1>4. /\ SubSeq(s, n + 1, Len(s)) \in Seq(Nat) /\ Len(SubSeq(s, n + 1, Len(s))) = Len(s) - n
      /\ \A k \in 1..(Len(s) - n) : SubSeq(s, n + 1, Len(s))[k] = s[n + k]
  BY <1>1
<1>. HIDE DEF Run
<1>5. Run(SubSeq(s, 1, n), base)
  BY <1>1, <1>2, <1>3 DEF Run
<1>6. Run(SubSeq(s, n + 1, Len(s)), base + n)
  <2>1. \A k \in 1..(Len(s) - n) : n + k \in 1..Len(s) /\ s[n + k] = base + (n + k)
    BY <1>1, <1>2
  <2>. QED
    BY <1>1, <1>4, <2>1 DEF Run
<1>. QED
  BY <1>3, <1>4, <1>5, <1>6

LEMMA GCInitially == GCInit => GCInv
<1>. SUFFICES ASSUME GCInit PROVE GCInv
  OBVIOUS
<1>1. flusher = [stage |-> "ended", batch |-> <<>>, lsns |-> <<>>, answers |-> 0]
  BY DEF GCInit, NotStarted
<1>2. GCTypes
  BY <1>1, GroupCommitAssumption DEF GCInit, GCTypes
<1>3. Unbroken
  BY <1>1, RunEmpty DEF GCInit, Unbroken, Before
<1>4. Stages /\ OwnLsn
  BY <1>1 DEF GCInit, Stages, OwnLsn
<1>. QED
  BY <1>2, <1>3, <1>4 DEF GCInv

\* What the lemmas about single steps use of the invariant.
LEMMA GCNumbers ==
    ASSUME GCInv
    PROVE  /\ Before \in Nat /\ Len(pending_) \in Nat /\ Len(walFile) \in Nat
           /\ Len(flusher.batch) \in Nat /\ Len(flusher.lsns) \in Nat
           /\ Len(walFile) = Before + Len(flusher.lsns)
           /\ submits = Before + Len(flusher.batch) + Len(pending_)
<1>1. /\ walFile \in Seq(Nat) /\ flusher.lsns \in Seq(Nat) /\ flusher.batch \in Seq(Nat)
      /\ pending_ \in Seq(Nat)
  BY DEF GCInv, Unbroken, Run
<1>2. Len(walFile) \in Nat /\ Len(flusher.lsns) \in Nat /\ Len(flusher.batch) \in Nat /\ Len(pending_) \in Nat
  BY <1>1, LenProperties
<1>3. Before \in Nat /\ Before + Len(flusher.batch) + Len(pending_) = submits
  BY DEF GCInv, Unbroken
<1>4. Len(walFile) = Before + Len(flusher.lsns)
  BY <1>2 DEF Before
<1>. QED
  BY <1>2, <1>3, <1>4

LEMMA SubmitKeeps == ASSUME GCInv, NEW w \in Submitter, SubmitAndWait(w) PROVE GCInv'
<1>1. /\ submits' = submits + 1 /\ submits < MaxSubmits
      /\ pending_' = Append(pending_, submits + 1)
      /\ UNCHANGED <<flusher, walFile, synced, results>>
  BY DEF SubmitAndWait
<1>2. GCTypes'
  BY <1>1, GroupCommitAssumption DEF GCInv, GCTypes
<1>3. submits + 1 = (Before + Len(flusher.batch)) + Len(pending_) + 1 /\ Before + Len(flusher.batch) \in Nat
  BY GCNumbers
<1>4. Run(pending_', Before + Len(flusher.batch)) /\ Len(pending_') = Len(pending_) + 1
  <2>1. Run(pending_, Before + Len(flusher.batch))
    BY DEF GCInv, Unbroken
  <2>. QED
    BY <1>1, <1>3, <2>1, RunAppend
<1>5. Before' = Before
  BY <1>1 DEF Before
<1>6. Unbroken'
  <2>1. Before + Len(flusher.batch) + Len(pending_') = submits'
    BY <1>1, <1>3, <1>4, GCNumbers
  <2>. QED
    BY <1>1, <1>4, <1>5, <2>1 DEF GCInv, Unbroken
<1>7. Stages' /\ OwnLsn'
  BY <1>1 DEF GCInv, Stages, OwnLsn
<1>. QED
  BY <1>2, <1>6, <1>7 DEF GCInv

LEMMA StartKeeps == ASSUME GCInv, StartFlusher PROVE GCInv'
<1>1. flusher' = [stage |-> "top", batch |-> <<>>, lsns |-> <<>>, answers |-> 0]
  BY DEF StartFlusher, AtTop, NotStarted
<1>2. /\ flusher.stage = "ended"
      /\ UNCHANGED <<pending_, walFile, synced, results, submits>>
  BY DEF StartFlusher
<1>3. flusher.batch = <<>> /\ flusher.lsns = <<>>
  BY <1>2 DEF GCInv, Stages
<1>. QED
  BY <1>1, <1>2, <1>3 DEF GCInv, GCTypes, Unbroken, Before, Stages, OwnLsn

LEMMA EndKeeps == ASSUME GCInv, LoopEnds PROVE GCInv'
<1>1. flusher' = [stage |-> "ended", batch |-> <<>>, lsns |-> <<>>, answers |-> 0]
  BY DEF LoopEnds, NotStarted
<1>2. /\ flusher.stage = "top"
      /\ UNCHANGED <<pending_, walFile, synced, results, submits>>
  BY DEF LoopEnds
<1>3. flusher.batch = <<>> /\ flusher.lsns = <<>>
  BY <1>2 DEF GCInv, Stages
<1>. QED
  BY <1>1, <1>2, <1>3 DEF GCInv, GCTypes, Unbroken, Before, Stages, OwnLsn

LEMMA TakeKeeps == ASSUME GCInv, TakeBatch PROVE GCInv'
<1>1. flusher' = [stage |-> "log", batch |-> SubSeq(pending_, 1, BatchSize), lsns |-> <<>>, answers |-> 0]
  BY DEF TakeBatch, AtTop, NotStarted
<1>2. /\ flusher.stage = "top"
      /\ pending_' = SubSeq(pending_, BatchSize + 1, Len(pending_))
      /\ UNCHANGED <<walFile, synced, results, submits>>
  BY DEF TakeBatch, Rest
<1>3. flusher.batch = <<>> /\ flusher.lsns = <<>>
  BY <1>2 DEF GCInv, Stages
<1>4. Before = Len(walFile) /\ Before' = Before /\ Len(flusher.batch) = 0
  BY <1>1, <1>2, <1>3, GCNumbers DEF Before
<1>5. BatchSize \in 0..Len(pending_)
  BY GCNumbers, GroupCommitAssumption DEF BatchSize
<1>6. Run(pending_, Before)
  BY <1>4, GCNumbers DEF GCInv, Unbroken
<1>7. /\ Run(flusher'.batch, Before) /\ Len(flusher'.batch) = BatchSize
      /\ Run(pending_', Before + BatchSize) /\ Len(pending_') = Len(pending_) - BatchSize
  BY <1>1, <1>2, <1>5, <1>6, GCNumbers, RunCut
<1>8. Run(flusher'.lsns, Before) /\ Len(flusher'.lsns) = 0
  BY <1>1, GCNumbers, RunEmpty
<1>9. Unbroken'
  <2>1. Before + BatchSize + (Len(pending_) - BatchSize) = submits
    BY <1>4, <1>5, GCNumbers
  <2>. QED
    BY <1>2, <1>4, <1>7, <1>8, <2>1, GCNumbers DEF GCInv, Unbroken
<1>10. flusher'.batch \in Seq(Nat)
  BY <1>7 DEF Run
<1>11. GCTypes'
  BY <1>1, <1>2, <1>10 DEF GCInv, GCTypes
<1>12. Stages' /\ OwnLsn'
  BY <1>1, <1>2, <1>5, <1>7, <1>8, GCNumbers DEF GCInv, Stages, OwnLsn
<1>. QED
  BY <1>9, <1>11, <1>12 DEF GCInv

LEMMA LogKeeps == ASSUME GCInv, LogBatch PROVE GCInv'
<1>. DEFINE n == Len(flusher.lsns)
<1>1. flusher.stage = "log" /\ UNCHANGED <<pending_, synced, results, submits>>
  BY DEF LogBatch
<1>2. CASE n < Len(flusher.batch)
  <2>1. /\ walFile' = Append(walFile, flusher.batch[n + 1])
        /\ flusher' = [flusher EXCEPT !.lsns = Append(@, Len(walFile) + 1)]
    BY <1>2 DEF LogBatch
  <2>2. /\ flusher'.stage = "log" /\ flusher'.batch = flusher.batch
        /\ flusher'.lsns = Append(flusher.lsns, Len(walFile) + 1) /\ flusher'.answers = flusher.answers
    BY <1>1, <2>1 DEF GCInv, GCTypes
  <2>3. n + 1 \in 1..Len(flusher.batch)
    BY <1>2, GCNumbers
  <2>4. flusher.batch[n + 1] = 0 + Len(walFile) + 1 /\ Len(walFile) + 1 = Before + n + 1
    <3>1. Run(flusher.batch, Before)
      BY DEF GCInv, Unbroken
    <3>2. flusher.batch[n + 1] = Before + (n + 1)
      BY <2>3, <3>1 DEF Run
    <3>3. Len(walFile) + 1 = Before + n + 1 /\ Before \in Nat /\ n \in Nat /\ Len(walFile) \in Nat
      BY GCNumbers
    <3>. QED
      BY <3>2, <3>3
  <2>5. Run(walFile, 0) /\ Run(flusher.lsns, Before)
    BY DEF GCInv, Unbroken
  <2>6. Run(walFile', 0) /\ Len(walFile') = Len(walFile) + 1
    BY <2>1, <2>4, <2>5, RunAppend
  <2>7. Run(flusher'.lsns, Before) /\ Len(flusher'.lsns) = n + 1
    <3>1. flusher'.lsns = Append(flusher.lsns, Before + Len(flusher.lsns) + 1)
      BY <2>2, <2>4
    <3>2. Before \in Nat
      BY GCNumbers
    <3>. QED
      BY <2>5, <3>1, <3>2, RunAppend
  <2>8. Before' = Before
    BY <2>6, <2>7, GCNumbers DEF Before
  <2>9. Unbroken'
    BY <1>1, <2>2, <2>6, <2>7, <2>8 DEF GCInv, Unbroken
  <2>10. GCTypes'
    <3>1. flusher'.lsns \in Seq(Nat)
      BY <2>7 DEF Run
    <3>. QED
      BY <1>1, <2>1, <2>2, <3>1 DEF GCInv, GCTypes
  <2>11. Stages' /\ OwnLsn'
    BY <1>1, <1>2, <2>2, <2>6, <2>7, GCNumbers DEF GCInv, GCTypes, Stages, OwnLsn
  <2>. QED
    BY <2>9, <2>10, <2>11 DEF GCInv
<1>3. CASE ~(n < Len(flusher.batch))
  <2>1. /\ flusher' = [flusher EXCEPT !.stage = "sync"] /\ UNCHANGED walFile
    BY <1>3 DEF LogBatch, AfterLogging
  <2>2. /\ flusher'.stage = "sync" /\ flusher'.batch = flusher.batch
        /\ flusher'.lsns = flusher.lsns /\ flusher'.answers = flusher.answers
    BY <2>1 DEF GCInv, GCTypes
  <2>3. n = Len(flusher.batch)
    BY <1>3, GCNumbers DEF GCInv, Stages
  <2>. QED
    BY <1>1, <2>1, <2>2, <2>3 DEF GCInv, GCTypes, Unbroken, Before, Stages, OwnLsn
<1>. QED
  BY <1>2, <1>3

LEMMA SyncKeeps == ASSUME GCInv, SyncBatch PROVE GCInv'
<1>1. /\ flusher.stage = "sync" /\ synced' = Len(walFile)
      /\ flusher' = [flusher EXCEPT !.stage = "answer"]
      /\ UNCHANGED <<pending_, walFile, results, submits>>
  BY DEF SyncBatch
<1>2. /\ flusher'.stage = "answer" /\ flusher'.batch = flusher.batch
      /\ flusher'.lsns = flusher.lsns /\ flusher'.answers = flusher.answers
  BY <1>1 DEF GCInv, GCTypes
<1>3. GCTypes'
  BY <1>1, <1>2, GCNumbers DEF GCInv, GCTypes
<1>4. Unbroken'
  BY <1>1, <1>2 DEF GCInv, Unbroken, Before
<1>5. Stages'
  BY <1>1, <1>2, GCNumbers DEF GCInv, Stages
<1>6. OwnLsn'
  BY <1>1, GCNumbers DEF GCInv, GCTypes, Stages, OwnLsn
<1>. QED
  BY <1>3, <1>4, <1>5, <1>6 DEF GCInv

LEMMA AnswerKeeps == ASSUME GCInv, AnswerNext PROVE GCInv'
<1>. DEFINE n == flusher.answers + 1
<1>1. flusher.stage = "answer" /\ UNCHANGED <<pending_, walFile, synced, submits>>
  BY DEF AnswerNext
<1>2. n \in Nat /\ n >= 1 /\ Len(flusher.lsns) = Len(flusher.batch)
  BY <1>1 DEF GCInv, GCTypes, Stages
<1>3. CASE n <= Len(flusher.batch)
  <2>1. /\ results' = [results EXCEPT ![flusher.batch[n]] = flusher.lsns[n]]
        /\ flusher' = [flusher EXCEPT !.answers = n]
    BY <1>3 DEF AnswerNext
  <2>2. /\ flusher'.stage = "answer" /\ flusher'.batch = flusher.batch
        /\ flusher'.lsns = flusher.lsns /\ flusher'.answers = n
    BY <1>1, <2>1 DEF GCInv, GCTypes
  <2>3. flusher.batch[n] = Before + n /\ flusher.lsns[n] = Before + n
    <3>1. Run(flusher.batch, Before) /\ Run(flusher.lsns, Before)
      BY DEF GCInv, Unbroken
    <3>2. n \in 1..Len(flusher.batch) /\ n \in 1..Len(flusher.lsns)
      BY <1>2, <1>3, GCNumbers
    <3>. HIDE DEF n
    <3>. QED
      BY <3>1, <3>2 DEF Run
  <2>4. Before + n \in Nat /\ Before + n <= synced
    BY <1>1, <1>2, <1>3, GCNumbers DEF GCInv, Stages
  <2>5. OwnLsn' /\ results' \in [1..MaxSubmits -> Nat]
    BY <1>1, <2>1, <2>3, <2>4 DEF GCInv, GCTypes, OwnLsn
  <2>6. GCTypes'
    BY <1>1, <1>2, <2>1, <2>2, <2>5 DEF GCInv, GCTypes
  <2>7. Unbroken' /\ Stages'
    BY <1>1, <2>2 DEF GCInv, Unbroken, Before, Stages
  <2>. QED
    BY <2>5, <2>6, <2>7 DEF GCInv
<1>4. CASE ~(n <= Len(flusher.batch))
  <2>1. /\ flusher' = [stage |-> "top", batch |-> <<>>, lsns |-> <<>>, answers |-> 0]
        /\ UNCHANGED results
    BY <1>4 DEF AnswerNext, AtTop, NotStarted
  <2>2. Before' = Before + Len(flusher.batch) /\ Before' \in Nat /\ Before' = Len(walFile)
    BY <1>1, <1>2, <2>1, GCNumbers DEF Before
  <2>3. Run(flusher'.lsns, Before') /\ Run(flusher'.batch, Before') /\ Len(flusher'.batch) = 0
    BY <2>1, <2>2, RunEmpty
  <2>4. Run(pending_', Before' + Len(flusher'.batch))
    BY <1>1, <2>2, <2>3 DEF GCInv, Unbroken
  <2>5. Unbroken'
    <3>1. Before' + Len(flusher'.batch) + Len(pending_') = submits'
      BY <1>1, <2>2, <2>3, GCNumbers
    <3>. QED
      BY <1>1, <2>2, <2>3, <2>4, <3>1 DEF GCInv, Unbroken
  <2>6. GCTypes' /\ Stages' /\ OwnLsn'
    BY <1>1, <2>1 DEF GCInv, GCTypes, Stages, OwnLsn
  <2>. QED
    BY <2>5, <2>6 DEF GCInv
<1>. QED
  BY <1>3, <1>4

LEMMA GCStep == GCInv /\ [GCNext]_gcVars => GCInv'
<1>. SUFFICES ASSUME GCInv, [GCNext]_gcVars PROVE GCInv'
  OBVIOUS
<1>1. CASE \E w \in Submitter : SubmitAndWait(w)
  BY <1>1, SubmitKeeps
<1>2. CASE Stop
  BY <1>2 DEF Stop, GCInv, GCTypes, Unbroken, Before, Stages, OwnLsn
<1>3. CASE UNCHANGED gcVars
  BY <1>3 DEF gcVars, GCInv, GCTypes, Unbroken, Before, Stages, OwnLsn
<1>. QED
  BY <1>1, <1>2, <1>3, StartKeeps, TakeKeeps, LogKeeps, SyncKeeps, AnswerKeeps, EndKeeps
     DEF GCNext, FlusherStep

\* What the invariant is for.
LEMMA GCInvSuffices == GCInv => LoggedAndSynced
<1>. SUFFICES ASSUME GCInv PROVE LoggedAndSynced
  OBVIOUS
<1>1. \A k \in 1..Len(walFile) : walFile[k] = k
  BY DEF GCInv, Unbroken, Run
<1>2. DOMAIN walFile = 1..Len(walFile)
  BY DEF GCInv, Unbroken, Run
<1>3. Len(walFile) + Len(flusher.batch) - Len(flusher.lsns) + Len(pending_) = submits
  <2>. DEFINE W == Len(walFile)
              B == Len(flusher.batch)
              L == Len(flusher.lsns)
              P == Len(pending_)
  <2>1. /\ W \in Nat /\ B \in Nat /\ L \in Nat /\ P \in Nat /\ Before \in Nat
        /\ W = Before + L /\ submits = Before + B + P
    BY GCNumbers
  <2>. HIDE DEF W, B, L, P
  <2>2. W + B - L + P = submits
    BY <2>1
  <2>. QED
    BY <2>2 DEF W, B, L, P
<1>4. AnsweredIsSynced
  <2>. SUFFICES ASSUME NEW n \in 1..submits, results[n] > 0
                PROVE  results[n] <= synced /\ walFile[results[n]] = n
    BY DEF AnsweredIsSynced
  <2>1. n \in 1..MaxSubmits
    BY GroupCommitAssumption DEF GCInv, GCTypes
  <2>2. results[n] = n /\ n <= synced
    BY <2>1 DEF GCInv, OwnLsn
  <2>3. n \in 1..Len(walFile)
    BY <2>1, <2>2, GroupCommitAssumption, GCNumbers DEF GCInv, GCTypes, Stages
  <2>. QED
    BY <1>1, <2>2, <2>3
<1>. QED
  BY <1>1, <1>2, <1>3, <1>4 DEF LoggedAndSynced, LoggedInOrder

\* WalGroupCommit promises what it says for any number of writers, any size of batch and any
\* sequence of starts and stops: the file holds the writes in the order they were queued in, what a
\* stop cuts off stays queued, and whoever is answered is told the place of its own record, which a
\* sync has covered.
THEOREM CommitsInOrder == GCSpec => []LoggedAndSynced
<1>1. GCSpec => []GCInv
  BY GCInitially, GCStep, PTL DEF GCSpec
<1>. QED
  BY <1>1, GCInvSuffices, PTL

-----------------------------------------------------------------------------
\* The files of Raft.

Recs == [term : Nat, idx : Nat]

Logs == [snap : Recs, log : Seq(Nat)]

\* What the node has, or an operation that has written its snapshot is about to leave.
Target == IF job = NoJob THEN mem ELSE job.to

MustNow == IF job = NoJob THEN must ELSE StillMust

\* The file has p records that the snapshot covers, and then those of the log.
Shown(file, base, log, p) ==
    /\ Len(file) = p + Len(log)
    /\ \A k \in 1..p : file[k].idx <= base
    /\ \A k \in 1..Len(log) : file[p + k] = Rec(log[k], base + k)

Shows(file, m) == \E p \in Nat : Shown(file, m.snap.idx, m.log, p)

\* The log with one entry more, and the part of it behind a snapshot.
Extended(m, t) == [snap |-> m.snap, log |-> Append(m.log, t)]

Suffix(m, snap) == [snap |-> snap, log |-> SubSeq(m.log, snap.idx - m.snap.idx + 1, Len(m.log))]

HasEntry(m, pos, t) == pos <= m.snap.idx \/ (pos <= LastIdx(m) /\ TermAt(m, pos) = t)

LEMMA RecTypes ==
    /\ Garbage \notin Recs
    /\ \A r \in Recs : r.idx \in Nat
    /\ \A t, i : Rec(t, i).term = t /\ Rec(t, i).idx = i
    /\ \A t \in Nat, i \in Nat : Rec(t, i) \in Recs
  BY StoreAssumption DEF Recs, Rec

LEMMA LogTypes ==
    ASSUME NEW m \in Logs
    PROVE  /\ m.snap \in Recs /\ m.snap.idx \in Nat /\ m.snap.term \in Nat /\ m.log \in Seq(Nat) /\ Len(m.log) \in Nat
           /\ LastIdx(m) = m.snap.idx + Len(m.log) /\ LastIdx(m) \in Nat
           /\ DOMAIN m.log = 1..Len(m.log) /\ \A k \in 1..Len(m.log) : m.log[k] \in Nat
           /\ \A pos \in Nat : m.snap.idx <= pos /\ pos <= LastIdx(m) => TermAt(m, pos) \in Nat
<1>1. m.snap \in Recs /\ m.snap.idx \in Nat /\ m.snap.term \in Nat /\ m.log \in Seq(Nat)
  BY DEF Logs, Recs
<1>2. Len(m.log) \in Nat /\ DOMAIN m.log = 1..Len(m.log) /\ \A k \in 1..Len(m.log) : m.log[k] \in Nat
  BY <1>1
<1>3. LastIdx(m) = m.snap.idx + Len(m.log) /\ LastIdx(m) \in Nat
  BY <1>1, <1>2 DEF LastIdx
<1>4. ASSUME NEW pos \in Nat, m.snap.idx <= pos, pos <= LastIdx(m)
      PROVE  TermAt(m, pos) \in Nat
  <2>1. CASE pos = m.snap.idx
    BY <1>1, <2>1 DEF TermAt
  <2>2. CASE pos # m.snap.idx
    <3>1. pos - m.snap.idx \in 1..Len(m.log)
      BY <1>1, <1>2, <1>3, <1>4, <2>2
    <3>. QED
      BY <1>2, <2>2, <3>1 DEF TermAt
  <2>. QED
    BY <2>1, <2>2
<1>. QED
  BY <1>1, <1>2, <1>3, <1>4

\* The records behind the snapshot are those of the log, and all are good.
LEMMA ShownIsGood ==
    ASSUME NEW m \in Logs, NEW file \in Seq(Recs), Shows(file, m), NEW ext, ext = file \/ ext = file \o <<Garbage>>
    PROVE  /\ Behind(ext, m.snap) = ((Len(file) - Len(m.log)) + 1)..Len(file)
           /\ \A k \in 1..Len(file) : Good(ext, k, m.snap)
<1>1. PICK p \in Nat : /\ Len(file) = p + Len(m.log)
                       /\ \A k \in 1..p : file[k].idx <= m.snap.idx
                       /\ \A k \in 1..Len(m.log) : file[p + k] = Rec(m.log[k], m.snap.idx + k)
  BY DEF Shows, Shown
<1>2. PICK n \in Nat, base \in Nat : n = Len(m.log) /\ base = m.snap.idx
  BY LogTypes
<1>3. Len(file) = p + n /\ (\A k \in 1..p : file[k].idx <= base) /\ \A k \in 1..n : file[p + k] = Rec(m.log[k], base + k)
  BY <1>1, <1>2
<1>4. \A k \in 1..(p + n) : file[k] \in Recs /\ file[k].idx \in Nat /\ file[k] # Garbage
  <2>1. \A k \in 1..(p + n) : file[k] \in Recs
    BY <1>3
  <2>. QED
    BY <2>1, RecTypes
<1>5. \A k \in 1..(p + n) : p < k => file[k].idx = base + (k - p)
  <2>1. SUFFICES ASSUME NEW k \in 1..(p + n), p < k PROVE file[k].idx = base + (k - p)
    OBVIOUS
  <2>2. k - p \in 1..n /\ p + (k - p) = k
    BY <2>1
  <2>. QED
    <3>1. PICK t, i : file[k] = Rec(t, i) /\ i = base + (k - p)
      BY <1>3, <2>2
    <3>. QED
      BY <3>1, RecTypes
<1>6. \A k \in 1..(p + n) : k \in DOMAIN ext /\ ext[k] = file[k]
  BY <1>3
<1>7. \A k \in DOMAIN ext : k \in 1..(p + n) \/ (k = p + n + 1 /\ ext[k] = Garbage)
  BY <1>3
<1>8. Behind(ext, m.snap) = (p + 1)..(p + n)
  <2>1. ASSUME NEW k \in Behind(ext, m.snap) PROVE k \in (p + 1)..(p + n)
    <3>1. k \in 1..(p + n) /\ file[k].idx > base
      BY <1>2, <1>6, <1>7 DEF Behind
    <3>. QED
      BY <1>3, <1>4, <3>1
  <2>2. ASSUME NEW k \in (p + 1)..(p + n) PROVE k \in Behind(ext, m.snap)
    <3>1. k \in 1..(p + n) /\ p < k
      BY <1>3
    <3>2. file[k].idx > base
      BY <1>1, <1>5, <3>1
    <3>. QED
      BY <1>2, <1>4, <1>6, <3>1, <3>2 DEF Behind
  <2>. QED
    BY <2>1, <2>2
<1>9. ASSUME NEW k \in 1..(p + n) PROVE Good(ext, k, m.snap)
  <2>1. CASE k <= p
    <3>1. k \in 1..p
      BY <1>1, <2>1
    <3>. QED
      BY <1>2, <1>3, <1>4, <1>6, <3>1 DEF Good
  <2>2. CASE p < k
    <3>1. {j \in Behind(ext, m.snap) : j <= k} = (p + 1)..k
      BY <1>1, <1>8, <2>2
    <3>2. Cardinality((p + 1)..k) = k - p
      BY <1>1, <2>2, FS_Interval
    <3>3. ext[k].idx = m.snap.idx + Cardinality({j \in Behind(ext, m.snap) : j <= k})
      BY <1>2, <1>5, <1>6, <2>2, <3>1, <3>2
    <3>. QED
      BY <1>4, <1>6, <3>3 DEF Good
  <2>. QED
    BY <1>1, <2>1, <2>2
<1>10. Len(file) = p + n /\ Len(file) - Len(m.log) = p
  BY <1>1, <1>2
<1>. QED
  BY <1>8, <1>9, <1>10

\* The good part of the file is the file, also if a torn record follows; and the log is loaded from it.
LEMMA ShownIsLoaded ==
    ASSUME NEW m \in Logs, NEW file \in Seq(Recs), Shows(file, m), NEW ext, ext = file \/ ext = file \o <<Garbage>>
    PROVE  GoodPart(ext, m.snap) = file /\ Loaded_(ext, m.snap) = m
<1>0. PICK p \in Nat, n \in Nat :
         /\ n = Len(m.log) /\ Len(file) = p + n
         /\ \A k \in 1..p : file[k].idx <= m.snap.idx
         /\ \A k \in 1..n : file[p + k] = Rec(m.log[k], m.snap.idx + k)
  BY LogTypes DEF Shows, Shown
<1>1. /\ Len(file) = p + n /\ m.snap.idx \in Nat
      /\ \A k \in 1..p : file[k].idx <= m.snap.idx
      /\ \A k \in 1..n : file[p + k] = Rec(m.log[k], m.snap.idx + k)
      /\ \A k \in 1..(p + n) : file[k] \in Recs /\ file[k].idx \in Nat
  <2>1. \A k \in 1..(p + n) : file[k] \in Recs
    BY <1>0
  <2>. QED
    BY <1>0, <2>1, LogTypes, RecTypes
<1>2. \A k \in 1..(p + n) : Good(ext, k, m.snap)
  BY <1>1, ShownIsGood
<1>3. GoodPart(ext, m.snap) = file
  <2>. DEFINE bad == {k \in DOMAIN ext : ~Good(ext, k, m.snap)}
  <2>1. CASE ext = file
    <3>1. bad = {}
      BY <1>1, <1>2, <2>1
    <3>. QED
      BY <2>1, <3>1 DEF GoodPart
  <2>2. CASE ext = file \o <<Garbage>>
    <3>1. DOMAIN ext = 1..(p + n + 1) /\ ext[p + n + 1] = Garbage
      BY <1>1, <2>2
    <3>2. p + n + 1 \in bad
      BY <1>1, <3>1 DEF Good
    <3>3. bad = {p + n + 1}
      BY <1>1, <1>2, <3>1, <3>2
    <3>. DEFINE first == CHOOSE k \in bad : \A j \in bad : k <= j
    <3>4. first = p + n + 1
      <4>. HIDE DEF bad
      <4>1. \E k \in bad : \A j \in bad : k <= j
        BY <1>1, <3>3
      <4>2. first \in bad
        BY <4>1, Zenon
      <4>. QED
        BY <3>3, <4>2
    <3>5. GoodPart(ext, m.snap) = SubSeq(ext, 1, first - 1)
      BY <3>2 DEF GoodPart
    <3>. HIDE DEF bad, first
    <3>6. SubSeq(ext, 1, p + n) = file
      BY <1>1, <2>2
    <3>7. first - 1 = p + n
      BY <1>1, <3>4
    <3>. QED
      BY <3>5, <3>6, <3>7
  <2>. QED
    BY <2>1, <2>2
<1>4. Behind(file, m.snap) = (p + 1)..(p + n) /\ Cardinality((p + 1)..(p + n)) = n
  <2>1. Len(file) - Len(m.log) = p
    BY <1>0
  <2>2. Behind(file, m.snap) = (p + 1)..(p + n)
    BY <1>1, <2>1, ShownIsGood
  <2>. QED
    BY <2>2, FS_Interval
<1>. DEFINE part == GoodPart(ext, m.snap)
            record(pos) == CHOOSE r \in Range(part) : r.idx = pos
<1>5. ASSUME NEW k \in 1..n PROVE record(m.snap.idx + k).term = m.log[k]
  <2>1. p + k \in 1..(p + n) /\ file[p + k] = Rec(m.log[k], m.snap.idx + k)
    BY <1>1
  <2>2. PICK i : i = m.snap.idx + k
    OBVIOUS
  <2>3. PICK r : r = Rec(m.log[k], i)
    OBVIOUS
  <2>4. r \in Range(file) /\ r.idx = i /\ r.term = m.log[k]
    <3>1. r = file[p + k] /\ p + k \in DOMAIN file
      BY <1>1, <2>1, <2>2, <2>3
    <3>2. r.idx = i /\ r.term = m.log[k]
      BY <2>3, RecTypes
    <3>. QED
      BY <3>1, <3>2 DEF Range
  <2>5. ASSUME NEW x \in Range(file), x.idx = i PROVE x = r
    <3>1. PICK j \in 1..(p + n) : x = file[j]
      BY <1>1 DEF Range
    <3>2. ~(j <= p)
      <4>1. SUFFICES ASSUME j <= p PROVE FALSE
        OBVIOUS
      <4>2. j \in 1..p
        BY <1>1, <4>1
      <4>. QED
        BY <1>1, <2>2, <2>5, <3>1, <4>2
    <3>3. j - p \in 1..n /\ p + (j - p) = j
      BY <1>1, <3>2
    <3>4. x = Rec(m.log[j - p], m.snap.idx + (j - p))
      BY <1>1, <3>1, <3>3
    <3>5. x.idx = m.snap.idx + (j - p)
      BY <3>4, RecTypes
    <3>6. j - p = k
      BY <1>1, <2>2, <2>5, <3>3, <3>5
    <3>. QED
      BY <2>2, <2>3, <3>4, <3>6
  <2>6. r \in Range(part) /\ \A x \in Range(part) : x.idx = i => x = r
    BY <1>3, <2>4, <2>5
  <2>. HIDE DEF part
  <2>7. record(i) = r
    BY <2>4, <2>6, Zenon
  <2>. QED
    BY <2>2, <2>4, <2>7
<1>6. Loaded_(ext, m.snap) = [snap |-> m.snap, log |-> [k \in 1..n |-> record(m.snap.idx + k).term]]
  <2>1. Loaded_(ext, m.snap) =
           [snap |-> m.snap, log |-> [k \in 1..Cardinality(Behind(part, m.snap)) |-> record(m.snap.idx + k).term]]
    BY DEF Loaded_
  <2>2. Cardinality(Behind(part, m.snap)) = n
    BY <1>3, <1>4
  <2>. HIDE DEF part, record
  <2>. QED
    BY <2>1, <2>2
<1>. HIDE DEF record
<1>7. [k \in 1..n |-> record(m.snap.idx + k).term] = m.log
  <2>1. m.log \in Seq(Nat) /\ m.log = [k \in 1..n |-> m.log[k]]
    BY <1>0, LogTypes
  <2>. QED
    BY <1>5, <2>1
<1>8. m = [snap |-> m.snap, log |-> m.log]
  BY DEF Logs
<1>. QED
  BY <1>3, <1>6, <1>7, <1>8

\* A file that was just rewritten.
LEMMA RewrittenShows ==
    ASSUME NEW m \in Logs
    PROVE  Records(m) \in Seq(Recs) /\ Shows(Records(m), m)
<1>1. PICK b, log, file : b \in Nat /\ log \in Seq(Nat) /\ b = m.snap.idx /\ log = m.log /\ file = Records(m)
  BY LogTypes
<1>. b \in Nat /\ log \in Seq(Nat)
  BY <1>1
<1>2. file = [k \in 1..Len(log) |-> Rec(log[k], b + k)] /\ Len(log) \in Nat
  BY <1>1 DEF Records
<1>3. \A k \in 1..Len(log) : Rec(log[k], b + k) \in Recs
  BY RecTypes
<1>4. file \in Seq(Recs) /\ Len(file) = 0 + Len(log) /\ \A k \in 1..Len(log) : file[0 + k] = Rec(log[k], b + k)
  BY <1>2, <1>3
<1>5. Shown(file, b, log, 0)
  BY <1>4 DEF Shown
<1>. QED
  BY <1>1, <1>4, <1>5 DEF Shows

\* A record is appended.
LEMMA AppendShown ==
    ASSUME NEW file \in Seq(Recs), NEW b \in Nat, NEW log \in Seq(Nat), NEW p \in Nat, Shown(file, b, log, p), NEW t \in Nat
    PROVE  /\ file \o <<Rec(t, b + (Len(log) + 1))>> \in Seq(Recs)
           /\ Shown(file \o <<Rec(t, b + (Len(log) + 1))>>, b, Append(log, t), p)
<1>0. PICK c \in Nat : c = Len(log)
  OBVIOUS
<1>1. PICK l, r, ext : /\ l = Append(log, t) /\ c = Len(log) /\ r \in Recs
                       /\ r = Rec(t, b + (c + 1)) /\ ext = file \o <<r>>
  <2>1. b + (c + 1) \in Nat
    OBVIOUS
  <2>2. Rec(t, b + (c + 1)) \in Recs
    BY <2>1, RecTypes
  <2>. QED
    BY <1>0, <2>2
<1>2. Len(file) = p + c /\ (\A k \in 1..p : file[k].idx <= b) /\ \A k \in 1..c : file[p + k] = Rec(log[k], b + k)
  BY <1>1 DEF Shown
<1>3. Len(l) = c + 1 /\ l[c + 1] = t /\ \A k \in 1..c : l[k] = log[k]
  BY <1>1
<1>4. ext \in Seq(Recs) /\ Len(ext) = p + (c + 1) /\ ext[p + (c + 1)] = r /\ \A k \in 1..(p + c) : ext[k] = file[k]
  <2>1. ext = file \o <<r>> /\ r \in Recs /\ Len(file) = p + c
    BY <1>1, <1>2
  <2>2. ext \in Seq(Recs) /\ Len(ext) = Len(file) + 1 /\ ext[Len(file) + 1] = r /\ \A k \in 1..Len(file) : ext[k] = file[k]
    BY <2>1
  <2>. QED
    BY <2>1, <2>2
<1>5. \A k \in 1..p : ext[k].idx <= b
  <2>1. \A k \in 1..p : k \in 1..(p + c)
    OBVIOUS
  <2>. QED
    BY <1>2, <1>4, <2>1
<1>6. ASSUME NEW k \in 1..Len(l) PROVE ext[p + k] = Rec(l[k], b + k)
  <2>1. CASE k = c + 1
    BY <1>1, <1>3, <1>4, <2>1
  <2>2. CASE k # c + 1
    <3>1. k \in 1..c /\ p + k \in 1..(p + c)
      BY <1>3, <2>2
    <3>. QED
      BY <1>2, <1>3, <1>4, <3>1
  <2>. QED
    BY <2>1, <2>2
<1>7. Shown(ext, b, l, p)
  BY <1>3, <1>4, <1>5, <1>6 DEF Shown
<1>. QED
  BY <1>1, <1>4, <1>7

LEMMA AppendShows ==
    ASSUME NEW m \in Logs, NEW t \in Nat
    PROVE  /\ Extended(m, t) \in Logs /\ [m EXCEPT !.log = Append(@, t)] = Extended(m, t)
           /\ Extended(m, t).snap = m.snap /\ LastIdx(Extended(m, t)) = LastIdx(m) + 1
           /\ \A file \in Seq(Recs) : Shows(file, m) =>
                 /\ file \o <<Rec(t, LastIdx(m) + 1)>> \in Seq(Recs)
                 /\ Shows(file \o <<Rec(t, LastIdx(m) + 1)>>, Extended(m, t))
<1>1. PICK b, log, c, l, n :
         /\ b \in Nat /\ log \in Seq(Nat) /\ c \in Nat
         /\ b = m.snap.idx /\ log = m.log /\ c = Len(log) /\ l = Append(log, t) /\ n = Extended(m, t)
         /\ m.snap \in Recs /\ LastIdx(m) = b + c
  BY LogTypes
<1>. b \in Nat /\ log \in Seq(Nat) /\ c \in Nat
  BY <1>1
<1>2. l \in Seq(Nat) /\ Len(l) = c + 1
  BY <1>1
<1>3. n = [snap |-> m.snap, log |-> l] /\ n.snap = m.snap /\ n.log = l
  BY <1>1 DEF Extended
<1>4. n \in Logs
  BY <1>1, <1>2, <1>3 DEF Logs
<1>5. LastIdx(n) = b + (c + 1) /\ LastIdx(m) + 1 = b + (c + 1)
  <2>1. LastIdx(n) = b + Len(l)
    BY <1>1, <1>3 DEF LastIdx
  <2>2. b + Len(l) = b + (c + 1) /\ (b + c) + 1 = b + (c + 1)
    BY <1>2
  <2>. QED
    BY <1>1, <2>1, <2>2
<1>6. [m EXCEPT !.log = l] = [snap |-> m.snap, log |-> l]
  BY DEF Logs
<1>7. ASSUME NEW file \in Seq(Recs), Shows(file, m)
      PROVE  file \o <<Rec(t, b + (c + 1))>> \in Seq(Recs) /\ Shows(file \o <<Rec(t, b + (c + 1))>>, n)
  <2>1. PICK p \in Nat : Shown(file, b, log, p)
    BY <1>1, <1>7 DEF Shows
  <2>2. PICK ext : ext = file \o <<Rec(t, b + (c + 1))>>
    OBVIOUS
  <2>3. ext \in Seq(Recs) /\ Shown(ext, b, l, p)
    BY <1>1, <2>1, <2>2, AppendShown
  <2>4. Shows(ext, n)
    BY <1>1, <1>3, <2>3 DEF Shows
  <2>. QED
    BY <2>2, <2>3, <2>4
<1>. QED
  BY <1>1, <1>3, <1>4, <1>5, <1>6, <1>7

LEMMA TailOfLog ==
    ASSUME NEW log \in Seq(Nat), NEW d \in Nat, d <= Len(log), NEW n, n = Len(log)
    PROVE  /\ SubSeq(log, d + 1, n) \in Seq(Nat) /\ Len(SubSeq(log, d + 1, n)) = n - d
           /\ \A k \in 1..(n - d) : SubSeq(log, d + 1, n)[k] = log[d + k]
<1>1. Len(log) \in Nat /\ \A i \in (d + 1)..n : i \in 1..Len(log) /\ log[i] \in Nat
  OBVIOUS
<1>2. d + 1 \in Int /\ n \in Int /\ (n - (d + 1)) + 1 = n - d
  BY <1>1
<1>3. /\ SubSeq(log, d + 1, n) \in Seq(Nat) /\ Len(SubSeq(log, d + 1, n)) = IF d + 1 <= n THEN (n - (d + 1)) + 1 ELSE 0
      /\ \A k \in 1..((n - (d + 1)) + 1) : SubSeq(log, d + 1, n)[k] = log[((d + 1) + k) - 1]
  BY <1>1, <1>2, SubSeqProperties
<1>4. \A k \in 1..(n - d) : ((d + 1) + k) - 1 = d + k
  BY <1>2
<1>. QED
  BY <1>1, <1>2, <1>3, <1>4

LEMMA TailIs ==
    \A log \in Seq(Nat), d \in Nat, n \in Nat : n = Len(log) /\ d <= Len(log) =>
       \A l : l = SubSeq(log, d + 1, n) =>
          l \in Seq(Nat) /\ Len(l) = n - d /\ \A k \in 1..(n - d) : l[k] = log[d + k]
  BY TailOfLog

LEMMA PlaceBehind ==
    \A b \in Nat, d \in Nat, n \in Nat, pos \in Nat : d <= n /\ b + d < pos /\ pos <= b + n =>
       pos - (b + d) \in 1..(n - d) /\ pos - b = d + (pos - (b + d))
<1>. SUFFICES ASSUME NEW b \in Nat, NEW d \in Nat, NEW n \in Nat, NEW pos \in Nat, d <= n, b + d < pos, pos <= b + n
              PROVE  pos - (b + d) \in 1..(n - d) /\ pos - b = d + (pos - (b + d))
  OBVIOUS
<1>. QED
  OBVIOUS

\* The log behind a snapshot within it: a file that is not rewritten shows it, too.
LEMMA SuffixShown ==
    ASSUME NEW file \in Seq(Recs), NEW b \in Nat, NEW log \in Seq(Nat), NEW p \in Nat, Shown(file, b, log, p),
           NEW d \in Nat, d <= Len(log)
    PROVE  Shown(file, b + d, SubSeq(log, d + 1, Len(log)), p + d)
<1>0. PICK n \in Nat : n = Len(log)
  OBVIOUS
<1>1. PICK l : l = SubSeq(log, d + 1, n) /\ n = Len(log)
  BY <1>0
<1>2. /\ n \in Nat /\ d \in Nat /\ d <= n /\ Len(file) = p + n /\ \A k \in 1..p : file[k].idx <= b
      /\ \A k \in 1..n : file[p + k] = Rec(log[k], b + k)
  BY <1>1 DEF Shown
<1>3. Len(l) = n - d /\ \A k \in 1..(n - d) : l[k] = log[d + k]
  BY <1>1, <1>2, TailOfLog
<1>4. ASSUME NEW k \in 1..(p + d) PROVE file[k].idx <= b + d
  <2>1. CASE k <= p
    <3>1. k \in 1..p /\ k \in 1..Len(file)
      BY <1>2, <2>1
    <3>2. file[k].idx \in Nat
      BY <3>1, RecTypes
    <3>. QED
      BY <1>2, <3>1, <3>2
  <2>2. CASE p < k
    <3>1. PICK i \in Nat : i = k - p
      BY <1>2, <2>2
    <3>2. i \in 1..n /\ p + i = k /\ i <= d
      BY <1>2, <2>2, <3>1
    <3>3. file[k] = Rec(log[i], b + i)
      BY <1>2, <3>2
    <3>4. file[k].idx = b + i
      BY <3>3, RecTypes
    <3>. QED
      BY <1>2, <3>2, <3>4
  <2>. QED
    BY <1>2, <2>1, <2>2
<1>5. ASSUME NEW k \in 1..Len(l) PROVE file[(p + d) + k] = Rec(l[k], (b + d) + k)
  <2>1. d + k \in 1..n /\ k \in 1..(n - d)
    BY <1>2, <1>3
  <2>2. b + (d + k) = (b + d) + k /\ p + (d + k) = (p + d) + k
    BY <1>2, <1>3
  <2>3. file[p + (d + k)] = Rec(log[d + k], b + (d + k))
    BY <1>2, <2>1
  <2>. QED
    BY <1>3, <2>1, <2>2, <2>3
<1>6. Len(file) = (p + d) + Len(l)
  BY <1>2, <1>3
<1>. QED
  BY <1>1, <1>4, <1>5, <1>6 DEF Shown

LEMMA SuffixShows ==
    ASSUME NEW m \in Logs, NEW snap \in Recs, NEW d \in Nat, d <= Len(m.log), snap.idx = m.snap.idx + d
    PROVE  /\ Suffix(m, snap) \in Logs /\ Suffix(m, snap).snap = snap /\ LastIdx(Suffix(m, snap)) = LastIdx(m)
           /\ \A file \in Seq(Recs) : Shows(file, m) => Shows(file, Suffix(m, snap))
           /\ \A pos \in Nat : \A t : HasEntry(m, pos, t) => HasEntry(Suffix(m, snap), pos, t)
<1>1. PICK b, log, n, l, c :
         /\ b \in Nat /\ log \in Seq(Nat) /\ n \in Nat
         /\ b = m.snap.idx /\ log = m.log /\ n = Len(log) /\ l = SubSeq(log, d + 1, n) /\ c = Suffix(m, snap)
         /\ LastIdx(m) = b + n
  BY LogTypes
<1>. b \in Nat /\ log \in Seq(Nat) /\ n \in Nat
  BY <1>1
<1>2. d \in Nat /\ d <= n /\ d <= Len(log) /\ snap.idx = b + d /\ snap.idx - b = d
  BY <1>1
<1>3. l \in Seq(Nat) /\ Len(l) = n - d /\ \A k \in 1..(n - d) : l[k] = log[d + k]
  <2>1. l = SubSeq(log, d + 1, n) /\ n = Len(log) /\ d <= Len(log)
    BY <1>1, <1>2
  <2>. QED
    BY <2>1, TailIs
<1>4. c = [snap |-> snap, log |-> l] /\ c.snap = snap /\ c.log = l
  BY <1>1, <1>2 DEF Suffix
<1>5. c \in Logs
  BY <1>3, <1>4 DEF Logs
<1>6. LastIdx(c) = b + n
  <2>1. LastIdx(c) = (b + d) + Len(l)
    BY <1>2, <1>4 DEF LastIdx
  <2>. QED
    BY <1>2, <1>3, <2>1
<1>7. ASSUME NEW file \in Seq(Recs), Shows(file, m) PROVE Shows(file, c)
  <2>1. PICK p \in Nat : Shown(file, b, log, p)
    BY <1>1, <1>7 DEF Shows
  <2>2. p + d \in Nat /\ Shown(file, b + d, l, p + d)
    <3>1. Shown(file, b + d, SubSeq(log, d + 1, Len(log)), p + d)
      BY <1>2, <2>1, SuffixShown
    <3>. QED
      BY <1>1, <1>2, <3>1
  <2>. QED
    BY <1>2, <1>4, <2>2 DEF Shows
<1>8. ASSUME NEW pos \in Nat, NEW t, HasEntry(m, pos, t) PROVE HasEntry(c, pos, t)
  <2>1. CASE pos <= b + d
    BY <1>2, <1>4, <2>1 DEF HasEntry
  <2>2. CASE b + d < pos
    <3>1. pos <= b + n /\ log[pos - b] = t
      BY <1>1, <1>2, <1>8, <2>2 DEF HasEntry, TermAt
    <3>0. PICK k : k = pos - (b + d)
      OBVIOUS
    <3>2. k \in 1..(n - d) /\ pos - b = d + k
      <4>1. d <= n /\ b + d < pos /\ pos <= b + n
        BY <1>2, <2>2, <3>1
      <4>2. b \in Nat /\ d \in Nat /\ n \in Nat /\ pos \in Nat
        BY <1>1, <1>2
      <4>. QED
        BY <3>0, <4>1, <4>2, PlaceBehind
    <3>3. l[k] = t
      BY <1>3, <3>1, <3>2
    <3>4. TermAt(c, pos) = t
      BY <1>2, <1>4, <2>2, <3>0, <3>3 DEF TermAt
    <3>. QED
      BY <1>6, <3>1, <3>4 DEF HasEntry
  <2>. QED
    BY <1>2, <2>1, <2>2
<1>. QED
  BY <1>1, <1>4, <1>5, <1>6, <1>7, <1>8

\* A snapshot at the end of the log or beyond it leaves no log.
LEMMA BeyondShows ==
    ASSUME NEW m \in Logs, NEW snap \in Recs, m.snap.idx <= snap.idx, NEW c, c = [snap |-> snap, log |-> <<>>]
    PROVE  /\ c \in Logs /\ c.snap = snap /\ LastIdx(c) = snap.idx
           /\ LastIdx(m) <= snap.idx =>
                 /\ \A file \in Seq(Recs) : Shows(file, m) => Shows(file, c)
                 /\ \A pos \in Nat : \A t : HasEntry(m, pos, t) => HasEntry(c, pos, t)
<1>1. /\ m.snap.idx \in Nat /\ snap.idx \in Nat /\ Len(m.log) \in Nat /\ LastIdx(m) = m.snap.idx + Len(m.log)
  BY LogTypes DEF Recs
<1>2. c \in Logs /\ c.snap = snap /\ c.log = <<>> /\ LastIdx(c) = snap.idx
  BY <1>1 DEF Logs, LastIdx
<1>3. ASSUME LastIdx(m) <= snap.idx, NEW file \in Seq(Recs), Shows(file, m) PROVE Shows(file, c)
  <2>1. PICK p \in Nat : /\ Len(file) = p + Len(m.log)
                         /\ \A k \in 1..p : file[k].idx <= m.snap.idx
                         /\ \A k \in 1..Len(m.log) : file[p + k] = Rec(m.log[k], m.snap.idx + k)
    BY <1>3 DEF Shows, Shown
  <2>2. ASSUME NEW k \in 1..Len(file) PROVE file[k].idx <= snap.idx
    <3>1. CASE k <= p
      <4>1. k \in 1..p /\ file[k].idx \in Nat
        BY <2>1, <3>1, RecTypes
      <4>. QED
        BY <1>1, <2>1, <4>1
    <3>2. CASE p < k
      <4>1. k - p \in 1..Len(m.log) /\ p + (k - p) = k
        BY <1>1, <2>1, <3>2
      <4>2. file[k].idx = m.snap.idx + (k - p)
        <5>1. file[k] = Rec(m.log[k - p], m.snap.idx + (k - p))
          BY <2>1, <4>1
        <5>. QED
          BY <5>1, RecTypes
      <4>. QED
        BY <1>1, <1>3, <4>1, <4>2
    <3>. QED
      BY <2>1, <3>1, <3>2
  <2>3. Len(file) \in Nat /\ Len(file) = Len(file) + Len(<<>>)
    OBVIOUS
  <2>4. \A k \in 1..Len(<<>>) : FALSE
    OBVIOUS
  <2>. QED
    BY <1>2, <2>2, <2>3, <2>4 DEF Shows, Shown
<1>4. ASSUME LastIdx(m) <= snap.idx, NEW pos \in Nat, NEW t, HasEntry(m, pos, t) PROVE HasEntry(c, pos, t)
  <2>1. pos <= snap.idx
    BY <1>1, <1>4 DEF HasEntry
  <2>. QED
    BY <1>2, <2>1 DEF HasEntry
<1>. QED
  BY <1>2, <1>3, <1>4

\* What the log has, it has with one entry more, or when a later entry is replaced.
LEMMA ExtendedHas ==
    ASSUME NEW m \in Logs, NEW t
    PROVE  /\ HasEntry(Extended(m, t), LastIdx(m) + 1, t)
           /\ \A pos \in Nat : \A x : HasEntry(m, pos, x) => HasEntry(Extended(m, t), pos, x)
<1>1. PICK b, log, c, n :
         /\ b \in Nat /\ log \in Seq(Nat) /\ c \in Nat
         /\ b = m.snap.idx /\ log = m.log /\ c = Len(log) /\ n = Extended(m, t) /\ LastIdx(m) = b + c
  BY LogTypes
<1>. b \in Nat /\ log \in Seq(Nat) /\ c \in Nat
  BY <1>1
<1>2. PICK l : l = Append(log, t)
  OBVIOUS
<1>3. Len(l) = c + 1 /\ l[c + 1] = t /\ \A k \in 1..c : l[k] = log[k]
  BY <1>1, <1>2
<1>4. n.snap = m.snap /\ n.log = l
  BY <1>1, <1>2 DEF Extended
<1>5. LastIdx(n) = b + (c + 1)
  BY <1>1, <1>3, <1>4 DEF LastIdx
<1>6. HasEntry(n, b + (c + 1), t)
  <2>1. b + (c + 1) # b /\ (b + (c + 1)) - b = c + 1
    OBVIOUS
  <2>2. TermAt(n, b + (c + 1)) = t
    BY <1>1, <1>3, <1>4, <2>1 DEF TermAt
  <2>. QED
    BY <1>5, <2>2 DEF HasEntry
<1>7. ASSUME NEW pos \in Nat, NEW x, HasEntry(m, pos, x) PROVE HasEntry(n, pos, x)
  <2>1. CASE pos <= b
    BY <1>1, <1>4, <2>1 DEF HasEntry
  <2>2. CASE b < pos
    <3>1. pos <= b + c /\ log[pos - b] = x
      BY <1>1, <1>7, <2>2 DEF HasEntry, TermAt
    <3>2. pos - b \in 1..c /\ pos <= b + (c + 1) /\ pos # b
      BY <2>2, <3>1
    <3>3. TermAt(n, pos) = x
      BY <1>1, <1>3, <1>4, <3>1, <3>2 DEF TermAt
    <3>. QED
      BY <1>5, <3>2, <3>3 DEF HasEntry
  <2>. QED
    BY <2>1, <2>2
<1>8. LastIdx(m) + 1 = b + (c + 1)
  BY <1>1
<1>. QED
  BY <1>1, <1>6, <1>7, <1>8

\* The log up to an index.
UpTo(m, k) == [snap |-> m.snap, log |-> SubSeq(m.log, 1, k - m.snap.idx)]

LEMMA UpToHas ==
    ASSUME NEW m \in Logs, NEW d \in Nat, d <= Len(m.log), NEW k, k = m.snap.idx + d
    PROVE  /\ UpTo(m, k) \in Logs /\ UpTo(m, k).snap = m.snap /\ LastIdx(UpTo(m, k)) = k
           /\ UpTo(m, k).log = SubSeq(m.log, 1, d)
           /\ \A pos \in Nat : \A x : pos <= k /\ HasEntry(m, pos, x) => HasEntry(UpTo(m, k), pos, x)
<1>1. PICK b, log, c, l, n :
         /\ b \in Nat /\ log \in Seq(Nat) /\ c \in Nat
         /\ b = m.snap.idx /\ log = m.log /\ c = Len(log) /\ l = SubSeq(log, 1, d) /\ n = UpTo(m, k)
         /\ m.snap \in Recs /\ LastIdx(m) = b + c
  BY LogTypes
<1>. b \in Nat /\ log \in Seq(Nat) /\ c \in Nat
  BY <1>1
<1>2. d <= c /\ k = b + d /\ k - b = d /\ d <= Len(log)
  BY <1>1
<1>3. l \in Seq(Nat) /\ Len(l) = d /\ \A i \in 1..d : l[i] = log[i]
  <2>1. \A s \in Seq(Nat), e \in Nat : e <= Len(s) =>
           SubSeq(s, 1, e) \in Seq(Nat) /\ Len(SubSeq(s, 1, e)) = e /\ \A i \in 1..e : SubSeq(s, 1, e)[i] = s[i]
    OBVIOUS
  <2>2. PICK s : s = SubSeq(log, 1, d)
    OBVIOUS
  <2>3. s \in Seq(Nat) /\ Len(s) = d /\ \A i \in 1..d : s[i] = log[i]
    BY <1>2, <2>1, <2>2
  <2>4. s = l
    BY <1>1, <2>2
  <2>. QED
    BY <2>3, <2>4
<1>4. n = [snap |-> m.snap, log |-> l] /\ n.snap = m.snap /\ n.log = l
  BY <1>1, <1>2 DEF UpTo
<1>5. n \in Logs
  BY <1>1, <1>3, <1>4 DEF Logs
<1>6. LastIdx(n) = k
  BY <1>1, <1>2, <1>3, <1>4 DEF LastIdx
<1>7. ASSUME NEW pos \in Nat, NEW x, pos <= k, HasEntry(m, pos, x) PROVE HasEntry(n, pos, x)
  <2>1. CASE pos <= b
    BY <1>1, <1>4, <2>1 DEF HasEntry
  <2>2. CASE b < pos
    <3>1. log[pos - b] = x
      BY <1>1, <1>7, <2>2 DEF HasEntry, TermAt
    <3>2. pos - b \in 1..d /\ pos # b
      BY <1>2, <1>7, <2>2
    <3>3. TermAt(n, pos) = x
      BY <1>1, <1>3, <1>4, <3>1, <3>2 DEF TermAt
    <3>. QED
      BY <1>6, <1>7, <3>3 DEF HasEntry
  <2>. QED
    BY <2>1, <2>2
<1>. QED
  BY <1>1, <1>4, <1>5, <1>6, <1>7

-----------------------------------------------------------------------------
\* Errors that spoil the file for good.
Hurt == errors.append > 0 \/ errors.reopen > 0 \/ diverged

ErrorTypes == errors \in [die : Nat, append : Nat, rewrite : Nat, reopen : Nat] /\ leaderTerm \in Nat

\* The snapshot's file is that of the target, the log's file shows its log, and it has all that was acknowledged.
Healthy ==
    /\ log_fp_ /\ mem \in Logs /\ Target \in Logs /\ logFile \in Seq(Recs) /\ snapFile = Target.snap
    /\ fixed \in Nat /\ mem.snap.idx <= fixed /\ fixed <= LastIdx(mem) /\ fixed <= LastIdx(Target)
    /\ job.contradicts \/ Shows(logFile, Target)
    /\ DOMAIN must \subseteq Nat
    /\ \A pos \in DOMAIN MustNow : HasEntry(Target, pos, MustNow[pos])

LoadInv == ErrorTypes /\ (~Hurt => Healthy)

LEMMA LoadSound == LoadInv => RestartLoadsLog
<1>. SUFFICES ASSUME LoadInv, ~Spoiled
              PROVE  /\ Loaded_(logFile, snapFile) = IF job = NoJob THEN mem ELSE job.to
                     /\ \A pos \in DOMAIN must : OnDisk(pos)
  BY DEF RestartLoadsLog
<1>1. ErrorTypes /\ Healthy /\ ~job.contradicts
  BY DEF LoadInv, Hurt, Spoiled
<1>2. PICK t : t = Target
  OBVIOUS
<1>3. t \in Logs /\ snapFile = t.snap /\ logFile \in Seq(Recs) /\ Shows(logFile, t)
  BY <1>1, <1>2 DEF Healthy
<1>4. Loaded_(logFile, snapFile) = t
  BY <1>3, ShownIsLoaded
<1>5. DOMAIN MustNow = DOMAIN must /\ \A pos \in DOMAIN must : MustNow[pos] = must[pos]
  BY <1>1 DEF MustNow, StillMust
<1>6. ASSUME NEW pos \in DOMAIN must PROVE OnDisk(pos)
  <2>1. HasEntry(t, pos, must[pos])
    BY <1>1, <1>2, <1>5 DEF Healthy
  <2>. QED
    BY <1>4, <2>1 DEF OnDisk, HasEntry
<1>. QED
  BY <1>2, <1>4, <1>6 DEF Target

\* Between operations.
LEMMA Settled ==
    ASSUME job' = NoJob, log_fp_', mem' \in Logs, logFile' \in Seq(Recs), snapFile' = mem'.snap,
           fixed' \in Nat, mem'.snap.idx <= fixed', fixed' <= LastIdx(mem'), Shows(logFile', mem'),
           DOMAIN must' \subseteq Nat, \A pos \in DOMAIN must' : HasEntry(mem', pos, must'[pos])
    PROVE  Healthy'
<1>1. Target' = mem' /\ MustNow' = must'
  BY DEF Target, MustNow
<1>. QED
  BY <1>1 DEF Healthy

LEMMA LoadInitially == StoreInit => LoadInv
<1>. SUFFICES ASSUME StoreInit PROVE LoadInv
  OBVIOUS
<1>1. /\ mem = [snap |-> Rec(0, 0), log |-> <<>>] /\ leaderTerm = 0 /\ fixed = 0 /\ logFile = <<>>
      /\ snapFile = Rec(0, 0) /\ log_fp_ = TRUE /\ job = NoJob /\ must = <<>>
      /\ errors = [die |-> 0, append |-> 0, rewrite |-> 0, reopen |-> 0]
  BY DEF StoreInit
<1>2. ErrorTypes
  BY <1>1 DEF ErrorTypes
<1>3. mem \in Logs /\ mem.snap = Rec(0, 0) /\ mem.log = <<>> /\ Rec(0, 0).idx = 0
  BY <1>1, RecTypes DEF Logs
<1>4. LastIdx(mem) = 0
  BY <1>3 DEF LastIdx
<1>5. logFile \in Seq(Recs) /\ Shown(logFile, mem.snap.idx, mem.log, 0)
  BY <1>1, <1>3 DEF Shown
<1>6. Target = mem /\ MustNow = must /\ DOMAIN must = {}
  BY <1>1 DEF Target, MustNow
<1>7. Healthy
  BY <1>1, <1>3, <1>4, <1>5, <1>6 DEF Healthy, Shows
<1>. QED
  BY <1>2, <1>7 DEF LoadInv

-----------------------------------------------------------------------------
\* What the steps have in common.

LEMMA Resting ==
    ASSUME Healthy, job = NoJob
    PROVE  /\ mem \in Logs /\ logFile \in Seq(Recs) /\ snapFile = mem.snap /\ Shows(logFile, mem)
           /\ fixed \in Nat /\ mem.snap.idx <= fixed /\ fixed <= LastIdx(mem) /\ log_fp_ = TRUE
           /\ DOMAIN must \subseteq Nat /\ \A pos \in DOMAIN must : HasEntry(mem, pos, must[pos])
<1>1. Target = mem /\ MustNow = must /\ job.contradicts = FALSE
  BY DEF Target, MustNow, NoJob
<1>2. log_fp_ = TRUE
  BY DEF Healthy
<1>. QED
  BY <1>1, <1>2 DEF Healthy

\* An error is counted; the others are as they were.
LEMMA ErrorCounted ==
    ASSUME ErrorTypes, UNCHANGED leaderTerm
    PROVE  /\ errors' = errors \/ errors' = Erred("die") \/ errors' = Erred("rewrite") =>
                 ErrorTypes' /\ errors'.append = errors.append /\ errors'.reopen = errors.reopen
           /\ errors' = Erred("append") => ErrorTypes' /\ errors'.append > 0
           /\ errors' = Erred("reopen") => ErrorTypes' /\ errors'.reopen > 0
  BY DEF ErrorTypes, Erred

LEMMA NothingHurts ==
    ASSUME ErrorTypes, UNCHANGED leaderTerm, errors' = errors \/ errors' = Erred("die") \/ errors' = Erred("rewrite"),
           diverged => diverged'
    PROVE  ErrorTypes' /\ (Hurt => Hurt')
  BY ErrorCounted DEF Hurt

LEMMA Acknowledged ==
    ASSUME NEW pos \in Nat, Acknowledge(pos), DOMAIN must \subseteq Nat, NEW n, HasEntry(n, pos, leaderTerm),
           \A i \in DOMAIN must : i < pos => HasEntry(n, i, must[i])
    PROVE  DOMAIN must' \subseteq Nat /\ \A i \in DOMAIN must' : HasEntry(n, i, must'[i])
<1>1. must' = [i \in {k \in DOMAIN must : k < pos} \cup {pos} |-> IF i = pos THEN leaderTerm ELSE must[i]]
  BY DEF Acknowledge
<1>. QED
  BY <1>1

\* A snapshot has been written, and the log has not.
LEMMA SnapshotWritten ==
    ASSUME Healthy, job = NoJob, NEW c \in Logs, NEW x \in BOOLEAN,
           job' = [is |-> "snapshot", to |-> c, contradicts |-> x], snapFile' = c.snap, fixed <= LastIdx(c),
           x \/ Shows(logFile, c), \A pos \in DOMAIN must : pos <= c.snap.idx \/ ~x => HasEntry(c, pos, must[pos]),
           UNCHANGED <<mem, fixed, logFile, log_fp_, must>>
    PROVE  Healthy'
<1>1. job'.to = c /\ job'.contradicts = x /\ job' # NoJob
  BY DEF NoJob
<1>2. Target' = c
  BY <1>1 DEF Target
<1>3. MustNow' = [i \in {k \in DOMAIN must : k <= c.snap.idx \/ ~x} |-> must[i]]
  BY <1>1 DEF MustNow, StillMust
<1>4. \A pos \in DOMAIN MustNow' : HasEntry(c, pos, MustNow'[pos])
  BY <1>3
<1>. QED
  BY <1>1, <1>2, <1>4, Resting DEF Healthy

LEMMA SnapshotStep ==
    ASSUME LoadInv, NEW c, NEW x \in BOOLEAN, job = NoJob,
           job' = [is |-> "snapshot", to |-> c, contradicts |-> x], snapFile' = c.snap,
           Healthy => /\ c \in Logs /\ fixed <= LastIdx(c) /\ (x \/ Shows(logFile, c))
                      /\ \A pos \in DOMAIN must : pos <= c.snap.idx \/ ~x => HasEntry(c, pos, must[pos]),
           UNCHANGED <<mem, leaderTerm, fixed, logFile, log_fp_, must, diverged, errors>>
    PROVE  LoadInv'
<1>1. ErrorTypes' /\ Hurt' = Hurt
  BY DEF LoadInv, ErrorTypes, Hurt
<1>2. ASSUME Healthy PROVE Healthy'
  BY <1>2, SnapshotWritten DEF LoadInv
<1>. QED
  BY <1>1, <1>2 DEF LoadInv

\* A file is rewritten: to the end, not at all, or it is not opened again.
LEMMA Rewritten ==
    ASSUME Healthy, NEW m \in Logs, RewriteDone(m)
    PROVE  logFile' \in Seq(Recs) /\ Shows(logFile', m) /\ log_fp_' /\ UNCHANGED errors
<1>1. logFile' = Records(m) /\ log_fp_' /\ UNCHANGED errors
  BY DEF RewriteDone, Healthy
<1>. QED
  BY <1>1, RewrittenShows

-----------------------------------------------------------------------------
\* The steps.

LEMMA LoadAppend == LoadInv /\ AppendRecord => LoadInv'
<1>. SUFFICES ASSUME LoadInv, AppendRecord PROVE LoadInv'
  OBVIOUS
<1>1. ErrorTypes' /\ (Hurt => Hurt')
  BY NothingHurts DEF LoadInv, AppendRecord
<1>2. ASSUME Healthy PROVE Healthy'
  <2>1. /\ job = NoJob /\ job' = NoJob /\ snapFile' = snapFile /\ fixed' = fixed /\ log_fp_' = log_fp_
        /\ mem' = [mem EXCEPT !.log = Append(@, leaderTerm)] /\ Acknowledge(LastIdx(mem) + 1)
        /\ logFile' = Written(logFile, <<Rec(leaderTerm, LastIdx(mem) + 1)>>)
    BY DEF AppendRecord, CanAppend, Appended
  <2>2. /\ mem \in Logs /\ logFile \in Seq(Recs) /\ snapFile = mem.snap /\ Shows(logFile, mem)
        /\ fixed \in Nat /\ mem.snap.idx <= fixed /\ fixed <= LastIdx(mem) /\ log_fp_ = TRUE
        /\ DOMAIN must \subseteq Nat /\ \A pos \in DOMAIN must : HasEntry(mem, pos, must[pos])
    BY <1>2, <2>1, Resting
  <2>3. leaderTerm \in Nat
    BY DEF LoadInv, ErrorTypes
  <2>4. PICK n : n = Extended(mem, leaderTerm)
    OBVIOUS
  <2>5. /\ n \in Logs /\ mem' = n /\ n.snap = mem.snap /\ LastIdx(n) = LastIdx(mem) + 1
        /\ HasEntry(n, LastIdx(mem) + 1, leaderTerm)
        /\ \A pos \in Nat : \A x : HasEntry(mem, pos, x) => HasEntry(n, pos, x)
    BY <2>1, <2>2, <2>3, <2>4, AppendShows, ExtendedHas
  <2>6. logFile' \in Seq(Recs) /\ Shows(logFile', n)
    <3>1. logFile' = logFile \o <<Rec(leaderTerm, LastIdx(mem) + 1)>>
      BY <2>1, <2>2 DEF Written
    <3>. QED
      BY <2>2, <2>3, <2>4, <3>1, AppendShows
  <2>7. LastIdx(mem) \in Nat /\ LastIdx(mem) + 1 \in Nat
    BY <2>2, LogTypes
  <2>8. \A i \in DOMAIN must : HasEntry(n, i, must[i])
    BY <2>2, <2>5
  <2>9. DOMAIN must' \subseteq Nat /\ \A i \in DOMAIN must' : HasEntry(n, i, must'[i])
    BY <2>1, <2>2, <2>5, <2>7, <2>8, Acknowledged
  <2>10. fixed' <= LastIdx(n)
    BY <2>1, <2>2, <2>5, <2>7
  <2>. QED
    BY <2>1, <2>2, <2>5, <2>6, <2>9, <2>10, Settled
<1>. QED
  BY <1>1, <1>2 DEF LoadInv

LEMMA LoadReplace ==
    ASSUME NEW k \in Nat, LoadInv, ReplaceFrom(k)
    PROVE  LoadInv'
<1>. DEFINE n == Replaced(k)
<1>0. /\ job = NoJob /\ job' = NoJob /\ snapFile' = snapFile /\ fixed' = fixed /\ leaderTerm' = leaderTerm
      /\ diverged' = diverged /\ k > fixed /\ k > mem.snap.idx /\ k <= LastIdx(mem)
  BY DEF ReplaceFrom
<1>. HIDE DEF n
<1>1. CASE RewriteDone(n) /\ mem' = n /\ Acknowledge(k)
  <2>1. ErrorTypes' /\ (Hurt => Hurt')
    BY <1>0, <1>1, NothingHurts DEF LoadInv, RewriteDone
  <2>2. ASSUME Healthy PROVE Healthy'
    <3>1. /\ mem \in Logs /\ snapFile = mem.snap /\ fixed \in Nat /\ mem.snap.idx <= fixed /\ fixed <= LastIdx(mem)
          /\ DOMAIN must \subseteq Nat /\ \A pos \in DOMAIN must : HasEntry(mem, pos, must[pos])
      BY <1>0, <2>2, Resting
    <3>2. PICK b \in Nat, d \in Nat : b = mem.snap.idx /\ k - 1 = b + d /\ d <= Len(mem.log) /\ k - 1 - b = d /\ fixed <= k - 1
      <4>1. PICK b \in Nat, c \in Nat : b = mem.snap.idx /\ c = Len(mem.log) /\ LastIdx(mem) = b + c
        BY <3>1, LogTypes
      <4>2. k > b /\ k <= b + c /\ fixed \in Nat /\ k > fixed
        BY <1>0, <3>1, <4>1
      <4>3. (k - 1) - b \in Nat /\ k - 1 = b + ((k - 1) - b) /\ (k - 1) - b <= c /\ fixed <= k - 1
        BY <4>2
      <4>. QED
        BY <4>1, <4>3
    <3>3. PICK u : u = UpTo(mem, k - 1)
      OBVIOUS
    <3>4. /\ u \in Logs /\ u.snap = mem.snap /\ LastIdx(u) = k - 1 /\ u.log = SubSeq(mem.log, 1, d)
          /\ \A pos \in Nat : \A x : pos <= k - 1 /\ HasEntry(mem, pos, x) => HasEntry(u, pos, x)
      BY <3>1, <3>2, <3>3, UpToHas
    <3>5. leaderTerm \in Nat
      BY DEF LoadInv, ErrorTypes
    <3>6. n = Extended(u, leaderTerm)
      <4>1. n = [mem EXCEPT !.log = Append(SubSeq(@, 1, d), leaderTerm)]
        BY <3>2 DEF n, Replaced
      <4>. QED
        BY <3>1, <3>4, <4>1 DEF Extended, Logs
    <3>7. (k - 1) + 1 = k
      OBVIOUS
    <3>8. /\ n \in Logs /\ n.snap = mem.snap /\ LastIdx(n) = k /\ HasEntry(n, k, leaderTerm)
          /\ \A pos \in Nat : \A x : HasEntry(u, pos, x) => HasEntry(n, pos, x)
      <4>1. n \in Logs /\ n.snap = u.snap /\ LastIdx(n) = LastIdx(u) + 1
        BY <3>4, <3>5, <3>6, AppendShows
      <4>2. HasEntry(n, LastIdx(u) + 1, leaderTerm) /\ \A pos \in Nat : \A x : HasEntry(u, pos, x) => HasEntry(n, pos, x)
        BY <3>4, <3>6, ExtendedHas
      <4>3. LastIdx(u) + 1 = k
        BY <3>4, <3>7
      <4>. QED
        BY <3>4, <4>1, <4>2, <4>3
    <3>9. \A i \in DOMAIN must : i < k => HasEntry(n, i, must[i])
      <4>1. \A i \in DOMAIN must : i \in Nat /\ (i < k => i <= k - 1)
        BY <3>1
      <4>. QED
        BY <3>1, <3>4, <3>8, <4>1
    <3>10. DOMAIN must' \subseteq Nat /\ \A i \in DOMAIN must' : HasEntry(n, i, must'[i])
      BY <1>1, <3>1, <3>8, <3>9, Acknowledged
    <3>11. logFile' \in Seq(Recs) /\ Shows(logFile', n) /\ log_fp_'
      BY <1>1, <2>2, <3>8, Rewritten
    <3>12. fixed' <= LastIdx(n)
      BY <1>0, <3>1, <3>8
    <3>. QED
      BY <1>0, <1>1, <3>1, <3>8, <3>10, <3>11, <3>12, Settled
  <2>. QED
    BY <2>1, <2>2 DEF LoadInv
<1>2. CASE RewriteFails /\ UNCHANGED <<mem, must>>
  <2>1. UNCHANGED <<logFile, log_fp_>> /\ errors' = Erred("rewrite")
    BY <1>2 DEF RewriteFails
  <2>2. ErrorTypes' /\ (Hurt => Hurt')
    BY <1>0, <2>1, NothingHurts DEF LoadInv
  <2>3. Healthy => Healthy'
    BY <1>0, <1>2, <2>1 DEF Healthy, Target, MustNow, StillMust
  <2>. QED
    BY <2>2, <2>3 DEF LoadInv
<1>3. CASE ReopenFails(n)
  BY <1>0, <1>3, ErrorCounted DEF ReopenFails, LoadInv, Hurt
<1>. QED
  BY <1>1, <1>2, <1>3 DEF ReplaceFrom, n

LEMMA LoadCompact ==
    ASSUME NEW pos \in Nat, LoadInv, CompactBegins(pos)
    PROVE  LoadInv'
<1>1. /\ job = NoJob /\ mem.snap.idx < pos /\ pos <= fixed /\ snapFile' = Rec(TermAt(mem, pos), pos)
      /\ job' = [is |-> "snapshot", to |-> Compacted(pos), contradicts |-> FALSE]
      /\ UNCHANGED <<mem, leaderTerm, fixed, logFile, log_fp_, must, diverged, errors>>
  BY DEF CompactBegins
<1>2. PICK snap : snap = Rec(TermAt(mem, pos), pos)
  OBVIOUS
<1>3. snap.idx = pos
  BY <1>2, RecTypes
<1>4. PICK c : c = Suffix(mem, snap) /\ c = Compacted(pos) /\ c.snap = snap
  <2>1. Suffix(mem, snap) = [snap |-> snap, log |-> SubSeq(mem.log, pos - mem.snap.idx + 1, Len(mem.log))]
    BY <1>3 DEF Suffix
  <2>2. Suffix(mem, snap) = Compacted(pos) /\ Suffix(mem, snap).snap = snap
    BY <1>2, <2>1 DEF Compacted
  <2>. QED
    BY <2>2
<1>5. ASSUME Healthy
      PROVE  c \in Logs /\ fixed <= LastIdx(c) /\ Shows(logFile, c) /\ \A i \in DOMAIN must : HasEntry(c, i, must[i])
  <2>1. /\ mem \in Logs /\ logFile \in Seq(Recs) /\ Shows(logFile, mem) /\ fixed \in Nat /\ fixed <= LastIdx(mem)
        /\ DOMAIN must \subseteq Nat /\ \A i \in DOMAIN must : HasEntry(mem, i, must[i])
    BY <1>1, <1>5, Resting
  <2>2. PICK b \in Nat, d \in Nat : b = mem.snap.idx /\ pos = b + d /\ d <= Len(mem.log) /\ pos <= LastIdx(mem)
    <3>1. PICK b \in Nat, e \in Nat : b = mem.snap.idx /\ e = Len(mem.log) /\ LastIdx(mem) = b + e
      BY <2>1, LogTypes
    <3>2. b < pos /\ pos <= b + e
      BY <1>1, <2>1, <3>1
    <3>3. pos - b \in Nat /\ pos = b + (pos - b) /\ pos - b <= e
      BY <3>2
    <3>. QED
      BY <3>1, <3>2, <3>3
  <2>3. snap \in Recs
    <3>1. mem.snap.idx <= pos
      BY <2>2
    <3>2. TermAt(mem, pos) \in Nat
      BY <2>1, <2>2, <3>1, LogTypes
    <3>. QED
      BY <1>2, <3>2, RecTypes
  <2>4. /\ c \in Logs /\ LastIdx(c) = LastIdx(mem) /\ Shows(logFile, c)
        /\ \A i \in Nat : \A t : HasEntry(mem, i, t) => HasEntry(c, i, t)
    <3>1. snap.idx = mem.snap.idx + d /\ c = Suffix(mem, snap) /\ mem \in Logs /\ d <= Len(mem.log)
      BY <1>3, <1>4, <2>1, <2>2
    <3>2. PICK s : s = Suffix(mem, snap)
      OBVIOUS
    <3>3. /\ s \in Logs /\ LastIdx(s) = LastIdx(mem) /\ \A file \in Seq(Recs) : Shows(file, mem) => Shows(file, s)
          /\ \A i \in Nat : \A t : HasEntry(mem, i, t) => HasEntry(s, i, t)
      BY <2>3, <3>1, <3>2, SuffixShows
    <3>. QED
      BY <2>1, <3>1, <3>2, <3>3
  <2>. QED
    BY <2>1, <2>4
<1>. QED
  BY <1>1, <1>2, <1>4, <1>5, SnapshotStep

LEMMA LoadInstall ==
    ASSUME NEW snap \in Recs, LoadInv, InstallBegins(snap)
    PROVE  LoadInv'
<1>. DEFINE tail == SubSeq(mem.log, snap.idx - mem.snap.idx + 1, Len(mem.log))
            c == [snap |-> snap, log |-> IF KeepsSuffix(snap) THEN tail ELSE <<>>]
            x == Contradicts(snap)
<1>1. /\ job = NoJob /\ fixed < snap.idx /\ snapFile' = snap
      /\ job' = [is |-> "snapshot", to |-> c, contradicts |-> x]
      /\ UNCHANGED <<mem, leaderTerm, fixed, logFile, log_fp_, must, diverged, errors>>
  BY DEF InstallBegins
<1>2. x \in BOOLEAN /\ c.snap = snap
  BY DEF Contradicts
<1>3. KeepsSuffix(snap) => c = Suffix(mem, snap)
  BY DEF Suffix
<1>4. ~KeepsSuffix(snap) => c = [snap |-> snap, log |-> <<>>]
  OBVIOUS
<1>. HIDE DEF c, x, tail
<1>5. ASSUME Healthy
      PROVE  /\ c \in Logs /\ fixed <= LastIdx(c) /\ (x \/ Shows(logFile, c))
             /\ \A i \in DOMAIN must : i <= c.snap.idx \/ ~x => HasEntry(c, i, must[i])
  <2>1. /\ mem \in Logs /\ logFile \in Seq(Recs) /\ Shows(logFile, mem) /\ fixed \in Nat /\ fixed <= LastIdx(mem)
        /\ mem.snap.idx <= fixed /\ DOMAIN must \subseteq Nat /\ \A i \in DOMAIN must : HasEntry(mem, i, must[i])
    BY <1>1, <1>5, Resting
  <2>2. PICK b \in Nat, e \in Nat, i \in Nat :
           b = mem.snap.idx /\ e = Len(mem.log) /\ LastIdx(mem) = b + e /\ i = snap.idx /\ b <= i /\ fixed <= i
    <3>1. snap.idx \in Nat /\ mem.snap.idx \in Nat
      BY <2>1, LogTypes, RecTypes
    <3>2. mem.snap.idx <= snap.idx /\ fixed <= snap.idx
      BY <1>1, <2>1, <3>1
    <3>. QED
      BY <2>1, <3>1, <3>2, LogTypes
  <2>3. CASE KeepsSuffix(snap)
    <3>1. PICK d \in Nat : snap.idx = mem.snap.idx + d /\ d <= Len(mem.log)
      <4>1. i <= b + e
        BY <2>2, <2>3 DEF KeepsSuffix
      <4>2. i - b \in Nat /\ i = b + (i - b) /\ i - b <= e
        BY <2>2, <4>1
      <4>. QED
        BY <2>2, <4>2
    <3>2. /\ c \in Logs /\ LastIdx(c) = LastIdx(mem) /\ Shows(logFile, c)
          /\ \A pos \in Nat : \A t : HasEntry(mem, pos, t) => HasEntry(c, pos, t)
      BY <1>3, <2>1, <2>3, <3>1, SuffixShows
    <3>. QED
      BY <2>1, <3>2
  <2>4. CASE ~KeepsSuffix(snap)
    <3>1. /\ c \in Logs /\ LastIdx(c) = snap.idx
          /\ LastIdx(mem) <= snap.idx => /\ Shows(logFile, c)
                                        /\ \A pos \in Nat : \A t : HasEntry(mem, pos, t) => HasEntry(c, pos, t)
      <4>1. mem.snap.idx <= snap.idx
        BY <2>2
      <4>. QED
        BY <1>4, <2>1, <2>4, <4>1, BeyondShows
    <3>2. CASE LastIdx(mem) <= snap.idx
      BY <2>1, <2>2, <3>1, <3>2
    <3>3. CASE ~(LastIdx(mem) <= snap.idx)
      <4>1. x
        <5>1. snap.idx < LastIdx(mem) /\ snap.idx <= LastIdx(mem)
          BY <2>2, <3>3
        <5>. QED
          BY <2>4, <5>1 DEF x, KeepsSuffix, Contradicts
      <4>2. \A pos \in DOMAIN must : pos <= c.snap.idx => HasEntry(c, pos, must[pos])
        BY DEF HasEntry
      <4>. QED
        BY <2>2, <3>1, <4>1, <4>2
    <3>. QED
      BY <3>2, <3>3
  <2>. QED
    BY <2>3, <2>4
<1>. QED
  BY <1>1, <1>2, <1>5, SnapshotStep

LEMMA LoadSnapshot == LoadInv /\ SnapshotEnds => LoadInv'
<1>. SUFFICES ASSUME LoadInv, SnapshotEnds PROVE LoadInv'
  OBVIOUS
<1>. DEFINE c == job.to
<1>1. /\ job # NoJob /\ mem' = c /\ fixed' = (IF c.snap.idx > fixed THEN c.snap.idx ELSE fixed) /\ must' = StillMust
      /\ job' = NoJob /\ leaderTerm' = leaderTerm /\ snapFile' = snapFile
  BY DEF SnapshotEnds
<1>2. Target = c /\ MustNow = StillMust
  BY <1>1 DEF Target, MustNow
<1>. HIDE DEF c
<1>3. ASSUME Healthy
      PROVE  /\ c \in Logs /\ snapFile = c.snap /\ fixed' \in Nat /\ c.snap.idx <= fixed' /\ fixed' <= LastIdx(c)
             /\ DOMAIN must' \subseteq Nat /\ \A i \in DOMAIN must' : HasEntry(c, i, must'[i])
             /\ log_fp_ /\ logFile \in Seq(Recs) /\ (job.contradicts \/ Shows(logFile, c))
  <2>1. /\ c \in Logs /\ snapFile = c.snap /\ fixed \in Nat /\ fixed <= LastIdx(c) /\ log_fp_ /\ logFile \in Seq(Recs)
        /\ (job.contradicts \/ Shows(logFile, c)) /\ DOMAIN must \subseteq Nat
        /\ \A i \in DOMAIN StillMust : HasEntry(c, i, StillMust[i])
    BY <1>2, <1>3 DEF Healthy
  <2>2. DOMAIN StillMust \subseteq DOMAIN must
    BY DEF StillMust
  <2>3. PICK b \in Nat, e \in Nat : b = c.snap.idx /\ e = Len(c.log) /\ LastIdx(c) = b + e
    BY <2>1, LogTypes
  <2>4. fixed' \in Nat /\ b <= fixed' /\ fixed' <= b + e
    <3>1. CASE b > fixed
      BY <1>1, <2>1, <2>3, <3>1
    <3>2. CASE ~(b > fixed)
      BY <1>1, <2>1, <2>3, <3>2
    <3>. QED
      BY <3>1, <3>2
  <2>. QED
    BY <1>1, <2>1, <2>2, <2>3, <2>4
<1>4. CASE RewriteDone(c) /\ UNCHANGED diverged
  <2>1. ErrorTypes' /\ (Hurt => Hurt')
    BY <1>1, <1>4, NothingHurts DEF LoadInv, RewriteDone
  <2>2. ASSUME Healthy PROVE Healthy'
    <3>1. logFile' \in Seq(Recs) /\ Shows(logFile', c) /\ log_fp_'
      BY <1>3, <1>4, <2>2, Rewritten
    <3>. QED
      BY <1>1, <1>3, <2>2, <3>1, Settled
  <2>. QED
    BY <2>1, <2>2 DEF LoadInv
<1>5. CASE RewriteFails /\ diverged' = (diverged \/ job.contradicts)
  <2>1. UNCHANGED <<logFile, log_fp_>> /\ errors' = Erred("rewrite")
    BY <1>5 DEF RewriteFails
  <2>2. ErrorTypes' /\ (Hurt => Hurt')
    BY <1>1, <1>5, <2>1, NothingHurts DEF LoadInv
  <2>3. ASSUME Healthy, ~Hurt' PROVE Healthy'
    <3>1. ~job.contradicts
      BY <1>5, <2>3 DEF Hurt
    <3>2. logFile' \in Seq(Recs) /\ Shows(logFile', c) /\ log_fp_'
      BY <1>3, <2>1, <2>3, <3>1
    <3>. QED
      BY <1>1, <1>3, <2>3, <3>2, Settled
  <2>. QED
    BY <2>2, <2>3 DEF LoadInv
<1>6. CASE ReopenFails(c)
  BY <1>1, <1>6, ErrorCounted DEF ReopenFails, LoadInv, Hurt
<1>. QED
  BY <1>4, <1>5, <1>6 DEF SnapshotEnds, c

LEMMA LoadDie == LoadInv /\ DieAndLoad => LoadInv'
<1>. SUFFICES ASSUME LoadInv, DieAndLoad PROVE LoadInv'
  OBVIOUS
<1>1. /\ errors' = Erred("die") /\ fixed' = snapFile.idx /\ log_fp_' = TRUE /\ job' = NoJob
      /\ must' = MustNow /\ diverged' = (diverged \/ job.contradicts) /\ leaderTerm' = leaderTerm /\ snapFile' = snapFile
  BY DEF DieAndLoad, MustNow
<1>2. PICK part \in Remains : /\ mem' = Loaded_(logFile \o part, snapFile)
                             /\ logFile' = GoodPart(logFile \o part, snapFile)
  BY DEF DieAndLoad, CutOff
<1>3. ErrorTypes' /\ (Hurt => Hurt')
  BY <1>1, NothingHurts DEF LoadInv
<1>4. ASSUME Healthy, ~Hurt' PROVE Healthy'
  <2>1. PICK t : t = Target
    OBVIOUS
  <2>2. ~job.contradicts
    BY <1>1, <1>4 DEF Hurt
  <2>3. /\ t \in Logs /\ logFile \in Seq(Recs) /\ snapFile = t.snap /\ Shows(logFile, t) /\ DOMAIN must' \subseteq Nat
        /\ \A i \in DOMAIN must' : HasEntry(t, i, must'[i])
    <3>1. DOMAIN MustNow \subseteq DOMAIN must
      BY DEF MustNow, StillMust
    <3>. QED
      BY <1>1, <1>4, <2>1, <2>2, <3>1 DEF Healthy
  \* The record that was about to be appended may have reached the file.
  <2>4. PICK n \in Logs, file \in Seq(Recs) :
           /\ Shows(file, n) /\ n.snap = t.snap /\ logFile \o part \in {file, file \o <<Garbage>>}
           /\ \A i \in Nat : \A x : HasEntry(t, i, x) => HasEntry(n, i, x)
    <3>1. CASE part = <<>>
      BY <2>3, <3>1
    <3>2. CASE part = <<Garbage>>
      BY <2>3, <3>2
    <3>3. CASE part = <<Rec(leaderTerm, LastIdx(mem) + 1)>> /\ CanAppend
      <4>1. t = mem
        BY <2>1, <3>3 DEF Target, CanAppend
      <4>2. PICK n, file : n = Extended(t, leaderTerm) /\ file = logFile \o part
        OBVIOUS
      <4>3. leaderTerm \in Nat
        BY DEF LoadInv, ErrorTypes
      <4>4. n \in Logs /\ n.snap = t.snap /\ file \in Seq(Recs) /\ Shows(file, n)
        BY <2>3, <3>3, <4>1, <4>2, <4>3, AppendShows
      <4>5. \A i \in Nat : \A x : HasEntry(t, i, x) => HasEntry(n, i, x)
        BY <2>3, <4>2, ExtendedHas
      <4>. QED
        BY <4>2, <4>4, <4>5
    <3>. QED
      BY <3>1, <3>2, <3>3 DEF Remains
  <2>5. logFile' = file /\ mem' = n
    <3>1. PICK ext : ext = logFile \o part
      OBVIOUS
    <3>2. GoodPart(ext, n.snap) = file /\ Loaded_(ext, n.snap) = n
      BY <2>4, <3>1, ShownIsLoaded
    <3>. QED
      BY <1>2, <2>3, <2>4, <3>1, <3>2
  <2>6. fixed' \in Nat /\ n.snap.idx <= fixed' /\ fixed' <= LastIdx(n)
    <3>1. PICK b \in Nat, e \in Nat : b = n.snap.idx /\ e = Len(n.log) /\ LastIdx(n) = b + e
      BY <2>4, LogTypes
    <3>2. fixed' = b
      BY <1>1, <2>3, <2>4, <3>1
    <3>. QED
      BY <3>1, <3>2
  <2>7. \A i \in DOMAIN must' : HasEntry(n, i, must'[i])
    BY <2>3, <2>4
  <2>. QED
    BY <1>1, <2>3, <2>4, <2>5, <2>6, <2>7, Settled
<1>. QED
  BY <1>3, <1>4 DEF LoadInv

LEMMA LoadStep == LoadInv /\ [StoreNext]_storeVars => LoadInv'
<1>. SUFFICES ASSUME LoadInv, [StoreNext]_storeVars PROVE LoadInv'
  OBVIOUS
<1>1. CASE NewTerm
  <2>1. ErrorTypes' /\ Hurt' = Hurt
    BY <1>1 DEF NewTerm, LoadInv, ErrorTypes, Hurt
  <2>2. Healthy => Healthy'
    BY <1>1 DEF NewTerm, Healthy, Target, MustNow, StillMust
  <2>. QED
    BY <2>1, <2>2 DEF LoadInv
<1>2. CASE AppendRecord
  BY <1>2, LoadAppend
<1>3. CASE AppendLeavesPart
  BY <1>3, ErrorCounted DEF AppendLeavesPart, LoadInv, Hurt
<1>4. CASE Commit
  <2>1. ErrorTypes' /\ Hurt' = Hurt
    BY <1>4 DEF Commit, LoadInv, ErrorTypes, Hurt
  <2>2. ASSUME Healthy PROVE Healthy'
    <3>1. /\ job' = NoJob /\ job = NoJob /\ fixed' = LastIdx(mem)
          /\ UNCHANGED <<mem, logFile, snapFile, log_fp_, must>>
      BY <1>4 DEF Commit
    <3>2. /\ mem \in Logs /\ logFile \in Seq(Recs) /\ snapFile = mem.snap /\ Shows(logFile, mem)
          /\ log_fp_ = TRUE /\ DOMAIN must \subseteq Nat /\ \A pos \in DOMAIN must : HasEntry(mem, pos, must[pos])
      BY <2>2, <3>1, Resting
    <3>3. LastIdx(mem) \in Nat /\ mem.snap.idx <= LastIdx(mem)
      <4>1. PICK b \in Nat, e \in Nat : b = mem.snap.idx /\ LastIdx(mem) = b + e
        BY <3>2, LogTypes
      <4>. QED
        BY <4>1
    <3>. QED
      BY <3>1, <3>2, <3>3, Settled
  <2>. QED
    BY <2>1, <2>2 DEF LoadInv
<1>5. ASSUME NEW k \in 1..MaxIndex, ReplaceFrom(k) \/ CompactBegins(k) PROVE LoadInv'
  BY <1>5, LoadReplace, LoadCompact
<1>6. ASSUME NEW pos \in 1..MaxIndex, NEW term \in 1..MaxTermS, InstallBegins(Rec(term, pos)) PROVE LoadInv'
  <2>1. Rec(term, pos) \in Recs
    BY RecTypes
  <2>. QED
    BY <1>6, <2>1, LoadInstall
<1>7. CASE SnapshotEnds
  BY <1>7, LoadSnapshot
<1>8. CASE DieAndLoad
  BY <1>8, LoadDie
<1>9. CASE UNCHANGED storeVars
  <2>1. ErrorTypes' /\ Hurt' = Hurt
    BY <1>9 DEF storeVars, LoadInv, ErrorTypes, Hurt
  <2>2. Healthy => Healthy'
    BY <1>9 DEF storeVars, Healthy, Target, MustNow, StillMust
  <2>. QED
    BY <2>1, <2>2 DEF LoadInv
<1>. QED
  BY <1>1, <1>2, <1>3, <1>4, <1>5, <1>6, <1>7, <1>8, <1>9 DEF StoreNext

\* RestartLoadsLog, for logs of any length and any number of crashes and errors.
THEOREM RestartFindsLog == StoreSpec => []RestartLoadsLog
<1>1. StoreInit => LoadInv
  BY LoadInitially
<1>2. LoadInv /\ [StoreNext]_storeVars => LoadInv'
  BY LoadStep
<1>3. LoadInv => RestartLoadsLog
  BY LoadSound
<1>. QED
  BY <1>1, <1>2, <1>3, PTL DEF StoreSpec

-----------------------------------------------------------------------------
\* The vector index.

\* Slots, and the slot of each id: a slot that is not a tombstone is the one of its id, and no id
\* leads to the slot of another.
SlotsFit(items, ext, dead) ==
    /\ items \in Seq(Vector) /\ DOMAIN ext \subseteq Id /\ dead \subseteq DOMAIN items
    /\ \A id \in DOMAIN ext : ext[id] \in DOMAIN items /\ items[ext[id]].id = id
    /\ \A n \in DOMAIN items \ dead : items[n].id \in DOMAIN ext /\ ext[items[n].id] = n

Texts(items, slots) == {<<n, items[n].meta>> : n \in slots}

TextFits(text, items, dead) == text = Texts(items, DOMAIN items \ dead)

\* An id gets a slot, or has none.
Leading(ext, id, n) == [i \in DOMAIN ext \cup {id} |-> IF i = id THEN n ELSE ext[i]]

Leaving(ext, id) == [i \in DOMAIN ext \ {id} |-> ext[i]]

NextSlot(items) == Len(items) + 1

NoneDead(ext, dead) == \A id \in DOMAIN ext : ext[id] \notin dead

WithMeta(v, m) == [v EXCEPT !.meta = m]

Updated(items, n, m) == [items EXCEPT ![n] = WithMeta(items[n], m)]

ExpiredSlots(items, dead, gone) == {n \in DOMAIN items \ dead : items[n].meta \in gone}

\* What a compaction makes of the slots at some places.
Moved(items, places) == [k \in DOMAIN places |-> items[places[k]]]

SlotOf(vs) == [id \in {vs[k].id : k \in DOMAIN vs} |-> CHOOSE k \in DOMAIN vs : vs[k].id = id]

\* What a reader gets for an id.
Found(items, ext, dead, id) == IF id \in DOMAIN ext /\ ext[id] \notin dead THEN items[ext[id]] ELSE None

Unexpired(v, gone) == IF v # None /\ v.meta \in gone THEN None ELSE v

GoodIndex(ix) ==
    /\ DOMAIN ix = {"nodes", "ext_to_int", "deleted", "bm25"}
    /\ SlotsFit(ix.nodes, ix.ext_to_int, ix.deleted)
    /\ TextFits(ix.bm25, ix.nodes, ix.deleted)

\* No id leads to a tombstone, as after a compaction and until something expires.
Clean(ix) == NoneDead(ix.ext_to_int, ix.deleted)

LEMMA VectorTypes ==
    /\ None \notin Vector
    /\ \A v \in Vector : v.id \in Id /\ v.emb \in Emb /\ v.meta \in Meta
    /\ \A v \in Vector, m \in Meta : WithMeta(v, m) \in Vector
    /\ \A v \in Vector, w \in Vector : v.id = w.id /\ v.emb = w.emb => WithMeta(w, v.meta) = v
  BY TVIndexAssumption DEF Vector, WithMeta

\* A vector gets a slot of its own.
LEMMA AppendFits ==
    ASSUME NEW items, NEW ext, NEW dead, NEW text, SlotsFit(items, ext, dead), TextFits(text, items, dead),
           NEW v \in Vector, v.id \in DOMAIN ext => ext[v.id] \in dead
    PROVE  /\ SlotsFit(Append(items, v), Leading(ext, v.id, NextSlot(items)), dead)
           /\ TextFits(text \cup {<<NextSlot(items), v.meta>>}, Append(items, v), dead)
           /\ \A id \in Id : Found(Append(items, v), Leading(ext, v.id, NextSlot(items)), dead, id) =
                                IF id = v.id THEN v ELSE Found(items, ext, dead, id)
           /\ NoneDead(ext, dead) => NoneDead(Leading(ext, v.id, NextSlot(items)), dead)
<1>0. PICK n, more, map : n = NextSlot(items) /\ n = Len(items) + 1 /\ more = Append(items, v) /\ map = Leading(ext, v.id, n)
  BY DEF NextSlot
<1>1. /\ items \in Seq(Vector) /\ DOMAIN ext \subseteq Id /\ dead \subseteq DOMAIN items
      /\ \A id \in DOMAIN ext : ext[id] \in DOMAIN items /\ items[ext[id]].id = id
      /\ \A k \in DOMAIN items \ dead : items[k].id \in DOMAIN ext /\ ext[items[k].id] = k
      /\ text = {<<k, items[k].meta>> : k \in DOMAIN items \ dead}
  BY DEF SlotsFit, TextFits, Texts
<1>2. /\ DOMAIN items = 1..(n - 1) /\ n \in Nat /\ n \notin DOMAIN items
      /\ more \in Seq(Vector) /\ DOMAIN more = DOMAIN items \cup {n} /\ more[n] = v
      /\ \A k \in DOMAIN items : more[k] = items[k]
  <2>1. Len(items) \in Nat /\ DOMAIN items = 1..Len(items)
    BY <1>1
  <2>2. more \in Seq(Vector) /\ Len(more) = Len(items) + 1 /\ more[Len(items) + 1] = v /\ \A k \in 1..Len(items) : more[k] = items[k]
    BY <1>0, <1>1
  <2>3. DOMAIN more = 1..n
    BY <1>0, <2>2
  <2>. QED
    BY <1>0, <2>1, <2>2, <2>3
<1>3. /\ DOMAIN map = DOMAIN ext \cup {v.id} /\ map[v.id] = n
      /\ \A id \in DOMAIN ext : id # v.id => map[id] = ext[id]
  BY <1>0 DEF Leading
<1>4. v.id \in Id
  BY VectorTypes
<1>5. n \notin dead
  BY <1>1, <1>2
<1>6. SlotsFit(more, map, dead)
  <2>1. ASSUME NEW id \in DOMAIN map PROVE map[id] \in DOMAIN more /\ more[map[id]].id = id
    <3>1. CASE id = v.id
      BY <1>2, <1>3, <3>1
    <3>2. CASE id # v.id
      BY <1>1, <1>2, <1>3, <3>2
    <3>. QED
      BY <3>1, <3>2
  <2>2. ASSUME NEW k \in DOMAIN more \ dead PROVE more[k].id \in DOMAIN map /\ map[more[k].id] = k
    <3>1. CASE k = n
      BY <1>2, <1>3, <3>1
    <3>2. CASE k # n
      <4>1. k \in DOMAIN items \ dead /\ more[k] = items[k]
        BY <1>2, <3>2
      <4>2. items[k].id \in DOMAIN ext /\ ext[items[k].id] = k /\ k \notin dead
        BY <1>1, <4>1
      <4>3. items[k].id # v.id
        BY <4>2
      <4>. QED
        BY <1>3, <4>1, <4>2, <4>3
    <3>. QED
      BY <3>1, <3>2
  <2>. QED
    BY <1>1, <1>2, <1>3, <1>4, <2>1, <2>2 DEF SlotsFit
<1>7. TextFits(text \cup {<<n, v.meta>>}, more, dead)
  <2>1. DOMAIN more \ dead = (DOMAIN items \ dead) \cup {n}
    BY <1>2, <1>5
  <2>2. \A k \in DOMAIN items \ dead : more[k] = items[k]
    BY <1>2
  <2>3. text \cup {<<n, v.meta>>} = {<<k, more[k].meta>> : k \in (DOMAIN items \ dead) \cup {n}}
    BY <1>1, <1>2, <2>2
  <2>. QED
    BY <2>1, <2>3 DEF TextFits, Texts
<1>8. ASSUME NEW id \in Id PROVE Found(more, map, dead, id) = IF id = v.id THEN v ELSE Found(items, ext, dead, id)
  <2>1. CASE id = v.id
    BY <1>2, <1>3, <1>5, <2>1 DEF Found
  <2>2. CASE id # v.id
    BY <1>1, <1>2, <1>3, <2>2 DEF Found
  <2>. QED
    BY <2>1, <2>2
<1>9. NoneDead(ext, dead) => NoneDead(map, dead)
  BY <1>3, <1>5 DEF NoneDead
<1>. QED
  BY <1>0, <1>6, <1>7, <1>8, <1>9

\* The text of a slot that is not a tombstone is taken out.
LEMMA TextWithout ==
    ASSUME NEW items, NEW dead, NEW text, TextFits(text, items, dead), NEW S \in SUBSET DOMAIN items
    PROVE  TextFits(text \ Texts(items, S), items, dead \cup S)
<1>0. PICK T : T = Texts(items, S)
  OBVIOUS
<1>1. text = {<<n, items[n].meta>> : n \in DOMAIN items \ dead} /\ T = {<<n, items[n].meta>> : n \in S}
  BY <1>0 DEF TextFits, Texts
<1>2. text \ T = {<<n, items[n].meta>> : n \in DOMAIN items \ (dead \cup S)}
  BY <1>1
<1>. QED
  BY <1>0, <1>2 DEF TextFits, Texts

\* A vector is written to the slot n its id has, a tombstone perhaps.
UpdateFitsAt(items, ext, dead, text, id, n, m) ==
    /\ SlotsFit(Updated(items, n, m), ext, dead \ {n})
    /\ TextFits((text \ Texts(items, {n})) \cup {<<n, m>>}, Updated(items, n, m), dead \ {n})
    /\ \A i \in Id : Found(Updated(items, n, m), ext, dead \ {n}, i) =
                        IF i = id THEN WithMeta(items[n], m) ELSE Found(items, ext, dead, i)

LEMMA UpdateFits ==
    ASSUME NEW items, NEW ext, NEW dead, NEW text, SlotsFit(items, ext, dead), TextFits(text, items, dead),
           NEW id \in DOMAIN ext, NEW m \in Meta
    PROVE  UpdateFitsAt(items, ext, dead, text, id, ext[id], m)
<1>0. PICK n, w, more, T : /\ n = ext[id] /\ w = WithMeta(items[n], m) /\ more = Updated(items, n, m)
                           /\ more = [items EXCEPT ![n] = w] /\ T = Texts(items, {n})
  BY DEF Updated
<1>1. /\ items \in Seq(Vector) /\ DOMAIN ext \subseteq Id /\ dead \subseteq DOMAIN items
      /\ \A i \in DOMAIN ext : ext[i] \in DOMAIN items /\ items[ext[i]].id = i
      /\ \A k \in DOMAIN items \ dead : items[k].id \in DOMAIN ext /\ ext[items[k].id] = k
      /\ text = {<<k, items[k].meta>> : k \in DOMAIN items \ dead}
  BY DEF SlotsFit, TextFits, Texts
<1>2. n \in DOMAIN items /\ items[n].id = id /\ items[n] \in Vector
  BY <1>0, <1>1
<1>3. w \in Vector /\ w.id = id /\ w.meta = m
  <2>1. w \in Vector
    BY <1>0, <1>2, VectorTypes
  <2>. QED
    BY <1>0, <1>2, <2>1 DEF Vector, WithMeta
<1>4. more \in Seq(Vector) /\ DOMAIN more = DOMAIN items /\ more[n] = w /\ \A k \in DOMAIN items : k # n => more[k] = items[k]
  BY <1>0, <1>1, <1>2, <1>3
<1>5. \A k \in DOMAIN items : more[k].id = items[k].id
  BY <1>2, <1>3, <1>4
<1>6. SlotsFit(more, ext, dead \ {n})
  <2>1. ASSUME NEW k \in DOMAIN items \ (dead \ {n}) PROVE items[k].id \in DOMAIN ext /\ ext[items[k].id] = k
    <3>1. CASE k = n
      BY <1>0, <1>2, <3>1
    <3>2. CASE k # n
      BY <1>1, <3>2
    <3>. QED
      BY <3>1, <3>2
  <2>. QED
    BY <1>1, <1>4, <1>5, <2>1 DEF SlotsFit
<1>7. TextFits((text \ T) \cup {<<n, m>>}, more, dead \ {n})
  <2>. DEFINE rest == text \ T
  <2>1. TextFits(rest, items, dead \cup {n})
    <3>1. {n} \in SUBSET DOMAIN items
      BY <1>2
    <3>. QED
      BY <1>0, <3>1, TextWithout
  <2>2. rest = {<<k, items[k].meta>> : k \in DOMAIN items \ (dead \cup {n})}
    BY <2>1 DEF TextFits, Texts
  <2>3. DOMAIN items \ (dead \ {n}) = (DOMAIN items \ (dead \cup {n})) \cup {n}
    BY <1>2
  <2>. HIDE DEF rest
  <2>4. \A k \in DOMAIN items \ (dead \cup {n}) : more[k].meta = items[k].meta
    BY <1>4
  <2>5. more[n].meta = m
    BY <1>3, <1>4
  <2>6. rest \cup {<<n, m>>} = {<<k, more[k].meta>> : k \in (DOMAIN items \ (dead \cup {n})) \cup {n}}
    BY <2>2, <2>4, <2>5
  <2>7. rest \cup {<<n, m>>} = {<<k, more[k].meta>> : k \in DOMAIN more \ (dead \ {n})}
    BY <1>4, <2>3, <2>6
  <2>. QED
    BY <2>7 DEF TextFits, Texts, rest
<1>8. ASSUME NEW i \in Id PROVE Found(more, ext, dead \ {n}, i) = IF i = id THEN w ELSE Found(items, ext, dead, i)
  <2>1. CASE i = id
    BY <1>0, <1>4, <2>1 DEF Found
  <2>2. CASE i # id
    <3>1. i \in DOMAIN ext => ext[i] # n /\ ext[i] \in DOMAIN items
      BY <1>0, <1>1, <1>2, <2>2
    <3>. QED
      BY <1>4, <2>2, <3>1 DEF Found
  <2>. QED
    BY <2>1, <2>2
<1>. QED
  BY <1>0, <1>6, <1>7, <1>8 DEF UpdateFitsAt

\* An id is taken out, and its slot becomes a tombstone.
LEMMA TombstoneFits ==
    ASSUME NEW items, NEW ext, NEW dead, NEW text, SlotsFit(items, ext, dead), TextFits(text, items, dead),
           NEW id \in DOMAIN ext
    PROVE  /\ SlotsFit(items, Leaving(ext, id), dead \cup {ext[id]})
           /\ TextFits(text \ Texts(items, {ext[id]}), items, dead \cup {ext[id]})
           /\ \A i \in Id : Found(items, Leaving(ext, id), dead \cup {ext[id]}, i) =
                               IF i = id THEN None ELSE Found(items, ext, dead, i)
           /\ NoneDead(ext, dead) => NoneDead(Leaving(ext, id), dead \cup {ext[id]})
<1>0. PICK n, map, T : n = ext[id] /\ map = Leaving(ext, id) /\ T = Texts(items, {n})
  OBVIOUS
<1>1. /\ items \in Seq(Vector) /\ DOMAIN ext \subseteq Id /\ dead \subseteq DOMAIN items
      /\ \A i \in DOMAIN ext : ext[i] \in DOMAIN items /\ items[ext[i]].id = i
      /\ \A k \in DOMAIN items \ dead : items[k].id \in DOMAIN ext /\ ext[items[k].id] = k
  BY DEF SlotsFit
<1>2. n \in DOMAIN items /\ items[n].id = id
  BY <1>0, <1>1
<1>3. DOMAIN map = DOMAIN ext \ {id} /\ \A i \in DOMAIN map : i \in DOMAIN ext /\ i # id /\ map[i] = ext[i] /\ map[i] # n
  BY <1>0, <1>1, <1>2 DEF Leaving
<1>4. SlotsFit(items, map, dead \cup {n})
  <2>1. ASSUME NEW k \in DOMAIN items \ (dead \cup {n}) PROVE items[k].id \in DOMAIN map /\ map[items[k].id] = k
    <3>1. items[k].id \in DOMAIN ext /\ ext[items[k].id] = k /\ k # n
      BY <1>1
    <3>2. items[k].id # id
      BY <1>0, <3>1
    <3>3. items[k].id \in DOMAIN map
      BY <1>3, <3>1, <3>2
    <3>. QED
      BY <1>3, <3>1, <3>3
  <2>. QED
    BY <1>1, <1>2, <1>3, <2>1 DEF SlotsFit
<1>5. TextFits(text \ T, items, dead \cup {n})
  <2>1. {n} \in SUBSET DOMAIN items
    BY <1>2
  <2>. QED
    BY <1>0, <2>1, TextWithout
<1>6. ASSUME NEW i \in Id PROVE Found(items, map, dead \cup {n}, i) = IF i = id THEN None ELSE Found(items, ext, dead, i)
  <2>1. CASE i = id
    BY <1>3, <2>1 DEF Found
  <2>2. CASE i # id
    <3>1. i \in DOMAIN map <=> i \in DOMAIN ext
      BY <1>3, <2>2
    <3>. QED
      BY <1>3, <2>2, <3>1 DEF Found
  <2>. QED
    BY <2>1, <2>2
<1>7. NoneDead(ext, dead) => NoneDead(map, dead \cup {n})
  BY <1>3 DEF NoneDead
<1>. QED
  BY <1>0, <1>4, <1>5, <1>6, <1>7

\* Slots become tombstones, and their ids keep leading to them.
LEMMA PurgeFits ==
    ASSUME NEW items, NEW ext, NEW dead, NEW text, SlotsFit(items, ext, dead), TextFits(text, items, dead), NEW gone,
           NEW S, S = ExpiredSlots(items, dead, gone)
    PROVE  /\ SlotsFit(items, ext, dead \cup S) /\ TextFits(text \ Texts(items, S), items, dead \cup S)
           /\ \A id \in Id : Found(items, ext, dead \cup S, id) = Unexpired(Found(items, ext, dead, id), gone)
<1>1. /\ items \in Seq(Vector) /\ DOMAIN ext \subseteq Id /\ dead \subseteq DOMAIN items
      /\ \A i \in DOMAIN ext : ext[i] \in DOMAIN items /\ items[ext[i]].id = i /\ items[ext[i]] # None
      /\ \A k \in DOMAIN items \ dead : items[k].id \in DOMAIN ext /\ ext[items[k].id] = k
  <2>1. items \in Seq(Vector) /\ \A i \in DOMAIN ext : ext[i] \in DOMAIN items
    BY DEF SlotsFit
  <2>2. \A i \in DOMAIN ext : items[ext[i]] # None
    BY <2>1, VectorTypes
  <2>. QED
    BY <2>2 DEF SlotsFit
<1>0. S = {n \in DOMAIN items \ dead : items[n].meta \in gone} /\ S \in SUBSET DOMAIN items
  BY DEF ExpiredSlots
<1>2. SlotsFit(items, ext, dead \cup S)
  BY <1>0, <1>1 DEF SlotsFit
<1>3. TextFits(text \ Texts(items, S), items, dead \cup S)
  BY <1>0, TextWithout
<1>4. ASSUME NEW id \in Id
      PROVE  Found(items, ext, dead \cup S, id) = Unexpired(Found(items, ext, dead, id), gone)
  BY <1>0, <1>1 DEF Found, Unexpired
<1>. QED
  BY <1>2, <1>3, <1>4

\* Compaction: the vectors that are not tombstones move together.
LEMMA CompactFits ==
    ASSUME NEW items, NEW ext, NEW dead, SlotsFit(items, ext, dead), NEW places, Orders(places, DOMAIN items \ dead),
           Cardinality(DOMAIN items \ dead) \in Nat, NEW vs, vs = Moved(items, places),
           NEW map, map = SlotOf(vs)
    PROVE  /\ SlotsFit(vs, map, {}) /\ TextFits(Texts(vs, DOMAIN vs), vs, {})
           /\ \A id \in Id : Found(vs, map, {}, id) = Found(items, ext, dead, id)
<1>. DEFINE live == DOMAIN items \ dead
<1>1. /\ items \in Seq(Vector) /\ DOMAIN ext \subseteq Id
      /\ \A i \in DOMAIN ext : ext[i] \in DOMAIN items /\ items[ext[i]].id = i
      /\ \A k \in live : items[k].id \in DOMAIN ext /\ ext[items[k].id] = k
  BY DEF SlotsFit
<1>2. /\ places \in [1..Cardinality(live) -> live] /\ \A n \in live : \E k \in DOMAIN places : places[k] = n
      /\ \A j, k \in DOMAIN places : j < k => places[j] < places[k]
  BY DEF Orders, Range
<1>3. \A n \in live : n \in Nat /\ items[n] \in Vector /\ items[n].id \in Id
  BY <1>1, VectorTypes
<1>. HIDE DEF live
<1>4. /\ DOMAIN vs = DOMAIN places /\ DOMAIN vs = 1..Cardinality(live)
      /\ \A k \in DOMAIN vs : places[k] \in live /\ vs[k] = items[places[k]] /\ vs[k] \in Vector /\ vs[k].id \in Id
  BY <1>2, <1>3 DEF Moved
<1>5. ASSUME NEW j \in DOMAIN vs, NEW k \in DOMAIN vs, vs[j].id = vs[k].id PROVE j = k
  <2>1. places[j] = places[k]
    BY <1>1, <1>4, <1>5
  <2>2. places[j] \in Nat /\ ~(j < k) /\ ~(k < j)
    BY <1>2, <1>3, <1>4, <2>1
  <2>. QED
    BY <1>4, <2>2 DEF live
<1>. DEFINE ids == {vs[k].id : k \in DOMAIN vs}
<1>0. DOMAIN map = ids /\ \A id \in ids : map[id] = CHOOSE k \in DOMAIN vs : vs[k].id = id
  BY DEF SlotOf
<1>6. ASSUME NEW k \in DOMAIN vs PROVE vs[k].id \in DOMAIN map /\ map[vs[k].id] = k
  <2>1. PICK i : i = vs[k].id
    OBVIOUS
  <2>2. i \in ids /\ map[i] = CHOOSE j \in DOMAIN vs : vs[j].id = i
    <3>1. i \in ids
      BY <2>1
    <3>. HIDE DEF ids
    <3>. QED
      BY <1>0, <3>1
  <2>3. \A j \in DOMAIN vs : vs[j].id = i <=> j = k
    BY <1>5, <2>1
  <2>4. (CHOOSE j \in DOMAIN vs : vs[j].id = i) = k
    BY <2>3
  <2>. HIDE DEF ids
  <2>. QED
    BY <1>0, <2>1, <2>2, <2>4
<1>7. \A id \in DOMAIN map : \E k \in DOMAIN vs : vs[k].id = id
  BY <1>0
<1>. HIDE DEF ids
<1>8. vs \in Seq(Vector)
  <2>1. PICK c \in Nat : c = Cardinality(live)
    BY DEF live
  <2>2. DOMAIN vs = 1..c /\ vs = [k \in 1..c |-> vs[k]]
    BY <1>4, <2>1 DEF Moved
  <2>3. vs \in [1..c -> Vector]
    BY <1>4, <2>2
  <2>. QED
    BY <2>3
<1>9. SlotsFit(vs, map, {})
  <2>1. ASSUME NEW id \in DOMAIN map PROVE map[id] \in DOMAIN vs /\ vs[map[id]].id = id /\ id \in Id
    <3>1. PICK k \in DOMAIN vs : vs[k].id = id
      BY <1>7
    <3>2. map[id] = k
      BY <1>6, <3>1
    <3>. QED
      BY <1>4, <3>1, <3>2
  <2>. QED
    BY <1>6, <1>8, <2>1 DEF SlotsFit
<1>10. TextFits(Texts(vs, DOMAIN vs), vs, {})
  BY DEF TextFits, Texts
<1>11. ASSUME NEW id \in Id PROVE Found(vs, map, {}, id) = Found(items, ext, dead, id)
  <2>1. CASE id \in DOMAIN map
    <3>1. PICK k \in DOMAIN vs : vs[k].id = id
      BY <1>7, <2>1
    <3>2. map[id] = k /\ places[k] \in live /\ vs[k] = items[places[k]]
      BY <1>4, <1>6, <3>1
    <3>3. id \in DOMAIN ext /\ ext[id] = places[k] /\ places[k] \notin dead
      BY <1>1, <3>1, <3>2 DEF live
    <3>. QED
      BY <2>1, <3>2, <3>3 DEF Found
  <2>2. CASE id \notin DOMAIN map
    <3>1. ~(id \in DOMAIN ext /\ ext[id] \notin dead)
      <4>1. SUFFICES ASSUME id \in DOMAIN ext, ext[id] \notin dead PROVE FALSE
        OBVIOUS
      <4>2. ext[id] \in live /\ items[ext[id]].id = id
        BY <1>1, <4>1 DEF live
      <4>3. PICK k \in DOMAIN places : places[k] = ext[id]
        BY <1>2, <4>2
      <4>4. vs[k].id = id /\ k \in DOMAIN vs
        BY <1>4, <4>2, <4>3
      <4>. QED
        BY <1>6, <2>2, <4>4
    <3>. QED
      BY <2>2, <3>1 DEF Found
  <2>. QED
    BY <2>1, <2>2
<1>. QED
  BY <1>9, <1>10, <1>11

-----------------------------------------------------------------------------
\* The operations.

LEMMA ContentsAre ==
    /\ \A ix : Contents(ix) = [id \in Id |-> Found(ix.nodes, ix.ext_to_int, ix.deleted, id)]
    /\ \A ix, id : contains(ix, id) <=> id \in DOMAIN ix.ext_to_int /\ ix.ext_to_int[id] \notin ix.deleted
  BY DEF Contents, contains, Found

LEMMA ContentsTypes ==
    ASSUME NEW ix, GoodIndex(ix)
    PROVE  /\ Contents(ix) \in [Id -> Vector \cup {None}]
           /\ \A id \in Id : contains(ix, id) <=> Contents(ix)[id] # None
<1>1. ix.nodes \in Seq(Vector) /\ \A id \in DOMAIN ix.ext_to_int : ix.ext_to_int[id] \in DOMAIN ix.nodes
  BY DEF GoodIndex, SlotsFit
<1>2. \A id \in DOMAIN ix.ext_to_int : ix.nodes[ix.ext_to_int[id]] \in Vector
  BY <1>1
<1>3. \A id \in Id : contains(ix, id) => Contents(ix)[id] \in Vector
  BY <1>2 DEF Contents, contains
<1>4. \A id \in Id : ~contains(ix, id) => Contents(ix)[id] = None
  BY DEF Contents
<1>5. Contents(ix) = [id \in Id |-> Contents(ix)[id]]
  BY DEF Contents
<1>. QED
  BY <1>3, <1>4, <1>5, VectorTypes

LEMMA EmptyIsGood == GoodIndex(EmptyIndex) /\ Clean(EmptyIndex) /\ Contents(EmptyIndex) = [id \in Id |-> None]
<1>1. /\ EmptyIndex.nodes = <<>> /\ EmptyIndex.ext_to_int = <<>> /\ EmptyIndex.deleted = {} /\ EmptyIndex.bm25 = {}
      /\ DOMAIN EmptyIndex = {"nodes", "ext_to_int", "deleted", "bm25"}
  BY DEF EmptyIndex
<1>2. DOMAIN EmptyIndex.ext_to_int = {} /\ <<>> \in Seq(Vector) /\ DOMAIN <<>> = {}
  BY <1>1
<1>3. SlotsFit(EmptyIndex.nodes, EmptyIndex.ext_to_int, EmptyIndex.deleted)
  BY <1>1, <1>2 DEF SlotsFit
<1>4. TextFits(EmptyIndex.bm25, EmptyIndex.nodes, EmptyIndex.deleted)
  BY <1>1, <1>2 DEF TextFits, Texts
<1>5. Contents(EmptyIndex) = [id \in Id |-> None]
  BY <1>2 DEF Contents, contains
<1>. QED
  BY <1>1, <1>2, <1>3, <1>4, <1>5 DEF GoodIndex, Clean, NoneDead

LEMMA InsertGood ==
    ASSUME NEW ix, GoodIndex(ix), NEW v \in Vector, v.emb # NoEmb, Contents(ix)[v.id] = None
    PROVE  /\ GoodIndex(_insert_locked(ix, v)) /\ Contents(_insert_locked(ix, v)) = [Contents(ix) EXCEPT ![v.id] = v]
           /\ Clean(ix) => Clean(_insert_locked(ix, v))
<1>1. /\ DOMAIN ix = {"nodes", "ext_to_int", "deleted", "bm25"} /\ SlotsFit(ix.nodes, ix.ext_to_int, ix.deleted)
      /\ TextFits(ix.bm25, ix.nodes, ix.deleted)
  BY DEF GoodIndex
<1>2. PICK items, ext, dead, text, n, more, map, all, new :
         /\ items = ix.nodes /\ ext = ix.ext_to_int /\ dead = ix.deleted /\ text = ix.bm25
         /\ n = NextSlot(items) /\ more = Append(items, v)
         /\ map = Leading(ext, v.id, n)
         /\ all = text \cup {<<n, v.meta>>}
         /\ new = _insert_locked(ix, v)
  OBVIOUS
<1>3. new = [ix EXCEPT !.nodes = more, !.ext_to_int = map, !.bm25 = all]
  BY <1>2 DEF _insert_locked, Leading, NextSlot
<1>4. /\ DOMAIN new = {"nodes", "ext_to_int", "deleted", "bm25"} /\ new.nodes = more /\ new.ext_to_int = map
      /\ new.deleted = dead /\ new.bm25 = all
  BY <1>1, <1>2, <1>3
<1>5. v.id \in DOMAIN ext => ext[v.id] \in dead
  <2>1. v.id \in Id
    BY VectorTypes
  <2>2. ~contains(ix, v.id)
    BY <2>1, ContentsTypes
  <2>. QED
    BY <1>2, <2>2 DEF contains
<1>6. SlotsFit(items, ext, dead) /\ TextFits(text, items, dead)
  BY <1>1, <1>2
<1>7. /\ SlotsFit(more, map, dead) /\ TextFits(all, more, dead)
      /\ \A id \in Id : Found(more, map, dead, id) = IF id = v.id THEN v ELSE Found(items, ext, dead, id)
      /\ NoneDead(ext, dead) => NoneDead(map, dead)
  BY <1>2, <1>5, <1>6, AppendFits
<1>8. GoodIndex(new)
  BY <1>4, <1>7 DEF GoodIndex
<1>9. Contents(new) = [Contents(ix) EXCEPT ![v.id] = v]
  <2>1. \A id \in Id : Found(new.nodes, new.ext_to_int, new.deleted, id) =
                          IF id = v.id THEN v ELSE Found(ix.nodes, ix.ext_to_int, ix.deleted, id)
    BY <1>2, <1>4, <1>7
  <2>. QED
    BY <2>1, ContentsAre
<1>10. Clean(ix) => Clean(new)
  BY <1>2, <1>4, <1>7 DEF Clean
<1>. QED
  BY <1>2, <1>8, <1>9, <1>10

LEMMA UpdateGood ==
    ASSUME NEW ix, GoodIndex(ix), NEW v \in Vector, Known(ix, v.id)
    PROVE  /\ GoodIndex(UpdateInPlace(ix, v))
           /\ Clean(ix) => Clean(UpdateInPlace(ix, v))
           /\ \E w \in Vector : /\ Contents(UpdateInPlace(ix, v)) = [Contents(ix) EXCEPT ![v.id] = w]
                                /\ SamePosition(ix, v) /\ v.emb # NoEmb => w = v
                                /\ Clean(ix) => Contents(ix)[v.id] # None /\ w = WithMeta(Contents(ix)[v.id], v.meta)
<1>1. /\ DOMAIN ix = {"nodes", "ext_to_int", "deleted", "bm25"} /\ SlotsFit(ix.nodes, ix.ext_to_int, ix.deleted)
      /\ TextFits(ix.bm25, ix.nodes, ix.deleted)
  BY DEF GoodIndex
<1>2. PICK items, ext, dead, text, n, w, more, id, T, all, new :
         /\ items = ix.nodes /\ ext = ix.ext_to_int /\ dead = ix.deleted /\ text = ix.bm25
         /\ id = v.id /\ n = ext[id] /\ w = WithMeta(items[n], v.meta) /\ more = Updated(items, n, v.meta)
         /\ T = Texts(items, {n}) /\ all = (text \ T) \cup {<<n, v.meta>>}
         /\ new = UpdateInPlace(ix, v)
  OBVIOUS
<1>3. new = [ix EXCEPT !.nodes = more, !.deleted = dead \ {n}, !.bm25 = all]
  <2>1. new = [ix EXCEPT !.nodes[n].meta = v.meta, !.deleted = @ \ {n}, !.bm25 = UnindexText(ix, {n}) \cup {<<n, v.meta>>}]
    BY <1>2 DEF UpdateInPlace
  <2>2. UnindexText(ix, {n}) = text \ T
    BY <1>2 DEF UnindexText, Texts
  <2>. QED
    BY <1>2, <2>1, <2>2 DEF Updated, WithMeta
<1>4. /\ DOMAIN new = {"nodes", "ext_to_int", "deleted", "bm25"} /\ new.nodes = more /\ new.ext_to_int = ext
      /\ new.deleted = dead \ {n} /\ new.bm25 = all
  BY <1>1, <1>2, <1>3
<1>5. SlotsFit(items, ext, dead) /\ TextFits(text, items, dead) /\ id \in DOMAIN ext /\ v.meta \in Meta /\ id \in Id
  BY <1>1, <1>2, VectorTypes DEF Known
<1>6. /\ SlotsFit(more, ext, dead \ {n}) /\ TextFits(all, more, dead \ {n})
      /\ \A i \in Id : Found(more, ext, dead \ {n}, i) = IF i = id THEN w ELSE Found(items, ext, dead, i)
  <2>1. UpdateFitsAt(items, ext, dead, text, id, ext[id], v.meta)
    BY <1>5, UpdateFits
  <2>. QED
    BY <1>2, <2>1 DEF UpdateFitsAt
<1>7. GoodIndex(new)
  BY <1>4, <1>6 DEF GoodIndex
<1>8. Contents(new) = [Contents(ix) EXCEPT ![v.id] = w]
  <2>1. \A i \in Id : Found(new.nodes, new.ext_to_int, new.deleted, i) =
                          IF i = v.id THEN w ELSE Found(ix.nodes, ix.ext_to_int, ix.deleted, i)
    BY <1>2, <1>4, <1>6
  <2>. QED
    BY <2>1, ContentsAre
<1>9. Clean(ix) => Clean(new)
  BY <1>2, <1>4 DEF Clean, NoneDead
<1>10. items \in Seq(Vector) /\ n \in DOMAIN items /\ items[n].id = id /\ items[n] \in Vector
  <2>1. items \in Seq(Vector) /\ n \in DOMAIN items /\ items[n].id = id
    BY <1>2, <1>5 DEF SlotsFit
  <2>. QED
    BY <2>1
<1>11. w \in Vector
  BY <1>2, <1>5, <1>10, VectorTypes
<1>12. SamePosition(ix, v) /\ v.emb # NoEmb => w = v
  <2>1. SUFFICES ASSUME SamePosition(ix, v), v.emb # NoEmb PROVE w = v
    OBVIOUS
  <2>2. v.emb = items[n].emb /\ v.id = items[n].id
    BY <1>2, <1>10, <2>1 DEF SamePosition
  <2>. QED
    BY <1>2, <1>10, <2>2, VectorTypes
<1>13. Clean(ix) => Contents(ix)[v.id] # None /\ w = WithMeta(Contents(ix)[v.id], v.meta)
  <2>1. Clean(ix) => contains(ix, v.id)
    BY <1>2, <1>5 DEF Clean, NoneDead, contains
  <2>2. Clean(ix) => Contents(ix)[v.id] = items[n]
    BY <1>2, <1>5, <2>1 DEF Contents
  <2>. QED
    BY <1>2, <1>5, <2>1, <2>2, ContentsTypes
<1>. QED
  BY <1>2, <1>7, <1>8, <1>9, <1>11, <1>12, <1>13

LEMMA TombstoneGood ==
    ASSUME NEW ix, GoodIndex(ix), NEW id, Known(ix, id)
    PROVE  /\ GoodIndex(Tombstone(ix, id))
           /\ Clean(ix) => Clean(Tombstone(ix, id))
           /\ Contents(Tombstone(ix, id)) = [Contents(ix) EXCEPT ![id] = None]
<1>1. /\ DOMAIN ix = {"nodes", "ext_to_int", "deleted", "bm25"} /\ SlotsFit(ix.nodes, ix.ext_to_int, ix.deleted)
      /\ TextFits(ix.bm25, ix.nodes, ix.deleted)
  BY DEF GoodIndex
<1>2. PICK items, ext, dead, text, n, map, T, new :
         /\ items = ix.nodes /\ ext = ix.ext_to_int /\ dead = ix.deleted /\ text = ix.bm25
         /\ n = ext[id] /\ map = Leaving(ext, id)
         /\ T = Texts(items, {n}) /\ new = Tombstone(ix, id)
  OBVIOUS
<1>3. new = [ix EXCEPT !.deleted = dead \cup {n}, !.bm25 = text \ T, !.ext_to_int = map]
  <2>1. new = [ix EXCEPT !.deleted = @ \cup {n}, !.bm25 = UnindexText(ix, {n}), !.ext_to_int = Restrict(@, DOMAIN @ \ {id})]
    BY <1>2 DEF Tombstone
  <2>2. UnindexText(ix, {n}) = text \ T
    BY <1>2 DEF UnindexText, Texts
  <2>3. Restrict(ext, DOMAIN ext \ {id}) = map
    BY <1>2 DEF Restrict, Leaving
  <2>. QED
    BY <1>2, <2>1, <2>2, <2>3
<1>4. /\ DOMAIN new = {"nodes", "ext_to_int", "deleted", "bm25"} /\ new.nodes = items /\ new.ext_to_int = map
      /\ new.deleted = dead \cup {n} /\ new.bm25 = text \ T
  BY <1>1, <1>2, <1>3
<1>5. SlotsFit(items, ext, dead) /\ TextFits(text, items, dead) /\ id \in DOMAIN ext
  BY <1>1, <1>2 DEF Known
<1>6. /\ SlotsFit(items, map, dead \cup {n}) /\ TextFits(text \ T, items, dead \cup {n})
      /\ \A i \in Id : Found(items, map, dead \cup {n}, i) = IF i = id THEN None ELSE Found(items, ext, dead, i)
      /\ NoneDead(ext, dead) => NoneDead(map, dead \cup {n})
  BY <1>2, <1>5, TombstoneFits
<1>7. GoodIndex(new)
  BY <1>4, <1>6 DEF GoodIndex
<1>8. Contents(new) = [Contents(ix) EXCEPT ![id] = None]
  <2>1. \A i \in Id : Found(new.nodes, new.ext_to_int, new.deleted, i) =
                          IF i = id THEN None ELSE Found(ix.nodes, ix.ext_to_int, ix.deleted, i)
    BY <1>2, <1>4, <1>6
  <2>. QED
    BY <2>1, ContentsAre
<1>9. Clean(ix) => Clean(new)
  BY <1>2, <1>4, <1>6 DEF Clean
<1>. QED
  BY <1>2, <1>7, <1>8, <1>9

LEMMA PurgeGood ==
    ASSUME NEW ix, GoodIndex(ix), NEW gone
    PROVE  /\ GoodIndex(Purge(ix, gone))
           /\ Contents(Purge(ix, gone)) =
                 [id \in Id |-> Unexpired(Contents(ix)[id], gone)]
<1>1. /\ DOMAIN ix = {"nodes", "ext_to_int", "deleted", "bm25"} /\ SlotsFit(ix.nodes, ix.ext_to_int, ix.deleted)
      /\ TextFits(ix.bm25, ix.nodes, ix.deleted)
  BY DEF GoodIndex
<1>2. PICK items, ext, dead, text, S, T, new :
         /\ items = ix.nodes /\ ext = ix.ext_to_int /\ dead = ix.deleted /\ text = ix.bm25
         /\ S = ExpiredSlots(items, dead, gone)
         /\ T = Texts(items, S) /\ new = Purge(ix, gone)
  OBVIOUS
<1>3. new = [ix EXCEPT !.deleted = dead \cup S, !.bm25 = text \ T]
  <2>1. Expired(ix, gone) = S
    BY <1>2 DEF Expired, Live, ExpiredSlots
  <2>2. UnindexText(ix, S) = text \ T
    BY <1>2 DEF UnindexText, Texts
  <2>. QED
    BY <1>2, <2>1, <2>2 DEF Purge
<1>4. /\ DOMAIN new = {"nodes", "ext_to_int", "deleted", "bm25"} /\ new.nodes = items /\ new.ext_to_int = ext
      /\ new.deleted = dead \cup S /\ new.bm25 = text \ T
  BY <1>1, <1>2, <1>3
<1>5. SlotsFit(items, ext, dead) /\ TextFits(text, items, dead)
  BY <1>1, <1>2
<1>6. /\ SlotsFit(items, ext, dead \cup S) /\ TextFits(text \ T, items, dead \cup S)
      /\ \A id \in Id : Found(items, ext, dead \cup S, id) =
            Unexpired(Found(items, ext, dead, id), gone)
  BY <1>2, <1>5, PurgeFits
<1>7. GoodIndex(new)
  BY <1>4, <1>6 DEF GoodIndex
<1>8. Contents(new) =
         [id \in Id |-> Unexpired(Contents(ix)[id], gone)]
  <2>1. \A id \in Id : Contents(ix)[id] = Found(items, ext, dead, id)
    BY <1>2, ContentsAre
  <2>2. Contents(new) = [id \in Id |-> Found(items, ext, dead \cup S, id)]
    BY <1>4, ContentsAre
  <2>. QED
    BY <1>6, <2>1, <2>2
<1>. QED
  BY <1>2, <1>7, <1>8

LEMMA RebuildGood ==
    ASSUME NEW ix, GoodIndex(ix)
    PROVE  GoodIndex(Rebuild(ix)) /\ Clean(Rebuild(ix)) /\ Contents(Rebuild(ix)) = Contents(ix)
<1>1. SlotsFit(ix.nodes, ix.ext_to_int, ix.deleted)
  BY DEF GoodIndex
<1>2. PICK items, ext, dead, places, vs, map, all, new :
         /\ items = ix.nodes /\ ext = ix.ext_to_int /\ dead = ix.deleted /\ places = InOrder(DOMAIN items \ dead)
         /\ vs = Moved(items, places)
         /\ map = SlotOf(vs) /\ all = Texts(vs, DOMAIN vs) /\ new = Rebuild(ix)
  OBVIOUS
<1>3. new = [nodes |-> vs, ext_to_int |-> map, deleted |-> {}, bm25 |-> all]
  <2>1. LiveVectors(ix) = vs
    BY <1>2 DEF LiveVectors, Live, Moved
  <2>2. new = FromVectors(vs)
    BY <1>2, <2>1 DEF Rebuild
  <2>. QED
    BY <1>2, <2>2 DEF FromVectors, SlotOf, Texts
<1>4. /\ DOMAIN new = {"nodes", "ext_to_int", "deleted", "bm25"} /\ new.nodes = vs /\ new.ext_to_int = map
      /\ new.deleted = {} /\ new.bm25 = all
  BY <1>3
<1>5. SlotsFit(items, ext, dead)
  BY <1>1, <1>2
<1>6. Cardinality(DOMAIN items \ dead) \in Nat /\ Orders(places, DOMAIN items \ dead)
  <2>1. items \in Seq(Vector)
    BY <1>5 DEF SlotsFit
  <2>2. Len(items) \in Nat /\ DOMAIN items \ dead \in SUBSET (1..Len(items))
    BY <2>1
  <2>. QED
    BY <1>2, <2>2, InOrderIs
<1>7. /\ SlotsFit(vs, map, {}) /\ TextFits(all, vs, {})
      /\ \A id \in Id : Found(vs, map, {}, id) = Found(items, ext, dead, id)
  BY <1>2, <1>5, <1>6, CompactFits
<1>8. GoodIndex(new) /\ Clean(new)
  BY <1>4, <1>7 DEF GoodIndex, Clean, NoneDead
<1>9. Contents(new) = Contents(ix)
  BY <1>2, <1>4, <1>7, ContentsAre
<1>. QED
  BY <1>2, <1>8, <1>9


-----------------------------------------------------------------------------
\* Replaying the journal.

\* What _replay goes through, up to the n-th operation.
Replays(f, ix, ops, n) == f = [k \in 0..n |-> IF k = 0 THEN ix ELSE ReplayOp(f[k - 1], ops[k])]

LEMMA ReplaysAre ==
    ASSUME NEW n \in Nat, NEW f, NEW ix, NEW ops
    PROVE  Replays(f, ix, ops, n) => f[0] = ix /\ \A k \in 1..n : f[k] = ReplayOp(f[k - 1], ops[k])
<1>. SUFFICES ASSUME Replays(f, ix, ops, n) PROVE f[0] = ix /\ \A k \in 1..n : f[k] = ReplayOp(f[k - 1], ops[k])
  OBVIOUS
<1>1. \A k \in 0..n : f[k] = IF k = 0 THEN ix ELSE ReplayOp(f[k - 1], ops[k])
  BY Zenon DEF Replays
<1>2. 0 \in 0..n /\ \A k \in 1..n : k \in 0..n /\ k # 0
  OBVIOUS
<1>. QED
  BY <1>1, <1>2

\* A replay of one operation more than f.
Longer(f, ix, more, n) == \E g : Replays(g, ix, more, n + 1) /\ g[n + 1] = ReplayOp(f[n], more[n + 1])

LEMMA ReplayLonger ==
    ASSUME NEW n \in Nat, NEW f, NEW ix, NEW ops, NEW more, Replays(f, ix, ops, n), \A k \in 1..n : more[k] = ops[k]
    PROVE  Longer(f, ix, more, n)
<1>1. f[0] = ix /\ \A k \in 1..n : f[k] = ReplayOp(f[k - 1], ops[k])
  BY ReplaysAre
<1>. DEFINE g == [k \in 0..(n + 1) |-> IF k = n + 1 THEN ReplayOp(f[n], more[n + 1]) ELSE f[k]]
<1>2. DOMAIN g = 0..(n + 1) /\ g = [k \in 0..(n + 1) |-> g[k]]
  OBVIOUS
<1>3. n + 1 \in 0..(n + 1) /\ g[n + 1] = ReplayOp(f[n], more[n + 1])
  OBVIOUS
<1>4. \A k \in 0..n : k \in 0..(n + 1) /\ k # n + 1 /\ g[k] = f[k]
  OBVIOUS
<1>. HIDE DEF g
<1>5. ASSUME NEW k \in 0..(n + 1) PROVE g[k] = IF k = 0 THEN ix ELSE ReplayOp(g[k - 1], more[k])
  <2>1. CASE k = 0
    BY <1>1, <1>4, <2>1
  <2>2. CASE k = n + 1
    <3>1. k # 0 /\ k - 1 = n /\ n \in 0..n
      BY <2>2
    <3>2. g[k - 1] = f[n]
      BY <1>4, <3>1
    <3>. QED
      BY <1>3, <2>2, <3>1, <3>2
  <2>3. CASE k # 0 /\ k # n + 1
    <3>1. k \in 1..n /\ k \in 0..n /\ k - 1 \in 0..n
      BY <2>3
    <3>2. g[k] = f[k] /\ g[k - 1] = f[k - 1] /\ more[k] = ops[k]
      BY <1>4, <3>1
    <3>. QED
      BY <1>1, <2>3, <3>1, <3>2
  <2>. QED
    BY <2>1, <2>2, <2>3
<1>6. [k \in 0..(n + 1) |-> g[k]] = [k \in 0..(n + 1) |-> IF k = 0 THEN ix ELSE ReplayOp(g[k - 1], more[k])]
  BY <1>5
<1>7. Replays(g, ix, more, n + 1)
  BY <1>2, <1>6 DEF Replays
<1>. QED
  BY <1>3, <1>7 DEF Longer

\* There is one replay of every length, and only one.
LEMMA ReplayExists ==
    ASSUME NEW ix, NEW ops, NEW n \in Nat
    PROVE  \E f : Replays(f, ix, ops, n)
<1>. DEFINE P(m) == \E f : Replays(f, ix, ops, m)
            Bad == {m \in Nat : ~P(m)}
<1>1. P(0)
  <2>. DEFINE f == [k \in 0..0 |-> ix]
  <2>1. \A k \in 0..0 : k = 0
    OBVIOUS
  <2>2. f = [k \in 0..0 |-> IF k = 0 THEN ix ELSE ReplayOp(f[k - 1], ops[k])]
    BY <2>1
  <2>. HIDE DEF f
  <2>. QED
    BY <2>2 DEF Replays
<1>2. ASSUME NEW m \in Nat, P(m) PROVE P(m + 1)
  BY <1>2, ReplayLonger DEF Longer
<1>. HIDE DEF P
<1>3. SUFFICES ASSUME NEW k \in Bad PROVE FALSE
  <2>1. P(n)
    BY <1>3
  <2>. QED
    BY <2>1 DEF P
<1>4. PICK m \in Bad : \A j \in Bad : m <= j
  <2>1. Bad \in SUBSET Nat
    OBVIOUS
  <2>. HIDE DEF Bad
  <2>. QED
    BY <2>1, <1>3, LeastNumber
<1>5. m \in Nat /\ ~P(m)
  OBVIOUS
<1>6. m # 0 /\ m - 1 \in Nat
  BY <1>1, <1>5
<1>7. P(m - 1)
  <2>1. m - 1 \notin Bad
    BY <1>4, <1>5, <1>6
  <2>. QED
    BY <1>6, <2>1
<1>. QED
  BY <1>2, <1>5, <1>6, <1>7

LEMMA ReplayUnique ==
    ASSUME NEW ix, NEW ops, NEW n \in Nat, NEW f, NEW g, Replays(f, ix, ops, n), Replays(g, ix, ops, n)
    PROVE  f[n] = g[n]
<1>1. f[0] = ix /\ \A k \in 1..n : f[k] = ReplayOp(f[k - 1], ops[k])
  BY ReplaysAre
<1>2. g[0] = ix /\ \A k \in 1..n : g[k] = ReplayOp(g[k - 1], ops[k])
  BY ReplaysAre
<1>. DEFINE Bad == {k \in 0..n : f[k] # g[k]}
<1>3. SUFFICES ASSUME NEW k \in Bad PROVE FALSE
  BY <1>3
<1>4. PICK m \in Bad : \A j \in Bad : m <= j
  <2>1. Bad \in SUBSET Nat
    OBVIOUS
  <2>. HIDE DEF Bad
  <2>. QED
    BY <2>1, <1>3, LeastNumber
<1>5. m \in 1..n /\ f[m] # g[m]
  BY <1>1, <1>2
<1>6. m - 1 \in 0..n /\ m - 1 \notin Bad
  BY <1>4, <1>5
<1>7. f[m - 1] = g[m - 1]
  BY <1>6
<1>. QED
  BY <1>1, <1>2, <1>5, <1>7

LEMMA ReplayIs ==
    ASSUME NEW ix, NEW ops, Len(ops) \in Nat, NEW f, Replays(f, ix, ops, Len(ops))
    PROVE  _replay(ix, ops) = f[Len(ops)]
<1>. DEFINE after == CHOOSE h : Replays(h, ix, ops, Len(ops))
<1>1. Replays(after, ix, ops, Len(ops))
  BY Zenon
<1>2. _replay(ix, ops) = after[Len(ops)]
  BY Zenon DEF _replay, Replays
<1>. HIDE DEF after
<1>. QED
  BY <1>1, <1>2, ReplayUnique

\* One operation after the other.
LEMMA ReplayNone == \A ix : _replay(ix, <<>>) = ix
<1>1. TAKE ix
<1>2. Len(<<>>) = 0
  OBVIOUS
<1>3. PICK f : Replays(f, ix, <<>>, 0)
  BY ReplayExists
<1>4. f[0] = ix
  BY <1>3, ReplaysAre
<1>. QED
  BY <1>2, <1>3, <1>4, ReplayIs

LEMMA ReplayOneMore ==
    ASSUME NEW S, NEW ops \in Seq(S), NEW op \in S, NEW ix
    PROVE  _replay(ix, Append(ops, op)) = ReplayOp(_replay(ix, ops), op)
<1>1. PICK n, more : n = Len(ops) /\ more = Append(ops, op)
  OBVIOUS
<1>2. n \in Nat /\ Len(more) = n + 1 /\ more[n + 1] = op /\ \A k \in 1..n : more[k] = ops[k]
  BY <1>1
<1>3. PICK f : Replays(f, ix, ops, n)
  BY <1>2, ReplayExists
<1>4. PICK g : Replays(g, ix, more, n + 1) /\ g[n + 1] = ReplayOp(f[n], more[n + 1])
  <2>1. Longer(f, ix, more, n)
    BY <1>2, <1>3, ReplayLonger
  <2>. QED
    BY <2>1 DEF Longer
<1>5. _replay(ix, ops) = f[n]
  BY <1>1, <1>2, <1>3, ReplayIs
<1>6. _replay(ix, more) = g[n + 1]
  BY <1>2, <1>4, ReplayIs
<1>. QED
  BY <1>1, <1>2, <1>4, <1>5, <1>6

-----------------------------------------------------------------------------
\* What the operations do to what readers find.

Operation == [kind : {"INSERT", "UPSERT"}, vec : Vector] \cup [kind : {"REMOVE"}, vec : Id]

\* Every upsert has an embedding, or nothing ever expires: the contents decide what an upsert does.
UpsertsAreClear == NoEmb \notin Emb \/ Expiring = {}

\* An upsert of v makes contents d of contents c: of an index with expired vectors,
UpsertShows(c, d, v) ==
    /\ \A i \in Id : i # v.id => d[i] = c[i]
    /\ v.emb # NoEmb => d[v.id] = v
    /\ c[v.id] # None => d[v.id] # None

\* and of one where no id leads to a tombstone.
UpsertMakes(c, d, v) ==
    v.emb = NoEmb => d[v.id] = IF c[v.id] = None THEN None ELSE WithMeta(c[v.id], v.meta)

UpsertLeaves(ix, v) ==
    IF ~Known(ix, v.id) THEN _insert_locked(ix, v)
    ELSE IF SamePosition(ix, v) THEN UpdateInPlace(ix, v)
    ELSE _insert_locked(Tombstone(ix, v.id), v)

LEMMA UpsertGood ==
    ASSUME NEW ix, GoodIndex(ix), NEW v \in Vector
    PROVE  /\ GoodIndex(UpsertLeaves(ix, v)) /\ UpsertShows(Contents(ix), Contents(UpsertLeaves(ix, v)), v)
           /\ Clean(ix) => Clean(UpsertLeaves(ix, v)) /\ UpsertMakes(Contents(ix), Contents(UpsertLeaves(ix, v)), v)
<1>1. v.id \in Id /\ v \in Vector /\ v # None
  BY VectorTypes
<1>2. Contents(ix) \in [Id -> Vector \cup {None}] /\ (contains(ix, v.id) <=> Contents(ix)[v.id] # None)
  BY <1>1, ContentsTypes
<1>3. contains(ix, v.id) => Known(ix, v.id)
  BY DEF contains, Known
<1>4. CASE ~Known(ix, v.id)
  <2>1. Contents(ix)[v.id] = None /\ UpsertLeaves(ix, v) = _insert_locked(ix, v)
    BY <1>2, <1>3, <1>4 DEF UpsertLeaves
  <2>2. CASE v.emb = NoEmb
    <3>1. UpsertLeaves(ix, v) = ix
      BY <2>1, <2>2 DEF _insert_locked
    <3>. QED
      BY <2>1, <2>2, <3>1 DEF UpsertShows, UpsertMakes
  <2>3. CASE v.emb # NoEmb
    <3>1. /\ GoodIndex(_insert_locked(ix, v)) /\ Contents(_insert_locked(ix, v)) = [Contents(ix) EXCEPT ![v.id] = v]
          /\ Clean(ix) => Clean(_insert_locked(ix, v))
      BY <2>1, <2>3, InsertGood
    <3>. QED
      BY <1>1, <1>2, <2>1, <2>3, <3>1 DEF UpsertShows, UpsertMakes
  <2>. QED
    BY <2>2, <2>3
<1>5. CASE Known(ix, v.id) /\ SamePosition(ix, v)
  <2>1. UpsertLeaves(ix, v) = UpdateInPlace(ix, v)
    BY <1>5 DEF UpsertLeaves
  <2>2. GoodIndex(UpdateInPlace(ix, v)) /\ (Clean(ix) => Clean(UpdateInPlace(ix, v)))
    BY <1>5, UpdateGood
  <2>3. PICK w \in Vector : /\ Contents(UpdateInPlace(ix, v)) = [Contents(ix) EXCEPT ![v.id] = w]
                            /\ SamePosition(ix, v) /\ v.emb # NoEmb => w = v
                            /\ Clean(ix) => Contents(ix)[v.id] # None /\ w = WithMeta(Contents(ix)[v.id], v.meta)
    BY <1>5, UpdateGood
  <2>4. w # None
    BY VectorTypes
  <2>5. UpsertShows(Contents(ix), Contents(UpdateInPlace(ix, v)), v)
    BY <1>1, <1>2, <1>5, <2>3, <2>4 DEF UpsertShows
  <2>6. Clean(ix) => UpsertMakes(Contents(ix), Contents(UpdateInPlace(ix, v)), v)
    BY <1>1, <1>2, <1>5, <2>3 DEF UpsertMakes
  <2>. QED
    BY <2>1, <2>2, <2>5, <2>6
<1>6. CASE Known(ix, v.id) /\ ~SamePosition(ix, v)
  <2>1. PICK mid, new : mid = Tombstone(ix, v.id) /\ new = _insert_locked(mid, v)
    OBVIOUS
  <2>2. UpsertLeaves(ix, v) = new /\ v.emb # NoEmb
    BY <1>6, <2>1 DEF UpsertLeaves, SamePosition
  <2>3. GoodIndex(mid) /\ (Clean(ix) => Clean(mid)) /\ Contents(mid) = [Contents(ix) EXCEPT ![v.id] = None]
    BY <1>6, <2>1, TombstoneGood
  <2>4. Contents(mid)[v.id] = None
    BY <1>1, <1>2, <2>3
  <2>5. GoodIndex(new) /\ (Clean(mid) => Clean(new)) /\ Contents(new) = [Contents(mid) EXCEPT ![v.id] = v]
    <3>1. /\ GoodIndex(_insert_locked(mid, v)) /\ Contents(_insert_locked(mid, v)) = [Contents(mid) EXCEPT ![v.id] = v]
          /\ Clean(mid) => Clean(_insert_locked(mid, v))
      BY <2>2, <2>3, <2>4, InsertGood
    <3>. QED
      BY <2>1, <3>1
  <2>6. UpsertShows(Contents(ix), Contents(new), v)
    BY <1>1, <1>2, <2>2, <2>3, <2>5 DEF UpsertShows
  <2>7. UpsertMakes(Contents(ix), Contents(new), v)
    BY <2>2 DEF UpsertMakes
  <2>. QED
    BY <2>2, <2>3, <2>5, <2>6, <2>7
<1>. QED
  BY <1>4, <1>5, <1>6

LEMMA InlineGood ==
    ASSUME NEW ix, GoodIndex(ix)
    PROVE  /\ GoodIndex(MaybeCompactInline(ix)) /\ Contents(MaybeCompactInline(ix)) = Contents(ix)
           /\ Clean(ix) => Clean(MaybeCompactInline(ix))
  BY RebuildGood DEF MaybeCompactInline

\* a is an index that shows no more than contents c, and the same when upserts are clear.
Tracks(a, c) ==
    /\ GoodIndex(a) /\ Clean(a)
    /\ \A id \in Id : Contents(a)[id] # None => c[id] # None
    /\ UpsertsAreClear => Contents(a) = c

LEMMA OperationsAre ==
    /\ \A v \in Vector : /\ [kind |-> "INSERT", vec |-> v] \in Operation /\ [kind |-> "UPSERT", vec |-> v] \in Operation
                         /\ \A a : ReplayOp(a, [kind |-> "INSERT", vec |-> v]) = _insert_locked(a, v)
                         /\ \A a : ReplayOp(a, [kind |-> "UPSERT", vec |-> v]) = ReplayUpsert(a, v)
    /\ \A id \in Id : /\ [kind |-> "REMOVE", vec |-> id] \in Operation
                      /\ \A a : ReplayOp(a, [kind |-> "REMOVE", vec |-> id]) = ReplayRemove(a, id)
  BY DEF Operation, ReplayOp

LEMMA InsertTracks ==
    ASSUME NEW a, NEW c \in [Id -> Vector \cup {None}], Tracks(a, c), NEW v \in Vector, v.emb # NoEmb, c[v.id] = None
    PROVE  Tracks(ReplayOp(a, [kind |-> "INSERT", vec |-> v]), [c EXCEPT ![v.id] = v])
<1>1. v.id \in Id /\ v # None
  BY VectorTypes
<1>2. GoodIndex(a) /\ Clean(a) /\ Contents(a)[v.id] = None /\ Contents(a) \in [Id -> Vector \cup {None}]
  BY <1>1, ContentsTypes DEF Tracks
<1>3. PICK new : new = _insert_locked(a, v)
  OBVIOUS
<1>4. GoodIndex(new) /\ Clean(new) /\ Contents(new) = [Contents(a) EXCEPT ![v.id] = v]
  BY <1>2, <1>3, InsertGood
<1>5. \A id \in Id : Contents(new)[id] # None => [c EXCEPT ![v.id] = v][id] # None
  BY <1>1, <1>2, <1>4 DEF Tracks
<1>6. UpsertsAreClear => Contents(new) = [c EXCEPT ![v.id] = v]
  BY <1>4 DEF Tracks
<1>7. Tracks(new, [c EXCEPT ![v.id] = v])
  BY <1>4, <1>5, <1>6 DEF Tracks
<1>. QED
  BY <1>3, <1>7, OperationsAre

LEMMA UpsertTracks ==
    ASSUME NEW a, NEW c \in [Id -> Vector \cup {None}], Tracks(a, c), NEW v \in Vector,
           NEW d \in [Id -> Vector \cup {None}], UpsertShows(c, d, v), Expiring = {} => UpsertMakes(c, d, v)
    PROVE  Tracks(ReplayOp(a, [kind |-> "UPSERT", vec |-> v]), d)
<1>1. v.id \in Id /\ v # None /\ v.emb \in Emb
  BY VectorTypes
<1>2. GoodIndex(a) /\ Clean(a)
  BY DEF Tracks
<1>3. PICK mid, new : mid = UpsertLeaves(a, v) /\ new = ReplayUpsert(a, v)
  OBVIOUS
<1>4. /\ GoodIndex(mid) /\ Clean(mid)
      /\ UpsertShows(Contents(a), Contents(mid), v) /\ UpsertMakes(Contents(a), Contents(mid), v)
  BY <1>2, <1>3, UpsertGood
<1>5. new = mid \/ new = MaybeCompactInline(mid)
  BY <1>3 DEF UpsertLeaves, ReplayUpsert
<1>6. GoodIndex(new) /\ Clean(new) /\ Contents(new) = Contents(mid) /\ Contents(new) \in [Id -> Vector \cup {None}]
  BY <1>4, <1>5, InlineGood, ContentsTypes
<1>7. PICK p, q : p = Contents(a) /\ q = Contents(new)
  OBVIOUS
<1>8. /\ UpsertShows(p, q, v) /\ UpsertMakes(p, q, v) /\ q \in [Id -> Vector \cup {None}]
      /\ \A id \in Id : p[id] # None => c[id] # None
      /\ UpsertsAreClear => p = c
  BY <1>4, <1>6, <1>7 DEF Tracks
<1>9. ASSUME NEW id \in Id, q[id] # None PROVE d[id] # None
  <2>1. CASE id # v.id
    BY <1>8, <1>9, <2>1 DEF UpsertShows
  <2>2. CASE id = v.id /\ v.emb # NoEmb
    BY <1>1, <2>2 DEF UpsertShows
  <2>3. CASE id = v.id /\ v.emb = NoEmb
    <3>1. p[id] # None
      BY <1>8, <1>9, <2>3 DEF UpsertMakes
    <3>. QED
      BY <1>8, <2>3, <3>1 DEF UpsertShows
  <2>. QED
    BY <2>1, <2>2, <2>3
<1>10. ASSUME UpsertsAreClear PROVE q = d
  <2>1. p = c /\ (v.emb = NoEmb => Expiring = {})
    BY <1>1, <1>8, <1>10 DEF UpsertsAreClear
  <2>2. ASSUME NEW id \in Id PROVE q[id] = d[id]
    <3>1. CASE id # v.id
      BY <1>8, <2>1, <3>1 DEF UpsertShows
    <3>2. CASE id = v.id /\ v.emb # NoEmb
      BY <1>8, <3>2 DEF UpsertShows
    <3>3. CASE id = v.id /\ v.emb = NoEmb
      BY <1>8, <2>1, <3>3 DEF UpsertMakes
    <3>. QED
      BY <3>1, <3>2, <3>3
  <2>3. q = [id \in Id |-> q[id]] /\ d = [id \in Id |-> d[id]]
    BY <1>8
  <2>. QED
    BY <2>2, <2>3
<1>11. Tracks(new, d)
  BY <1>6, <1>7, <1>9, <1>10 DEF Tracks
<1>. QED
  BY <1>3, <1>11, OperationsAre

LEMMA RemoveTracks ==
    ASSUME NEW a, NEW c \in [Id -> Vector \cup {None}], Tracks(a, c), NEW id \in Id
    PROVE  Tracks(ReplayOp(a, [kind |-> "REMOVE", vec |-> id]), [c EXCEPT ![id] = None])
<1>1. GoodIndex(a) /\ Clean(a) /\ Contents(a) \in [Id -> Vector \cup {None}]
  BY ContentsTypes DEF Tracks
<1>2. PICK new : new = ReplayRemove(a, id)
  OBVIOUS
<1>3. GoodIndex(new) /\ Clean(new) /\ Contents(new) = [Contents(a) EXCEPT ![id] = None]
  <2>1. CASE Known(a, id)
    <3>1. PICK mid : mid = Tombstone(a, id)
      OBVIOUS
    <3>2. GoodIndex(mid) /\ Clean(mid) /\ Contents(mid) = [Contents(a) EXCEPT ![id] = None]
      BY <1>1, <2>1, <3>1, TombstoneGood
    <3>3. new = MaybeCompactInline(mid)
      BY <1>2, <2>1, <3>1 DEF ReplayRemove
    <3>. QED
      BY <3>2, <3>3, InlineGood
  <2>2. CASE ~Known(a, id)
    <3>1. new = a /\ ~contains(a, id)
      BY <1>2, <2>2 DEF ReplayRemove, Known, contains
    <3>2. Contents(a)[id] = None
      BY <1>1, <3>1, ContentsTypes
    <3>3. Contents(a) = [Contents(a) EXCEPT ![id] = None]
      BY <1>1, <3>2
    <3>. QED
      BY <1>1, <3>1, <3>3
  <2>. QED
    BY <2>1, <2>2
<1>4. \A i \in Id : Contents(new)[i] # None => [c EXCEPT ![id] = None][i] # None
  BY <1>1, <1>3 DEF Tracks
<1>5. UpsertsAreClear => Contents(new) = [c EXCEPT ![id] = None]
  BY <1>3 DEF Tracks
<1>6. Tracks(new, [c EXCEPT ![id] = None])
  BY <1>3, <1>4, <1>5 DEF Tracks
<1>. QED
  BY <1>2, <1>6, OperationsAre

Without(c, ids) == [id \in Id |-> IF id \in ids THEN None ELSE c[id]]

FirstOf(ids, n) == {ids[k] : k \in 1..n}

\* Removals, one after the other.
LEMMA RemovesTrack ==
    ASSUME NEW a, NEW js \in Seq(Operation), NEW ops \in Seq(Operation), NEW n \in Nat, n = Len(ops),
           NEW ids, \A k \in 1..n : ids[k] \in Id /\ ops[k] = [kind |-> "REMOVE", vec |-> ids[k]],
           NEW c \in [Id -> Vector \cup {None}], Tracks(_replay(a, js), c)
    PROVE  Tracks(_replay(a, js \o ops), Without(c, FirstOf(ids, n)))
<1>. DEFINE Part(m) == js \o SubSeq(ops, 1, m)
            After(m) == Without(c, FirstOf(ids, m))
            P(m) == Tracks(_replay(a, Part(m)), After(m))
            Bad == {m \in 0..n : ~P(m)}
<1>1. P(0)
  <2>1. SubSeq(ops, 1, 0) = <<>>
    BY SubSeqEmpty
  <2>2. Part(0) = js
    BY <2>1, ConcatEmptySeq
  <2>3. FirstOf(ids, 0) = {}
    BY DEF FirstOf
  <2>4. After(0) = c
    BY <2>3 DEF Without
  <2>. QED
    BY <2>2, <2>4
<1>2. ASSUME NEW m \in 0..(n - 1), P(m) PROVE P(m + 1)
  <2>1. ops[m + 1] \in Operation /\ ops[m + 1] = [kind |-> "REMOVE", vec |-> ids[m + 1]] /\ ids[m + 1] \in Id
    <3>1. m + 1 \in 1..n
      OBVIOUS
    <3>. QED
      BY <3>1
  <2>2. Part(m) \in Seq(Operation)
    <3>1. SubSeq(ops, 1, m) \in Seq(Operation)
      <4>1. \A k \in 1..m : ops[k] \in Operation
        OBVIOUS
      <4>. QED
        BY <4>1, SubSeqProperties
    <3>. QED
      BY <3>1, ConcatProperties
  <2>3. Part(m + 1) = Append(Part(m), ops[m + 1])
    <3>1. PICK front : front = SubSeq(ops, 1, m)
      OBVIOUS
    <3>2. front \in Seq(Operation) /\ <<ops[m + 1]>> \in Seq(Operation)
      <4>1. \A k \in 1..m : ops[k] \in Operation
        OBVIOUS
      <4>. QED
        BY <2>1, <3>1, <4>1, SubSeqProperties
    <3>3. SubSeq(ops, 1, m + 1) = front \o <<ops[m + 1]>>
      <4>1. m + 1 \in 1..Len(ops) /\ 1 \in 1..Len(ops) /\ (m + 1) - 1 = m
        OBVIOUS
      <4>2. SubSeq(ops, 1, m + 1) = SubSeq(ops, 1, (m + 1) - 1) \o <<ops[m + 1]>>
        BY <4>1, SubSeqRecursiveSecond
      <4>. QED
        BY <3>1, <4>1, <4>2
    <3>4. js \o (front \o <<ops[m + 1]>>) = (js \o front) \o <<ops[m + 1]>>
      BY <3>2, ConcatAssociative
    <3>5. Append(js \o front, ops[m + 1]) = (js \o front) \o <<ops[m + 1]>>
      <4>1. js \o front \in Seq(Operation)
        BY <2>2, <3>1
      <4>. QED
        BY <2>1, <4>1, AppendIsConcat
    <3>. QED
      BY <3>1, <3>3, <3>4, <3>5
  <2>4. _replay(a, Part(m + 1)) = ReplayOp(_replay(a, Part(m)), ops[m + 1])
    <3>. HIDE DEF Part
    <3>1. PICK s, o : s = Part(m) /\ o = ops[m + 1]
      OBVIOUS
    <3>2. s \in Seq(Operation) /\ o \in Operation
      BY <2>1, <2>2, <3>1
    <3>3. _replay(a, Append(s, o)) = ReplayOp(_replay(a, s), o)
      BY <3>2, ReplayOneMore
    <3>. QED
      BY <2>3, <3>1, <3>3
  <2>5. After(m) \in [Id -> Vector \cup {None}]
    BY DEF Without
  <2>6. After(m + 1) = [After(m) EXCEPT ![ids[m + 1]] = None]
    <3>1. \A id : id \in FirstOf(ids, m + 1) <=> id = ids[m + 1] \/ id \in FirstOf(ids, m)
      <4>1. \A k : k \in 1..(m + 1) <=> k = m + 1 \/ k \in 1..m
        OBVIOUS
      <4>. QED
        BY <4>1 DEF FirstOf
    <3>. QED
      BY <2>1, <3>1 DEF Without
  <2>. HIDE DEF Part, After
  <2>7. Tracks(ReplayOp(_replay(a, Part(m)), ops[m + 1]), [After(m) EXCEPT ![ids[m + 1]] = None])
    BY <1>2, <2>1, <2>5, RemoveTracks
  <2>. QED
    BY <2>4, <2>6, <2>7
<1>. HIDE DEF P
<1>3. SUFFICES P(n)
  <2>1. SubSeq(ops, 1, n) = ops
    BY SubSeqFull
  <2>. QED
    BY <2>1 DEF P
<1>4. SUFFICES ASSUME ~P(n) PROVE FALSE
  OBVIOUS
<1>5. PICK m \in Bad : \A j \in Bad : m <= j
  <2>1. Bad \in SUBSET Nat /\ n \in Bad
    BY <1>4
  <2>. HIDE DEF Bad
  <2>. QED
    BY <2>1, LeastNumber
<1>6. m \in 0..n /\ ~P(m)
  OBVIOUS
<1>7. m # 0 /\ m - 1 \in 0..(n - 1)
  BY <1>1, <1>6
<1>8. P(m - 1)
  <2>1. m - 1 \notin Bad
    BY <1>5, <1>6, <1>7
  <2>. QED
    BY <1>7, <2>1
<1>9. P((m - 1) + 1)
  BY <1>2, <1>7, <1>8
<1>. QED
  BY <1>6, <1>7, <1>9

-----------------------------------------------------------------------------
\* The invariant: what the compaction thread would swap in, were it to replay the journal now, tracks
\* the index the writers change.

IndexTypes ==
    /\ journal \in Seq(Operation) /\ worker \in {"none", "catching_up", "swapping"}
    /\ round \in 0..CatchUpRounds /\ written \in [Id -> Vector \cup {None}]

IndexInv ==
    /\ IndexTypes /\ GoodIndex(idx) /\ GoodIndex(shadow)
    /\ Expiring = {} => Clean(idx)
    /\ compacting => Tracks(_replay(shadow, journal), Contents(idx))
    /\ UpsertsAreClear => written = Contents(idx)

LEMMA IndexInit == Init => IndexInv
<1>. SUFFICES ASSUME Init PROVE IndexInv
  OBVIOUS
<1>1. /\ idx = EmptyIndex /\ journal = <<>> /\ worker = "none" /\ shadow = EmptyIndex /\ round = 0
      /\ written = [id \in Id |-> None]
  BY DEF Init
<1>2. round \in 0..CatchUpRounds /\ journal \in Seq(Operation)
  BY <1>1, TVIndexAssumption
<1>3. IndexTypes
  BY <1>1, <1>2 DEF IndexTypes
<1>4. GoodIndex(idx) /\ GoodIndex(shadow) /\ Clean(idx) /\ Contents(idx) = written
  BY <1>1, EmptyIsGood
<1>. QED
  BY <1>1, <1>3, <1>4 DEF IndexInv, compacting

\* A compaction that starts from index ix tracks it.
LEMMA RebuildTracks ==
    ASSUME NEW ix, GoodIndex(ix)
    PROVE  Tracks(_replay(Rebuild(ix), <<>>), Contents(ix))
<1>1. _replay(Rebuild(ix), <<>>) = Rebuild(ix)
  BY ReplayNone
<1>2. GoodIndex(Rebuild(ix)) /\ Clean(Rebuild(ix)) /\ Contents(Rebuild(ix)) = Contents(ix)
  BY RebuildGood
<1>. QED
  BY <1>1, <1>2 DEF Tracks

\* A write leaves index ix and journals ops.
LEMMA WriteKeeps ==
    ASSUME IndexInv, NEW ix, GoodIndex(ix), Expiring = {} => Clean(ix), NEW ops \in Seq(Operation),
           compacting => Tracks(_replay(shadow, journal \o ops), Contents(ix)),
           MaybeCompact(ix, ops) \/ NoCompact(ix, ops),
           written' \in [Id -> Vector \cup {None}], UpsertsAreClear => written' = Contents(ix)
    PROVE  IndexInv'
<1>1. IndexTypes /\ GoodIndex(shadow)
  BY DEF IndexInv
<1>2. GoodIndex(Rebuild(ix)) /\ Clean(Rebuild(ix)) /\ Contents(Rebuild(ix)) = Contents(ix)
  BY RebuildGood
<1>3. idx' \in {ix, Rebuild(ix)}
  BY DEF MaybeCompact, NoCompact
<1>4. GoodIndex(idx') /\ (Expiring = {} => Clean(idx')) /\ Contents(idx') = Contents(ix)
  BY <1>2, <1>3
<1>5. Journalled(ops) \in Seq(Operation)
  BY <1>1, ConcatProperties DEF Journalled, IndexTypes
<1>6. CASE journal' = Journalled(ops) /\ UNCHANGED <<worker, shadow, round>>
  <2>1. IndexTypes'
    BY <1>1, <1>5, <1>6 DEF IndexTypes
  <2>2. compacting' => Tracks(_replay(shadow', journal'), Contents(idx'))
    BY <1>4, <1>6 DEF compacting, Journalled
  <2>. QED
    BY <1>1, <1>4, <1>6, <2>1, <2>2 DEF IndexInv
<1>7. CASE StartCompaction(ix)
  <2>1. worker' = "catching_up" /\ shadow' = Rebuild(ix) /\ journal' = <<>> /\ round' = 0
    BY <1>7 DEF StartCompaction
  <2>2. <<>> \in Seq(Operation) /\ 0 \in 0..CatchUpRounds
    BY TVIndexAssumption
  <2>3. IndexTypes'
    BY <2>1, <2>2 DEF IndexTypes
  <2>4. Tracks(_replay(shadow', journal'), Contents(idx'))
    BY <1>4, <2>1, RebuildTracks
  <2>. QED
    BY <1>2, <1>4, <2>1, <2>3, <2>4 DEF IndexInv
<1>8. CASE ~compacting /\ UNCHANGED <<journal, worker, shadow, round>>
  <2>1. IndexTypes' /\ ~compacting'
    BY <1>1, <1>8 DEF IndexTypes, compacting
  <2>. QED
    BY <1>1, <1>4, <1>8, <2>1 DEF IndexInv
<1>. QED
  BY <1>6, <1>7, <1>8 DEF MaybeCompact, NoCompact

LEMMA InsertKeeps == ASSUME IndexInv, NEW v \in Vector, Insert(v) PROVE IndexInv'
<1>. DEFINE op == [kind |-> "INSERT", vec |-> v]
            ix == _insert_locked(idx, v)
<1>1. IndexTypes /\ GoodIndex(idx)
  BY DEF IndexInv
<1>2. v.emb # NoEmb /\ ~contains(idx, v.id) /\ NoCompact(ix, <<op>>) /\ written' = [written EXCEPT ![v.id] = v]
  BY DEF Insert
<1>. HIDE DEF op, ix
<1>3. op \in Operation /\ <<op>> \in Seq(Operation) /\ v.id \in Id
  <2>1. op \in Operation
    BY DEF op, Operation
  <2>. QED
    BY <2>1, VectorTypes
<1>4. Contents(idx)[v.id] = None /\ Contents(idx) \in [Id -> Vector \cup {None}]
  BY <1>1, <1>2, <1>3, ContentsTypes
<1>5. GoodIndex(ix) /\ Contents(ix) = [Contents(idx) EXCEPT ![v.id] = v] /\ (Clean(idx) => Clean(ix))
  BY <1>1, <1>2, <1>4, InsertGood DEF ix
<1>6. compacting => Tracks(_replay(shadow, journal \o <<op>>), Contents(ix))
  <2>1. SUFFICES ASSUME compacting PROVE Tracks(_replay(shadow, journal \o <<op>>), Contents(ix))
    OBVIOUS
  <2>2. Tracks(_replay(shadow, journal), Contents(idx))
    BY <2>1 DEF IndexInv
  <2>3. Tracks(ReplayOp(_replay(shadow, journal), op), [Contents(idx) EXCEPT ![v.id] = v])
    BY <1>2, <1>4, <2>2, InsertTracks DEF op
  <2>4. journal \o <<op>> = Append(journal, op) /\ journal \in Seq(Operation)
    BY <1>1, <1>3, AppendIsConcat DEF IndexTypes
  <2>5. _replay(shadow, Append(journal, op)) = ReplayOp(_replay(shadow, journal), op)
    BY <1>3, <2>4, ReplayOneMore
  <2>. QED
    BY <1>5, <2>3, <2>4, <2>5
<1>7. written' \in [Id -> Vector \cup {None}] /\ (UpsertsAreClear => written' = Contents(ix))
  BY <1>1, <1>2, <1>5 DEF IndexTypes, IndexInv
<1>8. Expiring = {} => Clean(ix)
  BY <1>5 DEF IndexInv
<1>. QED
  BY <1>2, <1>3, <1>5, <1>6, <1>7, <1>8, WriteKeeps

LEMMA UpsertKeeps == ASSUME IndexInv, NEW v \in Vector, Upsert(v) PROVE IndexInv'
<1>. DEFINE op == [kind |-> "UPSERT", vec |-> v]
<1>1. PICK ix : ix = UpsertLeaves(idx, v)
  OBVIOUS
<1>2. MaybeCompact(ix, <<op>>) \/ NoCompact(ix, <<op>>)
  BY <1>1 DEF Upsert, UpsertLeaves
<1>3. written' = [written EXCEPT ![v.id] = IF v.emb = NoEmb THEN Contents(idx')[v.id] ELSE v]
  BY DEF Upsert
<1>. HIDE DEF op
<1>4. IndexTypes /\ GoodIndex(idx)
  BY DEF IndexInv
<1>5. op \in Operation /\ <<op>> \in Seq(Operation) /\ v.id \in Id
  <2>1. op \in Operation
    BY DEF op, Operation
  <2>. QED
    BY <2>1, VectorTypes
<1>6. /\ GoodIndex(ix) /\ UpsertShows(Contents(idx), Contents(ix), v)
      /\ Clean(idx) => Clean(ix) /\ UpsertMakes(Contents(idx), Contents(ix), v)
  BY <1>1, <1>4, UpsertGood
<1>7. Contents(idx) \in [Id -> Vector \cup {None}] /\ Contents(ix) \in [Id -> Vector \cup {None}]
  BY <1>4, <1>6, ContentsTypes
<1>8. Contents(idx') = Contents(ix)
  <2>1. idx' \in {ix, Rebuild(ix)}
    BY <1>2 DEF MaybeCompact, NoCompact
  <2>. QED
    BY <1>6, <2>1, RebuildGood
<1>9. Expiring = {} => Clean(idx)
  BY DEF IndexInv
<1>10. compacting => Tracks(_replay(shadow, journal \o <<op>>), Contents(ix))
  <2>1. SUFFICES ASSUME compacting PROVE Tracks(_replay(shadow, journal \o <<op>>), Contents(ix))
    OBVIOUS
  <2>2. Tracks(_replay(shadow, journal), Contents(idx))
    BY <2>1 DEF IndexInv
  <2>3. Tracks(ReplayOp(_replay(shadow, journal), op), Contents(ix))
    BY <1>6, <1>7, <1>9, <2>2, UpsertTracks DEF op
  <2>4. journal \o <<op>> = Append(journal, op) /\ journal \in Seq(Operation)
    BY <1>4, <1>5, AppendIsConcat DEF IndexTypes
  <2>5. _replay(shadow, Append(journal, op)) = ReplayOp(_replay(shadow, journal), op)
    BY <1>5, <2>4, ReplayOneMore
  <2>. QED
    BY <2>3, <2>4, <2>5
<1>11. written' \in [Id -> Vector \cup {None}]
  BY <1>3, <1>4, <1>7, <1>8 DEF IndexTypes
<1>12. ASSUME UpsertsAreClear PROVE written' = Contents(ix)
  <2>1. written = Contents(idx)
    BY <1>12 DEF IndexInv
  <2>2. written'[v.id] = Contents(ix)[v.id]
    BY <1>3, <1>4, <1>5, <1>6, <1>8 DEF UpsertShows, IndexTypes
  <2>3. \A i \in Id : i # v.id => written'[i] = Contents(ix)[i]
    BY <1>3, <1>4, <1>6, <2>1 DEF UpsertShows, IndexTypes
  <2>. QED
    BY <1>7, <1>11, <2>2, <2>3
<1>. QED
  BY <1>2, <1>5, <1>6, <1>9, <1>10, <1>11, <1>12, WriteKeeps

LEMMA RemoveKeeps == ASSUME IndexInv, NEW id \in Id, RemoveVector(id) PROVE IndexInv'
<1>. DEFINE op == [kind |-> "REMOVE", vec |-> id]
            ix == Tombstone(idx, id)
<1>1. IndexTypes /\ GoodIndex(idx)
  BY DEF IndexInv
<1>2. Known(idx, id) /\ MaybeCompact(ix, <<op>>) /\ written' = [written EXCEPT ![id] = None]
  BY DEF RemoveVector
<1>. HIDE DEF op, ix
<1>3. op \in Operation /\ <<op>> \in Seq(Operation)
  BY OperationsAre DEF op
<1>4. Contents(idx) \in [Id -> Vector \cup {None}]
  BY <1>1, ContentsTypes
<1>5. GoodIndex(ix) /\ Contents(ix) = [Contents(idx) EXCEPT ![id] = None] /\ (Clean(idx) => Clean(ix))
  BY <1>1, <1>2, TombstoneGood DEF ix
<1>6. compacting => Tracks(_replay(shadow, journal \o <<op>>), Contents(ix))
  <2>1. SUFFICES ASSUME compacting PROVE Tracks(_replay(shadow, journal \o <<op>>), Contents(ix))
    OBVIOUS
  <2>2. Tracks(_replay(shadow, journal), Contents(idx))
    BY <2>1 DEF IndexInv
  <2>3. Tracks(ReplayOp(_replay(shadow, journal), op), [Contents(idx) EXCEPT ![id] = None])
    BY <1>4, <2>2, RemoveTracks DEF op
  <2>4. journal \o <<op>> = Append(journal, op) /\ journal \in Seq(Operation)
    BY <1>1, <1>3, AppendIsConcat DEF IndexTypes
  <2>5. _replay(shadow, Append(journal, op)) = ReplayOp(_replay(shadow, journal), op)
    BY <1>3, <2>4, ReplayOneMore
  <2>. QED
    BY <1>5, <2>3, <2>4, <2>5
<1>7. written' \in [Id -> Vector \cup {None}] /\ (UpsertsAreClear => written' = Contents(ix))
  BY <1>1, <1>2, <1>5 DEF IndexTypes, IndexInv
<1>8. Expiring = {} => Clean(ix)
  BY <1>5 DEF IndexInv
<1>. QED
  BY <1>2, <1>3, <1>5, <1>6, <1>7, <1>8, WriteKeeps

\* The ids of the vectors that expire, in the order of their slots.
ExpiringIds(ix, gone) == [k \in DOMAIN InOrder(Expired(ix, gone)) |-> ix.nodes[InOrder(Expired(ix, gone))[k]].id]

LEMMA ExpiringAre ==
    ASSUME NEW ix, GoodIndex(ix), NEW gone
    PROVE  \E n \in Nat : /\ DOMAIN InOrder(Expired(ix, gone)) = 1..n
                          /\ \A k \in 1..n : ExpiringIds(ix, gone)[k] \in Id
                          /\ Without(Contents(ix), FirstOf(ExpiringIds(ix, gone), n)) =
                                Contents(Purge(ix, gone))
<1>1. PICK items, ext, dead, S, slots, ids :
         /\ items = ix.nodes /\ ext = ix.ext_to_int /\ dead = ix.deleted /\ S = Expired(ix, gone)
         /\ slots = InOrder(S) /\ ids = ExpiringIds(ix, gone)
  OBVIOUS
<1>2. /\ items \in Seq(Vector) /\ DOMAIN ext \subseteq Id
      /\ \A id \in DOMAIN ext : ext[id] \in DOMAIN items /\ items[ext[id]].id = id
      /\ \A k \in DOMAIN items \ dead : items[k].id \in DOMAIN ext /\ ext[items[k].id] = k
  BY <1>1 DEF GoodIndex, SlotsFit
<1>3. S = {k \in DOMAIN items \ dead : items[k].meta \in gone}
  BY <1>1 DEF Expired, Live
<1>4. Len(items) \in Nat /\ S \in SUBSET (1..Len(items))
  BY <1>2, <1>3
<1>5. PICK n : n = Cardinality(S)
  OBVIOUS
<1>6. n \in Nat /\ Orders(slots, S)
  BY <1>1, <1>4, <1>5, InOrderIs
<1>7. DOMAIN slots = 1..n /\ (\A k \in 1..n : slots[k] \in S) /\ \A s \in S : \E k \in 1..n : slots[k] = s
  BY <1>5, <1>6 DEF Orders, Range
<1>8. \A k \in 1..n : ids[k] = items[slots[k]].id
  BY <1>1, <1>7 DEF ExpiringIds
<1>9. \A s \in S : items[s] \in Vector /\ items[s].id \in Id
  BY <1>2, <1>3, VectorTypes
<1>10. \A k \in 1..n : ids[k] \in Id
  BY <1>7, <1>8, <1>9
<1>11. ASSUME NEW id \in Id
       PROVE  id \in FirstOf(ids, n) <=> id \in DOMAIN ext /\ ext[id] \notin dead /\ items[ext[id]].meta \in gone
  <2>1. ASSUME id \in FirstOf(ids, n) PROVE id \in DOMAIN ext /\ ext[id] \notin dead /\ items[ext[id]].meta \in gone
    <3>1. PICK k \in 1..n : id = ids[k]
      BY <2>1 DEF FirstOf
    <3>2. slots[k] \in S /\ id = items[slots[k]].id
      BY <1>7, <1>8, <3>1
    <3>. QED
      BY <1>2, <1>3, <3>2
  <2>2. ASSUME id \in DOMAIN ext, ext[id] \notin dead, items[ext[id]].meta \in gone PROVE id \in FirstOf(ids, n)
    <3>1. ext[id] \in S /\ items[ext[id]].id = id
      BY <1>2, <1>3, <2>2
    <3>2. PICK k \in 1..n : slots[k] = ext[id]
      BY <1>7, <3>1
    <3>. QED
      BY <1>8, <3>1, <3>2 DEF FirstOf
  <2>. QED
    BY <2>1, <2>2
<1>12. Contents(Purge(ix, gone)) = [id \in Id |-> Unexpired(Contents(ix)[id], gone)]
  BY PurgeGood
<1>13. ASSUME NEW id \in Id
       PROVE  (IF id \in FirstOf(ids, n) THEN None ELSE Contents(ix)[id]) = Unexpired(Contents(ix)[id], gone)
  <2>1. Contents(ix)[id] = IF id \in DOMAIN ext /\ ext[id] \notin dead THEN items[ext[id]] ELSE None
    BY <1>1 DEF Contents, contains
  <2>2. CASE id \in DOMAIN ext /\ ext[id] \notin dead
    <3>1. items[ext[id]] # None
      BY <1>2, <2>2, VectorTypes
    <3>. QED
      BY <1>11, <2>1, <2>2, <3>1 DEF Unexpired
  <2>3. CASE ~(id \in DOMAIN ext /\ ext[id] \notin dead)
    BY <1>11, <2>1, <2>3 DEF Unexpired
  <2>. QED
    BY <2>2, <2>3
<1>14. Without(Contents(ix), FirstOf(ids, n)) = [id \in Id |-> Unexpired(Contents(ix)[id], gone)]
  BY <1>13, Zenon DEF Without
<1>. QED
  BY <1>1, <1>6, <1>7, <1>10, <1>12, <1>14

LEMMA PurgeKeeps == ASSUME IndexInv, NEW gone \in SUBSET Expiring, PurgeExpired(gone) PROVE IndexInv'
<1>1. IndexTypes /\ GoodIndex(idx)
  BY DEF IndexInv
<1>2. PICK n : /\ n \in Nat /\ DOMAIN InOrder(Expired(idx, gone)) = 1..n
               /\ \A k \in 1..n : ExpiringIds(idx, gone)[k] \in Id
               /\ Without(Contents(idx), FirstOf(ExpiringIds(idx, gone), n)) = Contents(Purge(idx, gone))
  BY <1>1, ExpiringAre
<1>3. PICK ids, ops, ix : /\ ids = ExpiringIds(idx, gone) /\ ix = Purge(idx, gone)
                          /\ ops = [k \in 1..n |-> [kind |-> "REMOVE", vec |-> ids[k]]]
  OBVIOUS
<1>4. MaybeCompact(ix, ops) /\ InOrder(Expired(idx, gone)) # <<>>
  <2>1. ops = [k \in DOMAIN InOrder(Expired(idx, gone)) |->
                  [kind |-> "REMOVE", vec |-> idx.nodes[InOrder(Expired(idx, gone))[k]].id]]
    BY <1>2, <1>3 DEF ExpiringIds
  <2>. QED
    BY <1>3, <2>1 DEF PurgeExpired
<1>5. written' = [id \in Id |-> Unexpired(written[id], gone)]
  BY DEF PurgeExpired, Unexpired
<1>6. n \in Nat /\ \A k \in 1..n : ids[k] \in Id /\ ops[k] = [kind |-> "REMOVE", vec |-> ids[k]] /\ ops[k] \in Operation
  BY <1>2, <1>3 DEF Operation
<1>7. ops \in Seq(Operation) /\ Len(ops) = n
  <2>1. ops \in [1..n -> Operation]
    BY <1>3, <1>6
  <2>. QED
    BY <1>6, <2>1
<1>8. GoodIndex(ix) /\ Contents(ix) = [id \in Id |-> Unexpired(Contents(idx)[id], gone)]
  BY <1>1, <1>3, PurgeGood
<1>9. Contents(idx) \in [Id -> Vector \cup {None}]
  BY <1>1, ContentsTypes
<1>10. compacting => Tracks(_replay(shadow, journal \o ops), Contents(ix))
  <2>1. SUFFICES ASSUME compacting PROVE Tracks(_replay(shadow, journal \o ops), Contents(ix))
    OBVIOUS
  <2>2. Tracks(_replay(shadow, journal), Contents(idx)) /\ journal \in Seq(Operation)
    BY <1>1, <2>1 DEF IndexInv, IndexTypes
  <2>3. Tracks(_replay(shadow, journal \o ops), Without(Contents(idx), FirstOf(ids, n)))
    BY <1>6, <1>7, <1>9, <2>2, RemovesTrack
  <2>. QED
    BY <1>2, <1>3, <2>3
<1>11. Expiring # {}
  <2>1. SUFFICES ASSUME Expiring = {} PROVE FALSE
    OBVIOUS
  <2>2. Expired(idx, gone) = {}
    BY <2>1 DEF Expired
  <2>3. Orders(InOrder({}), {}) /\ Cardinality({}) = 0
    <3>1. {} \in SUBSET (1..0)
      OBVIOUS
    <3>. QED
      BY <3>1, InOrderIs, FS_EmptySet
  <2>4. InOrder({}) = <<>>
    BY <2>3 DEF Orders
  <2>. QED
    BY <1>4, <2>2, <2>4
<1>12. written' \in [Id -> Vector \cup {None}]
  BY <1>1, <1>5 DEF IndexTypes, Unexpired
<1>13. UpsertsAreClear => written' = Contents(ix)
  BY <1>5, <1>8 DEF IndexInv
<1>. QED
  BY <1>4, <1>7, <1>8, <1>10, <1>11, <1>12, <1>13, WriteKeeps

LEMMA IndexStep == IndexInv /\ [Next]_vars => IndexInv'
<1>. SUFFICES ASSUME IndexInv, [Next]_vars PROVE IndexInv'
  OBVIOUS
<1>1. IndexTypes /\ GoodIndex(idx) /\ GoodIndex(shadow) /\ GoodIndex(EmptyIndex) /\ 0 \in 0..CatchUpRounds
  BY EmptyIsGood, TVIndexAssumption DEF IndexInv
<1>2. GoodIndex(Rebuild(idx)) /\ Clean(Rebuild(idx)) /\ Contents(Rebuild(idx)) = Contents(idx)
  BY <1>1, RebuildGood
<1>3. <<>> \in Seq(Operation)
  OBVIOUS
<1>4. CASE Write
  BY <1>4, InsertKeeps, UpsertKeeps, RemoveKeeps, PurgeKeeps DEF Write
<1>5. CASE CompactAsync
  <2>1. /\ worker' = "catching_up" /\ shadow' = Rebuild(idx) /\ journal' = <<>> /\ round' = 0
        /\ idx' = idx /\ written' = written
    BY <1>5 DEF CompactAsync, StartCompaction
  <2>2. IndexTypes'
    BY <1>1, <1>3, <2>1 DEF IndexTypes
  <2>3. Tracks(_replay(shadow', journal'), Contents(idx'))
    BY <1>1, <2>1, RebuildTracks
  <2>. QED
    BY <1>2, <2>1, <2>2, <2>3 DEF IndexInv
<1>6. CASE Compact
  <2>1. /\ idx' = Rebuild(idx) /\ UNCHANGED <<journal, worker, shadow, round, written>>
    BY <1>6 DEF Compact
  <2>2. IndexTypes' /\ (compacting' <=> compacting)
    BY <1>1, <2>1 DEF IndexTypes, compacting
  <2>3. Contents(idx') = Contents(idx) /\ GoodIndex(idx') /\ Clean(idx')
    BY <1>2, <2>1
  <2>. QED
    BY <2>1, <2>2, <2>3 DEF IndexInv
<1>7. CASE CatchUp
  <2>1. /\ worker = "catching_up" /\ worker' = worker /\ round < CatchUpRounds /\ round' = round + 1
        /\ journal' = <<>> /\ shadow' = _replay(shadow, journal) /\ idx' = idx /\ written' = written
    BY <1>7 DEF CatchUp, CatchUpStep
  <2>2. Tracks(_replay(shadow, journal), Contents(idx))
    BY <2>1 DEF IndexInv, compacting
  <2>3. IndexTypes'
    BY <1>1, <1>3, <2>1, TVIndexAssumption DEF IndexTypes
  <2>4. Tracks(_replay(shadow', journal'), Contents(idx')) /\ GoodIndex(shadow')
    BY <2>1, <2>2, ReplayNone DEF Tracks
  <2>. QED
    BY <2>1, <2>3, <2>4 DEF IndexInv
<1>8. CASE CaughtUp
  <2>1. worker = "catching_up" /\ worker' = "swapping" /\ UNCHANGED <<round, idx, journal, shadow, written>>
    BY <1>8 DEF CaughtUp, CaughtUpStep
  <2>2. IndexTypes'
    BY <1>1, <2>1 DEF IndexTypes
  <2>. QED
    BY <2>1, <2>2 DEF IndexInv, compacting
<1>9. ASSUME EndCompaction PROVE IndexTypes' /\ ~compacting' /\ GoodIndex(shadow') /\ written' = written
  BY <1>1, <1>3, <1>9 DEF EndCompaction, IndexTypes, compacting
<1>10. CASE Swap
  <2>1. worker = "swapping" /\ EndCompaction /\ idx' = _replay(shadow, journal)
    BY <1>10 DEF Swap, SwapStep
  <2>2. Tracks(idx', Contents(idx))
    BY <2>1 DEF IndexInv, compacting
  <2>3. GoodIndex(idx') /\ Clean(idx') /\ (UpsertsAreClear => Contents(idx') = Contents(idx))
    BY <2>2 DEF Tracks
  <2>. QED
    BY <1>9, <2>1, <2>3 DEF IndexInv
<1>11. CASE CompactionFails
  BY <1>9, <1>11 DEF CompactionFails, IndexInv
<1>12. CASE UNCHANGED vars
  BY <1>12 DEF vars, IndexInv, IndexTypes, compacting
<1>. QED
  BY <1>4, <1>5, <1>6, <1>7, <1>8, <1>10, <1>11, <1>12 DEF Next

LEMMA IndexAlways == Spec => []IndexInv
<1>. QED
  BY IndexInit, IndexStep, PTL DEF Spec

LEMMA GoodIsWell ==
    ASSUME NEW ix, GoodIndex(ix)
    PROVE  /\ WellFormed(ix) /\ ix.bm25 = {<<n, ix.nodes[n].meta>> : n \in Live(ix)}
           /\ \A n \in Live(ix) : contains(ix, ix.nodes[n].id) /\ ix.ext_to_int[ix.nodes[n].id] = n
<1>1. /\ DOMAIN ix = {"nodes", "ext_to_int", "deleted", "bm25"} /\ ix.nodes \in Seq(Vector)
      /\ DOMAIN ix.ext_to_int \subseteq Id /\ ix.deleted \subseteq DOMAIN ix.nodes
      /\ \A id \in DOMAIN ix.ext_to_int : ix.ext_to_int[id] \in DOMAIN ix.nodes
      /\ \A n \in Live(ix) : ix.nodes[n].id \in DOMAIN ix.ext_to_int /\ ix.ext_to_int[ix.nodes[n].id] = n
  BY DEF GoodIndex, SlotsFit, Live
<1>2. ix.bm25 = {<<n, ix.nodes[n].meta>> : n \in Live(ix)}
  BY DEF GoodIndex, TextFits, Texts, Live
<1>3. \A n \in DOMAIN ix.nodes : ix.nodes[n].meta \in Meta
  BY <1>1, VectorTypes
<1>4. ix.bm25 \subseteq (DOMAIN ix.nodes) \X Meta
  BY <1>2, <1>3 DEF Live
<1>5. \A n \in Live(ix) : contains(ix, ix.nodes[n].id)
  BY <1>1 DEF contains, Live
<1>. QED
  BY <1>1, <1>2, <1>4, <1>5 DEF WellFormed

\* Both maps of the index are sound and agree, whatever is written, purged and compacted meanwhile,
\* and so are those of the index the compaction thread builds (tv_index.hpp, ext_to_int_, deleted_).
THEOREM SlotsAlwaysSound == Spec => []SlotsSound
<1>1. IndexInv => SlotsSound
  <2>1. SUFFICES ASSUME IndexInv PROVE SlotsSound
    OBVIOUS
  <2>2. IndexTypes /\ WellFormed(idx) /\ WellFormed(shadow)
    BY <2>1, GoodIsWell DEF IndexInv
  <2>3. TypeOK
    BY <2>2 DEF TypeOK, IndexTypes, Operation
  <2>4. OneSlotPerId
    BY <2>1, GoodIsWell DEF IndexInv, OneSlotPerId
  <2>. QED
    BY <2>3, <2>4 DEF SlotsSound
<1>. QED
  BY <1>1, IndexAlways, PTL

\* The text index holds the text of the live slots and of no other (bm25_index.hpp, remove).
THEOREM TextIndexIsExact == Spec => []TextIndexExact
<1>1. IndexInv => TextIndexExact
  BY GoodIsWell DEF IndexInv, TextIndexExact
<1>. QED
  BY <1>1, IndexAlways, PTL

\* Compacting loses no write and brings nothing back, when every upsert has an embedding or nothing
\* expires (tv_index.hpp, _background_compact, _replay).
THEOREM NoWriteIsLost ==
    ASSUME NoEmb \notin Emb \/ Expiring = {}
    PROVE  Spec => []NoWriteLost
<1>1. IndexInv => NoWriteLost
  BY DEF IndexInv, NoWriteLost, UpsertsAreClear
<1>. QED
  BY <1>1, IndexAlways, PTL

=============================================================================
