---------------------------- MODULE SegmentStore ----------------------------
(***************************************************************************)
(* The disk-backed vectors of a collection (storage/segment_store.hpp): a  *)
(* write buffer that is flushed into segment files, and the map that       *)
(* locates each id. A collection (cluster/durable_collection.hpp) writes a *)
(* vector to its shard and then to the store, and removes it from the      *)
(* store and then from the shard, with no lock over both, and with nothing *)
(* taken back when the second half throws; the store serves the exact      *)
(* vectors when compressed ones are rescored.                              *)
(*                                                                         *)
(* A file that is written is mapped again without an error.                *)
(***************************************************************************)
EXTENDS Places, Sequences, SequencesExt

CONSTANTS
    VecId,          \* vector ids
    CutTo,          \* the id a segment has for each: its first 63 bytes
    Thread,         \* the threads that write
    BufferSize,     \* write_buf_size
    MaxVer,         \* bound: upserts; the n-th writes version n
    MaxRemoves,     \* bound: removals
    MaxReloads      \* bound: restarts

ASSUME SegmentStoreAssumption ==
    /\ BufferSize \in Nat \ {0} /\ {MaxVer, MaxRemoves, MaxReloads} \subseteq Nat
    /\ CutTo \in [VecId -> VecId]

VARIABLES
    store,      \* write_buffer_, segments_ (the file of each), id_to_loc_ (with its keys) and
                \* deleted_, and the files on the disk: whose vectors they have
    held,       \* the version of each id in the shards, which recover from their logs
    doing,      \* what each thread is doing
    count,      \* upserts, removals and restarts so far
    overlapped, \* history: ids two calls worked on at once
    half        \* history: ids of which a call threw between the shard and the store, until a put

ssVars == <<store, held, doing, count, overlapped, half>>

\* id_to_loc_: no entry, an entry that says "in the buffer", or a place in a segment.
NoLoc == <<0, 0>>
Pending == <<0, 1>>

Free == [op |-> "none"]

\* Where an id is in the buffer.
Versions(buffer, id) == {k \in DOMAIN buffer : buffer[k].id = id}

-----------------------------------------------------------------------------
Kept(s) ==
    LET places == InOrder({k \in DOMAIN s.buffer : s.buffer[k].id \notin s.deleted})
    IN  [k \in DOMAIN places |-> s.buffer[places[k]]]

\* Mutant: the first of several records of an id is located.
LocateIn_First(loc, seg, records) ==
    [id \in VecId |->
        LET k == SelectInSeq(records, LAMBDA v : v.id = id)
        IN  IF k = 0 THEN loc[id] ELSE <<seg, k>>]

\* The last of several records of an id is the one that is located.
LocateIn(loc, seg, records) ==
    [id \in VecId |->
        LET k == SelectLastInSeq(records, LAMBDA v : v.id = id)
        IN  IF k = 0 THEN loc[id] ELSE <<seg, k>>]

\* The files a flush may write. A file is named by the millisecond of the clock: it is a new one,
\* or, in one millisecond with an earlier flush or when the clock was set back, one that is there.
\* Or (0) it cannot be created.
MayWrite(s) == 0..(Len(s.files) + 1)

\* Vectors that are in deleted_ are not written, and stay located "in the buffer". A file that is
\* there is emptied first, and the segments that it is mapped for show what is written now.
_flush_locked(s, file) ==
    IF s.buffer = <<>> \/ file = 0 THEN s
    ELSE [s EXCEPT !.files = IF file \in DOMAIN @ THEN [@ EXCEPT ![file] = Kept(s)] ELSE Append(@, Kept(s)),
                   !.segments = Append(@, file),
                   !.loc = LocateIn(@, Len(s.segments) + 1, Kept(s)),
                   !.buffer = <<>>]

\* Mutant: the vector is located when it is flushed.
Buffered_Unlocated(s, v) == [s EXCEPT !.buffer = Append(@, v)]

Buffered(s, v) == [s EXCEPT !.buffer = Append(@, v), !.loc[v.id] = Pending]

put(s, v, file) ==
    IF Len(s.buffer) + 1 >= BufferSize THEN _flush_locked(Buffered(s, v), file) ELSE Buffered(s, v)

mark_deleted(s, id) == [s EXCEPT !.deleted = @ \cup {id}, !.loc[id] = NoLoc]

RecordsOf(s, segment) == s.files[s.segments[segment]]

\* The buffer is searched from its front, so the older of two versions in it is found. Beyond the
\* end of a file that was written again there is nothing (an exception, or the end of the process).
get(s, id) ==
    LET inBuffer == Versions(s.buffer, id)
        at == s.loc[id]
    IN  IF inBuffer # {} THEN s.buffer[Min(inBuffer)].ver
        ELSE IF at \in {NoLoc, Pending} \/ at[2] \notin DOMAIN RecordsOf(s, at[1]) THEN 0
        ELSE RecordsOf(s, at[1])[at[2]].ver

EmptyStore == [buffer |-> <<>>, segments |-> <<>>, files |-> <<>>, loc |-> [id \in VecId |-> NoLoc],
               deleted |-> {}]

\* A file as it is loaded: the ids are what its records have of them.
AsRecorded(records) == [k \in DOMAIN records |-> [records[k] EXCEPT !.id = CutTo[@]]]

\* _load_existing_segments, in the order the directory lists the files: the last that has an id locates it.
Loaded(files, listing) ==
    LET records(n) == AsRecorded(files[listing[n]])
        having(id) == {n \in DOMAIN listing : Versions(records(n), id) # {}}
        placeOf(id) == LET n == Max(having(id)) IN LocateIn(EmptyStore.loc, n, records(n))[id]
    IN  [EmptyStore EXCEPT !.segments = listing, !.files = files,
                           !.loc = [id \in VecId |-> IF having(id) = {} THEN NoLoc ELSE placeOf(id)]]

Listings(files) == {p \in [DOMAIN files -> DOMAIN files] : IsInjective(p)}

-----------------------------------------------------------------------------
Busy(id) == \E t \in Thread : doing[t] # Free /\ doing[t].id = id

Enter(t, id, c) ==
    /\ doing[t] = Free
    /\ doing' = [doing EXCEPT ![t] = c]
    /\ overlapped' = IF Busy(id) THEN overlapped \cup {id} ELSE overlapped

\* DurableCollection::upsert, first the shard ...
UpsertShard(t, id) ==
    /\ count.upserts < MaxVer
    /\ Enter(t, id, [op |-> "put", id |-> id, ver |-> count.upserts + 1])
    /\ held' = [held EXCEPT ![id] = count.upserts + 1]
    /\ count' = [count EXCEPT !.upserts = @ + 1]
    /\ UNCHANGED <<store, half>>

\* ... then the store.
PutInStore(t) ==
    /\ doing[t].op = "put"
    /\ \E file \in MayWrite(store) : store' = put(store, [id |-> doing[t].id, ver |-> doing[t].ver], file)
    /\ doing' = [doing EXCEPT ![t] = Free]
    /\ half' = half \ {doing[t].id}
    /\ UNCHANGED <<held, count, overlapped>>

\* DurableCollection::remove, first the store ...
MarkDeleted(t, id) ==
    /\ count.removes < MaxRemoves
    /\ Enter(t, id, [op |-> "remove", id |-> id])
    /\ store' = mark_deleted(store, id)
    /\ count' = [count EXCEPT !.removes = @ + 1]
    /\ UNCHANGED <<held, half>>

\* ... then the shard.
RemoveFromShard(t) ==
    /\ doing[t].op = "remove"
    /\ held' = [held EXCEPT ![doing[t].id] = 0]
    /\ doing' = [doing EXCEPT ![t] = Free]
    /\ UNCHANGED <<store, count, overlapped, half>>

\* The shard throws: its primary has the vector, but too few replicas acknowledged it; or its log
\* refuses the removal.
ShardThrows(t) ==
    /\ doing[t] # Free
    /\ doing' = [doing EXCEPT ![t] = Free]
    /\ half' = half \cup {doing[t].id}
    /\ UNCHANGED <<store, held, count, overlapped>>

\* flush
Flush ==
    /\ store.buffer # <<>>
    /\ \E file \in MayWrite(store) : store' = _flush_locked(store, file)
    /\ UNCHANGED <<held, doing, count, overlapped, half>>

\* A restart: the buffer and deleted_ are gone; recover() refills the shards only.
Reload ==
    /\ count.reloads < MaxReloads
    /\ \E listing \in Listings(store.files) : store' = Loaded(store.files, listing)
    /\ doing' = [t \in Thread |-> Free]
    /\ count' = [count EXCEPT !.reloads = @ + 1]
    /\ UNCHANGED <<held, overlapped, half>>

SSInit ==
    /\ store = EmptyStore
    /\ held = [id \in VecId |-> 0]
    /\ doing = [t \in Thread |-> Free]
    /\ count = [upserts |-> 0, removes |-> 0, reloads |-> 0]
    /\ overlapped = {} /\ half = {}

SSNext ==
    \/ \E t \in Thread :
          \/ \E id \in VecId : UpsertShard(t, id) \/ MarkDeleted(t, id)
          \/ PutInStore(t) \/ RemoveFromShard(t) \/ ShardThrows(t)
    \/ Flush
    \/ Reload

SSSpec == SSInit /\ [][SSNext]_ssVars

-----------------------------------------------------------------------------
\* Until a restart, a vector of the shards is in the store's map, whatever order two threads
\* write and remove it in: the store is written last and cleared first. Only a call that threw
\* half-way leaves it out, until the next put.
StoreCoversShards ==
    count.reloads = 0 =>
        \A id \in VecId : held[id] > 0 /\ ~Busy(id) /\ id \notin half => store.loc[id] # NoLoc

\* The file that an id is located in was written again since.
Overwritten(s, id) ==
    /\ s.loc[id] \notin {NoLoc, Pending}
    /\ \E n \in DOMAIN s.segments : n > s.loc[id][1] /\ s.segments[n] = s.segments[s.loc[id][1]]

LocatesItself(id) ==
    LET at == store.loc[id]
    IN  at[2] \in DOMAIN RecordsOf(store, at[1]) /\ RecordsOf(store, at[1])[at[2]].id = id

\* Rescoring uses the vector that the shard has, except in the cases named: the id was written
\* twice into the buffer that is still there, removed at some time in this process, written by two
\* threads at once, left by a call that threw, its file was written again, or the store was loaded
\* from the disk since. A vector of another id is taken for it only if its file was written again,
\* or if it was loaded and is what another id was cut to.
RescoresCurrent ==
    \A id \in VecId :
        /\ \/ held[id] = 0 \/ Busy(id) \/ id \in overlapped \/ id \in half
           \/ Cardinality(Versions(store.buffer, id)) > 1
           \/ id \in store.deleted
           \/ Overwritten(store, id)
           \/ count.reloads > 0
           \/ get(store, id) = held[id]
        /\ \/ store.loc[id] \in {NoLoc, Pending}
           \/ Overwritten(store, id)
           \/ count.reloads > 0 /\ \E x \in VecId \ {id} : CutTo[x] = id
           \/ LocatesItself(id)
=============================================================================
