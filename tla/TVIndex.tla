------------------------------ MODULE TVIndex ------------------------------
(***************************************************************************)
(* TVIndex (index/tv_index.hpp): the slots of the vector graph, the map    *)
(* from ids to slots, tombstones, the text index, and the compaction that  *)
(* rebuilds all of them in the background while reads and writes go on.    *)
(*                                                                         *)
(* Every method holds the mutex from beginning to end and is one action;   *)
(* the compaction thread holds it only to take over the journal and to     *)
(* swap. Left out: the links of the graph, the scores, compressed          *)
(* embeddings, and the payload index, which may name too many slots and is *)
(* only asked which ones to look at.                                       *)
(***************************************************************************)
EXTENDS Places, Sequences, SequencesExt

CONSTANTS
    Id,             \* vector ids
    Emb,            \* embeddings that are written; NoEmb may be one of them
    NoEmb,          \* no embedding: a metadata-only upsert
    Meta,           \* payload, text and validity of a vector
    Expiring,       \* the Meta whose validity ends at some time
    None,           \* no vector
    Background,     \* background_compaction
    MinTombstones,  \* kCompactMinTombstones
    Ratio,          \* compaction_ratio
    CatchUpRounds,  \* kCompactCatchUpRounds
    FinalReplay,    \* kCompactFinalReplay
    MaxNodes,       \* bound: slots
    MaxJournal      \* bound: journalled operations

ASSUME TVIndexAssumption ==
    /\ Expiring \subseteq Meta
    /\ None \notin [id : Id, emb : Emb, meta : Meta]
    /\ Background \in BOOLEAN
    /\ {MinTombstones, Ratio, CatchUpRounds, FinalReplay, MaxNodes, MaxJournal} \subseteq Nat

VARIABLES
    idx,        \* the index
    journal,    \* journal_: operations since the compaction started
    worker,     \* the compaction thread: "none" while compacting_ = journal_on_ = false
    shadow,     \* the index it builds
    round,      \* its rounds of catching up
    written     \* history: what a reader may expect for each id

vars == <<idx, journal, worker, shadow, round, written>>

-----------------------------------------------------------------------------
\* An index: slots, the slot of each id, tombstones, and the text (the Meta) the text
\* index has for a slot.

EmptyIndex ==
    [nodes |-> <<>>, ext_to_int |-> <<>>, deleted |-> {}, bm25 |-> {}]

Live(ix) == DOMAIN ix.nodes \ ix.deleted

LiveVectors(ix) ==
    LET slots == InOrder(Live(ix))
    IN  [k \in DOMAIN slots |-> ix.nodes[slots[k]]]

contains(ix, id) == id \in DOMAIN ix.ext_to_int /\ ix.ext_to_int[id] \notin ix.deleted

Contents(ix) ==
    [id \in Id |-> IF contains(ix, id) THEN ix.nodes[ix.ext_to_int[id]] ELSE None]

_insert_locked(ix, v) ==
    LET n == Len(ix.nodes) + 1
    IN  IF v.emb = NoEmb THEN ix
        ELSE [ix EXCEPT
                 !.nodes = Append(@, v),
                 !.ext_to_int = [id \in DOMAIN @ \cup {v.id} |-> IF id = v.id THEN n ELSE @[id]],
                 !.bm25 = @ \cup {<<n, v.meta>>}]

UnindexText(ix, slots) == ix.bm25 \ {<<n, ix.nodes[n].meta>> : n \in slots}

\* Mutant: the new text is taken out of the text index instead of the old one.
UpdateInPlace_UnindexesNew(ix, v) ==
    LET n == ix.ext_to_int[v.id]
    IN  [ix EXCEPT
            !.nodes[n].meta = v.meta,
            !.deleted = @ \ {n},
            !.bm25 = (@ \ {<<n, v.meta>>}) \cup {<<n, v.meta>>}]

\* The slot is kept, and so is its place in the graph.
UpdateInPlace(ix, v) ==
    LET n == ix.ext_to_int[v.id]
    IN  [ix EXCEPT
            !.nodes[n].meta = v.meta,
            !.deleted = @ \ {n},
            !.bm25 = UnindexText(ix, {n}) \cup {<<n, v.meta>>}]

\* Mutant: the slot an id leaves is not marked deleted.
Tombstone_Untracked(ix, id) ==
    [ix EXCEPT
        !.bm25 = UnindexText(ix, {ix.ext_to_int[id]}),
        !.ext_to_int = Restrict(@, DOMAIN @ \ {id})]

Tombstone(ix, id) ==
    LET n == ix.ext_to_int[id]
    IN  [ix EXCEPT
            !.deleted = @ \cup {n},
            !.bm25 = UnindexText(ix, {n}),
            !.ext_to_int = Restrict(@, DOMAIN @ \ {id})]

Known(ix, id) == id \in DOMAIN ix.ext_to_int

SamePosition(ix, v) == v.emb \in {NoEmb, ix.nodes[ix.ext_to_int[v.id]].emb}

\* The slots purge_expired tombstones when the vectors with a Meta of `gone` have
\* expired. Their ids keep pointing at them.
Expired(ix, gone) == {n \in Live(ix) : ix.nodes[n].meta \in gone}

Purge(ix, gone) ==
    [ix EXCEPT !.deleted = @ \cup Expired(ix, gone), !.bm25 = UnindexText(ix, Expired(ix, gone))]

Due(ix) ==
    /\ Cardinality(ix.deleted) >= MinTombstones
    /\ Cardinality(ix.deleted) >= Ratio * Cardinality(Live(ix))

\* The vectors inserted one after the other into an empty index.
FromVectors(vs) ==
    [nodes |-> vs,
     ext_to_int |-> [id \in {vs[k].id : k \in DOMAIN vs} |-> CHOOSE k \in DOMAIN vs : vs[k].id = id],
     deleted |-> {},
     bm25 |-> {<<k, vs[k].meta>> : k \in DOMAIN vs}]

\* Mutant: the tombstones are not cleared.
Rebuild_KeepsTombstones(ix) == [FromVectors(LiveVectors(ix)) EXCEPT !.deleted = ix.deleted]

Rebuild(ix) == FromVectors(LiveVectors(ix))

-----------------------------------------------------------------------------
\* The shadow index compacts inline.

MaybeCompactInline(ix) == IF Due(ix) THEN Rebuild(ix) ELSE ix

ReplayUpsert(ix, v) ==
    IF ~Known(ix, v.id) THEN _insert_locked(ix, v)
    ELSE IF SamePosition(ix, v) THEN UpdateInPlace(ix, v)
    ELSE MaybeCompactInline(_insert_locked(Tombstone(ix, v.id), v))

ReplayRemove(ix, id) ==
    IF Known(ix, id) THEN MaybeCompactInline(Tombstone(ix, id)) ELSE ix

ReplayOp(ix, op) ==
    CASE op.kind = "INSERT" -> _insert_locked(ix, op.vec)
      [] op.kind = "UPSERT" -> ReplayUpsert(ix, op.vec)
      [] op.kind = "REMOVE" -> ReplayRemove(ix, op.vec)

_replay(ix, ops) ==
    LET after[k \in 0..Len(ops)] == IF k = 0 THEN ix ELSE ReplayOp(after[k - 1], ops[k])
    IN  after[Len(ops)]

-----------------------------------------------------------------------------
compacting == worker # "none"

\* Mutant: writes made while the last part is replayed are not journalled.
Journalled_CatchingUpOnly(ops) == IF worker = "catching_up" THEN journal \o ops ELSE journal

\* The journal with the operations added that a write makes.
Journalled(ops) == IF compacting THEN journal \o ops ELSE journal

JournalFits(ops) == Len(Journalled(ops)) <= MaxJournal

\* The snapshot is taken under the lock. What the thread builds from it before it
\* looks at the journal, nobody sees.
StartCompaction(ix) ==
    /\ worker' = "catching_up"
    /\ shadow' = Rebuild(ix)
    /\ journal' = <<>>
    /\ round' = 0

\* A write that leaves index ix and may make a compaction due.
MaybeCompact(ix, ops) ==
    \/ /\ compacting \/ ~Due(ix)
       /\ idx' = ix
       /\ journal' = Journalled(ops)
       /\ UNCHANGED <<worker, shadow, round>>
    \/ /\ ~compacting /\ Due(ix)
       /\ idx' = IF Background THEN ix ELSE Rebuild(ix)
       /\ IF Background THEN StartCompaction(ix)
          ELSE UNCHANGED <<journal, worker, shadow, round>>

\* A write that leaves index ix and makes none due.
NoCompact(ix, ops) ==
    /\ idx' = ix
    /\ journal' = Journalled(ops)
    /\ UNCHANGED <<worker, shadow, round>>

Vector == [id : Id, emb : Emb, meta : Meta]

\* insert() is for ids that are not in the index; the callers see to that.
Insert(v) ==
    LET ops == <<[kind |-> "INSERT", vec |-> v]>>
    IN  /\ v.emb # NoEmb /\ ~contains(idx, v.id)
        /\ Len(idx.nodes) < MaxNodes /\ JournalFits(ops)
        /\ NoCompact(_insert_locked(idx, v), ops)
        /\ written' = [written EXCEPT ![v.id] = v]

Upsert(v) ==
    LET ops == <<[kind |-> "UPSERT", vec |-> v]>>
    IN  /\ Len(idx.nodes) < MaxNodes /\ JournalFits(ops)
        /\ \/ ~Known(idx, v.id) /\ NoCompact(_insert_locked(idx, v), ops)
           \/ Known(idx, v.id) /\ SamePosition(idx, v) /\ NoCompact(UpdateInPlace(idx, v), ops)
           \/ /\ Known(idx, v.id) /\ ~SamePosition(idx, v)
              /\ MaybeCompact(_insert_locked(Tombstone(idx, v.id), v), ops)
        /\ written' = [written EXCEPT ![v.id] = IF v.emb = NoEmb THEN Contents(idx')[v.id] ELSE v]

RemoveVector(id) ==
    LET ops == <<[kind |-> "REMOVE", vec |-> id]>>
    IN  /\ Known(idx, id)
        /\ JournalFits(ops)
        /\ MaybeCompact(Tombstone(idx, id), ops)
        /\ written' = [written EXCEPT ![id] = None]

\* purge_expired at a time when the vectors with a Meta of `gone` have expired.
PurgeExpired(gone) ==
    LET slots == InOrder(Expired(idx, gone))
        ops == [k \in DOMAIN slots |-> [kind |-> "REMOVE", vec |-> idx.nodes[slots[k]].id]]
    IN  /\ slots # <<>>
        /\ JournalFits(ops)
        /\ MaybeCompact(Purge(idx, gone), ops)
        /\ written' = [id \in Id |-> IF written[id] # None /\ written[id].meta \in gone
                                     THEN None ELSE written[id]]

-----------------------------------------------------------------------------
CompactAsync ==
    /\ ~compacting /\ idx.deleted # {}
    /\ StartCompaction(idx)
    /\ UNCHANGED <<idx, written>>

\* compact(), once it has the lock. The compaction it waited for may have been
\* followed by another.
Compact ==
    /\ idx.deleted # {}
    /\ idx' = Rebuild(idx)
    /\ UNCHANGED <<journal, worker, shadow, round, written>>

\* The steps of the compaction thread, without what they compute.
CatchUpStep ==
    /\ worker = "catching_up" /\ UNCHANGED worker
    /\ round < CatchUpRounds /\ Len(journal) > FinalReplay
    /\ round' = round + 1

\* Mutant: after the last round, if the journal is still long, the rounds start again.
CaughtUpStep_Again ==
    /\ worker = "catching_up"
    /\ round = CatchUpRounds \/ Len(journal) <= FinalReplay
    /\ IF Len(journal) <= FinalReplay THEN worker' = "swapping" /\ UNCHANGED round
       ELSE worker' = "catching_up" /\ round' = 0

CaughtUpStep ==
    /\ worker = "catching_up" /\ worker' = "swapping"
    /\ round = CatchUpRounds \/ Len(journal) <= FinalReplay
    /\ UNCHANGED round

SwapStep ==
    /\ worker = "swapping" /\ worker' = "none"
    /\ round' = 0

\* One round: the journal is taken over under the lock and replayed without.
CatchUp ==
    /\ CatchUpStep
    /\ journal' = <<>>
    /\ shadow' = _replay(shadow, journal)
    /\ UNCHANGED <<idx, written>>

\* The lock is released between the last look at the journal and the swap.
CaughtUp ==
    /\ CaughtUpStep
    /\ UNCHANGED <<idx, journal, shadow, written>>

\* The thread is done.
EndCompaction ==
    /\ worker' = "none" /\ round' = 0
    /\ journal' = <<>>
    /\ shadow' = EmptyIndex
    /\ UNCHANGED written

Swap ==
    /\ SwapStep /\ EndCompaction
    /\ idx' = _replay(shadow, journal)

\* An exception, at any time before the swap.
CompactionFails ==
    /\ compacting
    /\ EndCompaction
    /\ UNCHANGED idx

-----------------------------------------------------------------------------
Init ==
    /\ idx = EmptyIndex
    /\ journal = <<>>
    /\ worker = "none"
    /\ shadow = EmptyIndex
    /\ round = 0
    /\ written = [id \in Id |-> None]

Write ==
    \/ \E v \in Vector : Insert(v) \/ Upsert(v)
    \/ \E id \in Id : RemoveVector(id)
    \/ \E gone \in SUBSET Expiring : PurgeExpired(gone)

Next ==
    \/ Write
    \/ CompactAsync \/ Compact
    \/ CatchUp \/ CaughtUp \/ Swap \/ CompactionFails

Spec == Init /\ [][Next]_vars

\* The compaction thread is scheduled.
Fairness == WF_<<worker, round>>(CatchUpStep \/ CaughtUpStep \/ SwapStep)

LiveSpec == Spec /\ Fairness
-----------------------------------------------------------------------------
WellFormed(ix) ==
    /\ DOMAIN ix = {"nodes", "ext_to_int", "deleted", "bm25"}
    /\ ix.nodes \in Seq(Vector)
    /\ DOMAIN ix.ext_to_int \subseteq Id
    /\ \A id \in DOMAIN ix.ext_to_int : ix.ext_to_int[id] \in DOMAIN ix.nodes
    /\ ix.deleted \subseteq DOMAIN ix.nodes
    /\ ix.bm25 \subseteq (DOMAIN ix.nodes) \X Meta

TypeOK ==
    /\ WellFormed(idx) /\ WellFormed(shadow)
    /\ journal \in Seq([kind : {"INSERT", "UPSERT"}, vec : Vector] \cup [kind : {"REMOVE"}, vec : Id])
    /\ worker \in {"none", "catching_up", "swapping"}
    /\ round \in 0..CatchUpRounds
    /\ written \in [Id -> Vector \cup {None}]

\* A read sees for every id what was written last: a compaction neither loses a
\* write made while it ran, nor brings back what was removed or purged
\* (durable_collection.hpp, compact: "the logical contents never change").
NoWriteLost == Contents(idx) = written

\* Searches walk the slots, point reads go through ext_to_int_: they see the same,
\* one live slot for an id.
OneSlotPerId ==
    \A n \in Live(idx) : contains(idx, idx.nodes[n].id) /\ idx.ext_to_int[idx.nodes[n].id] = n

\* The two maps of the index are sound and agree.
SlotsSound == TypeOK /\ OneSlotPerId

\* The text index holds exactly the live slots, each with the text it has now
\* (bm25_index.hpp, remove: `text` must be what was indexed for `doc`).
TextIndexExact == idx.bm25 = {<<n, idx.nodes[n].meta>> : n \in Live(idx)}

\* A compaction comes to its end, however busy the writers are
\* (kCompactCatchUpRounds).
CompactionEnds == compacting ~> ~compacting
=============================================================================
