---------------------------- MODULE DriftBridge ----------------------------
(***************************************************************************)
(* The migration of a collection to a new embedding model                  *)
(* (drift/drift_bridge.hpp and its callbacks in api/rest_server.hpp): a    *)
(* thread re-embeds a copy of all vectors into a shadow index, clients'    *)
(* writes are mirrored there while it does so, and in the end the shadow's *)
(* vectors are written back where the collection still has the version     *)
(* that was re-embedded. Clients write, remove and abort all the while.    *)
(*                                                                         *)
(* Two writes of one id always differ in created_at or payload, by which   *)
(* the code compares versions.                                             *)
(***************************************************************************)
EXTENDS Naturals, FiniteSets

CONSTANTS
    Doc,            \* ids of vectors
    Client,         \* request threads
    MaxWrites_      \* bound: writes and removals during the migration

ASSUME DriftAssumption == MaxWrites_ \in Nat

VARIABLES
    live,       \* the collection: version and model of each vector (version 0: none)
    shadow,     \* shadow_index_: the version of each re-embedded vector
    phase_,     \* of the bridge
    inMap,      \* the bridge is the one in drift_states_
    todo,       \* live_vectors not visited: ids with their versions
    swap,       \* _drift_apply_shadow: migrated, and what the collection had
    mirrors,    \* the version each client still has to mirror
    newest,     \* history: the last version a client wrote (0 after a removal)
    missed,     \* history: ids a mirror, a re-embedding or a write-back of which failed or was overtaken
    late,       \* history: ids written or removed after the collection was compared
    aborted,    \* history: aborted before the shadow was taken
    writes      \* writes and removals so far

driftVars == <<live, shadow, phase_, inMap, todo, swap, mirrors, newest, missed, late, aborted, writes>>

NoMirror == [id |-> "none", ver |-> 0]

NoSwap == [stage |-> "none", from |-> [id \in Doc |-> 0], had |-> [id \in Doc |-> 0]]

-----------------------------------------------------------------------------
\* The migration thread.

\* Mutant: the copy replaces a mirrored write.
CopiedOver_Always(mirrored, ver) == ver

\* A live write that was mirrored is newer than the copy and stays.
CopiedOver(mirrored, ver) == IF mirrored = 0 THEN ver ELSE mirrored

\* The next vector of the copy; the thread looks for an abort before each.
MigrateNext ==
    /\ phase_ = "MIGRATING"
    /\ \E v \in todo :
          /\ todo' = todo \ {v}
          /\ shadow' = [shadow EXCEPT ![v.id] = CopiedOver(@, v.ver)]
    /\ UNCHANGED <<live, phase_, inMap, swap, mirrors, newest, missed, late, aborted, writes>>

\* The embedder gives nothing, or something of no use.
SkipNext ==
    /\ phase_ = "MIGRATING"
    /\ \E v \in todo : todo' = todo \ {v} /\ missed' = missed \cup {v.id}
    /\ UNCHANGED <<live, shadow, phase_, inMap, swap, mirrors, newest, late, aborted, writes>>

\* After the last vector nothing is looked at: an abort is overwritten.
StartSwapping ==
    /\ todo = {} /\ phase_ \in {"MIGRATING", "FAILED"} /\ swap.stage = "none"
    /\ phase_' = "SWAPPING"
    /\ swap' = [swap EXCEPT !.stage = "take"]
    /\ UNCHANGED <<live, shadow, inMap, todo, mirrors, newest, missed, late, aborted, writes>>

\* Mutant: an abort is seen by the phase alone.
MayTake_Phase == phase_ # "FAILED"

MayTake == inMap /\ phase_ # "FAILED"

\* take_shadow, under drift_mutex_.
TakeShadow ==
    /\ swap.stage = "take"
    /\ swap' = IF MayTake THEN [swap EXCEPT !.stage = "compare", !.from = shadow]
               ELSE [swap EXCEPT !.stage = "end"]
    /\ shadow' = IF MayTake THEN [id \in Doc |-> 0] ELSE shadow
    /\ UNCHANGED <<live, phase_, inMap, todo, mirrors, newest, missed, late, aborted, writes>>

\* snapshot_vectors
CompareWithLive ==
    /\ swap.stage = "compare"
    /\ swap' = [swap EXCEPT !.stage = "write", !.had = [id \in Doc |-> live[id].ver]]
    /\ late' = {}
    /\ UNCHANGED <<live, shadow, phase_, inMap, todo, mirrors, newest, missed, aborted, writes>>

\* Mutant: every vector of the shadow is written.
Unchanged_Any(id) == swap.from[id] > 0

\* The version that was re-embedded is the one the collection had.
Unchanged(id) == swap.from[id] > 0 /\ swap.had[id] = swap.from[id]

\* col.upsert, one vector after the other.
WriteBack(id) ==
    /\ swap.stage = "write" /\ Unchanged(id)
    /\ live' = [live EXCEPT ![id] = [ver |-> swap.from[id], model |-> "new"]]
    /\ swap' = [swap EXCEPT !.from[id] = 0]
    /\ UNCHANGED <<shadow, phase_, inMap, todo, mirrors, newest, missed, late, aborted, writes>>

\* The upsert throws, as for an embedding of the wrong dimension: it is counted and passed over. (A
\* write that misses its quorum throws too, but the primary has the vector: as WriteBack.)
WriteBackFails(id) ==
    /\ swap.stage = "write" /\ Unchanged(id)
    /\ swap' = [swap EXCEPT !.from[id] = 0]
    /\ missed' = missed \cup {id}
    /\ UNCHANGED <<live, shadow, phase_, inMap, todo, mirrors, newest, late, aborted, writes>>

\* acquire throws, for the collection was dropped: nothing on the thread catches it, so that the
\* server ends, and with it the bridge and whatever clients were about to mirror.
CollectionGone ==
    /\ swap.stage = "compare" /\ \E id \in Doc : swap.from[id] > 0
    /\ live' = [id \in Doc |-> [ver |-> 0, model |-> "old"]]
    /\ newest' = [id \in Doc |-> 0]
    /\ inMap' = FALSE /\ phase_' = "FAILED"
    /\ swap' = [NoSwap EXCEPT !.stage = "done"]
    /\ mirrors' = [c \in Client |-> NoMirror]
    /\ UNCHANGED <<shadow, todo, missed, late, aborted, writes>>

\* The callback returns, whatever failed in it; also an abort in the middle of it is overwritten.
Complete ==
    /\ swap.stage \in {"write", "end"}
    /\ swap.stage = "write" => \A id \in Doc : ~Unchanged(id)
    /\ phase_' = "COMPLETE"
    /\ swap' = [NoSwap EXCEPT !.stage = "done"]
    /\ UNCHANGED <<live, shadow, inMap, todo, mirrors, newest, missed, late, aborted, writes>>

-----------------------------------------------------------------------------
\* The clients.

BeingWritten(id) == \E c \in Client : mirrors[c].id = id

\* An upsert: first the collection ...
UpsertLive(c, id) ==
    /\ mirrors[c] = NoMirror /\ writes < MaxWrites_
    /\ writes' = writes + 1
    /\ live' = [live EXCEPT ![id] = [ver |-> writes + 2, model |-> "old"]]
    /\ mirrors' = [mirrors EXCEPT ![c] = [id |-> id, ver |-> writes + 2]]
    /\ newest' = [newest EXCEPT ![id] = writes + 2]
    /\ missed' = IF BeingWritten(id) THEN missed \cup {id} ELSE missed
    /\ late' = late \cup {id}
    /\ UNCHANGED <<shadow, phase_, inMap, todo, swap, aborted>>

\* ... then the shadow, if the migration goes on: with drift_mutex_, and the embedder asked.
MirrorWrite(c) ==
    /\ mirrors[c] # NoMirror
    /\ LET m == mirrors[c]
       IN  \/ /\ inMap /\ phase_ = "MIGRATING"
              /\ shadow' = [shadow EXCEPT ![m.id] = m.ver]
              /\ UNCHANGED missed
           \/ missed' = missed \cup {m.id} /\ UNCHANGED shadow
    /\ mirrors' = [mirrors EXCEPT ![c] = NoMirror]
    /\ UNCHANGED <<live, phase_, inMap, todo, swap, newest, late, aborted, writes>>

\* A removal is not mirrored.
RemoveLive(id) ==
    /\ live[id].ver > 0 /\ writes < MaxWrites_
    /\ writes' = writes + 1
    /\ live' = [live EXCEPT ![id] = [ver |-> 0, model |-> "old"]]
    /\ newest' = [newest EXCEPT ![id] = 0]
    /\ missed' = IF BeingWritten(id) THEN missed \cup {id} ELSE missed
    /\ late' = late \cup {id}
    /\ UNCHANGED <<shadow, phase_, inMap, todo, swap, mirrors, aborted>>

\* abort(), and out of the map.
Abort ==
    /\ inMap
    /\ inMap' = FALSE
    /\ phase_' = "FAILED"
    /\ aborted' = (swap.stage \in {"none", "take"})
    /\ UNCHANGED <<live, shadow, todo, swap, mirrors, newest, missed, late, writes>>

DriftInit ==
    /\ live = [id \in Doc |-> [ver |-> 1, model |-> "old"]]
    /\ shadow = [id \in Doc |-> 0]
    /\ phase_ = "MIGRATING" /\ inMap = TRUE
    /\ todo = {[id |-> id, ver |-> 1] : id \in Doc}
    /\ swap = NoSwap
    /\ mirrors = [c \in Client |-> NoMirror]
    /\ newest = [id \in Doc |-> 1]
    /\ missed = {} /\ late = {} /\ aborted = FALSE /\ writes = 0

DriftNext ==
    \/ MigrateNext \/ SkipNext \/ StartSwapping \/ TakeShadow \/ CompareWithLive
    \/ CollectionGone \/ Complete
    \/ \E id \in Doc : WriteBack(id) \/ WriteBackFails(id) \/ RemoveLive(id)
    \/ \E c \in Client : (\E id \in Doc : UpsertLive(c, id)) \/ MirrorWrite(c)
    \/ Abort

DriftSpec == DriftInit /\ [][DriftNext]_driftVars

-----------------------------------------------------------------------------
\* The migration brings back no older version and nothing that was removed, as long as nobody
\* writes between the comparison and the write that follows it.
NoRollback == \A id \in Doc : live[id].ver = newest[id] \/ id \in late

\* A migration that ends without an abort leaves no vector with its old embedding, also none that
\* was written while it ran; but for those that came after the copying, could not be embedded or
\* written back, or were written by two clients at once.
AllMigrated ==
    phase_ = "COMPLETE" /\ inMap =>
        \A id \in Doc : live[id].ver > 0 =>
            live[id].model = "new" \/ id \in missed \cup late \/ BeingWritten(id)

\* An abort that comes before the shadow was taken keeps every old embedding.
AbortKeepsOld == aborted => \A id \in Doc : live[id].model = "old"

\* The migration does what it is for, and an abort undoes it.
MigrationSound == NoRollback /\ AllMigrated /\ AbortKeepsOld

\* "anything deleted or rewritten while the migration ran must not be resurrected or rolled back"
\* (rest_server.hpp:526-528).
NothingRolledBack == \A id \in Doc : live[id].ver = newest[id]
=============================================================================
