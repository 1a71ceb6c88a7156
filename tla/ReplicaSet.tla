----------------------------- MODULE ReplicaSet -----------------------------
(***************************************************************************)
(* One shard (cluster/replica_set.hpp): a primary collection, replicas in  *)
(* the same process, and a write-ahead log for each of them, of which only *)
(* the primary's is replayed when the process starts.                      *)
(*                                                                         *)
(* A write holds write_mutex_ from its first step to its last, but readers *)
(* do not take it and a crash does not wait: every record, application and *)
(* replica is a step of its own.                                           *)
(***************************************************************************)
EXTENDS WriteAheadLog, FiniteSets

CONSTANTS
    DocId,             \* vector ids
    Replicas,       \* n_replicas
    Quorums,        \* the values of write_quorum examined
    SegmentSizes,   \* the values of max_segment_bytes examined, in records
    MaxWrites,      \* bound: writes
    MaxRestarts,    \* bound: restarts
    MaxFailovers,   \* bound: failovers
    MaxRefusals,    \* bound: times a replica refuses a write
    MaxFull         \* bound: times the disk runs full

ASSUME ReplicaSetAssumption ==
    /\ {Replicas, MaxWrites, MaxRestarts, MaxFailovers, MaxRefusals, MaxFull} \subseteq Nat
    /\ Quorums \subseteq Nat \ {0}
    /\ SegmentSizes \subseteq Nat \ {0}
    /\ Torn \notin [kind : {"upsert", "remove", "add_edge"}, id : DocId, ver : 1..MaxWrites]

VARIABLES
    quorum,         \* write_quorum
    segmentSize,    \* max_segment_bytes
    running,        \* the process is up and has recovered
    wals,           \* the log in each directory: 0 the primary's, i replica i's
    nodes,          \* primary_ and replicas_: the directories of their logs, primary first
    data,           \* the collection that belongs to each directory
    write,          \* the write under way, or NoWrite
    readable,       \* history: what a reader may find for each id
    copied,         \* history: ids whose newest write met the quorum, in this process
    spent           \* how much of the bounds is used up

rsVars == <<quorum, segmentSize, running, wals, nodes, data, write, readable, copied, spent>>

Dirs == 0..Replicas

\* What a collection has of an id: the number of the write that brought its vector (0: none), and
\* whether there is an edge from it.
NoItem == [ver |-> 0, edge |-> FALSE]

Empty == [id \in DocId |-> NoItem]

NoWrite == [kind |-> "none"]

Record(w) == [kind |-> w.kind, id |-> w.id, ver |-> w.ver]

\* Collection::upsert, remove and add_edge.
Effect(rec, item) ==
    CASE rec.kind = "upsert"   -> [ver |-> rec.ver, edge |-> item.edge]
      [] rec.kind = "remove"   -> NoItem
      [] rec.kind = "add_edge" -> [ver |-> item.ver, edge |-> TRUE]

ApplyRecord(col, rec) == [id \in DocId |-> IF id = rec.id THEN Effect(rec, col[id]) ELSE col[id]]

\* What a collection holds after records, one by one.
ApplyAll(records) ==
    LET after[n \in 0..Len(records)] == IF n = 0 THEN Empty ELSE ApplyRecord(after[n - 1], records[n])
    IN  after[Len(records)]

\* Mutant: deletions are not replayed.
Rebuilt_UpsertsOnly(files) == ApplyAll(SelectSeq(replay(files), LAMBDA r : r.kind # "remove"))

\* recover_primary: what a replay makes of a directory.
Rebuilt(files) == ApplyAll(replay(files))

primary == nodes[1]

Idle == write = NoWrite

Count(what) == [spent EXCEPT ![what] = @ + 1]

-----------------------------------------------------------------------------
\* Writes. at: 0 before the primary's log, 1 before the primary, k + 1 before replica k.

Begin(kind, id) ==
    /\ running /\ Idle /\ spent.writes < MaxWrites
    /\ write' = [kind |-> kind, id |-> id, ver |-> spent.writes + 1, at |-> 0, acked |-> 0]
    /\ readable' = [readable EXCEPT ![id] = @ \cup {Effect(Record(write'), item) : item \in @}]
    /\ copied' = copied \ {id}
    /\ spent' = Count("writes")
    /\ UNCHANGED <<quorum, segmentSize, running, wals, nodes, data>>

\* _write of the primary's log, with the disk well.
LogRecord ==
    /\ running /\ ~Idle /\ write.at = 0
    /\ wals' = [wals EXCEPT ![primary] = _write(@, Record(write), segmentSize)]
    /\ write' = [write EXCEPT !.at = 1]
    /\ UNCHANGED <<quorum, segmentSize, running, nodes, data, readable, copied, spent>>

\* _write with the disk full: nothing checks the stream.
LogRecordFails ==
    /\ running /\ ~Idle /\ write.at = 0
    /\ spent.full < MaxFull
    /\ \E part \in {<<>>, <<Torn>>} : wals' = [wals EXCEPT ![primary] = WriteFails(@, segmentSize, part)]
    /\ write' = [write EXCEPT !.at = 1]
    /\ spent' = Count("full")
    /\ UNCHANGED <<quorum, segmentSize, running, nodes, data, readable, copied>>

ApplyToPrimary ==
    /\ running /\ ~Idle /\ write.at = 1
    /\ data' = [data EXCEPT ![primary] = ApplyRecord(@, Record(write))]
    /\ write' = [write EXCEPT !.at = 2, !.acked = 1]
    /\ UNCHANGED <<quorum, segmentSize, running, wals, nodes, readable, copied, spent>>

\* Mutant: other writes stop at the quorum too.
EnoughAcks_AnyWrite(w) == w.acked > 1 /\ w.acked >= quorum

\* upsert looks no further once the quorum is met, but only after a replica has answered.
EnoughAcks(w) == w.kind = "upsert" /\ w.acked > 1 /\ w.acked >= quorum

MoreReplicas(w) == w.at \in DOMAIN nodes /\ ~EnoughAcks(w)

\* Only upserts are written to a replica's log.
LogsOnReplica(w) == w.kind = "upsert"

ApplyToReplica ==
    /\ running /\ ~Idle /\ write.at >= 2 /\ MoreReplicas(write)
    /\ LET d == nodes[write.at]
       IN  /\ wals' = IF LogsOnReplica(write)
                      THEN [wals EXCEPT ![d] = _write(@, Record(write), segmentSize)] ELSE wals
           /\ data' = [data EXCEPT ![d] = ApplyRecord(@, Record(write))]
    /\ write' = [write EXCEPT !.at = @ + 1, !.acked = @ + 1]
    /\ UNCHANGED <<quorum, segmentSize, running, nodes, readable, copied, spent>>

\* A replica throws, and is passed over. For an upsert that is when its log cannot be opened.
ReplicaRefuses ==
    /\ running /\ ~Idle /\ write.at >= 2 /\ MoreReplicas(write)
    /\ write.kind = "upsert" /\ spent.refusals < MaxRefusals
    /\ write' = [write EXCEPT !.at = @ + 1]
    /\ spent' = Count("refusals")
    /\ UNCHANGED <<quorum, segmentSize, running, wals, nodes, data, readable, copied>>

\* Mutant: the acknowledgements are not compared with the quorum.
Accepted_Always(w) == TRUE

Accepted(w) == w.kind # "upsert" \/ w.acked >= quorum

\* The call returns, or throws because the quorum was not met (the primary keeps the vector).
Finish ==
    /\ running /\ ~Idle /\ write.at >= 2 /\ ~MoreReplicas(write)
    /\ write' = NoWrite
    /\ readable' = IF Accepted(write)
                   THEN [readable EXCEPT ![write.id] = {Effect(Record(write), item) : item \in @}]
                   ELSE readable
    /\ copied' = IF Accepted(write) /\ write.kind = "upsert" THEN copied \cup {write.id} ELSE copied
    /\ UNCHANGED <<quorum, segmentSize, running, wals, nodes, data, spent>>

\* failover_primary: replica 0 takes over with its own log; the old primary is gone.
failover_primary ==
    /\ running /\ Idle /\ Len(nodes) > 1
    /\ spent.failovers < MaxFailovers
    /\ nodes' = Tail(nodes)
    /\ copied' = {}
    /\ spent' = Count("failovers")
    /\ UNCHANGED <<quorum, segmentSize, running, wals, data, write, readable>>

-----------------------------------------------------------------------------
\* Crash and restart. A crash in the middle of a record leaves any part of it on disk; the
\* next process opens what it finds.

FilesLeft ==
    IF ~Idle /\ write.at = 0
    THEN {[d \in Dirs |-> IF d = primary THEN f ELSE wals[d].files] :
             f \in CrashOutcomes(wals[primary], Record(write), segmentSize)}
    ELSE {[d \in Dirs |-> wals[d].files]}

Crash ==
    /\ running /\ spent.restarts < MaxRestarts
    /\ \E files \in FilesLeft : wals' = [d \in Dirs |-> OpenLog(files[d])]
    /\ running' = FALSE
    /\ nodes' = [k \in 1..(Replicas + 1) |-> k - 1]
    /\ data' = [d \in Dirs |-> Empty]
    /\ write' = NoWrite
    /\ copied' = {}
    /\ spent' = Count("restarts")
    /\ UNCHANGED <<quorum, segmentSize, readable>>

\* recover_primary, after the constructor: the replicas start empty.
Restart ==
    /\ ~running
    /\ running' = TRUE
    /\ data' = [data EXCEPT ![0] = Rebuilt(wals[0].files)]
    /\ UNCHANGED <<quorum, segmentSize, wals, nodes, write, readable, copied, spent>>

RSInit ==
    /\ quorum \in Quorums
    /\ segmentSize \in SegmentSizes
    /\ running = TRUE
    /\ wals = [d \in Dirs |-> OpenLog(<<>>)]
    /\ nodes = [k \in 1..(Replicas + 1) |-> k - 1]
    /\ data = [d \in Dirs |-> Empty]
    /\ write = NoWrite
    /\ readable = [id \in DocId |-> {NoItem}]
    /\ copied = {}
    /\ spent = [writes |-> 0, restarts |-> 0, failovers |-> 0, refusals |-> 0, full |-> 0]

RSNext ==
    \/ \E id \in DocId, kind \in {"upsert", "remove", "add_edge"} : Begin(kind, id)
    \/ LogRecord \/ LogRecordFails
    \/ ApplyToPrimary \/ ApplyToReplica \/ ReplicaRefuses
    \/ Finish
    \/ failover_primary
    \/ Crash \/ Restart

RSSpec == RSInit /\ [][RSNext]_rsVars

-----------------------------------------------------------------------------
\* What may be wrong with the primary's directory.

\* A record behind a torn one: the process crashed in the middle of a write, or the disk was
\* full, and the file was appended to again.
Buried(files) ==
    \E s \in DOMAIN files : \E k \in DOMAIN files[s] : files[s][k] = Torn /\ k < Len(files[s])

\* Segments may be replayed in another order than they were written in: once a number has two
\* digits, or when a second process started counting again beside several segments.
OutOfOrder(files) ==
    DOMAIN files # {1} /\ (spent.restarts > 0 \/ \E s \in DOMAIN files : s >= Radix)

Damaged(files) ==
    Buried(files) \/ OutOfOrder(files) \/ spent.full > 0 \/ spent.failovers > 0

\* Whenever the process may crash, what a restart would rebuild is a state a reader may see: every
\* acknowledged write, nothing removed, in order; and so is what the running primary has. The causes
\* in Damaged are all there are.
RecoversAcknowledged ==
    \/ Damaged(wals[0].files)
    \/ \A id \in DocId :
          /\ Rebuilt(wals[0].files)[id] \in readable[id]
          /\ running => data[primary][id] \in readable[id]

\* An acknowledged upsert is on as many collections as the quorum asks for, as long as the
\* process lives and the primary is not replaced: searches, which go round the collections,
\* find it on that many of them.
QuorumHasAcknowledged ==
    \A id \in copied :
        Cardinality({k \in DOMAIN nodes :
                        \E item \in readable[id] : data[nodes[k]][id].ver = item.ver}) >= quorum

\* Between writes no replica has a vector the primary has not: what was removed is found on none.
\* (A failover may promote a replica that missed a write another one has.)
NoGhostOnReplica ==
    running /\ Idle /\ spent.failovers = 0 =>
        \A k \in DOMAIN nodes, id \in DocId :
            /\ data[nodes[k]][id].ver > 0 => data[primary][id].ver > 0
            /\ data[nodes[k]][id].edge => data[primary][id].edge

\* The documentation (docs/operations/durability.md) promises that every change is in the log and
\* replayed, and that a torn record at the tail is discarded: after crashes alone, an acknowledged
\* write is there.
CrashesLoseNothing ==
    running /\ spent.full + spent.failovers = 0 =>
        \A id \in DocId : data[primary][id] \in readable[id]
=============================================================================
