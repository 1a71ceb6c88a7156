# TideVec in TLA+

TideVec is a temporal vector database in C++: collections of vectors with
validity intervals, an approximate-nearest-neighbour index over them, and a
REST server that replicates every write with its own Raft implementation. This
directory holds TLA+ specifications of the parts of it that keep state, the TLC
configurations that check them on small instances, and TLAPS proofs about them.

The reference is the code under `src/`, and within it the headers of
`src/include/tidevec/`, where nearly all of the program is. `PROJECT.json` names
for each definition the lines it translates, for each component how much of it
is modelled, and lists the hazards the properties are aimed at.

## 1. Inventory

How the parts call each other, top down:

```
router_main: MultiRaftRouter --HTTP--> REST server (one per node and group)
REST server: submit --> RaftNode --apply--> CollectionRegistry --> ManagedCollection
                          |  ^                                        |
                     RPC  |  | raft_meta, raft_log, raft_snapshot     v
                     to peers                          TVIndex, BM25, PayloadIndex,
                                                       SegmentStore, DriftBridge
UltraDurableCollection: GroupCommit --> RaftNode, WAL     DurableCollection: WAL
ReplicaSet: N x (Collection + WAL)
```

### Consensus: `consensus/raft.hpp`, `raft_http.hpp`, `fault.hpp`
- *State.* Term, vote (`raft_meta`), log (`raft_log`), latest snapshot and the
  configuration it carries (`raft_snapshot`), role, commit and applied index,
  `next_index`/`match_index` per peer, learners, the timers, the clients' waits.
- *Operations.* `submit`, `wait_committed`, `read_index`, `lease_read`,
  `add_server`, `remove_server`; the handlers `on_request_vote`,
  `on_append_entries`, `on_install_snapshot`; four kinds of threads: election
  timer, one replicator per peer, apply (with compaction).
- *Hard.* All threads share one mutex, which a replicator gives up around an RPC,
  `add_server` while it waits for a learner, and compaction while the machine is
  serialised. Messages are lost, late and reordered; nodes crash; writes fail
  halfway (`fault.hpp` injects exactly these).
- *Correct if.* One leader per term; logs match; committed entries survive;
  every machine applies the same sequence; a snapshot stands for what it
  replaces; one membership change at a time; `raft_meta` never goes back; reads
  are linearizable; a group that can elect a leader does.

### REST server: `api/rest_server.hpp`
- *State.* `raft_waiting_`, the results of writes by log index; the registry; the
  state machine's files and the file `applied` with the index they reflect.
- *Operations.* `_write` (submit, then wait for the result), the apply and restore
  callbacks, snapshots, read paths with a chosen consistency, the write-back of
  a drift migration.
- *Hard.* The result at an index may belong to another leader's entry; a write
  that timed out may still be applied and is then retried; a crash comes
  between an application and the recording of its index.
- *Correct if.* A confirmed write was applied, and its own result is returned; the
  collections hold the entries up to the recorded index.

### Storage: `storage/wal.hpp`, `storage/segment_store.hpp`, `cluster/durable_collection.hpp`, `cluster/ultra_durable_collection.hpp`, `cluster/state_snapshot.hpp`
- *State.* WAL segments with LSNs; a write buffer, segments and the map that
  locates an id in them; vectors and graphs of the shards; the group-commit
  queue.
- *Operations.* append, rotate, replay; put, mark deleted, flush, load; upsert
  with its supersession links, `add_edge`, remove, recover; enqueue, log a batch,
  stop; writes through a Raft group inside the process.
- *Hard.* Torn tails, numbering that restarts, segments replayed by name; a
  vector, its links and their mirrors are separate writes to several shards
  without a lock over them; writes queued when the committer stops; several
  apply threads feed one state machine.
- *Correct if.* After a restart the collection holds what was confirmed, in the
  order it was written; of two versions of a fact the older is superseded by the
  newer; rescoring uses the vector the shard has; nobody is answered before the
  sync.

### Replication without Raft: `cluster/replica_set.hpp`, `cluster/multi_raft_router.hpp`, `cluster/shard_router.hpp`
- *State.* Collections and their WALs, primary first; the placement of hash ranges
  on Raft groups.
- *Operations.* quorum write, failover to the first replica, recovery of the
  primary from its log; routing by hash, broadcast of create and drop, retries
  until a deadline.
- *Hard.* A write stops at its quorum; a replica refuses; a broadcast fails
  halfway; a request is sent again when the fate of its first attempt is
  unknown.
- *Correct if.* An acknowledged write is on as many collections as the quorum
  asks for, and a removal on all; every hash has one owner; what the router
  confirms is stored on the owner and nowhere else.

### Collections: `api/collection_registry.hpp`, `api/managed_collection.hpp`, `core/collection.hpp`, `core/supersession.hpp`, `graph/causal_graph.hpp`, `index/tv_index.hpp`, other `index/*`
- *State.* Names, aliases and the requests that hold a collection; `registry.json`
  and the directories; vectors with validity intervals and supersession edges;
  index slots, tombstones and the operations made while a compaction runs in the
  background.
- *Operations.* create, acquire, drop, replace by a snapshot, load; upsert, remove,
  purge, search; compaction in three phases.
- *Hard.* A collection dropped or replaced under its users; maps, file and
  directories that change one after the other; writes between two phases of a
  compaction.
- *Correct if.* No collection shows the data of an earlier one of its name; names
  lead to the data; a compaction loses no write.

### Drift bridge: `drift/drift_bridge.hpp`, its callbacks in `api/rest_server.hpp`
- *State.* Phase of an embedding migration, the shadow index.
- *Operations.* start, copy and re-embed, mirrored write, swap (compare, write
  back), abort.
- *Hard.* Clients write, remove and abort while the thread copies, compares and
  writes back one vector after the other.
- *Correct if.* Nothing removed or rewritten meanwhile is rolled back; no vector is
  left with its old embedding; an abort keeps all of them.

### The rest
Scoring, filters, hybrid search, quantization, accelerators (floating-point
kernels), Reed-Solomon coding (finite-field arithmetic), JSON, security and
observability (parsing and formatting), backup and health monitor (files and
timers), server mains and SDK clients (wiring). Vendored: `httplib.h`, `json.hpp`.
`PROJECT.json` gives the reason each of them is left out.

## 2. Plan

In the order of what the program can least afford to get wrong.

| Module | Component | State |
|---|---|---|
| `Raft`, `RaftSafety`, `RaftLiveness` | consensus core | done |
| `ReplicatedLog` | what the core promises, abstractly | done |
| `RaftProofs` | types, commit bound, raft_meta; one leader per term, for a fixed membership | done |
| `RaftLogProofs`, `RaftSafetyProofs` | no committed entry is lost, and what follows from it | done |
| `RaftRefinementProofs` | the core implements `ReplicatedLog` | done |
| `TVIndex` | the vector index: slots, tombstones, compaction in the background | done but for waiting on it |
| `RaftStore` | raft_log and raft_snapshot files: failing appends and rewrites, torn tails, load | done |
| `RaftReads` | read index and leases, with a clock | done |
| `LogView`, `RaftClients` | what a client sees of the log; the REST server's waiting map and apply thread | done; `wait_committed` has no caller and is left out |
| `WriteAheadLog`, `ReplicaSet` | the log files, and the collections written with and replayed from them | done but for `recover_replica` and `truncate_before`, which no code calls |
| `CausalGraph`, `DurableCollection` | edges as a pure data type; versions and their links across shards | done |
| `SegmentStore` | the disk-backed vectors next to the shards | done |
| `GroupCommit` | queue, batches, stop; liveness | done |
| `UltraDurable` | one collection fed by all apply threads of a group | done |
| `CollectionRegistry`, `DriftBridge` | lifecycles | done |
| `ShardRouter` | placement, broadcast and retry | done |
| `Places` | places of a container in ascending order, as segment store and vector index walk them | done |
| `CollectionProofs` | theorems about the replica set and its log (quorums, and what a restart rebuilds), and about the durable collection | done |
| `StorageProofs` | theorems about segment store, group commit, Raft's files and the vector index | done |
| `ServicesProofs` | theorems about clustered writes, registry, drift bridge, router, ultra-durable collection and the collections of several nodes | done |
| `RaftReadsProofs` | linearizable reads are never stale | done |
| `ClusterState` | the collections of all nodes, as commands reach them | done |

What is left: the chunks of a snapshot transfer, the linking of versions in a
`Collection` without shards, and theorems about what is only model-checked
(section 9).

`MCStorage`, `MCServices` and `MCBackground` each check several components that do
not interact in one run: a variable `part` chooses which of them runs, the others
stay at their initial state. The states are those of the components side by
side, not their product.

## 3. The consensus model

### `Raft`: state and actions

One server is one `RaftNode`. Because every method holds the mutex, and gives
it up only around an RPC, each stretch between two releases is one action:

| Code | Actions |
|---|---|
| `_election_loop` | `Timeout`, `CheckQuorumFails` |
| `_peer_loop` up to the RPC, `_send_snapshot` | `SendPreVote`, `SendVote`, `SendAppend`, `SendSnapshot` |
| `on_request_vote`, `on_append_entries`, `on_install_snapshot` | `Handle*`, run by `Deliver` or, late, by `DeliverStale` |
| `_peer_loop` after the RPC | `ReceiveHigherTerm`, `ReceivePreVote`, `ReceiveVote`, `ReceiveAppendOk`, `ReceiveAppendConflict`, `ReceiveSnapshotOk` |
| RPC timeout, injected message loss | `AbandonCall` |
| `submit` | `Submit`, `SubmitFails` |
| `add_server`, `remove_server` | `AddServerAtOnce` (the learner is within a batch: the wait tests that before it gives up the mutex), else `AddServerBegin` and then `AddServerFinish` or `AddServerAbandon`; `RemoveServer`, `RemoveLearner` |
| `_apply_loop`, `_maybe_snapshot`, `_compact` | `Apply`, `FinishSnapshot` |
| constructor on existing files | `Restart` |
| `FaultInjector` (`disk_full`) | `DiskFills`, `DiskDrains` |

The helpers keep the code's names: `StepDown`, `BecomeLeader`, `StartElection`,
`AdvanceCommit`, `AppendLocal`, `Reconcile`. What a handler does first, last or not
at all when it returns early is in its verdict (`AppendVerdict`,
`SnapshotVerdict`).

What is abstracted, and why that is sound for the properties:
- A payload is a `CMD` entry: entries of equal index and term come from one
  append of one leader.
- Time. A timer may fire whenever it may be armed; `contact[i]` says that the last
  contact with a leader is younger than the minimum election timeout and may
  expire at any moment. `io_fail_since_` becomes `SubmitFails`.
- Applying an entry, and restoring a snapshot, is one step although the lock is
  released in between: only the apply thread touches the machine and
  `last_applied_`. Serialising a snapshot is *not* one step: a newer snapshot can be
  installed meanwhile, which `FinishSnapshot` checks as the code does.
- A snapshot is sent in one chunk.
- `log` and `snap` are taken to be on disk as in memory: `RaftStore` (section 5) is about
  when that is so. `raft_meta` is separate (`disk`), since `_step_down` lets memory run ahead.
- `disk_full` makes all writes of a node fail until it is cleared.
- A member is paired with the index of the CONFIG entry that added it, since the
  code's configuration is a vector and can name a node twice.
- `elected` and `decided` are history variables: who became leader when, and the
  entries committed by a leader, in order, with the term of that leader.

### `RaftSafety`: properties

`TypeOK`; the guarantees the header of `raft.hpp` lists (`ElectionSafety`,
`LogMatching`, `LeaderCompleteness`); what a commit index may mean (`CommitBound`,
`CommittedAgree`); `SnapshotFaithful`; `CommittedOnMajority`; `MatchInLog`;
`OneChangePending`; the action property `VoteIsFinal`; and
`ImplementsReplicatedLog`: the abstract specification `ReplicatedLog` (one growing
sequence of committed entries, of which each node knows and applies a prefix)
with `chosen` mapped to the committed entries and `known[i]` to the node's log up to
its commit index. Through it a wrong commit on any node, or an application out
of order, is an illegal step and not just a bad state.

`RaftSafety` also states, without a run, what two comments say and the code does
not do: `ReplyAfterPersist` (`_step_down` adopts a term it could not write, and the
reply carries it, `raft.hpp:1006` against 44-47) and `SnapshotHasConfig` (a joined
node that compacts before the first CONFIG entry writes a snapshot with an empty
configuration, 1389 against 226). TLC refutes both when they are given as
invariants. `VoteIsFinal` and `ElectionSafety` hold all the same: no vote rests on
a term that is not on disk, which is what the proof of `VoteFinal` shows.

### `RaftLiveness`

`Raft` on a network that works, for the one liveness question that does not
depend on real time: a round of pre-votes or votes never leaves all nodes
waiting for each other (`NeverStuck`). Fairness, each with its reason in the code:
- `PatientTimeout`, `ContactExpires`: the election thread polls on a timer. Patient:
  a timer outlasts a round of RPCs, which is how the timeouts are chosen
  (150-300 ms against an RPC on a local network); without it two nodes may
  disturb each other for ever, as in every Raft.
- `Call`, `Answering`: one replicator thread per peer, woken on every change; the
  network delivers and the handler answers.
- `DiskDrains`: an operator clears a full disk. Without it a group of two, of which
  the more up-to-date one cannot write, has no leader for ever.
Nothing is assumed of clients, crashes or of the leader's check-quorum.

## 4. The vector index

`TVIndex` is one index. `idx` holds `nodes_`, `ext_to_int_`, `deleted_` and what the
text index has; `shadow` is the index the compaction thread builds. Every public
method is one action, since each holds `mutex_` throughout. The thread holds it
only to take over the journal and to swap:

| Code | Actions |
|---|---|
| `insert`, `upsert`, `remove`, `purge_expired` | `Insert`, `Upsert`, `RemoveVector`, `PurgeExpired`; each ends with `MaybeCompact` where the code calls `_maybe_compact_locked` |
| `compact_async`, `compact` | `CompactAsync`, `Compact` |
| `_run_compaction` | `CatchUp` (one round), `CaughtUp` (the lock is released before the swap), `Swap`, `CompactionFails` |

The snapshot is inserted into the shadow in the step that starts the thread:
nobody sees the shadow until the swap, and the journal is not read before. The
shadow replays the journal with the code of a real index, its own inline
compaction included (`ReplayUpsert`, `ReplayRemove`).

`NoWriteLost` compares what reads find with the history variable `written`, across
every interleaving of writes, rounds and failures. `SlotsSound` says that searches,
which walk slots, and point reads, which go through the id map, agree (one live
slot per id, in the index and in its shadow), together with the types.
`TextIndexExact` is the precondition of `BM25Index::remove`. `CompactionEnds` is
`kCompactCatchUpRounds`: without it a steady stream of writes keeps the thread
replaying. Its fairness is the scheduling of the thread, nothing else: writers
may do as they like. It is stated on the control part of the thread's steps,
which is enabled exactly when the whole step is.

An upsert is given an embedding in the run. One without (`NoEmb`) would bring a
purged vector back in the current graph and do nothing when it is replayed on the
new one, where the id is gone: TLC finds `NoWriteLost` violated then. It is listed as
a hazard, and it is the one case that the theorem about `NoWriteLost` excludes: both
have to be there, upserts without an embedding and vectors that expire.

## 5. Raft's files, reads and clients

### `RaftStore`: what is on disk

One node and its two files. The lock is held from the first step of an operation
to its last, so operations do not interleave; each file operation is a step, each
may fail, and a crash comes between any two. `mem` is what the node believes,
`logFile` the records (`Garbage` for a part of one), `job` the operation that is
under way between replacing `raft_snapshot` and rewriting `raft_log`.

| Code | Actions |
|---|---|
| `_persist_entries`, with its rollback | `AppendRecord`, `AppendLeavesPart` (the truncation fails too) |
| `_persist_rewrite` | three outcomes: done, `RewriteFails`, written but not opened again |
| truncation in `on_append_entries` | a rewrite when entries are replaced |
| `_compact`, `on_install_snapshot` | snapshot file first, then `SnapshotEnds` |
| `_load`, the cut of a torn tail | `DieAndLoad` |

`must` records which entries were acknowledged and not replaced since.
`RestartLoadsLog`: whenever the process dies, `_load` finds the log the node had in
memory or the one an interrupted snapshot was about to leave, and all of `must`.
`Spoiled` names the exceptions: a torn part that could not be taken back, a file
that was not opened again, and finding 2 below (`FailedWritesRefused`).

### `RaftReads`

`read_index` and `lease_read` need a clock, which `Raft` does without. Three nodes
with clocks that run alike; logs are compared by their last entry, an election
collects its votes in one step (the steps are the subject of `Raft`). RPCs may be
answered at any later time. `ReadIndexFresh`: a read that was confirmed by a round
never misses a write committed before it began, restarts and late answers
included. `LeaseFresh` says it of reads under the lease *as long as no node is
restarted*: the lease counts acknowledgements of a follower that, restarted, no
longer knows it heard from a leader (`_leader_recent` is memory) and votes at once
(`raft.hpp:508-511`). TLC finds the stale read when the exception is dropped. The run
checks both as `ReadsFresh`. Proved for all timeouts, terms, entries and rounds.

### `LogView` and `RaftClients`

`LogView` is what one node shows its clients: a log of which the committed part
stays and the rest may be overwritten by a leader elsewhere. It stands for Raft
where its inside does not matter; each of its moves is one that `Raft` has.
`RaftClients` puts the REST server on it:

| Code | Actions |
|---|---|
| `_write` | `Arrive`, `Lock` (asks for leadership *before* taking the mutex, reads the term after), `Submit`, `NotSubmitted`, `TermChanged`, `Register`, `Answer`, `LookAgain` |
| apply thread, apply callback | `PassOver` (no-ops), `ApplyEntry`, `RecordAndDeliver` (under the mutex) |
| restore callback | `RestoreClears`, `RestoreCompletes`, `RestoreFails` |
| process | `Compact`, `CrashRestart` |

Two threads can wait at one index: after a change of leaders the index is used
again while a request of the old term still waits. The outcome carries the term
of the applied entry, and that is what keeps answers apart:
`OutcomesMatched` (a confirmed request's own entry is committed at its index, and the
answer is of that entry; an outcome never comes before its waiter and gets lost).
The exception is `shared`: the first of two threads erases the slot of the second,
which then waits until its time limit. `ContentsMatchLog`: the collections hold the
entries up to `applied` in their order, each once, and at most one more, which the
restart applies again without effect. After a restore that failed halfway the log
goes on over what is left (`failures`): a hazard of the code, at
`raft.hpp:1334`.

### `ClusterState`

What the applied commands do to the collection of each node. A command is the same
everywhere, but the time is not: vectors that an agent remembers expire, near
duplicates of what is visible are not stored, links lead to what is visible,
deletions by filter list what is visible, and every search on a node purges there.

| Code | Actions |
|---|---|
| `_normalise_for_log`, submit | `SubmitCommand` (the leader stamps `created_at`) |
| `DurableCollection::upsert` | `UpsertBegins` (the search for versions), `UpsertEnds` (shard, then links, and their records) |
| `remove`, `remove_where` | `ApplyDelete`, `ApplyDeleteWhere` |
| `search` | `Search` (`purge_expired` leaves graph and log alone) |
| restart, restored snapshot | `RestartOrRestore`: the log of the shard is replayed by the same code, at the time of the replay (`Replayed`); the deletes of one call stand in one record |

`NodesAgree`: nodes that have applied the same commands show the same vectors and
the same newer versions, whoever purged, restarted or got a snapshot. Its
exception `Straddled` is the one thing that tells nodes apart: a vector expired
between two evaluations of a command. Two stronger statements have no run, and TLC
refutes them: `ReplicasIdentical` ("so all replicas execute the same deterministic
sequence of writes", `rest_server.hpp:548-549`), by that exception; and
`SupersededByStored` ("results with a newer version get superseded_by populated",
`supersession.hpp:17-18`): links are planned before the shard turns a near
duplicate away, and made after it, so they lead to a vector that is not there.

## 6. Storage

### `WriteAheadLog` and `ReplicaSet`

`WriteAheadLog` is one directory of segments as a data type: the name of a segment
is the numeral of its first LSN, and names are compared as strings, as
`_list_segments` does; a torn record hides the rest of its segment. `Radix` 3 lets
two-digit names appear after three records. `ReplicaSet` writes through it, with
every record, application and replica as a step, so that readers and a crash come
between any two.

`RecoversAcknowledged`: what a replay would rebuild now is a state a reader may see.
It is *not* true without exceptions, and `Damaged` names all there are: a file that
is appended to behind a torn record (the LSN counter restarts at 0, the same file is
opened again), segments whose names sort in another order than they were written,
a disk that was full (the stream turns bad, and nothing checks it), and a
failover (the new primary's log is not the one that is replayed).
`CrashesLoseNothing` states what `docs/operations/durability.md:5-7` promises after
crashes alone; it has no run, and TLC refutes it through the first two causes.
`QuorumHasAcknowledged` and `NoGhostOnReplica` are about live replicas: an upsert stops
at the quorum, a removal may not.

### `CausalGraph` and `DurableCollection`

`CausalGraph` is a pure data type: edges by source and by target, `remove_node`,
`find_superseding`, and the breadth-first search of `get_neighbours` with its
reference definition `Within`. `DurableCollection` has one graph per shard and
several callers. An upsert searches shard after shard (`PlanShard`), writes the
vector (`WriteShard`), then links it to what the searches found by two edges on two
shards (`NextLink`, `WriteEdge`); `add_edge` writes its edge and, for some types, the
mirror. A caller that crashed stops anywhere. A caller that met an exception
(`CallFails`) stops where one can come from: before the vector is written; after it
(`ReplicaSet::upsert` throws on a missed quorum when the primary has the vector, or the
segment store's `put` throws), so that the vector is there without its links; or at an
edge. A search returns any of a shard's vectors, up to `Candidates`
(`supersession.hpp:44`): it is approximate, and nothing says which.

`VersionsLinked`: when all is quiet, of two versions the older is superseded by the
newer, but for the pairs in `excused`: written at the same time, cut off by a crash or
an exception, or beyond the candidates of the search that should have found the one.
`SupersededByNewer`: never the other way round, and the mirror is never there
without its edge, whatever throws or crashes between the two; `stored` and `removed`
name the exception of ids that were written again or removed after they were linked,
whose links stay. `GraphsConsistent`: both maps agree on every shard.
`NewestNotSuperseded` (`docs/concepts/supersession.md:17`) has no run and is refuted: an
id that is written again with a later time keeps the links that flag it as
superseded. Left out here: edges that users add are CONTRADICTS only, vectors do not
expire (`ClusterState` has that), and a record that stays in a log although its write
threw is the subject of `ReplicaSet`.

### `SegmentStore`

The store beside the shards: `put`, `mark_deleted`, `flush`, `get` and the load at a
start, with the collection's two threads that write a vector to shard and
store, and remove it from store and shard, without a lock over both. A call may throw
between the two halves (`ShardThrows`: the quorum is missed when the primary has the
vector, or the log refuses a removal); `half` has its id until a later put. A flush
writes the file that the clock names (`MayWrite`): mostly a new one, but in one
millisecond with an earlier flush, or after the clock was set back, one that is there,
which is emptied and then shared by two segments; or the file cannot be created. Ids
are cut to 63 bytes in a file (`CutTo`), which shows when it is loaded.

`StoreCoversShards`: until a restart, what a shard has, the store locates, in every
order of two threads, unless its call threw half-way. `RescoresCurrent`: it then has
the shard's version, and not another id's vector. Its exceptions are where the code
goes wrong: two versions of an id in one buffer (`get` searches the buffer from the
front and finds the older), an id that was removed once (`put` does not take it out of
`deleted_`, so a flush skips it and leaves it located "in the buffer"), two threads at one
id, a call that threw half-way, a file that was written again (`Overwritten`; the
module's header promises immutable segment files, `segment_store.hpp:7`), and a load
(by directory order, deletions forgotten). Another id's vector is returned in the
last two only: from a file written again, or for an id that another was cut to.

### `GroupCommit` and `UltraDurable`

`GroupCommit` is `WalGroupCommit`: `SubmitAndWait`, `StartFlusher`, `Stop`, and the four
stages of `_flush_loop`. `LoggedAndSynced`: order, nothing twice, nobody answered
before the sync; proved for all instances. `WritersReturn`: with the thread scheduled
(`WF_gcVars(FlusherStep)`; the loop polls every `max_delay_ms`, so it needs no
notification to go on) every writer returns or the thread has been stopped. A
write that is queued then waits for ever. `UltraDurableCollection` starts the
thread, but none of its writes goes through it: they go through Raft.

`UltraDurable` is one collection fed by the apply threads of all nodes of a group in
the process. `AppliedOnceAndSeen`: the comparison with `applied_index_` under the mutex
lets every entry in once and in order. A confirmed write is in the collection,
except where another leader's entry took its index or its application threw: the
wait is for an index only (`ultra_durable_collection.hpp:454-460`, against the comment
at 240-241).

## 7. Services

### `CollectionRegistry`

The maps, `registry.json` and the directories, which change one after the other
under `lifecycle_mu_`, while requests hold collections by reference count. `Saved`,
`DropBegins`/`DropEnds`, `ReplaceBegins`/`ReplaceEnds` are the steps between which the
mutex of the maps is free. A replacement by a snapshot removes directories, then
`registry.json`, then writes the snapshot's files: it may throw between any two of
these (`ReplaceFails`: the server goes on without collections, over what is on the disk)
or be cut off there by a crash (`CrashInReplace`, with the load that follows), and a
directory may not let itself be removed (`stay`). `RaftClients` has how such a restore is
done again. `OnlyOwnWrites`: a collection never shows the data of an
earlier one of its name; `left` names the directories a failed or interrupted removal
leaves behind, which the next create opens: that of a drop, of a collection that
could not be opened, and of a replacement that failed. `NamesLeadToData`: answered writes are
in the directory of a registered collection, and aliases lead somewhere; the
exceptions are a save that failed, a load that could not open a collection
(the next save then forgets it), and a replacement that failed, until the next one
ends. Left out: the reload after a restore of a backup was rolled back
(`rest_server.hpp`, `_reload_around`), and a `registry.json` that cannot be removed.

### `DriftBridge`

The migration thread visits the vectors it listed (`MigrateNext`, `SkipNext`), clients
write to the collection and mirror to the shadow in two steps, and the swap takes
the shadow (`TakeShadow`), compares with the collection (`CompareWithLive`) and writes
back vector by vector (`WriteBack`); a write-back that throws is counted and passed
over (`WriteBackFails`), and the migration completes all the same. If the collection
is gone by then (`CollectionGone`), nothing catches what `acquire` throws and the
server ends. `MigrationSound` has three parts: nothing is
rolled back, except what was written after the comparison (`late`: `NothingRolledBack`,
the comment at `rest_server.hpp:526-528`, has no run and is refuted by exactly that);
nothing keeps its old embedding, except what was `missed` (written after the
copying ended, overtaken by another client's mirror, not embedded, or not written
back); an abort keeps all. Proved
for all instances.

### `ShardRouter`

A group is one state machine. `Placements` are those `validate` accepts; a range that
ends at the last hash lets the sum wrap, and a placement that overlaps passes
(`Wraps`; `multi_raft_router.hpp:147-164`). An attempt that gets no answer may have been
executed, may be later, or never, and is repeated until the deadline. `RoutedAndStored`
says what an answer is worth: every hash has one owner, a confirmed write is
on its owner alone, a create or drop that is answered with success, or with the
"exists" or "not found" that a repeated attempt gets, holds on all groups. `mixed`
names the exception: a conflicting request that ran at the same time or left an
attempt behind, which may then overwrite a later, confirmed write. Where ranges
overlap, the owner is the first group whose range has the hash (`IsHome`). Proved for
all instances.

## 8. Runs

All constants that only bound a model (`MaxTerm` ...) appear in guards and nowhere
else. `Symmetry` permutes values only where no temporal property with fairness is
checked and no definition tells them apart.

| Run | Question | Bounds, and why they are enough |
|---|---|---|
| `raft_liveness` | nobody waits for everybody, with pre-vote and check-quorum | 2 nodes, each needs the other, 3 terms, a full disk |
| `raft_faults` | votes, full disks and crashes | 3 nodes, 2 terms, 1 crash, 1 full disk: a vote that is lost needs one of each, and the second term holds every race between two candidates. An entry that is lost so needs five nodes: `raft_lost_term` |
| `raft_replication` | diverged logs, commitment of old terms | 3 nodes, 4 terms, each leader's NOOP: an entry of term 1 that term 3 puts on a majority and a leader of term 4 overwrites with the one of term 2 takes four leaders. `OneCandidate` keeps elections apart (`raft_faults` has them overlap), `FewDecided` stops once two entries are committed: what can go wrong here goes wrong before |
| `raft_snapshot` | compaction, installing over a diverged or a longer log | 3 nodes, 2 terms, threshold 1, batches of 2, logs of 2: a snapshot can end inside, at the end of, or beyond a follower's log, and two compactions can overlap an installation |
| `raft_join` | a joining node, snapshots, crashes, a request executed after its sender gave up | 2 nodes of which one joins, 2 terms, threshold 1, 1 crash, 1 late request: it is older than a truncation, a snapshot or a restart of its receiver. What late requests do to larger groups of fixed membership is proved (section 9) |
| `raft_reconfig` | additions and removals across two leaders | 2 members and a third node, 2 terms, 2 changes |
| `background` | a compaction among writes; the group commit | index: 2 ids, 2 embeddings, an expiring payload, 3 slots, a journal of 2. Tombstones become due at 2; a catch-up round takes over 2 operations and leaves 1, so that every round, the final replay and the swap see operations, and the shadow index can compact itself. Group commit: 3 writers, 5 writes, batches of 2, 1 stop: a batch is full, partial, and cut off by the stop |
| `storage` | what is on disk is what was acknowledged | replicas: 1 id, 2 replicas, quorums 1 and 2, segments of 1 or 4 records, 3 writes, one each of restart, failover, refusal and full disk. Collection: 2 shards, 3 vertices of which two share a shard, 2 callers, 2 times, 3 calls, 1 candidate: three versions in every order of times, and two on one shard of which a search finds one. Segments: 3 ids of which one is cut to another, 2 threads (alike), buffer of 2, 3 versions, 1 removal, 1 load: a flush with two records, a second one into the same file, and a load of both. Raft: 3 entries, 2 terms, 1 crash, 1 error of each kind. Cluster: 2 nodes (symmetric), 2 ids stamped 1, 2 or 3 that live for 1 tick from then on, clock from 2 to 3, 3 commands, 1 restart or restore: an upsert, an expiry on either side of a second command, and a purge or replay in between |
| `services` | clients are told the truth | clients: 2 threads, 2 requests, 3 terms, log of 3, 1 crash, 1 failed restore: two leaders can use one index. Reads: 3 nodes, timeouts 2 to 4, clock to 4, 2 terms, 2 sends, 1 restart. Registry: 2 names, 2 requests, 3 collections in turn. Drift: 2 ids, 2 clients, 4 writes. Router: 3 hashes; 1 group, 2 equal ones, or 2 whose ranges overlap; 3 requests, 1 lost attempt. Ultra: 2 nodes, 2 threads, 2 leaders, 3 writes, 1 exception |
| `raft_duplicate_member` | *finding* 1 | 2 nodes, of which one joins; a write before that puts it more than one batch (of 1) behind |
| `raft_store` | *finding* 2 | as in `storage`, with three terms, two crashes and one failing rewrite |
| `raft_lost_term` | *finding* 3 | 5 nodes, 2 terms, 1 full disk, 1 crash, 2 calls; `TwoLeaders` and `LosesTerm` confine the search to what the scenario needs |

`MaxCalls` bounds how many RPCs are outstanding at once, not how many are sent;
with 1, calls interleave with everything but another call, and `raft_join` covers
overlapping ones, one of them late; so does the proof. The deadlock check is off where a single member may have nothing
left to do, and where a bound on calls or crashes ends every behaviour
(`background`, `storage`, `services`).

### Findings

Three places where the code does not do what its comments say, each shown by a run
that expects the violation; details in `PROJECT.json`.
1. Two `add_server` calls for one node add it twice (`raft.hpp:568` against 538), and its
   vote then counts twice: the first waits, for the node is more than a batch behind,
   and the second comes before it goes on.
2. A snapshot is installed over a log that diverges from it and the log file cannot
   be rewritten: the code takes the old file for valid (`raft.hpp:785-787`) and
   acknowledges appends behind it, which the next load drops (against 44-47).
3. A term that cannot be written to `raft_meta` is adopted in memory, which a comment
   calls safe (`raft.hpp:1009-1010`) because votes are persisted. Acknowledgements are
   not: once its disk has room again, the follower stores entries of the term and
   acknowledges them; after a crash it is back in the older term, and a delayed
   request of an older leader makes it drop a committed entry. It takes five nodes:
   of three, the old leader's only follower would be the one that votes the new
   leader in. Met as the step at which the proof of `CommittedOnMajority` fails
   (section 9).

The other divergences met are stated as operators next to the properties that have
them as named exceptions, in sections 3, 5, 6 and 7.

## 9. Proofs

All theorems hold for every value of the constants, bounds and switches included,
under the named assumptions of the modules: for `Raft`, members are servers, finitely
many, `Nil` is no server, and the switches and bounds have their types; for the
others, that bounds are numbers, a batch is not empty, shards are numbered from 0
and every id has one, and a part of a record does not pass for a record (in the code,
its checksum).

- `RaftProofs!TypeCorrect`, `CommitBounded`: `TypeOK` is not inductive. A leader that
  commits appends to `decided` the entries of its log beyond `Len(decided)`, which
  are in its log only if its snapshot does not reach further; and a follower
  adopts a commit index or snapshot from a request. So the bound on all of these
  (`CommitBound`) is carried along: `IInv` is the conjunction of the two, split by the
  variables an action touches. Each action has a lemma; the hard ones are
  `AdvanceCommit`, the merge in `HandleAppend` and the two ways a snapshot replaces a
  log.
- `RaftProofs!VoteFinal`: memory and `raft_meta` may differ, so the invariant is
  `Persisted`: the file is never ahead, agrees on the vote in the same term, and a
  node with a newer term in memory has not voted in it.

- `RaftProofs!SingleLeader`: if no membership change is attempted
  (`MaxChanges = 0`), no two nodes are elected in one term, in a group of any size.
  The argument has two halves. *Static configuration*: no log, snapshot or
  request ever holds a CONFIG entry, so what a node takes for the configuration
  is the initial one (or, on a node that never joined, nothing, which has no
  quorum). *Votes*: a vote is either counted by a candidate or in an answer on its
  way (`Backs`); either way the voter's `raft_meta` records it or is already past its
  term (`BackedByDisk`), so nobody backs two candidates in a term (`OneVote`), and
  each elected node has a quorum that can back nobody else in that term
  (`AllWon`). Every step adds at most one vote (`NewVote`), written before it is
  answered; `MetaGrows` carries the rest through crashes
  and failing disks. Two quorums of the initial configuration share a voter.

- `RaftSafetyProofs`: `LogMatchingHolds`, `LeadersAreComplete`, `CommittedEntriesAgree`,
  `CommittedStaysOnMajority`, `MatchIndexIsStored`, `SnapshotsStayFaithful`. All six
  follow from one inductive invariant, `LogSafe` of `RaftLogProofs`. The state does not
  hold what the argument is about: compaction removes entries, a leader's log is
  gone when the next one overwrites it, and nobody remembers when an entry was
  stored. So `LogSafe` says that three values exist that fit the state: `H[t]`, the log
  of the leader of term `t`; `G[i]`, the whole log of node `i`, of which its snapshot
  and its log are the two parts; and `R`, the records `<<v, k, t>>` of node `v` having
  stored entry `k` of term `t` while in that term. An entry is committed when a quorum
  has such records (`Mark`), and *blocked* for good when a quorum has passed its term
  without one (`Blocked`). The core is `BranchOk`: a leader's log has every entry of an
  earlier leader that is not blocked. It is re-established at an election from
  `CandidateOk`: what a voter stored is in the candidate's log, by the comparison of
  the last entries, or a newer leader's log was stored over it. Requests on their
  way, late ones included, carry pieces of some `H[t]`; `matchIndex` is backed by
  records. Each action has a lemma that names the next values of the three (`Result`).
  Before it was proved, the invariant was checked by TLC with the three as
  variables, on 3.3 million states.

  Two hypotheses. *Fixed membership* (`MaxChanges = 0`), for two quorums are to meet.
  And `NoTermLost`: no step takes a node back to an older term. Without it the
  theorems are false, as finding 3 shows, and it is exactly what is missing:
  `TermsNeverLost` proves it where no write fails (`MaxFaults = 0`) or no node restarts
  (`MaxRestarts = 0`), and `SafeWithoutLostTerms` puts the two together. Crashes,
  late and abandoned requests, compaction and snapshots over diverged logs are all
  included.

- `RaftRefinementProofs!Implements`: `ImplementsReplicatedLog`, under the same
  hypotheses. Initial states map to initial states; a step either leaves what the
  abstract log sees alone, or is one of its steps: a leader's commit is `Choose`, a
  commit index that a follower adopts is `Learn` (`Gains`), an application takes the
  next entries in order (`Applies`), a restart goes back to a known prefix.

- `CollectionProofs!OlderIsLinked`, `NewerSupersedesOlder`, `GraphsStayConsistent`, about
  `DurableCollection`. Nothing but the threads' own order keeps versions linked, so
  the invariant follows the obligation: a shard that a search has passed is in the
  plan with every version it had *and has*, but for those the search left out
  (`PlanComplete`: these, and a version that came later and belongs to an upsert that
  overlapped, are in `excused`); writing the vector turns
  the plan into a debt, and for every pair of versions there is the edge or a call
  that still owes it (`LinkedOrOwed`); a call that throws or dies leaves its debts to
  `excused`. That edges lead from newer to older rests on
  the times an id has or will get, which only shrink until it is written again
  (`TimesOf`, `OneTime`), so that an edge that was sound stays so (`Newer`). The recursive
  functions of the breadth-first search are unrolled for its two levels.

- `CollectionProofs!QuorumKept`, `NoGhosts`, about `ReplicaSet`: while an upsert goes round,
  the collections that acknowledged it have it (`AckedHave`); once it met the quorum
  they keep it (`CopiedHave`); and only a removal that has not come to a replica yet
  leaves that replica something the primary has not (`GhostsRemoved`).

- `CollectionProofs!WritesAreRecovered`, about `ReplicaSet` and `WriteAheadLog`:
  `RecoversAcknowledged`, with the exceptions that `Damaged` names. The log always holds
  what the primary has, or is one record ahead of it, and that record's effect may be
  read already (`Recoverable`); as long as nothing is damaged (`Undamaged`). That rests on
  what a replay computes. Numerals of one digit sort as numbers (`NamesInOrder`), so the
  segments are listed in the order they were begun in (`SegmentsListed`), a set having
  one order only (`OneOrder`). Writes go to the last of them (`Tidy`), so a record
  written is one more at the end of what a replay reads (`WrittenIs`), and its effect one
  more on what was rebuilt (`RebuiltIs`). After a restart the log is still undamaged only
  if it has one segment; a part of a record at its end is not read, and the next record
  would be buried behind it. The recursive functions in this (`Numeral`, `ApplyAll`, the
  flattening of the segments) are shown to have the values they define by least
  counterexamples. `RecoveryInv` was checked by TLC, on 1.3 million states, before it was
  proved.

- `StorageProofs!MapCoversShards`, about `SegmentStore`: until a restart, a vector of the
  shards that is missing from the map is in the hands of a thread, or was left by a call
  that threw between the shard and the store (`MissingIsBusy`), for neither a flush, in
  whatever file, nor a put takes another id out of the map.

- `StorageProofs!StoreIsFresh`, about `SegmentStore`: `RescoresCurrent`. Until a restart, of an
  id that was never removed, written by two threads at once or left by a call that threw,
  the last record in the buffer, or else, unless its file was written again, the record
  the map points to, is the version of the shards (`StoreIsCurrent`): while a thread
  writes it, it is the only one, or the id is in `overlapped` (`AloneOrOverlapped`). What the
  map points to belongs to the id (`Located`) unless the file was written again
  (`Overwritten`, which a later flush never undoes while the map points there), also
  after a load that lists the files in any order, for it takes the last that has the id;
  after a load it may be that of an id that was cut to this one (`OfId`).

- `StorageProofs!RestartFindsLog`, about `RaftStore`: `RestartLoadsLog`. Until an error
  spoils the file for good (`Hurt`), `raft_snapshot` is that of the target - the log in
  memory or the one an operation is about to leave -, `raft_log` has first records
  the snapshot covers, then those of the target's log (`Shows`), and everything acknowledged is
  in the target (`HasEntry`); together `Healthy`. So a rewrite that fails costs nothing: the
  old file shows the compacted log, too (`SuffixShows`, `BeyondShows`), unless the snapshot
  contradicts it. What `_load` makes of such a file, with a torn record behind it or
  not, is the target (`ShownIsLoaded`).

- `StorageProofs!NoWriteIsLost`, `SlotsAlwaysSound`, `TextIndexIsExact`, about `TVIndex`. What
  the compaction thread would swap in, were it to replay the journal now, tracks the
  index that writers change: it is sound, shows no id the index does not, and has
  the same contents where upserts always have an embedding or nothing expires
  (`Tracks`, `UpsertsAreClear`). So what has to be shown of a write is that its journal
  entry, replayed on any such index, keeps up with what the write did, although the
  two indexes differ in slots, tombstones and in what is due for compaction
  (`InsertTracks`, `UpsertTracks`, `RemoveTracks`; a purge, which keeps the ids in the one
  and frees them in the other, is as many removals as vectors expired:
  `RemovesTrack`). A swap and a round of catching up then change nothing that readers see, and a
  failed compaction loses the shadow only. Every operation leaves an index sound
  (`GoodIndex`): the `*Good` lemmas. The replay is a recursive function, of which
  existence and uniqueness are shown by least numbers (`ReplayOneMore`).

- `StorageProofs!CommitsInOrder`, about `GroupCommit`: `LoggedAndSynced`. File, batch and
  queue together hold an unbroken run of write numbers (`walFile[k] = k`, the batch
  and then the queue go on where the file ends), so a record's LSN is its number; the
  LSNs noted for a batch are those of its records; and answers are given only up to
  what the sync covers.

- `ServicesProofs!AnswersAreTrue`, about `RaftClients`: `OutcomesMatched`. Two arguments
  meet. An entry at a request's index with the request's term is the request's own,
  since whatever replaces it has a later term (`OwnEntry`). And the mutex: while a
  request is between `submit` and its wait no outcome is delivered, so that its entry
  has not been passed when it begins to wait (`NotYet`), and its slot is not lost
  while it waits (`Awaited`).

- `ServicesProofs!ContentsAreTheLog`, about `RaftClients`: `ContentsMatchLog`. The invariant
  follows the three states of the apply thread - between entries, inside one, inside a
  restore: the recorded index is never ahead of what the collections hold, and behind
  it by one entry at most, also in the state a crash leaves; a restore that was cut
  off leaves the collections broken until it is done again (`ContentsInv`, `OneMore`).
  That the property can list the entries in the order of their indices rests on a
  least-number argument.

- `ServicesProofs!CollectionsKeepApart`, `NamesLead`, about `CollectionRegistry`: no two
  names stand for one collection, in memory or in `registry.json` (`Distinct`); a
  directory has only the writes of the collection the file gives it (`DirsOwned`); who
  holds a collection holds the registered one, or the operation that took it away
  waits for it (`HoldersKnown`); and the file has all of it unless a save, a load or a
  replacement failed (`FileComplete`, `FileAliasesLead`). What is said of directories and holders
  excepts, as the property does, names whose directory a failed step left behind
  (`left`). A replacement that ends writes the files anew, so `NamesLeadToData` claims
  the data again after any number of failed ones.

- `ServicesProofs!MigrationIsSound`, about `DriftBridge`: `MigrationSound`. The invariant
  follows one id through the stages of the swap: until the shadow is taken the
  collection has only old embeddings written by clients (`OldUntilWritten`), versions
  never run ahead of `newest` and equal it unless the id is `late` (`Versions`), and what
  is still to be migrated is in `todo`, in the shadow, in a client's mirror or in
  `missed` (`Migrating`, `MirrorsCurrent`), where a write-back that failed puts its id. A
  migration of a collection that is gone ends `FAILED`, so that nothing is claimed of it.

- `ServicesProofs!RouterAnswersHold`, about `ShardRouter`: `RoutedAndStored`. The ranges
  `uniform` makes or `validate` accepts leave no hash out, so `owner` is defined and is
  the first group that has the hash (`OwnerIs`); without an overlap it is the only one
  (`TiledOnce`). A vector is with its owner or nowhere (`Placed`). A request that no
  conflicting one came between is the only one under way that touches its vectors
  (`Undisturbed`), and executing it again changes nothing (`ExecuteAgain`); so each group
  that answered has what the request leaves, and keeps it (`WriteHolds`, `DdlHolds`).

- `ServicesProofs!UltraWritesAreSeen`, about `UltraDurable`: `AppliedOnceAndSeen`. The apply
  threads have nothing in common but the index the collection reached. A node that
  passed an entry has seen it applied, or it was a no-op, or threw (`PassedIsApplied`);
  so the next entry that some node applies leaves none out (`Ordered`). That committed
  entries stay rests on the newest leader's log having them (`NewestHasChosen`).

- `RaftReadsProofs!LinearizableReads`, about `RaftReads`: `ReadsFresh`, for three nodes. What
  it rests on is that an election of three needs one of any two nodes. So no term is
  anywhere that a majority has not reached (`TermsPast`): a leader of an older term is
  alone in it (`Deposed`). What is committed was committed in some term `t` by a
  majority that is past `t` and has the entry (`CommittedHolds`), and every entry of a later
  term lies above it. A read under way notes all that is committed, or its node is of
  an older term already, or it was deposed before the round began: and then no
  answer to that round will ever count (`ReadsHold`). For the lease, time: what a leader
  counts on, the peer has heard of (`ContactKept`), and that peer gives no vote before
  the minimum timeout is over; so the lease of a deposed leader has run out
  (`LeaseOver`). Both speak of runs without a restart, as the property does.

- `ServicesProofs!ReplicasShowTheSame`, about `ClusterState`: `NodesAgree`. There is a
  history: the collection after each command on a node where nothing is purged
  (`History`). Every node follows it, but for vectors that have expired and that it has
  purged (`Follows`, `Purged`), and the links a node has planned are those that the
  history has next (`PlannedWell`). A command does the same wherever the same is visible
  (`SameDecisions`, `SameLinks`), and the same is visible whenever it is looked at, unless
  a vector expired in between (`SameTimes`), for what is stored was stamped by an earlier
  command (`Sourced`). The first node that looks at a command extends the history
  (`HistoryLooksFirst`); the others, also those that come to it through a replay, make
  the same of it (`HistoryReplayed`, by a least counterexample again). The history is a
  bound variable of the invariant, so no model needed another variable for it.

Only model-checked: liveness, which the prover cannot express, and the safety of Raft
while the membership changes. For that the argument needs that consecutive
configurations overlap, which rests on `OneChangePending`; and that one speaks of the
commit index, which a restart sets back to the snapshot's, so it has no inductive form
without a history of configurations.

## 10. Not modelled

Within Raft: snapshot chunks, `wait_committed` (it has no caller), the status
calls, HTTP and JSON encoding. REST server: routing of requests, authentication,
metrics, backup routes. Index:
graph links and search (numeric), compressed embeddings, the payload index,
`wait_for_compaction`, a thread that cannot be created. Storage: the bytes of
records and segments, a segment file that was written but cannot be mapped, write
errors of segments that nothing checks, a crash in the middle of one,
`recover_replica` and `truncate_before` (no code calls them),
scores of a search in a sharded collection. Router: searches, finding
the leader of a group. The registry's reload after a restore of a backup was rolled
back. The linking of versions in a `Collection` without shards.

Not at all: the components the inventory calls the rest, and vendored code;
the notes in `PROJECT.json` give the reasons. The vendored headers alone (`json.hpp`,
`httplib.h`) are nearly three quarters of the lines of the headers.
