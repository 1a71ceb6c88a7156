---------------------------- MODULE GroupCommit ----------------------------
(***************************************************************************)
(* WalGroupCommit of cluster/ultra_durable_collection.hpp: writers put     *)
(* their writes in a queue and wait, one thread takes them in batches, logs*)
(* a batch, syncs the file once and wakes the writers up.                  *)
(***************************************************************************)
EXTENDS Naturals, Sequences, SequencesExt

CONSTANTS
    Submitter,      \* the threads that write
    MaxBatch,       \* max_batch_size
    MaxSubmits,     \* bound: writes
    MaxStops        \* bound: stops

ASSUME GroupCommitAssumption ==
    MaxBatch \in Nat \ {0} /\ {MaxSubmits, MaxStops} \subseteq Nat

VARIABLES
    pending_,       \* the queue: numbers of writes, each with the promise of its writer
    running_,       \* the flag of that name
    flusher,        \* _flush_loop: stage, batch, the LSNs of the batch, how many are answered
    walFile,        \* the records written; their positions are their LSNs
    synced,         \* how many of them a sync has covered
    promised,       \* the write each writer waits for, 0 for none
    results,        \* history: the LSN each write was answered with, 0 before
    submits,        \* writes so far
    stops           \* stops so far

gcVars == <<pending_, running_, flusher, walFile, synced, promised, results, submits, stops>>

NotStarted == [stage |-> "ended", batch |-> <<>>, lsns |-> <<>>, answers |-> 0]

AtTop == [NotStarted EXCEPT !.stage = "top"]

\* submit_and_wait: into the queue, also before start() and after stop().
SubmitAndWait(w) ==
    /\ promised[w] = 0 /\ submits < MaxSubmits
    /\ submits' = submits + 1
    /\ pending_' = Append(pending_, submits + 1)
    /\ promised' = [promised EXCEPT ![w] = submits + 1]
    /\ UNCHANGED <<running_, flusher, walFile, synced, results, stops>>

\* start(), after the thread of an earlier start has been joined.
StartFlusher ==
    /\ flusher.stage = "ended" /\ ~running_
    /\ running_' = TRUE
    /\ flusher' = AtTop
    /\ UNCHANGED <<pending_, walFile, synced, promised, results, submits, stops>>

\* stop(), up to its join.
Stop ==
    /\ running_ /\ stops < MaxStops
    /\ running_' = FALSE
    /\ stops' = stops + 1
    /\ UNCHANGED <<pending_, flusher, walFile, synced, promised, results, submits>>

\* The loop sees the flag only between two batches.
LoopEnds ==
    /\ flusher.stage = "top" /\ ~running_
    /\ flusher' = NotStarted
    /\ UNCHANGED <<pending_, running_, walFile, synced, promised, results, submits, stops>>

BatchSize == IF Len(pending_) < MaxBatch THEN Len(pending_) ELSE MaxBatch

\* Mutant: the queue is emptied.
Rest_Dropped(queue, n) == <<>>

Rest(queue, n) == SubSeq(queue, n + 1, Len(queue))

\* The flag was seen, and the queue is not empty: a full batch, or all there is.
TakeBatch ==
    /\ flusher.stage = "top" /\ pending_ # <<>>
    /\ flusher' = [AtTop EXCEPT !.stage = "log", !.batch = SubSeq(pending_, 1, BatchSize)]
    /\ pending_' = Rest(pending_, BatchSize)
    /\ UNCHANGED <<running_, walFile, synced, promised, results, submits, stops>>

\* Mutant: writers are woken up before the sync.
AfterLogging_Answer == "answer"

\* Where the loop goes when a batch has been logged.
AfterLogging == "sync"

LogBatch ==
    /\ flusher.stage = "log"
    /\ LET n == Len(flusher.lsns)
       IN  IF n < Len(flusher.batch)
           THEN /\ walFile' = Append(walFile, flusher.batch[n + 1])
                /\ flusher' = [flusher EXCEPT !.lsns = Append(@, Len(walFile) + 1)]
           ELSE /\ flusher' = [flusher EXCEPT !.stage = AfterLogging]
                /\ UNCHANGED walFile
    /\ UNCHANGED <<pending_, running_, synced, promised, results, submits, stops>>

SyncBatch ==
    /\ flusher.stage = "sync"
    /\ synced' = Len(walFile)
    /\ flusher' = [flusher EXCEPT !.stage = "answer"]
    /\ UNCHANGED <<pending_, running_, walFile, promised, results, submits, stops>>

\* set_value for the next write of the batch; its writer returns.
AnswerNext ==
    /\ flusher.stage = "answer"
    /\ LET n == flusher.answers + 1
       IN  IF n <= Len(flusher.batch)
           THEN /\ results' = [results EXCEPT ![flusher.batch[n]] = flusher.lsns[n]]
                /\ promised' = [w \in Submitter |-> IF promised[w] = flusher.batch[n] THEN 0 ELSE promised[w]]
                /\ flusher' = [flusher EXCEPT !.answers = n]
           ELSE flusher' = AtTop /\ UNCHANGED <<results, promised>>
    /\ UNCHANGED <<pending_, running_, walFile, synced, submits, stops>>

GCInit ==
    /\ pending_ = <<>> /\ running_ = FALSE /\ flusher = NotStarted
    /\ walFile = <<>> /\ synced = 0
    /\ promised = [w \in Submitter |-> 0]
    /\ results = [n \in 1..MaxSubmits |-> 0]
    /\ submits = 0 /\ stops = 0

FlusherStep == TakeBatch \/ LogBatch \/ SyncBatch \/ AnswerNext \/ LoopEnds

GCNext == (\E w \in Submitter : SubmitAndWait(w)) \/ StartFlusher \/ Stop \/ FlusherStep

GCSpec == GCInit /\ [][GCNext]_gcVars /\ WF_gcVars(FlusherStep)

-----------------------------------------------------------------------------
\* A writer returns only when its own record is in the file, at the LSN it is told and covered by
\* a sync: a crash after that does not lose it.
AnsweredIsSynced ==
    \A n \in 1..submits : results[n] > 0 => results[n] <= synced /\ walFile[results[n]] = n

\* Writes are logged in the order they were queued in, none twice, and whatever is cut off by a
\* stop is still in the queue.
LoggedInOrder ==
    /\ \A k \in DOMAIN walFile : walFile[k] = k
    /\ Len(walFile) + Len(flusher.batch) - Len(flusher.lsns) + Len(pending_) = submits

\* What the group commit promises: order, and no answer before the sync.
LoggedAndSynced == LoggedInOrder /\ AnsweredIsSynced

\* While the thread runs every writer returns in the end. (After stop() one that is in the queue
\* waits for ever: the loop leaves the queue as it is.)
WritersReturn ==
    \A w \in Submitter : promised[w] > 0 ~> (promised[w] = 0 \/ flusher.stage = "ended")
=============================================================================
