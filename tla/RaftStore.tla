----------------------------- MODULE RaftStore -----------------------------
(***************************************************************************)
(* The log and the snapshot of one Raft node on its disk                   *)
(* (consensus/raft.hpp): records are appended to raft_log and fsynced, the *)
(* file is rewritten when entries are replaced or compacted, raft_snapshot *)
(* is replaced as a whole, and a restart loads what it can read.           *)
(*                                                                         *)
(* The lock of the node is held from the first step of an operation to the *)
(* last; only a crash comes between. Every call may fail, and the process  *)
(* goes on with what the failure left behind.                              *)
(***************************************************************************)
EXTENDS Naturals, Sequences, SequencesExt, FiniteSets

CONSTANTS
    Garbage,        \* a record that was not written completely
    MaxIndex,       \* bound: length of the log
    MaxTermS,       \* bound: terms
    MaxDies,        \* bound: crashes
    MaxAppendErrors,    \* bound: appends that fail, and cannot be undone
    MaxRewriteErrors,   \* bound: rewrites that fail
    MaxReopenErrors     \* bound: files that cannot be opened again after a rewrite

ASSUME StoreAssumption ==
    /\ Garbage \notin [term : Nat, idx : Nat]
    /\ {MaxIndex, MaxTermS, MaxDies, MaxAppendErrors, MaxRewriteErrors, MaxReopenErrors} \subseteq Nat

VARIABLES
    mem,        \* snap_index_ and snap_term_, and log_ behind them (as terms)
    leaderTerm, \* the term of the leader that entries come from
    fixed,      \* commit_index_: entries up to it are not replaced
    logFile,    \* raft_log: records [term, idx]
    snapFile,   \* raft_snapshot: its term and index
    log_fp_,    \* the log file is open
    job,        \* an operation whose snapshot has been written and whose log has not
    must,       \* history: entries that were acknowledged and not replaced since, by index
    diverged,   \* history: raft_log was left with records that raft_snapshot contradicts
    errors      \* crashes and errors so far, by kind

storeVars == <<mem, leaderTerm, fixed, logFile, snapFile, log_fp_, job, must, diverged, errors>>

NoJob == [is |-> "none", contradicts |-> FALSE]

Rec(term, idx) == [term |-> term, idx |-> idx]

LastIdx(m) == m.snap.idx + Len(m.log)

TermAt(m, idx) == IF idx = m.snap.idx THEN m.snap.term ELSE m.log[idx - m.snap.idx]

Records(m) == [k \in DOMAIN m.log |-> Rec(m.log[k], m.snap.idx + k)]

Erred(what) == [errors EXCEPT ![what] = @ + 1]

-----------------------------------------------------------------------------
\* _load: what a restart makes of the two files.

\* Mutant: records the snapshot covers end the log.
Good_StopsAtSnapshot(file, k, snap) == file[k] # Garbage /\ file[k].idx = snap.idx + k

\* The whole records behind the snapshot.
Behind(file, snap) == {k \in DOMAIN file : file[k] # Garbage /\ file[k].idx > snap.idx}

\* The record at k is covered by the snapshot, or continues what is behind it.
Good(file, k, snap) ==
    /\ file[k] # Garbage
    /\ \/ file[k].idx <= snap.idx
       \/ file[k].idx = snap.idx + Cardinality({j \in Behind(file, snap) : j <= k})

\* The file up to the first record that does not; the rest is cut off.
GoodPart(file, snap) ==
    LET bad == {k \in DOMAIN file : ~Good(file, k, snap)}
    IN  IF bad = {} THEN file
        ELSE SubSeq(file, 1, (CHOOSE k \in bad : \A j \in bad : k <= j) - 1)

Loaded_(file, snap) ==
    LET part == GoodPart(file, snap)
        record(idx) == CHOOSE r \in Range(part) : r.idx = idx
    IN  [snap |-> snap, log |-> [k \in 1..Cardinality(Behind(part, snap)) |-> record(snap.idx + k).term]]

-----------------------------------------------------------------------------
\* Appending, at the leader or at a follower.

NewTerm ==
    /\ job = NoJob /\ leaderTerm < MaxTermS
    /\ leaderTerm' = leaderTerm + 1
    /\ UNCHANGED <<mem, fixed, logFile, snapFile, log_fp_, job, must, diverged, errors>>

\* An entry is acknowledged, and what stood behind it is replaced.
Acknowledge(idx) ==
    must' = [i \in {k \in DOMAIN must : k < idx} \cup {idx} |-> IF i = idx THEN leaderTerm ELSE must[i]]

CanAppend == job = NoJob /\ leaderTerm > 0 /\ LastIdx(mem) < MaxIndex

Appended == [mem EXCEPT !.log = Append(@, leaderTerm)]

\* Mutant: records are written when the log is next rewritten.
Written_Later(file, records) == file

\* _persist_entries; without a file nothing is written, and nothing is reported.
Written(file, records) == IF log_fp_ THEN file \o records ELSE file

AppendRecord ==
    /\ CanAppend
    /\ logFile' = Written(logFile, <<Rec(leaderTerm, LastIdx(mem) + 1)>>)
    /\ mem' = Appended
    /\ Acknowledge(LastIdx(mem) + 1)
    /\ UNCHANGED <<leaderTerm, fixed, snapFile, log_fp_, job, diverged, errors>>

\* The append fails and so does the truncation that takes it back: a part stays, and memory has
\* none of it. (If the truncation works, nothing changes.)
AppendLeavesPart ==
    /\ CanAppend /\ log_fp_ /\ errors.append < MaxAppendErrors
    /\ \E part \in {<<Garbage>>, <<Rec(leaderTerm, LastIdx(mem) + 1)>>} : logFile' = logFile \o part
    /\ errors' = Erred("append")
    /\ UNCHANGED <<mem, leaderTerm, fixed, snapFile, log_fp_, job, must, diverged>>

\* _persist_rewrite(m): the file is replaced, and opened again. Three outcomes.
RewriteDone(m) == logFile' = (IF log_fp_ THEN Records(m) ELSE logFile) /\ UNCHANGED <<log_fp_, errors>>

RewriteFails ==
    /\ log_fp_ /\ errors.rewrite < MaxRewriteErrors
    /\ errors' = Erred("rewrite")
    /\ UNCHANGED <<logFile, log_fp_>>

ReopenFails(m) ==
    /\ log_fp_ /\ errors.reopen < MaxReopenErrors
    /\ errors' = Erred("reopen")
    /\ logFile' = Records(m)
    /\ log_fp_' = FALSE

\* A follower replaces entries that conflict with the leader's, above what is committed.
Replaced(k) == [mem EXCEPT !.log = Append(SubSeq(@, 1, k - 1 - mem.snap.idx), leaderTerm)]

ReplaceFrom(k) ==
    /\ job = NoJob /\ k > fixed /\ k > mem.snap.idx /\ k <= LastIdx(mem)
    /\ TermAt(mem, k) < leaderTerm
    /\ \/ RewriteDone(Replaced(k)) /\ mem' = Replaced(k) /\ Acknowledge(k)
       \/ (RewriteFails \/ ReopenFails(Replaced(k))) /\ UNCHANGED <<mem, must>>
    /\ UNCHANGED <<leaderTerm, fixed, snapFile, job, diverged>>

Commit ==
    /\ job = NoJob /\ fixed < LastIdx(mem) /\ fixed' = LastIdx(mem)
    /\ UNCHANGED <<mem, leaderTerm, logFile, snapFile, log_fp_, job, must, diverged, errors>>

-----------------------------------------------------------------------------
\* Snapshots: first raft_snapshot, then the log.

\* _compact
Compacted(idx) == [snap |-> Rec(TermAt(mem, idx), idx),
                   log  |-> SubSeq(mem.log, idx - mem.snap.idx + 1, Len(mem.log))]

CompactBegins(idx) ==
    /\ job = NoJob /\ mem.snap.idx < idx /\ idx <= fixed
    /\ snapFile' = Rec(TermAt(mem, idx), idx)
    /\ job' = [is |-> "snapshot", to |-> Compacted(idx), contradicts |-> FALSE]
    /\ UNCHANGED <<mem, leaderTerm, fixed, logFile, log_fp_, must, diverged, errors>>

\* Mutant: the log behind the snapshot is dropped although it continues it.
KeepsSuffix_Never(snap) == FALSE

\* on_install_snapshot: the log behind the snapshot stays if it continues it.
KeepsSuffix(snap) == snap.idx <= LastIdx(mem) /\ TermAt(mem, snap.idx) = snap.term

Contradicts(snap) == snap.idx < LastIdx(mem) /\ TermAt(mem, snap.idx) # snap.term

\* (A snapshot within what is committed continues the log, and is stored like a compaction there.)
InstallBegins(snap) ==
    /\ job = NoJob /\ fixed < snap.idx /\ snap.term >= TermAt(mem, fixed)
    /\ snapFile' = snap
    /\ job' = [is |-> "snapshot",
               to |-> [snap |-> snap,
                       log  |-> IF KeepsSuffix(snap)
                                THEN SubSeq(mem.log, snap.idx - mem.snap.idx + 1, Len(mem.log)) ELSE <<>>],
               contradicts |-> Contradicts(snap)]
    /\ UNCHANGED <<mem, leaderTerm, fixed, logFile, log_fp_, must, diverged, errors>>

\* Entries behind a snapshot that contradicts them need not stay.
StillMust == [i \in {k \in DOMAIN must : k <= job.to.snap.idx \/ ~job.contradicts} |-> must[i]]

\* The log is rewritten; whether that works or not, the operation is done.
SnapshotEnds ==
    /\ job # NoJob
    /\ mem' = job.to
    /\ \/ RewriteDone(job.to) /\ UNCHANGED diverged
       \/ RewriteFails /\ diverged' = (diverged \/ job.contradicts)
       \/ ReopenFails(job.to) /\ UNCHANGED diverged
    /\ fixed' = IF job.to.snap.idx > fixed THEN job.to.snap.idx ELSE fixed
    /\ must' = StillMust
    /\ job' = NoJob
    /\ UNCHANGED <<leaderTerm, snapFile>>

-----------------------------------------------------------------------------
\* What a crash leaves of an append that was under way.
Remains == {<<>>} \cup (IF CanAppend /\ log_fp_ THEN {<<Garbage>>, <<Rec(leaderTerm, LastIdx(mem) + 1)>>} ELSE {})

\* Mutant: the torn tail stays in the file.
CutOff_Not(file, snap) == file

CutOff(file, snap) == GoodPart(file, snap)

\* A crash and the restart that loads the files and cuts off the torn tail.
DieAndLoad ==
    /\ errors.die < MaxDies
    /\ errors' = Erred("die")
    /\ \E part \in Remains :
          /\ mem' = Loaded_(logFile \o part, snapFile)
          /\ logFile' = CutOff(logFile \o part, snapFile)
    /\ fixed' = snapFile.idx
    /\ log_fp_' = TRUE
    /\ job' = NoJob
    /\ must' = IF job = NoJob THEN must ELSE StillMust
    /\ diverged' = (diverged \/ job.contradicts)
    /\ UNCHANGED <<leaderTerm, snapFile>>

StoreInit ==
    /\ mem = [snap |-> Rec(0, 0), log |-> <<>>]
    /\ leaderTerm = 0 /\ fixed = 0
    /\ logFile = <<>> /\ snapFile = Rec(0, 0) /\ log_fp_ = TRUE
    /\ job = NoJob
    /\ must = <<>> /\ diverged = FALSE
    /\ errors = [die |-> 0, append |-> 0, rewrite |-> 0, reopen |-> 0]

StoreNext ==
    \/ NewTerm \/ AppendRecord \/ AppendLeavesPart \/ Commit
    \/ \E k \in 1..MaxIndex : ReplaceFrom(k) \/ CompactBegins(k)
    \/ \E idx \in 1..MaxIndex, term \in 1..MaxTermS : term <= leaderTerm /\ InstallBegins(Rec(term, idx))
    \/ SnapshotEnds
    \/ DieAndLoad

StoreSpec == StoreInit /\ [][StoreNext]_storeVars

-----------------------------------------------------------------------------
\* Errors after which the file is not what the code takes it for: a part of a record that could not
\* be taken back, a file that was not opened again, and a log that a snapshot contradicts and that
\* was not rewritten.
Spoiled == errors.append > 0 \/ errors.reopen > 0 \/ diverged \/ job.contradicts

OnDisk(idx) ==
    LET l == Loaded_(logFile, snapFile)
    IN  idx <= l.snap.idx \/ (idx <= LastIdx(l) /\ TermAt(l, idx) = must[idx])

\* A crash at any moment costs nothing: a restart loads the log the node has in memory, or the one
\* an interrupted compaction or installation was about to leave, also if the rewrite failed; and
\* every entry that was acknowledged and not replaced by a later leader is in it.
RestartLoadsLog ==
    \/ Spoiled
    \/ /\ Loaded_(logFile, snapFile) = IF job = NoJob THEN mem ELSE job.to
       /\ \A idx \in DOMAIN must : OnDisk(idx)

\* "fsync'ed before any reply that depends on them. A failed write (e.g. disk full) is rolled back and
\* the request refused instead of acknowledged" (raft.hpp:45-47): the same, whatever has failed.
FailedWritesRefused == \A idx \in DOMAIN must : OnDisk(idx)
=============================================================================
