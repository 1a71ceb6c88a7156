---------------------------- MODULE RaftClients ----------------------------
(***************************************************************************)
(* Writes of a clustered server (api/rest_server.hpp): a request thread    *)
(* appends its command to the node's log and waits at its index; the apply *)
(* thread brings committed entries to the collections, records how far it  *)
(* is, and hands the outcome to whoever waits there. Leadership may change *)
(* at any time, a snapshot may take the place of entries, the process may  *)
(* crash.                                                                  *)
(***************************************************************************)
EXTENDS LogView, FiniteSets

CONSTANTS
    Writer,         \* request threads
    MaxCrashes,     \* bound: crashes
    MaxFailures     \* bound: restores that fail

\* Nobody holds the mutex.
NoOne == "no one"

ASSUME RaftClientsAssumption == NoOne \notin Writer /\ {MaxCrashes, MaxFailures} \subseteq Nat

VARIABLES
    request,    \* the request of each thread: stage, number, term, index
    mutex,      \* raft_apply_mu_: the thread that holds it, or NoOne
    waiting,    \* raft_waiting_: per index absent, pending, or an outcome
    contents,   \* the entries the collections reflect, on disk, by index
    recorded,   \* the index in the file "applied"
    reached,    \* last_applied_
    applying,   \* what the apply thread is doing
    answered,   \* history: confirmed requests, each with its outcome's command
    shared,     \* history: indices two threads waited at, at once
    requests,   \* requests so far
    faults      \* crashes and failed restores so far

serverVars == <<request, mutex, waiting, contents, recorded, reached, applying, answered, shared, requests, faults>>
clientVars == <<raftVars, serverVars>>

NoRequest == [stage |-> "none"]

Nothing == [what |-> "nothing", upto |-> 0]

Absent == [is |-> "absent"]
Pending == [is |-> "pending"]

\* An outcome: the term of the applied entry, and (for the properties) its command.
Outcome(e) == [is |-> "outcome", term |-> e.term, cmd |-> e.cmd, indeterminate |-> FALSE]
Indeterminate == [is |-> "outcome", term |-> 0, cmd |-> NoOp, indeterminate |-> TRUE]

\* Some files of the collections are gone.
Broken == <<0>>

-----------------------------------------------------------------------------
\* _write. is_leader() is asked before the mutex is taken.
Arrive(w) ==
    /\ request[w] = NoRequest /\ leading /\ requests < MaxRequests
    /\ requests' = requests + 1
    /\ request' = [request EXCEPT ![w] = [stage |-> "lock", num |-> requests + 1, term |-> 0, idx |-> 0]]
    /\ UNCHANGED <<raftVars, mutex, waiting, contents, recorded, reached, applying, answered, shared, faults>>

\* The mutex, and the term.
LockAndReadTerm(w) ==
    /\ request[w].stage = "lock" /\ mutex = NoOne
    /\ mutex' = w
    /\ request' = [request EXCEPT ![w].stage = "submit", ![w].term = term]
    /\ UNCHANGED <<raftVars, waiting, contents, recorded, reached, applying, answered, shared, requests, faults>>

\* submit() appends ...
Submit(w) ==
    /\ request[w].stage = "submit"
    /\ Submitted(request[w].num)
    /\ request' = [request EXCEPT ![w].stage = "check", ![w].idx = Len(log) + 1]
    /\ UNCHANGED <<mutex, waiting, contents, recorded, reached, applying, answered, shared, requests, faults>>

\* ... or the node does not lead, or cannot persist the entry.
NotSubmitted(w) ==
    /\ request[w].stage = "submit"
    /\ request' = [request EXCEPT ![w] = NoRequest]
    /\ mutex' = NoOne
    /\ UNCHANGED <<raftVars, waiting, contents, recorded, reached, applying, answered, shared, requests, faults>>

\* The entry is of another term than was read: the outcome is unknown.
TermChanged(w) ==
    /\ request[w].stage = "check" /\ term_at(request[w].idx) # request[w].term
    /\ request' = [request EXCEPT ![w] = NoRequest]
    /\ mutex' = NoOne
    /\ UNCHANGED <<raftVars, waiting, contents, recorded, reached, applying, answered, shared, requests, faults>>

\* The request starts to wait, and lets go of the mutex.
Register(w) ==
    /\ request[w].stage = "check" /\ term_at(request[w].idx) = request[w].term
    /\ waiting' = [waiting EXCEPT ![request[w].idx] = Pending]
    /\ request' = [request EXCEPT ![w].stage = "wait"]
    /\ shared' = IF \E v \in Writer : request[v].stage = "wait" /\ request[v].idx = request[w].idx
                 THEN shared \cup {request[w].idx} ELSE shared
    /\ mutex' = NoOne
    /\ UNCHANGED <<raftVars, contents, recorded, reached, applying, answered, requests, faults>>

\* Mutant: any entry that was applied at the index is taken for the request's own.
Confirms_AnyTerm(r, out) == out.is = "outcome" /\ ~out.indeterminate

\* An outcome confirms the request whose entry it is of, by the entry's term.
Confirms(r, out) == out.is = "outcome" /\ ~out.indeterminate /\ out.term = r.term

\* The wait is over, with an outcome or by its time limit; the slot is erased either way.
Answer(w) ==
    /\ request[w].stage = "wait" /\ mutex = NoOne
    /\ LET out == waiting[request[w].idx]
       IN  answered' = IF Confirms(request[w], out)
                       THEN answered \cup {[num |-> request[w].num, idx |-> request[w].idx, cmd |-> out.cmd]}
                       ELSE answered
    /\ waiting' = [waiting EXCEPT ![request[w].idx] = Absent]
    /\ request' = [request EXCEPT ![w] = NoRequest]
    /\ UNCHANGED <<raftVars, mutex, contents, recorded, reached, applying, shared, requests, faults>>

\* A thread that wakes up finds its slot erased by another, and by looking makes it again.
LookAgain(w) ==
    /\ request[w].stage = "wait" /\ mutex = NoOne
    /\ waiting[request[w].idx] = Absent
    /\ waiting' = [waiting EXCEPT ![request[w].idx] = Pending]
    /\ UNCHANGED <<raftVars, request, mutex, contents, recorded, reached, applying, answered, shared, requests, faults>>

-----------------------------------------------------------------------------
\* _apply_loop and its callbacks.

Ready == applying = Nothing /\ reached < commit /\ reached >= snap

PassOver ==
    /\ Ready /\ log[reached + 1].cmd = NoOp
    /\ reached' = reached + 1
    /\ UNCHANGED <<raftVars, request, mutex, waiting, contents, recorded, applying, answered, shared, requests, faults>>

\* Mutant: the index is recorded before the work is done.
Recorded_First(idx, when) == IF when = "begun" THEN idx ELSE recorded

\* What the file says when an entry, or a restore, has begun to change the collections or is done.
Recorded(idx, when) == IF when = "done" THEN idx ELSE recorded

\* _apply_write: the collections change, and are on disk.
ApplyEntry ==
    /\ Ready /\ log[reached + 1].cmd # NoOp
    /\ contents' = Append(contents, reached + 1)
    /\ recorded' = Recorded(reached + 1, "begun")
    /\ applying' = [Nothing EXCEPT !.what = "entry"]
    /\ UNCHANGED <<raftVars, request, mutex, waiting, reached, answered, shared, requests, faults>>

\* Mutant: the mutex is not taken.
MutexFree_Never(m) == TRUE

MutexFree(m) == m = NoOne

\* Under the mutex the index is recorded, and the one who waits gets the outcome.
RecordAndDeliver ==
    /\ applying.what = "entry" /\ MutexFree(mutex)
    /\ recorded' = Recorded(reached + 1, "done")
    /\ waiting' = [waiting EXCEPT ![reached + 1] = IF @ = Absent THEN @ ELSE Outcome(log[reached + 1])]
    /\ reached' = reached + 1
    /\ applying' = Nothing
    /\ UNCHANGED <<raftVars, request, mutex, contents, answered, shared, requests, faults>>

\* A snapshot covers what has not been applied: _raft_restore removes all files ...
RestoreClears ==
    /\ applying = Nothing /\ reached < commit /\ reached < snap
    /\ contents' = Broken
    /\ recorded' = Recorded(snap, "begun")
    /\ applying' = [what |-> "restore", upto |-> snap]
    /\ UNCHANGED <<raftVars, request, mutex, waiting, reached, answered, shared, requests, faults>>

\* Mutant: waiting requests are not told.
Told_NoOne(slots, upto) == slots

\* Requests that wait at an index the snapshot covers cannot know their outcome.
Told(slots, upto) ==
    [i \in DOMAIN slots |-> IF i <= upto /\ slots[i] = Pending THEN Indeterminate ELSE slots[i]]

\* ... writes those of the snapshot, records its index and tells the requests.
RestoreCompletes ==
    /\ applying.what = "restore" /\ MutexFree(mutex)
    /\ contents' = GivenUpTo(applying.upto)
    /\ recorded' = Recorded(applying.upto, "done")
    /\ waiting' = Told(waiting, applying.upto)
    /\ reached' = applying.upto
    /\ applying' = Nothing
    /\ UNCHANGED <<raftVars, request, mutex, answered, shared, requests, faults>>

\* The files cannot be written; the log goes on behind the snapshot.
RestoreFails ==
    /\ applying.what = "restore" /\ faults.failures < MaxFailures
    /\ reached' = applying.upto
    /\ applying' = Nothing
    /\ faults' = [faults EXCEPT !.failures = @ + 1]
    /\ UNCHANGED <<raftVars, request, mutex, waiting, contents, recorded, answered, shared, requests>>

\* The node's own snapshot.
Compact ==
    /\ applying = Nothing /\ reached > snap
    /\ snap' = reached
    /\ UNCHANGED <<leading, term, log, commit, agreed, request, mutex, waiting, contents, recorded, reached,
                   applying, answered, shared, requests, faults>>

\* The process dies and starts again: log, term, collections and recorded index are on disk.
CrashRestart ==
    /\ faults.crashes < MaxCrashes
    /\ faults' = [faults EXCEPT !.crashes = @ + 1]
    /\ leading' = FALSE
    /\ reached' = recorded
    /\ commit' = IF snap > recorded THEN snap ELSE recorded
    /\ applying' = Nothing
    /\ request' = [w \in Writer |-> NoRequest]
    /\ mutex' = NoOne
    /\ waiting' = [i \in 1..MaxLog |-> Absent]
    /\ UNCHANGED <<term, log, snap, agreed, contents, recorded, answered, shared, requests>>

ClientsInit ==
    /\ leading = FALSE /\ term = 0 /\ log = <<>> /\ commit = 0 /\ snap = 0 /\ agreed = 0
    /\ request = [w \in Writer |-> NoRequest]
    /\ mutex = NoOne
    /\ waiting = [i \in 1..MaxLog |-> Absent]
    /\ contents = <<>>
    /\ recorded = 0 /\ reached = 0
    /\ applying = Nothing
    /\ answered = {}
    /\ shared = {}
    /\ requests = 0
    /\ faults = [crashes |-> 0, failures |-> 0]

RaftMoves ==
    /\ \/ Elected \/ Deposed \/ Overwritten \/ Extended \/ Committed \/ LearnCommit
       \/ SnapshotInstalled
    /\ UNCHANGED serverVars

ClientsNext ==
    \/ \E w \in Writer :
          \/ Arrive(w) \/ LockAndReadTerm(w) \/ Submit(w) \/ NotSubmitted(w)
          \/ TermChanged(w) \/ Register(w) \/ Answer(w) \/ LookAgain(w)
    \/ PassOver \/ ApplyEntry \/ RecordAndDeliver
    \/ RestoreClears \/ RestoreCompletes \/ RestoreFails \/ Compact
    \/ RaftMoves
    \/ CrashRestart

ClientsSpec == ClientsInit /\ [][ClientsNext]_clientVars

-----------------------------------------------------------------------------
\* A confirmed request was applied, at its index and for good, and its answer is the outcome of
\* its own command, although leaders change, indices are used again and two threads may wait at one.
ConfirmedIsOwn ==
    \A c \in answered :
        /\ c.cmd = c.num
        /\ c.idx <= agreed
        /\ log[c.idx].cmd = c.num

\* No outcome gets past the request it belongs to: where a request waits for its own entry and the
\* entry has been applied, the outcome is there, unless two threads waited at the index.
OutcomeNotMissed ==
    \A w \in Writer :
        request[w].stage = "wait" /\ reached >= request[w].idx /\ faults.failures = 0 =>
            \/ log[request[w].idx] # Entry(request[w].term, request[w].num)
            \/ waiting[request[w].idx].is = "outcome"
            \/ request[w].idx \in shared

\* Whoever is answered is answered truly: results are matched to requests by index, and neither a
\* foreign entry at the index nor an outcome that comes early confuses them.
OutcomesMatched == ConfirmedIsOwn /\ OutcomeNotMissed

\* Whatever a crash cuts off, the collections hold the entries up to what the file says, in order,
\* and at most one more, which is then applied again at once; or they are half way through a
\* restore, which a restart does again. A restore that failed is the exception: later entries are
\* applied to what is left.
ContentsMatchLog ==
    \/ faults.failures > 0
    \/ contents = Broken /\ recorded < snap
    \/ \E n \in recorded..agreed :
          /\ Ascending(contents) /\ Range(contents) = Given(n)
          /\ Cardinality(Given(n)) <= Cardinality(Given(recorded)) + 1
=============================================================================
