---------------------------- MODULE ServicesProofs ---------------------------
(***************************************************************************)
(* What stands between the clients and the data, for every number of       *)
(* threads, requests, names and vectors.                                   *)
(*                                                                         *)
(* Requests: an entry at a request's index with the request's term is the  *)
(* request's, since whatever replaces it has a later term (OwnEntry); and  *)
(* while a request is between submit and its wait the mutex keeps outcomes *)
(* from being delivered, so that its entry has not been passed when it     *)
(* begins to wait (NotYet), and its slot is not lost while it waits        *)
(* (Awaited). What the collections hold is followed through the three      *)
(* states of the apply thread (ContentsInv).                               *)
(*                                                                         *)
(* Registry: no two names stand for one collection, in memory or in the    *)
(* file (Distinct); a directory has only the writes of the collection the  *)
(* file gives it (DirsOwned); and who holds a collection holds the one     *)
(* that is registered, or the operation that took it away waits for it     *)
(* (HoldersKnown). Drift bridge: the versions of the collection are        *)
(* followed through the stages of the swap (Versions), and what is still   *)
(* to be migrated the same way (Migrating): every vector is in the shadow  *)
(* with its version, or still to be copied, or on its way in a client, or  *)
(* excused.                                                                *)
(* Router: the owner of a hash is the first group whose range has it       *)
(* (OwnerIs), a vector is with its owner or nowhere (Placed), and what the *)
(* last undisturbed request left stays, since no other request that        *)
(* touches it is under way (Undisturbed, WriteHolds, DdlHolds).            *)
(* Ultra-durable collection: a node that passed an entry has seen it       *)
(* applied or throw, or applied it (PassedIsApplied).                      *)
(* Collections of several nodes: there is a history, the collection after  *)
(* each command on a node where nothing is purged (History), which every   *)
(* node follows but for what it has purged (Follows), and which a replay   *)
(* of its records makes again (HistoryReplayed): a command does the same   *)
(* wherever the same is visible (SameDecisions), and the same is visible   *)
(* at all the times it is looked at unless a vector expired in between     *)
(* (SameTimes).                                                            *)
(***************************************************************************)
EXTENDS RaftClients, CollectionRegistry, DriftBridge, ShardRouter, UltraDurable, ClusterState,
        SequenceTheorems, FiniteSetTheorems, WellFoundedInduction, TLAPS

-----------------------------------------------------------------------------
\* Requests that wait for Raft.

LogEntries == [term : Nat, cmd : Nat]

RaftTypes ==
    /\ leading \in BOOLEAN /\ term \in Nat
    /\ log \in Seq(LogEntries) /\ Len(log) <= MaxLog
    /\ agreed \in Nat /\ agreed <= Len(log)
    /\ commit \in Nat /\ commit <= agreed
    /\ snap \in Nat /\ snap <= agreed
    /\ leading => term > 0

Requests_ == [stage : {"lock", "submit", "check", "wait"}, num : Nat, term : Nat, idx : Nat]

Slots == {Absent, Pending} \cup [is : {"outcome"}, term : Nat, cmd : Nat, indeterminate : BOOLEAN]

ServerTypes ==
    /\ request \in [Writer -> {NoRequest} \cup Requests_]
    /\ waiting \in [1..MaxLog -> Slots]
    /\ applying \in [what : {"nothing", "entry", "restore"}, upto : Nat]
    /\ reached \in Nat /\ reached <= agreed
    /\ recorded \in Nat /\ recorded <= agreed
    /\ applying.what = "entry" => reached < agreed
    /\ applying.what = "restore" => applying.upto <= agreed
    /\ requests \in Nat
    /\ faults \in [crashes : Nat, failures : Nat]
    /\ \A c \in answered : c.idx \in 1..MaxLog

\* What is at the index with the term of the request is the request's, now and later.
OwnEntry(r) ==
    /\ r.idx \in 1..MaxLog
    /\ ~leading \/ r.idx > Len(log) => r.term < term
    /\ r.idx <= Len(log) /\ log[r.idx].term = r.term => log[r.idx].cmd = r.num

Passed(r) == reached >= r.idx /\ faults.failures = 0 /\ log[r.idx] = Entry(r.term, r.num)

NotYet(r) == ~Passed(r)

Awaited(r) ==
    /\ waiting[r.idx] # Absent \/ r.idx \in shared
    /\ Passed(r) => waiting[r.idx].is = "outcome" \/ r.idx \in shared

Has(r) ==
    /\ r.stage # "none" => term > 0 /\ r.num > 0
    /\ r.stage \in {"submit", "check", "wait"} => 0 < r.term /\ r.term <= term
    /\ r.stage \in {"check", "wait"} => OwnEntry(r)
    /\ r.stage = "check" => NotYet(r)
    /\ r.stage = "wait" => Awaited(r)

Holders == \A w \in Writer : request[w].stage \in {"submit", "check"} => mutex = w

Threads == \A w \in Writer : Has(request[w])

\* Where two requests wait at an index it is known to be shared.
Alone ==
    \A w, v \in Writer :
        w # v /\ request[w].stage = "wait" /\ request[v].stage = "wait" /\ request[w].idx = request[v].idx
            => request[w].idx \in shared

OutcomesTrue ==
    \A i \in 1..MaxLog :
        waiting[i].is = "outcome" /\ ~waiting[i].indeterminate =>
            i <= agreed /\ waiting[i].term = log[i].term /\ waiting[i].cmd = log[i].cmd

ClientsInv ==
    RaftTypes /\ ServerTypes /\ Holders /\ Threads /\ Alone /\ OutcomesTrue /\ ConfirmedIsOwn

LEMMA ClientsInitially == ClientsInit => ClientsInv
<1>. SUFFICES ASSUME ClientsInit PROVE ClientsInv
  OBVIOUS
<1>1. \A w \in Writer : request[w] = NoRequest
  BY DEF ClientsInit
<1>2. RaftTypes
  <2>1. <<>> \in Seq(LogEntries) /\ Len(<<>>) = 0
    OBVIOUS
  <2>2. leading = FALSE /\ term = 0 /\ log = <<>> /\ commit = 0 /\ snap = 0 /\ agreed = 0
    BY DEF ClientsInit
  <2>3. leading \in BOOLEAN /\ ~leading /\ MaxLog \in Nat
    BY <2>2, LogViewAssumption
  <2>. QED
    BY <2>1, <2>2, <2>3 DEF RaftTypes
<1>3. ServerTypes
  BY DEF ClientsInit, ServerTypes, Nothing, Slots
<1>4. \A i \in 1..MaxLog : waiting[i] = Absent
  BY DEF ClientsInit
<1>5. Holders /\ Threads /\ Alone
  BY <1>1 DEF Holders, Threads, Alone, Has, NoRequest
<1>6. OutcomesTrue
  BY <1>4 DEF OutcomesTrue, Absent
<1>7. ConfirmedIsOwn
  BY DEF ClientsInit, ConfirmedIsOwn
<1>. QED
  BY <1>2, <1>3, <1>5, <1>6, <1>7 DEF ClientsInv

-----------------------------------------------------------------------------
\* The requests after a step, one at a time.
LEMMA ThreadsNext ==
    ASSUME \A v \in Writer : \A u : u = request'[v] => Has(u)'
    PROVE  Threads'
<1>. SUFFICES ASSUME NEW v \in Writer PROVE Has(request[v])'
  BY DEF Threads
<1>1. PICK u : u = request'[v]
  OBVIOUS
<1>2. Has(u)'
  BY <1>1
<1>. QED
  BY <1>1, <1>2 DEF Has, OwnEntry, NotYet, Awaited, Passed

\* Nobody else begins to wait.
LEMMA AloneNext ==
    ASSUME Alone, \A v \in Writer : request'[v] = request[v] \/ request'[v].stage # "wait", shared' = shared
    PROVE  Alone'
<1>. SUFFICES ASSUME NEW w \in Writer, NEW v \in Writer, w # v, request'[w].stage = "wait",
                    request'[v].stage = "wait", request'[w].idx = request'[v].idx
             PROVE  request'[w].idx \in shared'
  BY DEF Alone
<1>1. request'[w] = request[w] /\ request'[v] = request[v]
  OBVIOUS
<1>. QED
  BY <1>1 DEF Alone

\* No request is none.
LEMMA NoneHas == Has(NoRequest)'
  BY DEF Has, NoRequest

\* What a step of the server leaves of a request that waits or is about to.
LEMMA KeepsRequest ==
    ASSUME NEW r, Has(r), UNCHANGED <<term, leading, log>>, shared \subseteq shared',
           r.stage = "check" => ~Passed(r)',
           r.stage = "wait" => Awaited(r)'
    PROVE  Has(r)'
  BY DEF Has, OwnEntry, NotYet

\* Nothing that the request rests on changes.
LEMMA KeepsOther ==
    ASSUME NEW r, Has(r), UNCHANGED <<term, leading, log, reached, faults, waiting, shared>>
    PROVE  Has(r)'
<1>1. Passed(r)' = Passed(r) /\ Awaited(r)' = Awaited(r)
  BY DEF Passed, Awaited
<1>. QED
  BY <1>1, KeepsRequest DEF Has, NotYet

\* Steps that change one request and the mutex.

LEMMA KeptByArrive == ASSUME ClientsInv, NEW w \in Writer, Arrive(w) PROVE ClientsInv'
<1>. USE DEF ClientsInv
<1>. DEFINE r == [stage |-> "lock", num |-> requests + 1, term |-> 0, idx |-> 0]
<1>1. /\ leading /\ requests' = requests + 1
      /\ request' = [request EXCEPT ![w] = r]
      /\ UNCHANGED <<raftVars, mutex, waiting, contents, recorded, reached, applying, answered, shared, faults>>
  BY DEF Arrive
<1>2. r \in Requests_ /\ r.stage = "lock" /\ r.num > 0
  BY DEF ServerTypes, Requests_
<1>. HIDE DEF r
<1>3. request'[w] = r /\ \A v \in Writer \ {w} : request'[v] = request[v]
  BY <1>1 DEF ServerTypes
<1>4. (RaftTypes /\ ServerTypes)'
  BY <1>1, <1>2 DEF RaftTypes, ServerTypes, raftVars
<1>5. (Holders /\ Alone /\ OutcomesTrue /\ ConfirmedIsOwn)'
  BY <1>1, <1>2, <1>3 DEF Holders, Alone, OutcomesTrue, ConfirmedIsOwn, raftVars
<1>6. Threads'
  <2>. SUFFICES ASSUME NEW v \in Writer, NEW u, u = request'[v] PROVE Has(u)'
    BY ThreadsNext
  <2>1. CASE v = w
    BY <1>1, <1>2, <1>3, <2>1 DEF Has, RaftTypes, raftVars
  <2>2. CASE v # w
    BY <1>1, <1>3, <2>2, KeepsOther DEF Threads, raftVars
  <2>. QED
    BY <2>1, <2>2
<1>. QED
  BY <1>4, <1>5, <1>6

LEMMA KeptByLock == ASSUME ClientsInv, NEW w \in Writer, LockAndReadTerm(w) PROVE ClientsInv'
<1>. USE DEF ClientsInv
<1>. DEFINE r == [request[w] EXCEPT !.stage = "submit", !.term = term]
<1>1. /\ request[w].stage = "lock" /\ mutex = NoOne /\ mutex' = w
      /\ request' = [request EXCEPT ![w].stage = "submit", ![w].term = term]
      /\ UNCHANGED <<raftVars, waiting, contents, recorded, reached, applying, answered, shared, requests, faults>>
  BY DEF LockAndReadTerm
<1>2. request[w] \in Requests_
  BY <1>1 DEF ServerTypes, NoRequest
<1>3. r \in Requests_ /\ r.stage = "submit" /\ r.num = request[w].num /\ r.term = term
  BY <1>2 DEF Requests_, RaftTypes
<1>4. request' = [request EXCEPT ![w] = r]
  BY <1>1
<1>. HIDE DEF r
<1>5. request'[w] = r /\ \A v \in Writer \ {w} : request'[v] = request[v]
  BY <1>4 DEF ServerTypes
<1>6. (RaftTypes /\ ServerTypes)'
  BY <1>1, <1>3, <1>4 DEF RaftTypes, ServerTypes, raftVars
<1>7. Holders'
  BY <1>1, <1>5, RaftClientsAssumption DEF Holders
<1>8. Alone'
  BY <1>1, <1>3, <1>5, AloneNext
<1>10. (OutcomesTrue /\ ConfirmedIsOwn)'
  BY <1>1 DEF OutcomesTrue, ConfirmedIsOwn, raftVars
<1>9. Threads'
  <2>. SUFFICES ASSUME NEW v \in Writer, NEW u, u = request'[v] PROVE Has(u)'
    BY ThreadsNext
  <2>1. CASE v = w
    BY <1>1, <1>3, <1>5, <2>1 DEF Threads, Has, RaftTypes, raftVars
  <2>2. CASE v # w
    BY <1>1, <1>5, <2>2, KeepsOther DEF Threads, raftVars
  <2>. QED
    BY <2>1, <2>2
<1>. QED
  BY <1>6, <1>7, <1>8, <1>9, <1>10

\* A request that ends without an answer and lets go of the mutex.
LEMMA KeptByEnd ==
    ASSUME ClientsInv, NEW w \in Writer, request[w].stage \in {"submit", "check"},
           request' = [request EXCEPT ![w] = NoRequest], mutex' = NoOne,
           UNCHANGED <<raftVars, waiting, contents, recorded, reached, applying, answered, shared, requests, faults>>
    PROVE  ClientsInv'
<1>. USE DEF ClientsInv
<1>1. request'[w] = NoRequest /\ \A v \in Writer \ {w} : request'[v] = request[v]
  BY DEF ServerTypes
<1>2. \A v \in Writer : request'[v].stage \notin {"submit", "check"}
  BY <1>1 DEF Holders, NoRequest
<1>3. (RaftTypes /\ ServerTypes)'
  BY DEF RaftTypes, ServerTypes, raftVars
<1>4. (Holders /\ Alone /\ OutcomesTrue /\ ConfirmedIsOwn)'
  BY <1>1, <1>2 DEF Holders, Alone, OutcomesTrue, ConfirmedIsOwn, raftVars, NoRequest
<1>5. Threads'
  <2>. SUFFICES ASSUME NEW v \in Writer, NEW u, u = request'[v] PROVE Has(u)'
    BY ThreadsNext
  <2>1. CASE v = w
    BY <1>1, <2>1, NoneHas
  <2>2. CASE v # w
    BY <1>1, <2>2, KeepsOther DEF Threads, raftVars
  <2>. QED
    BY <2>1, <2>2
<1>. QED
  BY <1>3, <1>4, <1>5

LEMMA KeptByNotSubmitted == ASSUME ClientsInv, NEW w \in Writer, NotSubmitted(w) PROVE ClientsInv'
  BY KeptByEnd DEF NotSubmitted

LEMMA KeptByTermChanged == ASSUME ClientsInv, NEW w \in Writer, TermChanged(w) PROVE ClientsInv'
  BY KeptByEnd DEF TermChanged

-----------------------------------------------------------------------------
\* What a step of Raft does to the log of the node, as far as the server is concerned: the
\* committed part stays, and a node that leads replaces nothing.
LogMoves ==
    /\ agreed <= agreed' /\ term <= term'
    /\ leading /\ ~leading' => term < term'
    /\ \A k \in 1..agreed : k <= Len(log) /\ k <= Len(log') /\ log'[k] = log[k]
    /\ \A k \in 1..Len(log') :
          \/ k <= Len(log) /\ log'[k] = log[k]
          \/ log'[k].term = term' /\ (leading /\ term' = term => k > Len(log))
    /\ Len(log') < Len(log) => ~leading

\* Requests keep what they have when Raft moves.
LEMMA MovesKeepRequest ==
    ASSUME RaftTypes, RaftTypes', ServerTypes, LogMoves, NEW r \in Requests_, Has(r),
           UNCHANGED <<waiting, reached, shared, faults>>
    PROVE  Has(r)'
<1>1. r.term \in Nat /\ r.idx \in Nat /\ term \in Nat /\ term' \in Nat /\ Len(log) \in Nat /\ Len(log') \in Nat
  BY DEF RaftTypes, Requests_
<1>2. r.stage \in {"check", "wait"} => OwnEntry(r)'
  <2>. SUFFICES ASSUME r.stage \in {"check", "wait"} PROVE OwnEntry(r)'
    OBVIOUS
  <2>1. OwnEntry(r) /\ r.term <= term
    BY DEF Has
  <2>2. ~leading' \/ r.idx > Len(log') => r.term < term'
    BY <1>1, <2>1 DEF OwnEntry, LogMoves
  <2>3. ASSUME r.idx <= Len(log'), log'[r.idx].term = r.term PROVE log'[r.idx].cmd = r.num
    <3>1. r.idx \in 1..Len(log')
      BY <1>1, <2>1, <2>3 DEF OwnEntry
    <3>2. CASE r.idx <= Len(log) /\ log'[r.idx] = log[r.idx]
      BY <2>1, <2>3, <3>2 DEF OwnEntry
    <3>3. CASE log'[r.idx].term = term' /\ (leading /\ term' = term => r.idx > Len(log))
      BY <1>1, <2>1, <2>3, <3>3 DEF OwnEntry, LogMoves
    <3>. QED
      BY <3>1, <3>2, <3>3 DEF LogMoves
  <2>. QED
    BY <2>1, <2>2, <2>3 DEF OwnEntry
<1>3. r.stage \in {"check", "wait"} => (Passed(r)' => Passed(r))
  <2>. SUFFICES ASSUME r.stage \in {"check", "wait"}, Passed(r)' PROVE Passed(r)
    OBVIOUS
  <2>1. r.idx \in 1..agreed /\ reached >= r.idx /\ faults.failures = 0 /\ log'[r.idx] = Entry(r.term, r.num)
    BY SMTT(30), <1>1 DEF Has, OwnEntry, Passed, ServerTypes, RaftTypes
  <2>. QED
    BY <2>1 DEF Passed, LogMoves
<1>. QED
  BY <1>1, <1>2, <1>3 DEF Has, NotYet, Awaited, LogMoves

LEMMA MovesKeepRest ==
    ASSUME RaftTypes, RaftTypes', ServerTypes, OutcomesTrue, ConfirmedIsOwn, LogMoves,
           UNCHANGED <<waiting, answered>>
    PROVE  OutcomesTrue' /\ ConfirmedIsOwn'
<1>1. OutcomesTrue'
  <2>. SUFFICES ASSUME NEW i \in 1..MaxLog, waiting[i].is = "outcome", ~waiting[i].indeterminate
               PROVE  i <= agreed' /\ waiting[i].term = log'[i].term /\ waiting[i].cmd = log'[i].cmd
    BY DEF OutcomesTrue
  <2>1. i <= agreed /\ waiting[i].term = log[i].term /\ waiting[i].cmd = log[i].cmd
    BY DEF OutcomesTrue
  <2>2. agreed \in Nat /\ agreed' \in Nat /\ agreed <= agreed' /\ log'[i] = log[i]
    BY <2>1 DEF LogMoves, RaftTypes
  <2>. QED
    BY <2>1, <2>2
<1>2. ASSUME NEW c \in answered PROVE c.cmd = c.num /\ c.idx <= agreed' /\ log'[c.idx].cmd = c.num
  <2>1. c.cmd = c.num /\ c.idx <= agreed /\ log[c.idx].cmd = c.num /\ c.idx \in 1..MaxLog
    BY DEF ConfirmedIsOwn, ServerTypes
  <2>2. agreed \in Nat /\ agreed' \in Nat /\ agreed <= agreed' /\ log'[c.idx] = log[c.idx]
    BY <2>1 DEF LogMoves, RaftTypes
  <2>. QED
    BY <2>1, <2>2
<1>3. ConfirmedIsOwn'
  BY <1>2 DEF ConfirmedIsOwn
<1>. QED
  BY <1>1, <1>3

\* Requests and slots as they were, and the log moved.
LEMMA KeptByMoves ==
    ASSUME ClientsInv, RaftTypes', LogMoves, UNCHANGED serverVars
    PROVE  ClientsInv'
<1>. USE DEF ClientsInv
<1>1. ServerTypes' /\ UNCHANGED request
  BY DEF ServerTypes, serverVars, LogMoves, RaftTypes
<1>2. (Holders /\ Alone)'
  BY DEF Holders, Alone, serverVars
<1>3. (OutcomesTrue /\ ConfirmedIsOwn)'
  BY MovesKeepRest DEF serverVars
<1>4. Threads'
  <2>. SUFFICES ASSUME NEW v \in Writer, NEW u, u = request'[v] PROVE Has(u)'
    BY ThreadsNext
  <2>1. CASE u = NoRequest
    BY <2>1, NoneHas
  <2>2. CASE u \in Requests_
    <3>1. Has(u) /\ UNCHANGED <<waiting, shared, faults, reached>>
      BY DEF Threads, serverVars
    <3>. QED
      BY <2>2, <3>1, MovesKeepRequest
  <2>. QED
    BY <1>1, <2>1, <2>2 DEF ServerTypes
<1>. QED
  BY <1>1, <1>2, <1>3, <1>4

\* The log with one more entry.
LEMMA Appended ==
    ASSUME RaftTypes, NEW e \in LogEntries, log' = Append(log, e), Len(log) < MaxLog
    PROVE  /\ log' \in Seq(LogEntries) /\ Len(log') = Len(log) + 1 /\ Len(log') <= MaxLog
           /\ \A k \in 1..Len(log) : log'[k] = log[k]
           /\ log'[Len(log) + 1] = e
  BY LogViewAssumption DEF RaftTypes

\* A log in which another leader replaced the end.
LEMMA Replaced ==
    ASSUME RaftTypes, term > 0, NEW l \in Overwrites
    PROVE  /\ l \in Seq(LogEntries) /\ Len(l) > agreed
           /\ \A k \in 1..Len(l) : (k <= Len(log) /\ l[k] = log[k]) \/ l[k].term = term
           /\ \A k \in 1..agreed : l[k] = log[k]
<1>1. PICK k \in agreed..Len(log), cmd \in {NoOp, Other} : l = SubSeq(log, 1, k) \o <<Entry(term, cmd)>>
  BY DEF Overwrites
<1>2. log \in Seq(LogEntries) /\ term \in Nat /\ agreed \in Nat /\ k \in Nat /\ k <= Len(log) /\ agreed <= k
  BY <1>1 DEF RaftTypes
<1>3. Entry(term, cmd) \in LogEntries /\ Entry(term, cmd).term = term
  BY <1>2, LogViewAssumption DEF Entry, LogEntries, NoOp, Other
<1>. DEFINE s == SubSeq(log, 1, k)
            e == Entry(term, cmd)
<1>4. s \in Seq(LogEntries) /\ Len(s) = k /\ \A m \in 1..k : s[m] = log[m]
  BY <1>2
<1>. HIDE DEF s, e
<1>5. l = s \o <<e>> /\ e \in LogEntries /\ e.term = term
  BY <1>1, <1>3 DEF s, e
<1>6. l \in Seq(LogEntries) /\ Len(l) = k + 1 /\ (\A m \in 1..k : l[m] = s[m]) /\ l[k + 1] = e
  BY <1>2, <1>4, <1>5
<1>7. ASSUME NEW m \in 1..Len(l) PROVE (m <= Len(log) /\ l[m] = log[m]) \/ l[m].term = term
  <2>1. m \in 1..k \/ m = k + 1
    BY <1>2, <1>6
  <2>. QED
    BY <1>2, <1>4, <1>5, <1>6, <2>1
<1>8. ASSUME NEW m \in 1..agreed PROVE l[m] = log[m]
  <2>1. m \in 1..k
    BY <1>2
  <2>. QED
    BY <1>4, <1>6, <2>1
<1>. QED
  BY <1>2, <1>6, <1>7, <1>8

LEMMA MovesOfRaft == ASSUME RaftTypes, RaftMoves PROVE RaftTypes' /\ LogMoves
<1>. USE LogViewAssumption
<1>1. CASE Elected
  <2>1. Entry(term + 1, NoOp) \in LogEntries /\ Entry(term + 1, NoOp).term = term + 1
    BY DEF Entry, LogEntries, NoOp, RaftTypes
  <2>2. log' = Append(log, Entry(term + 1, NoOp)) /\ Len(log) < MaxLog /\ term' = term + 1 /\ ~leading /\ leading' = TRUE
        /\ UNCHANGED <<commit, snap, agreed>>
    BY <1>1 DEF Elected
  <2>. QED
    BY <2>1, <2>2, Appended DEF RaftTypes, LogMoves
<1>2. CASE Deposed
  <2>1. Len(log) \in Nat /\ agreed \in Nat /\ agreed <= Len(log) /\ term \in Nat
    BY DEF RaftTypes
  <2>2. leading /\ leading' = FALSE /\ term' = term + 1 /\ UNCHANGED <<log, commit, snap, agreed>>
    BY <1>2 DEF Deposed
  <2>3. leading' = FALSE /\ term' \in Nat
    BY <2>1, <2>2
  <2>4. RaftTypes'
    BY <2>2, <2>3 DEF RaftTypes
  <2>. QED
    BY <2>1, <2>2, <2>3, <2>4 DEF LogMoves
<1>3. CASE Overwritten
  <2>1. PICK l \in Overwrites : Len(l) <= MaxLog /\ log' = l
    BY <1>3 DEF Overwritten
  <2>2. ~leading /\ term > 0 /\ UNCHANGED <<leading, term, commit, snap, agreed>>
    BY <1>3 DEF Overwritten
  <2>3. /\ l \in Seq(LogEntries) /\ Len(l) > agreed
        /\ \A k \in 1..Len(l) : (k <= Len(log) /\ l[k] = log[k]) \/ l[k].term = term
        /\ \A k \in 1..agreed : l[k] = log[k]
    BY <2>2, Replaced
  <2>. QED
    BY <2>1, <2>2, <2>3 DEF RaftTypes, LogMoves
<1>4. CASE Extended
  <2>1. Entry(term, Other) \in LogEntries /\ Entry(term, Other).term = term
    BY DEF Entry, LogEntries, Other, RaftTypes
  <2>2. log' = Append(log, Entry(term, Other)) /\ Len(log) < MaxLog /\ ~leading
        /\ UNCHANGED <<leading, term, commit, snap, agreed>>
    BY <1>4 DEF Extended
  <2>. QED
    BY <2>1, <2>2, Appended DEF RaftTypes, LogMoves
<1>5. CASE Committed
  BY <1>5 DEF Committed, RaftTypes, LogMoves
<1>6. CASE LearnCommit
  BY <1>6 DEF LearnCommit, RaftTypes, LogMoves
<1>7. CASE SnapshotInstalled
  <2>1. PICK l \in {log} \cup Overwrites, n \in (commit + 1)..MaxLog :
          /\ n <= Len(l) /\ Len(l) <= MaxLog
          /\ log' = l /\ commit' = n /\ snap' = n
          /\ agreed' = IF n > agreed THEN n ELSE agreed
    BY <1>7 DEF SnapshotInstalled
  <2>2. ~leading /\ term > 0 /\ UNCHANGED <<leading, term>>
    BY <1>7 DEF SnapshotInstalled
  <2>3. /\ l \in Seq(LogEntries) /\ Len(l) >= agreed
        /\ \A k \in 1..Len(l) : (k <= Len(log) /\ l[k] = log[k]) \/ l[k].term = term
        /\ \A k \in 1..agreed : l[k] = log[k]
    BY <2>1, <2>2, Replaced DEF RaftTypes
  <2>4. agreed' \in Nat /\ n <= agreed' /\ agreed <= agreed' /\ agreed' <= Len(l) /\ n \in Nat
    BY <2>1, <2>3 DEF RaftTypes
  <2>. QED
    BY <2>1, <2>2, <2>3, <2>4 DEF RaftTypes, LogMoves
<1>. QED
  BY <1>1, <1>2, <1>3, <1>4, <1>5, <1>6, <1>7 DEF RaftMoves

LEMMA KeptByRaft == ASSUME ClientsInv, RaftMoves PROVE ClientsInv'
  BY MovesOfRaft, KeptByMoves DEF RaftMoves, ClientsInv

-----------------------------------------------------------------------------
\* The entry of a request.
LEMMA KeptBySubmit == ASSUME ClientsInv, NEW w \in Writer, Submit(w) PROVE ClientsInv'
<1>. USE DEF ClientsInv
<1>. PICK q : q = request[w]
  OBVIOUS
<1>. PICK r : r = [q EXCEPT !.stage = "check", !.idx = Len(log) + 1]
  OBVIOUS
<1>1. /\ q.stage = "submit" /\ Submitted(q.num)
      /\ request' = [request EXCEPT ![w].stage = "check", ![w].idx = Len(log) + 1]
      /\ UNCHANGED <<mutex, waiting, contents, recorded, reached, applying, answered, shared, requests, faults>>
  BY DEF Submit
<1>2. q \in Requests_ /\ Has(q)
  BY <1>1 DEF ServerTypes, NoRequest, Threads
<1>3. q.num \in Nat /\ q.num > 0 /\ q.term \in Nat /\ 0 < q.term /\ q.term <= term
  BY <1>1, <1>2 DEF Requests_, Has
<1>4. Len(log) + 1 \in Nat
  BY DEF RaftTypes
<1>5. r \in Requests_ /\ r.stage = "check" /\ r.num = q.num /\ r.term = q.term /\ r.idx = Len(log) + 1
  BY <1>2, <1>4 DEF Requests_
<1>6. request' = [request EXCEPT ![w] = r]
  BY <1>1
<1>7. request'[w] = r /\ \A v \in Writer \ {w} : request'[v] = request[v]
  BY <1>6 DEF ServerTypes
<1>. PICK e : e = Entry(term, q.num)
  OBVIOUS
<1>8. e \in LogEntries /\ e.term = term /\ e.cmd = q.num
  BY <1>3 DEF Entry, LogEntries, RaftTypes
<1>9. leading /\ Len(log) < MaxLog /\ log' = Append(log, e) /\ UNCHANGED <<leading, term, commit, snap, agreed>>
  BY <1>1 DEF Submitted
<1>10. /\ log' \in Seq(LogEntries) /\ Len(log') = Len(log) + 1 /\ Len(log') <= MaxLog
       /\ \A k \in 1..Len(log) : log'[k] = log[k]
       /\ log'[Len(log) + 1] = e
  BY <1>8, <1>9, Appended
<1>11. RaftTypes' /\ LogMoves
  BY <1>8, <1>9, <1>10 DEF RaftTypes, LogMoves
<1>12. ServerTypes'
  BY <1>1, <1>5, <1>6, <1>9 DEF ServerTypes
<1>13. Holders'
  BY <1>1, <1>7, <1>5 DEF Holders
<1>14. Alone'
  BY <1>1, <1>5, <1>7, AloneNext
<1>15. (OutcomesTrue /\ ConfirmedIsOwn)'
  BY <1>1, <1>11, MovesKeepRest
<1>16. Threads'
  <2>. SUFFICES ASSUME NEW v \in Writer, NEW u, u = request'[v] PROVE Has(u)'
    BY ThreadsNext
  <2>1. CASE v = w
    <3>1. OwnEntry(r)'
      BY <1>3, <1>4, <1>5, <1>8, <1>9, <1>10 DEF OwnEntry, RaftTypes
    <3>2. reached < r.idx /\ reached \in Nat /\ r.idx \in Nat
      BY <1>4, <1>5 DEF ServerTypes, RaftTypes
    <3>3. ~Passed(r)'
      BY <1>1, <3>2 DEF Passed
    <3>4. u = r
      BY <1>7, <2>1
    <3>. QED
      <4>1. term' = term /\ term > 0 /\ r.num > 0 /\ 0 < r.term /\ r.term <= term /\ r.stage = "check"
        BY <1>3, <1>5, <1>9 DEF RaftTypes
      <4>2. Has(r)'
        BY <3>1, <3>3, <4>1 DEF Has, NotYet
      <4>. QED
        BY <3>4, <4>2
  <2>2. CASE v # w /\ u = NoRequest
    BY <2>2, NoneHas
  <2>3. CASE v # w /\ u \in Requests_
    <3>1. Has(u)
      BY <1>7, <2>3 DEF Threads
    <3>. QED
      BY <1>1, <1>11, <2>3, <3>1, MovesKeepRequest
  <2>. QED
    BY <1>7, <2>1, <2>2, <2>3 DEF ServerTypes
<1>. QED
  BY <1>11, <1>12, <1>13, <1>14, <1>15, <1>16

\* The request starts to wait: its entry has not been passed, for nobody else had the mutex.
LEMMA KeptByRegister == ASSUME ClientsInv, NEW w \in Writer, Register(w) PROVE ClientsInv'
<1>. USE DEF ClientsInv
<1>. PICK q : q = request[w]
  OBVIOUS
<1>. PICK r : r = [q EXCEPT !.stage = "wait"]
  OBVIOUS
<1>1. /\ q.stage = "check"
      /\ waiting' = [waiting EXCEPT ![q.idx] = Pending]
      /\ request' = [request EXCEPT ![w].stage = "wait"]
      /\ shared' = IF \E v \in Writer : request[v].stage = "wait" /\ request[v].idx = q.idx
                   THEN shared \cup {q.idx} ELSE shared
      /\ mutex' = NoOne
      /\ UNCHANGED <<raftVars, contents, recorded, reached, applying, answered, requests, faults>>
  BY DEF Register
<1>2. q \in Requests_ /\ Has(q)
  BY <1>1 DEF ServerTypes, NoRequest, Threads
<1>3. q.idx \in 1..MaxLog /\ OwnEntry(q) /\ NotYet(q) /\ term > 0 /\ q.num > 0 /\ 0 < q.term /\ q.term <= term
  BY <1>1, <1>2 DEF Has, OwnEntry
<1>4. r \in Requests_ /\ r.stage = "wait" /\ r.num = q.num /\ r.term = q.term /\ r.idx = q.idx
  BY <1>2 DEF Requests_
<1>5. request' = [request EXCEPT ![w] = r]
  BY <1>1
<1>6. \A v \in Writer : v # w => request[v].stage \notin {"submit", "check"}
  BY <1>1 DEF Holders
<1>7. request'[w] = r /\ \A v \in Writer \ {w} : request'[v] = request[v]
  BY <1>5 DEF ServerTypes
<1>8. /\ waiting'[q.idx] = Pending
      /\ \A i \in 1..MaxLog : i # q.idx => waiting'[i] = waiting[i]
      /\ waiting' \in [1..MaxLog -> Slots]
  BY <1>1, <1>3 DEF ServerTypes, Slots
<1>9. (RaftTypes /\ ServerTypes)'
  BY <1>1, <1>4, <1>5, <1>8 DEF RaftTypes, ServerTypes, raftVars
<1>10. Holders'
  BY <1>4, <1>6, <1>7 DEF Holders
<1>11. shared \subseteq shared'
  BY <1>1
<1>12. \A v \in Writer : request[v].stage = "wait" /\ request[v].idx = q.idx => q.idx \in shared'
  BY <1>1
<1>13. Alone'
  <2>. SUFFICES ASSUME NEW x \in Writer, NEW v \in Writer, x # v, request'[x].stage = "wait", request'[v].stage = "wait",
                      request'[x].idx = request'[v].idx
               PROVE  request'[x].idx \in shared'
    BY DEF Alone
  <2>1. CASE x = w
    <3>1. request'[v] = request[v] /\ request'[x].idx = q.idx
      BY <1>4, <1>7, <2>1
    <3>. QED
      BY <1>12, <3>1
  <2>2. CASE v = w
    <3>1. request'[x] = request[x] /\ request'[v].idx = q.idx
      BY <1>4, <1>7, <2>2
    <3>. QED
      BY <1>12, <3>1
  <2>3. CASE x # w /\ v # w
    <3>1. request'[x] = request[x] /\ request'[v] = request[v]
      BY <1>7, <2>3
    <3>. QED
      BY <1>11, <3>1 DEF Alone
  <2>. QED
    BY <2>1, <2>2, <2>3
<1>14. OutcomesTrue'
  BY <1>1, <1>8 DEF OutcomesTrue, raftVars, Pending
<1>15. ConfirmedIsOwn'
  BY <1>1 DEF ConfirmedIsOwn, raftVars
<1>16. Threads'
  <2>. SUFFICES ASSUME NEW v \in Writer, NEW u, u = request'[v] PROVE Has(u)'
    BY ThreadsNext
  <2>1. CASE v = w
    <3>1. OwnEntry(r)' /\ ~Passed(r)'
      BY <1>1, <1>3, <1>4 DEF OwnEntry, NotYet, Passed, raftVars
    <3>2. Awaited(r)'
      BY <1>4, <1>8, <3>1 DEF Awaited, Pending, Absent
    <3>3. u = r
      BY <1>7, <2>1
    <3>. QED
      BY <1>1, <1>3, <1>4, <3>1, <3>2, <3>3 DEF Has, raftVars
  <2>2. CASE v # w
    <3>1. Has(u) /\ u.stage \notin {"submit", "check"}
      BY <1>6, <1>7, <2>2 DEF Threads
    <3>2. u.stage = "wait" /\ u.idx = q.idx => q.idx \in shared'
      BY <1>7, <1>12, <2>2
    <3>3. ASSUME u.stage = "wait" PROVE Awaited(u)'
      <4>1. OwnEntry(u) /\ Awaited(u)
        BY <3>1, <3>3 DEF Has
      <4>2. Passed(u)' => Passed(u)
        BY <1>1 DEF Passed, raftVars
      <4>3. CASE u.idx = q.idx
        BY <3>2, <3>3, <4>3 DEF Awaited
      <4>4. CASE u.idx # q.idx
        BY <1>8, <1>11, <4>1, <4>2, <4>4 DEF Awaited, OwnEntry
      <4>. QED
        BY <4>3, <4>4
    <3>. QED
      BY <1>1, <1>11, <3>1, <3>3, KeepsRequest DEF raftVars
  <2>. QED
    BY <2>1, <2>2
<1>. QED
  BY <1>9, <1>10, <1>13, <1>14, <1>15, <1>16

-----------------------------------------------------------------------------
\* A slot changes, and nothing a request has but its outcome.

\* The outcome is taken, and the slot erased.
LEMMA KeptByAnswer == ASSUME ClientsInv, NEW w \in Writer, Answer(w) PROVE ClientsInv'
<1>. USE DEF ClientsInv
<1>. PICK q : q = request[w]
  OBVIOUS
<1>. PICK out : out = waiting[q.idx]
  OBVIOUS
<1>. PICK c : c = [num |-> q.num, idx |-> q.idx, cmd |-> out.cmd]
  OBVIOUS
<1>1. /\ q.stage = "wait"
      /\ answered' = answered \/ (Confirms(q, out) /\ answered' = answered \cup {c})
      /\ waiting' = [waiting EXCEPT ![q.idx] = Absent]
      /\ request' = [request EXCEPT ![w] = NoRequest]
      /\ UNCHANGED <<raftVars, mutex, contents, recorded, reached, applying, shared, requests, faults>>
  BY DEF Answer
<1>2. q \in Requests_ /\ Has(q)
  BY <1>1 DEF ServerTypes, NoRequest, Threads
<1>3. q.idx \in 1..MaxLog /\ OwnEntry(q)
  BY <1>1, <1>2 DEF Has, OwnEntry
<1>4. request'[w] = NoRequest /\ \A v \in Writer \ {w} : request'[v] = request[v]
  BY <1>1 DEF ServerTypes
<1>5. /\ waiting'[q.idx] = Absent
      /\ \A i \in 1..MaxLog : i # q.idx => waiting'[i] = waiting[i]
      /\ waiting' \in [1..MaxLog -> Slots]
  BY <1>1, <1>3 DEF ServerTypes, Slots
<1>6. \A v \in Writer : v # w /\ request[v].stage = "wait" /\ request[v].idx = q.idx => q.idx \in shared
  BY <1>1 DEF Alone
<1>7. c.num = q.num /\ c.idx = q.idx /\ c.cmd = out.cmd
  OBVIOUS
<1>8. Confirms(q, out) => out.cmd = q.num /\ q.idx <= agreed /\ log[q.idx].cmd = q.num
  <2>1. Confirms(q, out) => q.idx <= agreed /\ out.term = log[q.idx].term /\ out.cmd = log[q.idx].cmd /\ out.term = q.term
    BY <1>3 DEF Confirms, OutcomesTrue
  <2>2. q.idx <= agreed => q.idx <= Len(log)
    BY <1>3 DEF RaftTypes
  <2>. QED
    BY <1>3, <2>1, <2>2 DEF OwnEntry
<1>9. (RaftTypes /\ ServerTypes)'
  BY <1>1, <1>3, <1>5, <1>7 DEF RaftTypes, ServerTypes, raftVars
<1>10. (Holders /\ Alone)'
  BY <1>1, <1>4 DEF Holders, Alone, NoRequest
<1>11. OutcomesTrue'
  BY <1>1, <1>5 DEF OutcomesTrue, raftVars, Absent
<1>12. ConfirmedIsOwn'
  BY <1>1, <1>7, <1>8 DEF ConfirmedIsOwn, raftVars
<1>13. Threads'
  <2>. SUFFICES ASSUME NEW v \in Writer, NEW u, u = request'[v] PROVE Has(u)'
    BY ThreadsNext
  <2>1. CASE v = w
    BY <1>4, <2>1, NoneHas
  <2>2. CASE v # w
    <3>1. Has(u) /\ (u.stage = "wait" /\ u.idx = q.idx => q.idx \in shared)
      BY <1>4, <1>6, <2>2 DEF Threads
    <3>2. Passed(u)' => Passed(u)
      BY <1>1 DEF Passed, raftVars
    <3>3. u.stage = "check" => ~Passed(u)'
      BY <3>1, <3>2 DEF Has, NotYet
    <3>4. ASSUME u.stage = "wait" PROVE Awaited(u)'
      <4>1. OwnEntry(u) /\ Awaited(u)
        BY <3>1, <3>4 DEF Has
      <4>2. CASE u.idx = q.idx
        BY <1>1, <3>1, <3>4, <4>2 DEF Awaited
      <4>3. CASE u.idx # q.idx
        BY <1>1, <1>5, <3>2, <4>1, <4>3 DEF Awaited, OwnEntry
      <4>. QED
        BY <4>2, <4>3
    <3>. QED
      BY <1>1, <3>1, <3>3, <3>4, KeepsRequest DEF raftVars
  <2>. QED
    BY <2>1, <2>2
<1>. QED
  BY <1>9, <1>10, <1>11, <1>12, <1>13

\* Only an index that is shared is without a slot while a request waits there.
LEMMA KeptByLookAgain == ASSUME ClientsInv, NEW w \in Writer, LookAgain(w) PROVE ClientsInv'
<1>. USE DEF ClientsInv
<1>. PICK q : q = request[w]
  OBVIOUS
<1>1. /\ q.stage = "wait" /\ waiting[q.idx] = Absent
      /\ waiting' = [waiting EXCEPT ![q.idx] = Pending]
      /\ UNCHANGED <<raftVars, request, mutex, contents, recorded, reached, applying, answered, shared, requests, faults>>
  BY DEF LookAgain
<1>2. q \in Requests_ /\ Has(q)
  BY <1>1 DEF ServerTypes, NoRequest, Threads
<1>3. q.idx \in 1..MaxLog /\ q.idx \in shared
  BY <1>1, <1>2 DEF Has, OwnEntry, Awaited
<1>4. /\ waiting'[q.idx] = Pending
      /\ \A i \in 1..MaxLog : i # q.idx => waiting'[i] = waiting[i]
      /\ waiting' \in [1..MaxLog -> Slots]
  BY <1>1, <1>3 DEF ServerTypes, Slots
<1>5. (RaftTypes /\ ServerTypes)'
  BY <1>1, <1>4 DEF RaftTypes, ServerTypes, raftVars
<1>6. (Holders /\ Alone)'
  BY <1>1 DEF Holders, Alone
<1>7. OutcomesTrue'
  BY <1>1, <1>4 DEF OutcomesTrue, raftVars, Pending
<1>8. ConfirmedIsOwn'
  BY <1>1 DEF ConfirmedIsOwn, raftVars
<1>9. Threads'
  <2>. SUFFICES ASSUME NEW v \in Writer, NEW u, u = request'[v] PROVE Has(u)'
    BY ThreadsNext
  <2>1. Has(u)
    BY <1>1 DEF Threads
  <2>2. Passed(u)' => Passed(u)
    BY <1>1 DEF Passed, raftVars
  <2>3. u.stage = "check" => ~Passed(u)'
    BY <2>1, <2>2 DEF Has, NotYet
  <2>4. ASSUME u.stage = "wait" PROVE Awaited(u)'
    <3>1. OwnEntry(u) /\ Awaited(u)
      BY <2>1, <2>4 DEF Has
    <3>2. CASE u.idx = q.idx
      BY <1>1, <1>3, <3>2 DEF Awaited
    <3>3. CASE u.idx # q.idx
      BY <1>1, <1>4, <2>2, <3>1, <3>3 DEF Awaited, OwnEntry
    <3>. QED
      BY <3>2, <3>3
  <2>. QED
    BY <1>1, <2>1, <2>3, <2>4, KeepsRequest DEF raftVars
<1>. QED
  BY <1>5, <1>6, <1>7, <1>8, <1>9

-----------------------------------------------------------------------------
\* The apply thread.

\* Steps that pass no entry of a request.
LEMMA KeptWhereNothingPasses ==
    ASSUME ClientsInv, (RaftTypes /\ ServerTypes)',
           UNCHANGED <<term, leading, log, agreed, request, mutex, waiting, answered, shared>>,
           \A r \in Requests_ : r.idx \in 1..MaxLog /\ r.num > 0 /\ Passed(r)' => Passed(r)
    PROVE  ClientsInv'
<1>. USE DEF ClientsInv
<1>1. (Holders /\ Alone /\ OutcomesTrue /\ ConfirmedIsOwn)'
  BY DEF Holders, Alone, OutcomesTrue, ConfirmedIsOwn
<1>2. Threads'
  <2>. SUFFICES ASSUME NEW v \in Writer, NEW u, u = request'[v] PROVE Has(u)'
    BY ThreadsNext
  <2>1. CASE u = NoRequest
    BY <2>1, NoneHas
  <2>2. CASE u \in Requests_
    <3>1. Has(u)
      BY DEF Threads
    <3>2. u.stage \in {"check", "wait"} => (Passed(u)' => Passed(u))
      BY <2>2, <3>1 DEF Has, OwnEntry
    <3>3. u.stage = "check" => ~Passed(u)'
      BY <3>1, <3>2 DEF Has, NotYet
    <3>4. u.stage = "wait" => Awaited(u)'
      BY <3>1, <3>2 DEF Has, Awaited
    <3>. QED
      BY <3>1, <3>3, <3>4, KeepsRequest
  <2>. QED
    BY <2>1, <2>2 DEF ServerTypes
<1>. QED
  BY <1>1, <1>2

\* A no-op is nobody's entry.
LEMMA KeptByPassOver == ASSUME ClientsInv, PassOver PROVE ClientsInv'
<1>. USE DEF ClientsInv
<1>1. /\ applying = Nothing /\ reached < commit /\ log[reached + 1].cmd = NoOp /\ reached' = reached + 1
      /\ UNCHANGED <<raftVars, request, mutex, waiting, contents, recorded, applying, answered, shared, requests, faults>>
  BY DEF PassOver, Ready
<1>2. (RaftTypes /\ ServerTypes)'
  BY <1>1 DEF RaftTypes, ServerTypes, raftVars, Nothing
<1>3. ASSUME NEW r \in Requests_, r.idx \in 1..MaxLog, r.num > 0, Passed(r)'
      PROVE  Passed(r)
  <2>1. r.idx \in Nat /\ r.num \in Nat /\ reached \in Nat
    BY <1>3 DEF Requests_, ServerTypes
  <2>2. log[r.idx] = Entry(r.term, r.num) /\ reached + 1 >= r.idx /\ faults.failures = 0
    BY <1>1, <1>3 DEF Passed, raftVars
  <2>3. log[r.idx].cmd = r.num
    BY <2>2 DEF Entry
  <2>4. r.idx # reached + 1
    BY <1>1, <1>3, <2>1, <2>3 DEF NoOp
  <2>. QED
    BY <2>1, <2>2, <2>4 DEF Passed
<1>. QED
  BY <1>1, <1>2, <1>3, KeptWhereNothingPasses DEF raftVars

LEMMA KeptByApplyEntry == ASSUME ClientsInv, ApplyEntry PROVE ClientsInv'
<1>. USE DEF ClientsInv
<1>1. /\ reached < commit /\ recorded' = recorded /\ applying' = [Nothing EXCEPT !.what = "entry"]
      /\ UNCHANGED <<raftVars, request, mutex, waiting, reached, answered, shared, requests, faults>>
  BY DEF ApplyEntry, Ready, Recorded
<1>2. applying' \in [what : {"nothing", "entry", "restore"}, upto : Nat] /\ applying'.what = "entry"
  BY <1>1 DEF Nothing
<1>3. (RaftTypes /\ ServerTypes)'
  BY <1>1, <1>2 DEF RaftTypes, ServerTypes, raftVars
<1>. QED
  BY <1>1, <1>3, KeptWhereNothingPasses DEF raftVars, Passed

LEMMA KeptByRestoreClears == ASSUME ClientsInv, RestoreClears PROVE ClientsInv'
<1>. USE DEF ClientsInv
<1>1. /\ recorded' = recorded /\ applying' = [what |-> "restore", upto |-> snap]
      /\ UNCHANGED <<raftVars, request, mutex, waiting, reached, answered, shared, requests, faults>>
  BY DEF RestoreClears, Recorded
<1>2. applying' \in [what : {"nothing", "entry", "restore"}, upto : Nat] /\ applying'.what = "restore" /\ applying'.upto = snap
  BY <1>1 DEF RaftTypes
<1>3. (RaftTypes /\ ServerTypes)'
  BY <1>1, <1>2 DEF RaftTypes, ServerTypes, raftVars
<1>. QED
  BY <1>1, <1>3, KeptWhereNothingPasses DEF raftVars, Passed

LEMMA KeptByCompact == ASSUME ClientsInv, Compact PROVE ClientsInv'
<1>. USE DEF ClientsInv
<1>1. /\ snap' = reached
      /\ UNCHANGED <<leading, term, log, commit, agreed, request, mutex, waiting, contents, recorded, reached,
                     applying, answered, shared, requests, faults>>
  BY DEF Compact
<1>2. (RaftTypes /\ ServerTypes)'
  BY <1>1 DEF RaftTypes, ServerTypes
<1>. QED
  BY <1>1, <1>2, KeptWhereNothingPasses DEF Passed

\* After a failed restore outcomes may be missed.
LEMMA KeptByRestoreFails == ASSUME ClientsInv, RestoreFails PROVE ClientsInv'
<1>. USE DEF ClientsInv
<1>1. /\ applying.what = "restore" /\ reached' = applying.upto /\ applying' = Nothing
      /\ faults' = [faults EXCEPT !.failures = @ + 1]
      /\ UNCHANGED <<raftVars, request, mutex, waiting, contents, recorded, answered, shared, requests>>
  BY DEF RestoreFails
<1>2. faults' \in [crashes : Nat, failures : Nat] /\ faults'.failures > 0
  BY <1>1 DEF ServerTypes
<1>3. (RaftTypes /\ ServerTypes)'
  BY <1>1, <1>2 DEF RaftTypes, ServerTypes, raftVars, Nothing
<1>4. \A r : ~Passed(r)'
  BY <1>2 DEF Passed
<1>. QED
  BY <1>1, <1>3, <1>4, KeptWhereNothingPasses DEF raftVars

\* Outcomes are delivered while nobody is between submit and its wait. (Slots that are not absent
\* stay so; those that are passed now have an outcome.)
LEMMA KeptByDelivery ==
    ASSUME ClientsInv, (RaftTypes /\ ServerTypes)', mutex = NoOne,
           UNCHANGED <<term, leading, log, agreed, request, mutex, answered, shared, faults>>,
           \A i \in 1..MaxLog : waiting[i] # Absent => waiting'[i] # Absent,
           \A i \in 1..MaxLog : waiting[i].is = "outcome" => waiting'[i].is = "outcome",
           \A r \in Requests_ : r.idx \in 1..MaxLog /\ r.num > 0 /\ Passed(r)' =>
               Passed(r) \/ waiting'[r.idx].is = "outcome" \/ waiting[r.idx] = Absent,
           OutcomesTrue'
    PROVE  ClientsInv'
<1>. USE DEF ClientsInv
<1>1. (Holders /\ Alone /\ ConfirmedIsOwn)'
  BY DEF Holders, Alone, ConfirmedIsOwn
<1>2. Threads'
  <2>. SUFFICES ASSUME NEW v \in Writer, NEW u, u = request'[v] PROVE Has(u)'
    BY ThreadsNext
  <2>1. CASE u = NoRequest
    BY <2>1, NoneHas
  <2>2. CASE u \in Requests_
    <3>1. Has(u)
      BY DEF Threads
    <3>2. u.stage # "check"
      BY RaftClientsAssumption DEF Holders
    <3>3. ASSUME u.stage = "wait" PROVE Awaited(u)'
      <4>1. u.idx \in 1..MaxLog /\ u.num > 0 /\ Awaited(u)
        BY <3>1, <3>3 DEF Has, OwnEntry
      <4>2. waiting'[u.idx] # Absent \/ u.idx \in shared'
        BY <4>1 DEF Awaited
      <4>3. Passed(u)' => waiting'[u.idx].is = "outcome" \/ u.idx \in shared'
        BY <2>2, <4>1 DEF Awaited
      <4>. QED
        BY <4>2, <4>3 DEF Awaited
    <3>. QED
      BY <3>1, <3>2, <3>3, KeepsRequest
  <2>. QED
    BY <2>1, <2>2 DEF ServerTypes
<1>. QED
  BY <1>1, <1>2

LEMMA KeptByRecordAndDeliver == ASSUME ClientsInv, RecordAndDeliver PROVE ClientsInv'
<1>. USE DEF ClientsInv
<1>. DEFINE k == reached + 1
            e == log[k]
<1>1. /\ applying.what = "entry" /\ mutex = NoOne
      /\ recorded' = k
      /\ waiting' = [waiting EXCEPT ![k] = IF waiting[k] = Absent THEN waiting[k] ELSE Outcome(e)]
      /\ reached' = k
      /\ applying' = Nothing
      /\ UNCHANGED <<raftVars, request, mutex, contents, answered, shared, requests, faults>>
  BY DEF RecordAndDeliver, MutexFree, Recorded
<1>2. k \in 1..MaxLog /\ k <= agreed /\ k \in 1..Len(log) /\ reached \in Nat
  <2>1. reached \in Nat /\ agreed \in Nat /\ reached < agreed /\ agreed <= Len(log) /\ Len(log) \in Nat /\ Len(log) <= MaxLog
    BY <1>1 DEF ServerTypes, RaftTypes
  <2>. QED
    BY <2>1, LogViewAssumption
<1>3. e \in LogEntries
  BY <1>2 DEF RaftTypes
<1>4. Outcome(e) \in Slots /\ Outcome(e).is = "outcome" /\ Outcome(e).term = e.term /\ Outcome(e).cmd = e.cmd
      /\ Outcome(e) # Absent
  BY <1>3 DEF Outcome, Slots, LogEntries, Absent
<1>5. /\ waiting' \in [1..MaxLog -> Slots]
      /\ \A i \in 1..MaxLog : i # k => waiting'[i] = waiting[i]
      /\ waiting[k] = Absent => waiting'[k] = Absent
      /\ waiting[k] # Absent => waiting'[k] = Outcome(e)
  BY <1>1, <1>2, <1>4 DEF ServerTypes
<1>6. (RaftTypes /\ ServerTypes)'
  <2>1. k \in Nat
    BY <1>2
  <2>. HIDE DEF k, e
  <2>. QED
    BY <1>1, <1>2, <1>5, <2>1 DEF RaftTypes, ServerTypes, raftVars, Nothing
<1>7. OutcomesTrue'
  BY <1>1, <1>2, <1>4, <1>5 DEF OutcomesTrue, raftVars, Absent
<1>8. ASSUME NEW r \in Requests_, r.idx \in 1..MaxLog, Passed(r)'
      PROVE  Passed(r) \/ waiting'[r.idx].is = "outcome" \/ waiting[r.idx] = Absent
  <2>1. CASE r.idx = k
    BY <1>4, <1>5, <2>1
  <2>2. CASE r.idx # k
    BY <1>1, <1>2, <1>8, <2>2 DEF Passed, raftVars
  <2>. QED
    BY <2>1, <2>2
<1>9. /\ \A i \in 1..MaxLog : waiting[i] # Absent => waiting'[i] # Absent
      /\ \A i \in 1..MaxLog : waiting[i].is = "outcome" => waiting'[i].is = "outcome"
  BY <1>4, <1>5 DEF Absent
<1>. HIDE DEF k, e
<1>. QED
  BY <1>1, <1>6, <1>7, <1>8, <1>9, KeptByDelivery DEF raftVars

LEMMA KeptByRestoreCompletes == ASSUME ClientsInv, RestoreCompletes PROVE ClientsInv'
<1>. USE DEF ClientsInv
<1>. DEFINE n == applying.upto
<1>1. /\ applying.what = "restore" /\ mutex = NoOne
      /\ recorded' = n
      /\ waiting' = Told(waiting, n)
      /\ reached' = n
      /\ applying' = Nothing
      /\ UNCHANGED <<raftVars, request, mutex, answered, shared, requests, faults>>
  BY DEF RestoreCompletes, MutexFree, Recorded
<1>2. n \in Nat /\ n <= agreed
  BY <1>1 DEF ServerTypes
<1>. HIDE DEF n
<1>3. Indeterminate \in Slots /\ Indeterminate.is = "outcome" /\ Indeterminate.indeterminate /\ Indeterminate # Absent
  BY DEF Indeterminate, Slots, NoOp, Absent
<1>4. /\ waiting' \in [1..MaxLog -> Slots]
      /\ \A i \in 1..MaxLog : waiting'[i] = IF i <= n /\ waiting[i] = Pending THEN Indeterminate ELSE waiting[i]
  BY <1>1, <1>3 DEF ServerTypes, Told
<1>5. (RaftTypes /\ ServerTypes)'
  BY <1>1, <1>2, <1>4 DEF RaftTypes, ServerTypes, raftVars, Nothing
<1>6. OutcomesTrue'
  <2>. SUFFICES ASSUME NEW i \in 1..MaxLog, waiting'[i].is = "outcome", ~waiting'[i].indeterminate
               PROVE  i <= agreed' /\ waiting'[i].term = log'[i].term /\ waiting'[i].cmd = log'[i].cmd
    BY DEF OutcomesTrue
  <2>1. waiting'[i] = waiting[i]
    BY <1>3, <1>4
  <2>. QED
    BY <1>1, <2>1 DEF OutcomesTrue, raftVars
<1>7. ASSUME NEW r \in Requests_, r.idx \in 1..MaxLog, Passed(r)'
      PROVE  Passed(r) \/ waiting'[r.idx].is = "outcome" \/ waiting[r.idx] = Absent
  <2>1. r.idx <= n
    BY <1>1, <1>2, <1>7 DEF Passed
  <2>2. waiting[r.idx] = Absent \/ waiting[r.idx] = Pending \/ waiting[r.idx].is = "outcome"
    BY <1>7 DEF ServerTypes, Slots
  <2>. QED
    BY <1>3, <1>4, <1>7, <2>1, <2>2 DEF Pending
<1>8. /\ \A i \in 1..MaxLog : waiting[i] # Absent => waiting'[i] # Absent
      /\ \A i \in 1..MaxLog : waiting[i].is = "outcome" => waiting'[i].is = "outcome"
  BY <1>3, <1>4
<1>. QED
  BY <1>1, <1>5, <1>6, <1>7, <1>8, KeptByDelivery DEF raftVars

-----------------------------------------------------------------------------
\* Nobody waits after a restart.
LEMMA KeptByCrashRestart == ASSUME ClientsInv, CrashRestart PROVE ClientsInv'
<1>. USE DEF ClientsInv
<1>1. /\ faults' = [faults EXCEPT !.crashes = @ + 1]
      /\ leading' = FALSE
      /\ reached' = recorded
      /\ commit' = IF snap > recorded THEN snap ELSE recorded
      /\ applying' = Nothing
      /\ request' = [w \in Writer |-> NoRequest]
      /\ waiting' = [i \in 1..MaxLog |-> Absent]
      /\ UNCHANGED <<term, log, snap, agreed, contents, recorded, answered, shared, requests>>
  BY DEF CrashRestart
<1>2. faults' \in [crashes : Nat, failures : Nat]
  BY <1>1 DEF ServerTypes
<1>3. RaftTypes'
  BY <1>1 DEF RaftTypes, ServerTypes
<1>4. ServerTypes'
  BY <1>1, <1>2 DEF RaftTypes, ServerTypes, Nothing, Slots
<1>5. \A w \in Writer : request'[w] = NoRequest
  BY <1>1
<1>6. (Holders /\ Alone /\ Threads)'
  BY <1>5 DEF Holders, Alone, Threads, Has, NoRequest
<1>7. OutcomesTrue'
  BY <1>1 DEF OutcomesTrue, Absent
<1>8. ConfirmedIsOwn'
  BY <1>1 DEF ConfirmedIsOwn
<1>. QED
  BY <1>3, <1>4, <1>6, <1>7, <1>8

LEMMA RequestsStutter == ASSUME ClientsInv, UNCHANGED clientVars PROVE ClientsInv'
<1>. USE DEF ClientsInv
<1>1. UNCHANGED <<term, leading, log, agreed, request, mutex, waiting, answered, shared>>
  BY DEF clientVars, raftVars, serverVars
<1>2. (RaftTypes /\ ServerTypes)'
  BY DEF RaftTypes, ServerTypes, clientVars, raftVars, serverVars
<1>. QED
  BY <1>1, <1>2, KeptWhereNothingPasses DEF Passed, clientVars, serverVars

\* Every step of request threads, apply thread, Raft and process.
LEMMA KeptByNext == ClientsInv /\ [ClientsNext]_clientVars => ClientsInv'
<1>. SUFFICES ASSUME ClientsInv, [ClientsNext]_clientVars PROVE ClientsInv'
  OBVIOUS
<1>1. CASE UNCHANGED clientVars
  BY <1>1, RequestsStutter
<1>2. ASSUME NEW w \in Writer,
             \/ Arrive(w) \/ LockAndReadTerm(w) \/ Submit(w) \/ NotSubmitted(w)
             \/ TermChanged(w) \/ Register(w) \/ Answer(w) \/ LookAgain(w)
      PROVE  ClientsInv'
  BY <1>2, KeptByArrive, KeptByLock, KeptBySubmit, KeptByNotSubmitted, KeptByTermChanged,
     KeptByRegister, KeptByAnswer, KeptByLookAgain
<1>3. CASE PassOver \/ ApplyEntry \/ RecordAndDeliver \/ RestoreClears \/ RestoreCompletes \/ RestoreFails
           \/ Compact \/ RaftMoves \/ CrashRestart
  BY <1>3, KeptByPassOver, KeptByApplyEntry, KeptByRecordAndDeliver, KeptByRestoreClears,
     KeptByRestoreCompletes, KeptByRestoreFails, KeptByCompact, KeptByRaft, KeptByCrashRestart
<1>. QED
  BY <1>1, <1>2, <1>3 DEF ClientsNext

\* Whoever waits for an entry that has been applied finds the outcome.
LEMMA MissedByNobody == ClientsInv => OutcomesMatched
<1>. SUFFICES ASSUME ClientsInv PROVE OutcomeNotMissed
  BY DEF OutcomesMatched, ClientsInv
<1>. QED
  BY DEF ClientsInv, Threads, Has, Awaited, Passed, OutcomeNotMissed

\* Whoever is answered is answered truly, and no outcome is missed by the one who waits for it.
THEOREM AnswersAreTrue == ClientsSpec => []OutcomesMatched
<1>. QED
  BY ClientsInitially, KeptByNext, MissedByNobody, PTL DEF ClientsSpec

-----------------------------------------------------------------------------
\* What the collections hold.

\* A set of numbers with a member has a least one.
LEMMA LeastNumber ==
    ASSUME NEW T \in SUBSET Nat, NEW k \in T
    PROVE  \E m \in T : \A j \in T : m <= j
<1>. DEFINE R == OpToRel(<, Nat)
<1>1. IsWellFoundedOn(R, Nat)
  BY NatLessThanWellFounded
<1>2. PICK m \in T : \A j \in T : ~(<<j, m>> \in R)
  <2>. HIDE DEF R
  <2>. QED
    BY <1>1, WFMin
<1>3. ASSUME NEW j \in T
      PROVE  m <= j
  <2>1. SUFFICES ASSUME j < m
                 PROVE  FALSE
    OBVIOUS
  <2>2. <<j, m>> \in R
    BY <2>1 DEF OpToRel
  <2>. QED
    BY <1>2, <2>2
<1>. QED
  BY <1>3

\* The numbers of a finite set can be put in ascending order.
LEMMA AscendingExists ==
    ASSUME NEW n \in Nat
    PROVE  \A S \in SUBSET (1..n) :
               /\ IsFiniteSet(S)
               /\ \E s \in [1..Cardinality(S) -> S] : Ascending(s) /\ Range(s) = S
<1>. DEFINE P(m) == \A S \in SUBSET (1..m) :
                        /\ IsFiniteSet(S)
                        /\ \E s \in [1..Cardinality(S) -> S] : Ascending(s) /\ Range(s) = S
            Bad == {m \in Nat : ~P(m)}
<1>1. P(0)
  <2>1. SUFFICES ASSUME NEW S, S = {}
                 PROVE  /\ IsFiniteSet(S)
                        /\ \E s \in [1..Cardinality(S) -> S] : Ascending(s) /\ Range(s) = S
    <3>1. \A S \in SUBSET (1..0) : S = {}
      OBVIOUS
    <3>. QED
      BY <2>1, <3>1
  <2>2. IsFiniteSet(S) /\ Cardinality(S) = 0
    BY <2>1, FS_EmptySet
  <2>3. <<>> \in [1..Cardinality(S) -> S] /\ Ascending(<<>>) /\ Range(<<>>) = S
    BY <2>1, <2>2 DEF Ascending, Range
  <2>. QED
    BY <2>2, <2>3
<1>2. ASSUME NEW m \in Nat, P(m)
      PROVE  P(m + 1)
  <2>1. SUFFICES ASSUME NEW S \in SUBSET (1..(m + 1))
                 PROVE  /\ IsFiniteSet(S)
                        /\ \E s \in [1..Cardinality(S) -> S] : Ascending(s) /\ Range(s) = S
    BY <2>1
  <2>2. CASE m + 1 \notin S
    <3>1. S \in SUBSET (1..m)
      BY <2>2
    <3>. QED
      BY <1>2, <3>1
  <2>3. CASE m + 1 \in S
    <3>. DEFINE T == S \ {m + 1}
    <3>1. T \in SUBSET (1..m) /\ S = T \cup {m + 1} /\ m + 1 \notin T
      BY <2>3
    <3>. HIDE DEF T
    <3>2. PICK t \in [1..Cardinality(T) -> T] : Ascending(t) /\ Range(t) = T
      BY <1>2, <3>1
    <3>3. IsFiniteSet(T) /\ Cardinality(T) \in Nat /\ IsFiniteSet(S) /\ Cardinality(S) = Cardinality(T) + 1
      BY <1>2, <3>1, FS_AddElement, FS_CardinalityType
    <3>. DEFINE c == Cardinality(T)
                s == [k \in 1..(c + 1) |-> IF k = c + 1 THEN m + 1 ELSE t[k]]
    <3>4. c \in Nat /\ Cardinality(S) = c + 1
      BY <3>3
    <3>. HIDE DEF c
    <3>5. t \in [1..c -> T]
      BY <3>2 DEF c
    <3>6. s \in [1..Cardinality(S) -> S]
      <4>1. \A k \in 1..(c + 1) : k # c + 1 => k \in 1..c
        BY <3>4
      <4>2. \A k \in 1..(c + 1) : s[k] \in S
        BY <3>1, <3>5, <4>1
      <4>. QED
        BY <3>4, <4>2
    <3>7. Ascending(s)
      <4>1. SUFFICES ASSUME NEW j \in 1..(c + 1), NEW k \in 1..(c + 1), j < k
                     PROVE  s[j] <= s[k]
        BY <4>1 DEF Ascending
      <4>2. j \in 1..c /\ t[j] \in T /\ t[j] \in 1..m
        <5>1. j \in 1..c
          BY <3>4, <4>1
        <5>. QED
          BY <3>1, <3>5, <5>1
      <4>3. CASE k = c + 1
        BY <3>4, <4>2, <4>3
      <4>4. CASE k # c + 1
        <5>1. k \in 1..c
          BY <3>4, <4>4
        <5>2. t[j] <= t[k]
          BY <3>2, <3>5, <4>1, <4>2, <5>1 DEF Ascending
        <5>. QED
          BY <3>4, <4>2, <5>1, <5>2
      <4>. QED
        BY <4>3, <4>4
    <3>8. Range(s) = S
      <4>1. \A x \in Range(s) : x \in S
        BY <3>6 DEF Range
      <4>2. ASSUME NEW x \in S PROVE x \in Range(s)
        <5>1. CASE x = m + 1
          <6>1. c + 1 \in 1..(c + 1) /\ s[c + 1] = x
            BY <3>4, <5>1
          <6>. QED
            BY <6>1 DEF Range
        <5>2. CASE x # m + 1
          <6>1. PICK k \in 1..c : t[k] = x
            BY <3>1, <3>2, <3>5, <5>2 DEF Range
          <6>2. k \in 1..(c + 1) /\ s[k] = x
            BY <3>4, <6>1
          <6>. QED
            BY <6>2 DEF Range
        <5>. QED
          BY <5>1, <5>2
      <4>. QED
        BY <4>1, <4>2
    <3>. QED
      BY <3>3, <3>6, <3>7, <3>8
  <2>. QED
    BY <2>2, <2>3
<1>. HIDE DEF P
<1>3. SUFFICES ASSUME NEW k \in Bad PROVE FALSE
  <2>1. P(n)
    BY <1>3
  <2>. QED
    BY <2>1 DEF P
<1>4. PICK m \in Bad : \A j \in Bad : m <= j
  <2>1. Bad \in SUBSET Nat
    OBVIOUS
  <2>. HIDE DEF Bad
  <2>. QED
    BY <2>1, <1>3, LeastNumber
<1>5. m \in Nat /\ ~P(m)
  OBVIOUS
<1>6. m # 0 /\ m - 1 \in Nat
  BY <1>1, <1>5
<1>7. P(m - 1)
  <2>1. m - 1 \notin Bad
    BY <1>4, <1>5, <1>6
  <2>. QED
    BY <1>6, <2>1
<1>. QED
  BY <1>2, <1>5, <1>6, <1>7

\* What a restore writes is all that was given up to the index, in order.
LEMMA GivenUpToIs ==
    ASSUME NEW n \in Nat
    PROVE  /\ GivenUpTo(n) \in [1..Cardinality(Given(n)) -> Given(n)]
           /\ Ascending(GivenUpTo(n)) /\ Range(GivenUpTo(n)) = Given(n)
<1>1. Given(n) \in SUBSET (1..n)
  BY DEF Given
<1>2. \E s \in [1..Cardinality(Given(n)) -> Given(n)] : Ascending(s) /\ Range(s) = Given(n)
  BY <1>1, AscendingExists
<1>. QED
  BY <1>2 DEF GivenUpTo

\* The collections reflect the entries up to n.
Reflects(s, n) == Ascending(s) /\ Range(s) = Given(n)

\* At most one entry between m and n is for the collections.
OneMore(m, n) == \A j, k \in Given(n) \ Given(m) : j = k

ContentsInv ==
    faults.failures = 0 =>
        /\ recorded <= reached /\ Given(recorded) = Given(reached)
        /\ applying.what = "nothing" =>
              \/ contents = Broken /\ recorded < snap /\ reached = recorded
              \/ \E n \in reached..agreed : Reflects(contents, n) /\ OneMore(reached, n)
        /\ applying.what = "entry" => reached + 1 \in Given(reached + 1) /\ Reflects(contents, reached + 1)
        /\ applying.what = "restore" =>
              contents = Broken /\ recorded < applying.upto /\ applying.upto <= snap

\* The entries up to one more.
LEMMA GivenNext ==
    ASSUME NEW n \in Nat
    PROVE  /\ n + 1 \notin Given(n)
           /\ Given(n + 1) = IF log[n + 1].cmd # NoOp THEN Given(n) \cup {n + 1} ELSE Given(n)
  BY DEF Given

LEMMA GivenGrows ==
    ASSUME NEW m \in Nat, NEW n \in Nat, m <= n
    PROVE  Given(m) \subseteq Given(n) /\ \A k \in Given(n) : k <= m => k \in Given(m)
  BY DEF Given

\* Where the collections reflect entries of which one at most is behind m, there is one at most more.
LEMMA OneMoreCounted ==
    ASSUME NEW m \in Nat, NEW n \in Nat, m <= n, OneMore(m, n)
    PROVE  Cardinality(Given(n)) <= Cardinality(Given(m)) + 1
<1>1. Given(m) \in SUBSET (1..m) /\ Given(m) \subseteq Given(n)
  BY DEF Given
<1>2. IsFiniteSet(Given(m))
  BY <1>1, AscendingExists
<1>3. CASE Given(n) \ Given(m) = {}
  <2>1. Given(n) = Given(m)
    BY <1>1, <1>3
  <2>2. Cardinality(Given(m)) \in Nat
    BY <1>2, FS_CardinalityType
  <2>. QED
    BY <2>1, <2>2
<1>4. ASSUME NEW x \in Given(n) \ Given(m)
      PROVE  Cardinality(Given(n)) <= Cardinality(Given(m)) + 1
  <2>1. Given(n) = Given(m) \cup {x}
    BY <1>1, <1>4 DEF OneMore
  <2>2. Cardinality(Given(m)) \in Nat /\ Cardinality(Given(m) \cup {x}) = Cardinality(Given(m)) + 1
    BY <1>2, <1>4, FS_CardinalityType, FS_AddElement
  <2>. QED
    BY <2>1, <2>2
<1>. QED
  BY <1>3, <1>4

LEMMA ContentsSound == RaftTypes /\ ServerTypes /\ ContentsInv => ContentsMatchLog
<1>. SUFFICES ASSUME RaftTypes, ServerTypes, ContentsInv, faults.failures = 0 PROVE ContentsMatchLog
  BY DEF ContentsMatchLog, ServerTypes
<1>1. /\ recorded \in Nat /\ reached \in Nat /\ agreed \in Nat /\ snap \in Nat /\ reached <= agreed
      /\ recorded <= reached /\ Given(recorded) = Given(reached)
  BY DEF RaftTypes, ServerTypes, ContentsInv
<1>2. ASSUME NEW n \in reached..agreed, Reflects(contents, n), OneMore(reached, n)
      PROVE  ContentsMatchLog
  <2>1. n \in Nat /\ reached <= n /\ n \in recorded..agreed
    BY <1>1
  <2>2. Cardinality(Given(n)) <= Cardinality(Given(recorded)) + 1
    BY <1>1, <1>2, <2>1, OneMoreCounted
  <2>. QED
    BY <1>2, <2>1, <2>2 DEF ContentsMatchLog, Reflects
<1>3. CASE applying.what = "nothing"
  BY <1>2, <1>3 DEF ContentsInv, ContentsMatchLog
<1>4. CASE applying.what = "entry"
  <2>1. reached + 1 \in reached..agreed /\ Reflects(contents, reached + 1)
    BY <1>1, <1>4 DEF ContentsInv, ServerTypes
  <2>2. OneMore(reached, reached + 1)
    BY <1>1, GivenNext DEF OneMore
  <2>. QED
    BY <1>2, <2>1, <2>2
<1>5. CASE applying.what = "restore"
  <2>1. contents = Broken /\ recorded < applying.upto /\ applying.upto <= snap /\ applying.upto \in Nat
    BY <1>5 DEF ContentsInv, ServerTypes
  <2>. QED
    BY <1>1, <2>1 DEF ContentsMatchLog
<1>. QED
  BY <1>3, <1>4, <1>5 DEF ServerTypes

\* The apply thread does not get past what the node knows to be committed.
Behind ==
    /\ contents \in Seq(Nat)
    /\ snap <= commit /\ reached <= commit
    /\ applying.what = "entry" => reached < commit
    /\ applying.what = "restore" => applying.upto <= snap

LEMMA ContentsInitially == ClientsInit => ContentsInv /\ Behind
<1>. SUFFICES ASSUME ClientsInit PROVE ContentsInv /\ Behind
  OBVIOUS
<1>1. contents = <<>> /\ recorded = 0 /\ reached = 0 /\ agreed = 0 /\ applying = Nothing
  BY DEF ClientsInit
<1>2. Given(0) = {} /\ Range(<<>>) = {} /\ Ascending(<<>>)
  BY DEF Given, Range, Ascending
<1>3. Reflects(<<>>, 0) /\ OneMore(0, 0)
  BY <1>2 DEF Reflects, OneMore
<1>4. Behind
  BY DEF ClientsInit, Behind, Nothing
<1>. QED
  BY <1>1, <1>3, <1>4 DEF ContentsInv, Nothing

\* A step of Raft or of a request leaves the apply thread and the entries up to `agreed` alone.
LEMMA ContentsKept ==
    ASSUME RaftTypes, ServerTypes, ContentsInv, agreed' \in Nat, agreed <= agreed',
           snap' \in Nat, snap <= snap',
           \A k \in 1..agreed : log'[k] = log[k],
           UNCHANGED <<contents, recorded, reached, applying, faults>>
    PROVE  ContentsInv'
<1>1. SUFFICES ASSUME faults.failures = 0
               PROVE  /\ recorded <= reached /\ Given(recorded)' = Given(reached)'
                      /\ applying.what = "nothing" =>
                            \/ contents = Broken /\ recorded < snap' /\ reached = recorded
                            \/ \E n \in reached..agreed' : Reflects(contents, n)' /\ OneMore(reached, n)'
                      /\ applying.what = "entry" =>
                            reached + 1 \in Given(reached + 1)' /\ Reflects(contents, reached + 1)'
                      /\ applying.what = "restore" =>
                            contents = Broken /\ recorded < applying.upto /\ applying.upto <= snap'
  BY <1>1 DEF ContentsInv
<1>2. /\ recorded \in Nat /\ reached \in Nat /\ agreed \in Nat /\ snap \in Nat /\ reached <= agreed
      /\ recorded <= reached /\ Given(recorded) = Given(reached)
  BY <1>1 DEF RaftTypes, ServerTypes, ContentsInv
<1>3. \A n \in Nat : n <= agreed => Given(n)' = Given(n)
  BY <1>2 DEF Given
<1>4. PICK rd, rc, cs : rd = recorded /\ rc = reached /\ cs = contents
  OBVIOUS
<1>5. Given(recorded)' = Given(rd)' /\ Given(reached)' = Given(rc)' /\ Given(reached + 1)' = Given(rc + 1)'
  BY <1>4 DEF Given
<1>6. Given(recorded)' = Given(reached)'
  BY <1>2, <1>3, <1>4, <1>5
<1>7. ASSUME NEW n \in reached..agreed, Reflects(contents, n), OneMore(reached, n)
      PROVE  n \in reached..agreed' /\ Reflects(contents, n)' /\ OneMore(reached, n)'
  <2>1. Given(n)' = Given(n) /\ Given(reached)' = Given(reached)
    BY <1>2, <1>3, <1>4, <1>5
  <2>2. Reflects(contents, n)'
    BY <1>7, <2>1 DEF Reflects, Ascending, Range
  <2>3. OneMore(reached, n)'
    BY <1>7, <2>1 DEF OneMore
  <2>. QED
    BY <1>2, <2>2, <2>3
<1>8. ASSUME applying.what = "entry"
      PROVE  reached + 1 \in Given(reached + 1)' /\ Reflects(contents, reached + 1)'
  <2>1. reached + 1 <= agreed /\ reached + 1 \in Given(reached + 1) /\ Reflects(contents, reached + 1)
    BY <1>1, <1>2, <1>8 DEF ContentsInv, ServerTypes
  <2>2. Given(reached + 1)' = Given(reached + 1)
    BY <1>2, <1>3, <1>4, <1>5, <2>1
  <2>. QED
    BY <2>1, <2>2 DEF Reflects, Ascending, Range
<1>9. applying.what = "restore" => applying.upto \in Nat
  BY DEF ServerTypes
<1>. QED
  BY <1>1, <1>2, <1>6, <1>7, <1>8, <1>9 DEF ContentsInv

-----------------------------------------------------------------------------
LEMMA BehindByRaft == ASSUME RaftTypes, ServerTypes, Behind, RaftMoves PROVE Behind' /\ snap <= snap'
<1>1. /\ commit \in Nat /\ agreed \in Nat /\ commit <= agreed /\ snap \in Nat /\ reached \in Nat
      /\ contents \in Seq(Nat) /\ snap <= commit /\ reached <= commit
      /\ applying.what = "entry" => reached < commit
      /\ applying.what = "restore" => applying.upto <= snap /\ applying.upto \in Nat
  BY DEF RaftTypes, ServerTypes, Behind
<1>2. UNCHANGED <<contents, reached, applying>>
  BY DEF RaftMoves, serverVars
<1>3. commit' \in Nat /\ commit <= commit' /\ snap' \in Nat /\ snap <= snap' /\ snap' <= commit'
  <2>1. CASE Elected \/ Deposed \/ Overwritten \/ Extended
    BY <1>1, <2>1 DEF Elected, Deposed, Overwritten, Extended
  <2>2. CASE Committed
    <3>1. PICK n \in (agreed + 1)..Len(log) : commit' = n /\ agreed' = n
      BY <2>2 DEF Committed
    <3>2. snap' = snap
      BY <2>2 DEF Committed
    <3>. QED
      BY <1>1, <3>1, <3>2
  <2>3. CASE LearnCommit
    <3>1. PICK n \in (commit + 1)..agreed : commit' = n
      BY <2>3 DEF LearnCommit
    <3>2. snap' = snap
      BY <2>3 DEF LearnCommit
    <3>. QED
      BY <1>1, <3>1, <3>2
  <2>4. CASE SnapshotInstalled
    <3>1. PICK n \in (commit + 1)..MaxLog : commit' = n /\ snap' = n
      BY <2>4 DEF SnapshotInstalled
    <3>. QED
      BY <1>1, <3>1, LogViewAssumption
  <2>. QED
    BY <2>1, <2>2, <2>3, <2>4 DEF RaftMoves
<1>. QED
  BY <1>1, <1>2, <1>3 DEF Behind

\* Raft and the requests.
LEMMA ContentsByRaft == ASSUME ClientsInv, ContentsInv, Behind, RaftMoves PROVE ContentsInv' /\ Behind'
<1>1. RaftTypes /\ ServerTypes
  BY DEF ClientsInv
<1>2. RaftTypes' /\ LogMoves /\ Behind' /\ snap <= snap'
  BY <1>1, MovesOfRaft, BehindByRaft
<1>3. UNCHANGED <<contents, recorded, reached, applying, faults>>
  BY DEF RaftMoves, serverVars
<1>4. agreed' \in Nat /\ agreed <= agreed' /\ snap' \in Nat /\ \A k \in 1..agreed : log'[k] = log[k]
  BY <1>2 DEF RaftTypes, LogMoves
<1>. QED
  BY <1>1, <1>2, <1>3, <1>4, ContentsKept

LEMMA ContentsByRequest ==
    ASSUME ClientsInv, ContentsInv, Behind, NEW w \in Writer,
           \/ Arrive(w) \/ LockAndReadTerm(w) \/ Submit(w) \/ NotSubmitted(w)
           \/ TermChanged(w) \/ Register(w) \/ Answer(w) \/ LookAgain(w)
    PROVE  ContentsInv' /\ Behind'
<1>1. RaftTypes /\ ServerTypes
  BY DEF ClientsInv
<1>2. UNCHANGED <<commit, agreed, snap, contents, recorded, reached, applying, faults>>
  BY DEF Arrive, LockAndReadTerm, Submit, Submitted, NotSubmitted, TermChanged, Register, Answer, LookAgain,
         raftVars
<1>3. \A k \in 1..agreed : log'[k] = log[k]
  <2>1. CASE Submit(w)
    <3>1. log' = Append(log, Entry(term, request[w].num))
      BY <2>1 DEF Submit, Submitted
    <3>2. log \in Seq(LogEntries) /\ agreed \in Nat /\ agreed <= Len(log)
      BY <1>1 DEF RaftTypes
    <3>. QED
      BY <3>1, <3>2
  <2>2. CASE ~Submit(w)
    <3>1. log' = log
      BY <2>2 DEF Arrive, LockAndReadTerm, NotSubmitted, TermChanged, Register, Answer, LookAgain, raftVars
    <3>. QED
      BY <3>1
  <2>. QED
    BY <2>1, <2>2
<1>4. agreed' \in Nat /\ agreed <= agreed' /\ snap' \in Nat /\ snap <= snap'
  BY <1>1, <1>2 DEF RaftTypes
<1>5. ContentsInv'
  BY <1>1, <1>2, <1>3, <1>4, ContentsKept
<1>6. Behind'
  BY <1>2 DEF Behind
<1>. QED
  BY <1>5, <1>6

LEMMA ContentsByCompact == ASSUME ClientsInv, ContentsInv, Behind, Compact PROVE ContentsInv' /\ Behind'
<1>1. RaftTypes /\ ServerTypes
  BY DEF ClientsInv
<1>2. /\ applying = Nothing /\ reached > snap /\ snap' = reached
      /\ UNCHANGED <<log, commit, agreed, contents, recorded, reached, applying, faults>>
  BY DEF Compact
<1>3. agreed' \in Nat /\ agreed <= agreed' /\ snap' \in Nat /\ snap <= snap' /\ \A k \in 1..agreed : log'[k] = log[k]
  BY <1>1, <1>2 DEF RaftTypes, ServerTypes
<1>4. ContentsInv'
  BY <1>1, <1>2, <1>3, ContentsKept
<1>5. Behind'
  BY <1>2 DEF Behind, Nothing
<1>. QED
  BY <1>4, <1>5

-----------------------------------------------------------------------------
\* The apply thread.

LEMMA ContentsByPassOver == ASSUME ClientsInv, ContentsInv, Behind, PassOver PROVE ContentsInv' /\ Behind'
<1>1. /\ reached \in Nat /\ recorded \in Nat /\ agreed \in Nat /\ snap \in Nat /\ commit \in Nat
      /\ commit <= agreed /\ reached <= commit /\ snap <= commit
  BY DEF ClientsInv, RaftTypes, ServerTypes, Behind
<1>2. /\ applying = Nothing /\ reached < commit /\ reached >= snap /\ log[reached + 1].cmd = NoOp
      /\ reached' = reached + 1
      /\ UNCHANGED <<log, agreed, commit, snap, contents, recorded, applying, faults>>
  BY DEF PassOver, Ready, raftVars
<1>3. Behind'
  BY <1>1, <1>2 DEF Behind, Nothing
<1>4. PICK r \in Nat : r = reached /\ reached' = r + 1
  BY <1>1, <1>2
<1>5. Given(r + 1) = Given(r)
  BY <1>2, <1>4, GivenNext
<1>6. SUFFICES ASSUME faults.failures = 0
               PROVE  /\ recorded <= r + 1 /\ Given(recorded) = Given(r + 1)
                      /\ \/ contents = Broken /\ recorded < snap /\ r + 1 = recorded
                         \/ \E n \in (r + 1)..agreed : Reflects(contents, n) /\ OneMore(r + 1, n)
  <2>1. \A n : (Reflects(contents, n)' <=> Reflects(contents, n)) /\ (OneMore(r + 1, n)' <=> OneMore(r + 1, n))
               /\ Given(n)' = Given(n)
    BY <1>2 DEF Reflects, OneMore, Ascending, Range, Given
  <2>2. Given(recorded)' = Given(recorded) /\ Given(reached)' = Given(r + 1)
    BY <1>2, <1>4 DEF Given
  <2>3. \A n : OneMore(reached, n)' <=> OneMore(r + 1, n)
    BY <2>1, <2>2 DEF OneMore
  <2>. QED
    BY <1>2, <1>3, <1>4, <1>6, <2>1, <2>2, <2>3 DEF ContentsInv, Nothing
<1>7. /\ recorded <= r /\ Given(recorded) = Given(r)
      /\ \/ contents = Broken /\ recorded < snap /\ r = recorded
         \/ \E n \in r..agreed : Reflects(contents, n) /\ OneMore(r, n)
  BY <1>2, <1>4, <1>6 DEF ContentsInv, Nothing
<1>8. PICK n \in r..agreed : Reflects(contents, n) /\ OneMore(r, n)
  BY <1>1, <1>2, <1>4, <1>7
<1>9. CASE n = r
  <2>1. Reflects(contents, r + 1) /\ OneMore(r + 1, r + 1)
    BY <1>5, <1>8, <1>9 DEF Reflects, OneMore
  <2>2. r + 1 \in (r + 1)..agreed
    BY <1>1, <1>2, <1>4
  <2>. QED
    BY <1>1, <1>5, <1>7, <2>1, <2>2
<1>10. CASE n # r
  <2>1. n \in (r + 1)..agreed
    BY <1>10
  <2>2. OneMore(r + 1, n)
    BY <1>5, <1>8 DEF OneMore
  <2>. QED
    BY <1>1, <1>5, <1>7, <1>8, <2>1, <2>2
<1>. QED
  BY <1>9, <1>10

LEMMA ContentsByApply == ASSUME ClientsInv, ContentsInv, Behind, ApplyEntry PROVE ContentsInv' /\ Behind'
<1>1. /\ reached \in Nat /\ recorded \in Nat /\ agreed \in Nat /\ snap \in Nat /\ commit \in Nat
      /\ commit <= agreed /\ reached <= commit /\ snap <= commit
  BY DEF ClientsInv, RaftTypes, ServerTypes, Behind
<1>2. /\ applying = Nothing /\ reached < commit /\ reached >= snap /\ log[reached + 1].cmd # NoOp
      /\ contents' = Append(contents, reached + 1)
      /\ recorded' = recorded
      /\ applying' = [Nothing EXCEPT !.what = "entry"]
      /\ UNCHANGED <<log, agreed, commit, snap, reached, faults>>
  BY DEF ApplyEntry, Ready, raftVars, Recorded
<1>3. applying'.what = "entry"
  BY <1>2 DEF Nothing
<1>4. Behind'
  BY <1>1, <1>2, <1>3 DEF Behind
<1>5. PICK r \in Nat : r = reached
  BY <1>1
<1>6. r + 1 \in Given(r + 1) /\ Given(r + 1) = Given(r) \cup {r + 1} /\ Given(r) \subseteq 1..r
  BY <1>2, <1>5, GivenNext DEF Given
<1>7. SUFFICES ASSUME faults.failures = 0
               PROVE  Reflects(Append(contents, r + 1), r + 1)
  <2>1. /\ Given(recorded)' = Given(recorded) /\ Given(reached)' = Given(reached)
        /\ Given(reached + 1)' = Given(r + 1)
    BY <1>2, <1>5 DEF Given
  <2>2. Reflects(Append(contents, r + 1), r + 1) => Reflects(contents, reached + 1)'
    BY <1>2, <1>5, <2>1 DEF Reflects, Ascending, Range
  <2>3. faults.failures = 0 => recorded <= reached /\ Given(recorded) = Given(reached)
    BY DEF ContentsInv
  <2>. QED
    BY <1>2, <1>3, <1>4, <1>5, <1>6, <1>7, <2>1, <2>2, <2>3 DEF ContentsInv
<1>8. PICK n \in r..agreed : Reflects(contents, n) /\ OneMore(r, n)
  BY <1>1, <1>2, <1>5, <1>7 DEF ContentsInv, Nothing
<1>9. Given(n) = Given(r) \/ Given(n) = Given(r + 1)
  <2>1. CASE n = r
    BY <2>1
  <2>2. CASE n # r
    <3>1. n \in Nat /\ r + 1 <= n /\ n # r
      BY <2>2
    <3>2. r + 1 \in Given(n) \ Given(r) /\ Given(r) \subseteq Given(n)
      BY <1>6, <3>1, GivenGrows
    <3>. QED
      BY <1>6, <1>8, <3>2 DEF OneMore
  <2>. QED
    BY <2>1, <2>2
<1>10. Range(contents) \subseteq 1..(r + 1) /\ Ascending(contents) /\ Range(contents) = Given(n)
  BY <1>6, <1>8, <1>9 DEF Reflects
<1>. DEFINE a == Append(contents, r + 1)
            l == Len(contents)
<1>11. /\ l \in Nat /\ DOMAIN contents = 1..l /\ DOMAIN a = 1..(l + 1)
       /\ \A k \in 1..l : a[k] = contents[k]
       /\ a[l + 1] = r + 1
  BY DEF Behind
<1>. HIDE DEF a, l
<1>12. \A k \in 1..l : contents[k] \in Range(contents) /\ contents[k] \in 1..(r + 1)
  BY <1>10, <1>11 DEF Range
<1>13. Ascending(a)
  <2>1. SUFFICES ASSUME NEW j \in 1..(l + 1), NEW k \in 1..(l + 1), j < k
                 PROVE  a[j] <= a[k]
    BY <1>11 DEF Ascending
  <2>2. j \in 1..l
    BY <1>11, <2>1
  <2>3. CASE k = l + 1
    BY <1>11, <1>12, <2>2, <2>3
  <2>4. CASE k # l + 1
    <3>1. k \in 1..l
      BY <1>11, <2>4
    <3>2. contents[j] <= contents[k]
      BY <1>10, <1>11, <2>1, <2>2, <3>1 DEF Ascending
    <3>. QED
      BY <1>11, <2>2, <3>1, <3>2
  <2>. QED
    BY <2>3, <2>4
<1>14. Range(a) = Range(contents) \cup {r + 1}
  <2>1. \A k \in 1..(l + 1) : k \in 1..l \/ k = l + 1
    BY <1>11
  <2>2. \A k \in 1..l : k \in 1..(l + 1)
    BY <1>11
  <2>3. l + 1 \in 1..(l + 1)
    BY <1>11
  <2>4. \A y \in Range(a) : y \in Range(contents) \/ y = r + 1
    BY <1>11, <2>1 DEF Range
  <2>5. \A y \in Range(contents) : y \in Range(a)
    BY <1>11, <2>2 DEF Range
  <2>6. r + 1 \in Range(a)
    BY <1>11, <2>3 DEF Range
  <2>. QED
    BY <2>4, <2>5, <2>6
<1>15. Range(a) = Given(r + 1)
  BY <1>6, <1>9, <1>10, <1>14
<1>. QED
  BY <1>13, <1>15 DEF Reflects, a

LEMMA ContentsByDeliver ==
    ASSUME ClientsInv, ContentsInv, Behind, RecordAndDeliver PROVE ContentsInv' /\ Behind'
<1>1. /\ reached \in Nat /\ recorded \in Nat /\ agreed \in Nat /\ snap \in Nat /\ commit \in Nat
      /\ commit <= agreed /\ reached <= commit /\ snap <= commit
  BY DEF ClientsInv, RaftTypes, ServerTypes, Behind
<1>2. /\ applying.what = "entry"
      /\ recorded' = reached + 1 /\ reached' = reached + 1 /\ applying' = Nothing
      /\ UNCHANGED <<log, agreed, commit, snap, contents, faults>>
  BY DEF RecordAndDeliver, raftVars, Recorded
<1>3. reached < commit
  BY <1>2 DEF Behind
<1>4. Behind'
  BY <1>1, <1>2, <1>3 DEF Behind, Nothing
<1>5. PICK r \in Nat : r = reached + 1
  BY <1>1
<1>6. faults.failures = 0 => Reflects(contents, r)
  BY <1>2, <1>5 DEF ContentsInv
<1>7. Reflects(contents, r)' <=> Reflects(contents, r)
  BY <1>2 DEF Reflects, Ascending, Range, Given
<1>8. r \in r..agreed /\ reached' = r /\ recorded' = r /\ agreed' = agreed
  BY <1>1, <1>2, <1>3, <1>5
<1>9. OneMore(reached, r)'
  BY <1>8 DEF OneMore, Given
<1>10. Given(recorded)' = Given(reached)'
  BY <1>8 DEF Given
<1>. QED
  BY <1>2, <1>4, <1>6, <1>7, <1>8, <1>9, <1>10 DEF ContentsInv, Nothing

LEMMA ContentsByClear ==
    ASSUME ClientsInv, ContentsInv, Behind, RestoreClears PROVE ContentsInv' /\ Behind'
<1>1. /\ reached \in Nat /\ recorded \in Nat /\ agreed \in Nat /\ snap \in Nat /\ commit \in Nat
      /\ reached <= commit /\ snap <= commit
  BY DEF ClientsInv, RaftTypes, ServerTypes, Behind
<1>2. /\ applying = Nothing /\ reached < snap
      /\ contents' = Broken /\ recorded' = recorded /\ applying' = [what |-> "restore", upto |-> snap]
      /\ UNCHANGED <<log, agreed, commit, snap, reached, faults>>
  BY DEF RestoreClears, raftVars, Recorded
<1>3. contents' \in Seq(Nat)
  BY <1>2 DEF Broken
<1>4. Behind'
  BY <1>1, <1>2, <1>3 DEF Behind
<1>5. Given(recorded)' = Given(recorded) /\ Given(reached)' = Given(reached)
  BY <1>2 DEF Given
<1>. QED
  BY <1>1, <1>2, <1>4, <1>5 DEF ContentsInv, Broken

LEMMA ContentsByRestore ==
    ASSUME ClientsInv, ContentsInv, Behind, RestoreCompletes PROVE ContentsInv' /\ Behind'
<1>1. /\ agreed \in Nat /\ snap \in Nat /\ commit \in Nat /\ snap <= commit /\ commit <= agreed
      /\ applying.upto \in Nat
  BY DEF ClientsInv, RaftTypes, ServerTypes, Behind
<1>2. PICK r \in Nat : r = applying.upto
  BY <1>1
<1>3. /\ applying.what = "restore"
      /\ contents' = GivenUpTo(r) /\ recorded' = r /\ reached' = r /\ applying' = Nothing
      /\ UNCHANGED <<log, agreed, commit, snap, faults>>
  BY <1>2 DEF RestoreCompletes, raftVars, Recorded
<1>4. r <= snap
  BY <1>2, <1>3 DEF Behind
<1>5. /\ GivenUpTo(r) \in [1..Cardinality(Given(r)) -> Given(r)]
      /\ Ascending(GivenUpTo(r)) /\ Range(GivenUpTo(r)) = Given(r)
  BY GivenUpToIs
<1>6. GivenUpTo(r) \in Seq(Nat)
  <2>1. Given(r) \in SUBSET (1..r)
    BY DEF Given
  <2>2. Cardinality(Given(r)) \in Nat
    BY <2>1, AscendingExists, FS_CardinalityType
  <2>. QED
    BY <1>5, <2>1, <2>2
<1>7. Behind'
  BY <1>1, <1>3, <1>4, <1>6 DEF Behind, Nothing
<1>8. Reflects(contents, r)'
  <2>1. Given(r)' = Given(r)
    BY <1>3 DEF Given
  <2>. QED
    BY <1>3, <1>5, <2>1 DEF Reflects, Ascending, Range
<1>9. OneMore(reached, r)' /\ Given(recorded)' = Given(reached)'
  BY <1>3 DEF OneMore, Given
<1>10. r \in r..agreed'
  BY <1>1, <1>3, <1>4
<1>. QED
  BY <1>3, <1>7, <1>8, <1>9, <1>10 DEF ContentsInv, Nothing

LEMMA ContentsByFailure ==
    ASSUME ClientsInv, ContentsInv, Behind, RestoreFails PROVE ContentsInv' /\ Behind'
<1>1. /\ snap \in Nat /\ commit \in Nat /\ snap <= commit /\ applying.upto \in Nat /\ applying.upto <= snap
      /\ faults.failures \in Nat /\ faults \in [crashes : Nat, failures : Nat]
  BY DEF ClientsInv, RaftTypes, ServerTypes, Behind, RestoreFails
<1>2. /\ reached' = applying.upto /\ applying' = Nothing /\ faults'.failures = faults.failures + 1
      /\ UNCHANGED <<commit, snap, contents>>
  BY <1>1 DEF RestoreFails, raftVars
<1>3. faults'.failures # 0
  BY <1>1, <1>2
<1>4. Behind'
  BY <1>1, <1>2 DEF Behind, Nothing
<1>. QED
  BY <1>3, <1>4 DEF ContentsInv

\* After a restart the entry under way comes again, or the restore does.
LEMMA ContentsByCrash ==
    ASSUME ClientsInv, ContentsInv, Behind, CrashRestart PROVE ContentsInv' /\ Behind'
<1>1. /\ reached \in Nat /\ recorded \in Nat /\ agreed \in Nat /\ snap \in Nat /\ commit \in Nat
      /\ recorded <= agreed /\ faults \in [crashes : Nat, failures : Nat]
      /\ (applying.what = "entry" => reached < agreed) /\ applying.upto \in Nat
      /\ applying.what \in {"nothing", "entry", "restore"} /\ contents \in Seq(Nat)
      /\ (applying.what = "restore" => applying.upto <= snap)
  BY DEF ClientsInv, RaftTypes, ServerTypes, Behind
<1>2. /\ reached' = recorded /\ commit' = (IF snap > recorded THEN snap ELSE recorded)
      /\ applying' = Nothing /\ faults'.failures = faults.failures
      /\ UNCHANGED <<log, snap, agreed, contents, recorded>>
  BY <1>1 DEF CrashRestart
<1>3. Behind'
  BY <1>1, <1>2 DEF Behind, Nothing
<1>4. \A n : (Reflects(contents, n)' <=> Reflects(contents, n)) /\ Given(n)' = Given(n)
  BY <1>2 DEF Reflects, Ascending, Range, Given
<1>5. PICK r \in Nat : r = recorded
  BY <1>1
<1>6. \A n : OneMore(reached, n)' <=> OneMore(r, n)
  BY <1>2, <1>5 DEF OneMore, Given
<1>7. Given(recorded)' = Given(reached)'
  BY <1>2 DEF Given
<1>8. SUFFICES ASSUME faults.failures = 0
               PROVE  \/ contents = Broken /\ r < snap
                      \/ \E n \in r..agreed : Reflects(contents, n) /\ OneMore(r, n)
  BY <1>2, <1>3, <1>4, <1>5, <1>6, <1>7, <1>8 DEF ContentsInv, Nothing
<1>9. r <= reached /\ Given(r) = Given(reached)
  BY <1>5, <1>8 DEF ContentsInv
<1>10. CASE applying.what = "nothing"
  <2>1. \/ contents = Broken /\ recorded < snap
        \/ \E n \in reached..agreed : Reflects(contents, n) /\ OneMore(reached, n)
    BY <1>8, <1>10 DEF ContentsInv
  <2>2. ASSUME NEW n \in reached..agreed, Reflects(contents, n), OneMore(reached, n)
        PROVE  n \in r..agreed /\ OneMore(r, n)
    BY <1>1, <1>9, <2>2 DEF OneMore
  <2>. QED
    BY <1>5, <2>1, <2>2
<1>11. CASE applying.what = "entry"
  <2>1. Reflects(contents, reached + 1) /\ reached + 1 \in r..agreed
    BY <1>1, <1>8, <1>9, <1>11 DEF ContentsInv
  <2>2. OneMore(r, reached + 1)
    BY <1>1, <1>9, GivenNext DEF OneMore
  <2>. QED
    BY <2>1, <2>2
<1>12. CASE applying.what = "restore"
  <2>1. contents = Broken /\ recorded < applying.upto
    BY <1>8, <1>12 DEF ContentsInv
  <2>. QED
    BY <1>1, <1>5, <1>12, <2>1
<1>. QED
  BY <1>1, <1>10, <1>11, <1>12

LEMMA ContentsStutter == ASSUME ContentsInv, Behind, UNCHANGED clientVars PROVE ContentsInv' /\ Behind'
<1>1. UNCHANGED <<log, commit, snap, agreed, contents, recorded, reached, applying, faults>>
  BY DEF clientVars, raftVars, serverVars
<1>. QED
  BY <1>1 DEF ContentsInv, Behind, Reflects, OneMore, Given, Ascending, Range

LEMMA ContentsNext ==
    ClientsInv /\ ContentsInv /\ Behind /\ [ClientsNext]_clientVars => ContentsInv' /\ Behind'
<1>. SUFFICES ASSUME ClientsInv, ContentsInv, Behind, [ClientsNext]_clientVars PROVE ContentsInv' /\ Behind'
  OBVIOUS
<1>1. CASE UNCHANGED clientVars
  BY <1>1, ContentsStutter
<1>2. CASE \E w \in Writer : \/ Arrive(w) \/ LockAndReadTerm(w) \/ Submit(w) \/ NotSubmitted(w)
                             \/ TermChanged(w) \/ Register(w) \/ Answer(w) \/ LookAgain(w)
  BY <1>2, ContentsByRequest
<1>3. CASE PassOver \/ ApplyEntry \/ RecordAndDeliver \/ RestoreClears \/ RestoreCompletes \/ RestoreFails
           \/ Compact \/ RaftMoves \/ CrashRestart
  BY <1>3, ContentsByPassOver, ContentsByApply, ContentsByDeliver, ContentsByClear, ContentsByRestore,
     ContentsByFailure, ContentsByCompact, ContentsByRaft, ContentsByCrash
<1>. QED
  BY <1>1, <1>2, <1>3 DEF ClientsNext

\* Whatever a crash cuts off, the collections hold the entries up to what the file says, in order, and
\* at most one more, or a restore has to be done again.
THEOREM ContentsAreTheLog == ClientsSpec => []ContentsMatchLog
<1>1. ClientsInv => RaftTypes /\ ServerTypes
  BY DEF ClientsInv
<1>. QED
  BY <1>1, ClientsInitially, KeptByNext, ContentsInitially, ContentsNext, ContentsSound, PTL DEF ClientsSpec

-----------------------------------------------------------------------------
\* The collection registry.

Collections_ == [num : Nat, obj : Nat, shows : SUBSET Nat]
Holds_ == [name : Name \cup {NoName}, num : Nat, obj : Nat]
Files == [collections : [Name -> Nat], aliases : [Name -> Name \cup {NoName}]]
Drops == [kind : {"drop"}, name : Name, objs : SUBSET Nat]
Replaces == [kind : {"replace"}, names : SUBSET Name, objs : SUBSET Nat]

RegistryTypes ==
    /\ made \in Nat /\ opened \in Nat
    /\ collections \in [Name -> Collections_]
    /\ aliases \in [Name -> Name \cup {NoName}]
    /\ file \in Files
    /\ dirs \in [Name -> SUBSET Nat]
    /\ holds \in [Request -> Holds_]
    /\ op \in {NoOperation} \cup Drops \cup Replaces

\* Numbers are those of collections that were made; only no collection has number 0.
Numbers ==
    /\ \A n \in Name : collections[n].num <= made /\ file.collections[n] <= made
    /\ \A n \in Name : Exists(n) => collections[n].num > 0 /\ collections[n].obj > 0
    /\ \A r \in Request : holds[r].num <= made /\ (holds[r].num > 0 => holds[r].name \in Name /\ holds[r].obj > 0)
    /\ \A c \in acked : c \in 1..made

\* No two names stand for the same collection, in memory or in the file; who holds a collection
\* that is registered holds the instance that is.
Distinct ==
    /\ \A m, n \in Name : collections[m].num = collections[n].num => m = n \/ collections[m].num = 0
    /\ \A m, n \in Name : file.collections[m] = file.collections[n] => m = n \/ file.collections[m] = 0
    /\ \A r \in Request, n \in Name : holds[r].num > 0 /\ collections[n].num = holds[r].num =>
          n = holds[r].name /\ collections[n].obj = holds[r].obj

Dropping(n) == op.kind = "drop" /\ op.name = n

\* While an operation waits for requests, what it took out of the maps is out of them.
Waiting_ ==
    /\ op.kind = "drop" => collections[op.name] = None
    /\ Replacing => \A n \in Name : collections[n] = None /\ aliases[n] = NoName

\* The file agrees with the maps, but for names whose directory was left.
Synced ==
    \A n \in Name \ left :
        /\ ~Replacing => file.collections[n] = collections[n].num
        /\ Replacing /\ file.collections[n] > 0 => n \in op.names

\* A directory has the writes of the registered collection, until it is dropped.
DirsOwned ==
    \A n \in Name \ left : ~Dropping(n) => dirs[n] \subseteq {file.collections[n]} \ {0}

\* Who holds a collection holds the current one, or the operation waits for it.
HoldersKnown ==
    \A r \in Request : holds[r].num > 0 =>
        \/ holds[r].name \in left
        \/ Dropping(holds[r].name) /\ holds[r].obj \in op.objs
        \/ Replacing /\ holds[r].obj \in op.objs /\ file.collections[holds[r].name] = holds[r].num
        \/ /\ ~Replacing
           /\ collections[holds[r].name].num = holds[r].num /\ collections[holds[r].name].obj = holds[r].obj

\* Unless a save, a load or a replacement failed: all of the file, and all answered writes.
FileComplete ==
    {"save", "load", "replace"} \cap trouble = {} =>
        /\ ~Replacing => \A n \in Name : file.collections[n] = collections[n].num
        /\ \A n \in Name : Exists(n) /\ collections[n].num \in acked => collections[n].num \in dirs[n]

\* The file was written when aliases led somewhere.
FileAliasesLead ==
    "load" \notin trouble =>
        \A a \in Name : file.aliases[a] # NoName =>
            file.aliases[a] \in Name /\ file.collections[a] = 0 /\ file.collections[file.aliases[a]] > 0

RegistryInv ==
    /\ RegistryTypes /\ Numbers /\ Distinct /\ Waiting_
    /\ Synced /\ DirsOwned /\ HoldersKnown /\ OnlyOwnWrites
    /\ FileComplete /\ FileAliasesLead /\ AliasesLead

LEMMA NoneTyped == None \in Collections_ /\ None.num = 0 /\ None.obj = 0
  BY DEF None, Collections_

LEMMA NoHoldTyped == NoHold \in Holds_ /\ NoHold.num = 0 /\ NoHold.obj = 0
  BY DEF NoHold, Holds_

LEMMA NoFileTyped ==
    NoFile \in Files /\ \A n \in Name : NoFile.collections[n] = 0 /\ NoFile.aliases[n] = NoName
  BY DEF NoFile, Files

\* The fields of what the types name.
LEMMA FieldTypes ==
    ASSUME RegistryTypes
    PROVE  /\ \A n \in Name : collections[n] \in Collections_ /\ collections[n].num \in Nat /\ collections[n].obj \in Nat
                              /\ collections[n].shows \subseteq Nat /\ dirs[n] \subseteq Nat
                              /\ file.collections[n] \in Nat /\ file.aliases[n] \in Name \cup {NoName}
                              /\ aliases[n] \in Name \cup {NoName}
           /\ \A r \in Request : holds[r] \in Holds_ /\ holds[r].num \in Nat /\ holds[r].obj \in Nat
                                 /\ holds[r].name \in Name \cup {NoName}
  BY DEF RegistryTypes, Collections_, Holds_, Files

LEMMA RegistryInitially == RegistryInit => RegistryInv
<1>. SUFFICES ASSUME RegistryInit PROVE RegistryInv
  OBVIOUS
<1>1. /\ collections = [n \in Name |-> None] /\ aliases = [a \in Name |-> NoName] /\ file = NoFile
      /\ dirs = [n \in Name |-> {}] /\ holds = [r \in Request |-> NoHold] /\ op = NoOperation
      /\ made = 0 /\ opened = 0 /\ trouble = {} /\ acked = {} /\ left = {}
  BY DEF RegistryInit
<1>2. RegistryTypes
  BY <1>1, NoneTyped, NoHoldTyped, NoFileTyped DEF RegistryTypes
<1>3. \A n \in Name : ~Exists(n) /\ collections[n].num = 0 /\ file.collections[n] = 0 /\ file.aliases[n] = NoName
                      /\ aliases[n] = NoName /\ dirs[n] = {}
  BY <1>1, NoneTyped, NoFileTyped DEF Exists
<1>4. \A r \in Request : holds[r].num = 0
  BY <1>1, NoHoldTyped
<1>5. op.kind = "none"
  BY <1>1 DEF NoOperation
<1>6. Numbers /\ Distinct /\ Waiting_
  BY <1>1, <1>3, <1>4, <1>5 DEF Numbers, Distinct, Waiting_, Replacing
<1>7. Synced /\ DirsOwned /\ HoldersKnown /\ OnlyOwnWrites
  BY <1>3, <1>4, <1>5 DEF Synced, DirsOwned, HoldersKnown, OnlyOwnWrites, Replacing
<1>8. FileComplete /\ FileAliasesLead /\ AliasesLead
  BY <1>3, <1>5 DEF FileComplete, FileAliasesLead, AliasesLead, Replacing
<1>. QED
  BY <1>2, <1>6, <1>7, <1>8 DEF RegistryInv

-----------------------------------------------------------------------------
\* Steps that change the maps and save them. What they have to show is about the maps alone.

\* The maps as they will be are sound.
MapsNext ==
    /\ \A m, n \in Name : collections'[m].num = collections'[n].num => m = n \/ collections'[m].num = 0
    /\ \A n \in Name : collections'[n] \in Collections_ /\ collections'[n].num <= made'
    /\ \A n \in Name : collections'[n] # None => collections'[n].num > 0 /\ collections'[n].obj > 0
    /\ aliases' \in [Name -> Name \cup {NoName}]
    /\ "load" \notin trouble => \A a \in Name : aliases'[a] # NoName =>
           collections'[aliases'[a]] # None /\ collections'[a] = None

LEMMA SavedFields ==
    ASSUME RegistryTypes, MapsNext
    PROVE  /\ Saved \in Files
           /\ \A n \in Name : Saved.collections[n] = collections'[n].num /\ Saved.aliases[n] = aliases'[n]
<1>1. \A n \in Name : collections'[n].num \in Nat
  BY DEF MapsNext, Collections_
<1>. QED
  BY <1>1 DEF MapsNext, Saved, Files

\* The file and what is said of it, after the save or without it.
LEMMA SaveKeeps ==
    ASSUME RegistryInv, MapsNext, SaveOrThrow, made' >= made, made' \in Nat, ~Replacing
    PROVE  /\ file' \in Files
           /\ \A n \in Name : file'.collections[n] <= made'
           /\ \A m, n \in Name : file'.collections[m] = file'.collections[n] => m = n \/ file'.collections[m] = 0
           /\ file' # Saved => "save" \in trouble' /\ file' = file
           /\ trouble \subseteq trouble' /\ ("load" \in trouble' => "load" \in trouble)
           /\ (FileAliasesLead /\ AliasesLead)'
<1>. USE DEF RegistryInv
<1>1. /\ Saved \in Files
      /\ \A n \in Name : Saved.collections[n] = collections'[n].num /\ Saved.aliases[n] = aliases'[n]
  BY SavedFields
<1>2. trouble \subseteq trouble' /\ ("load" \in trouble' => "load" \in trouble)
  BY DEF SaveOrThrow
<1>3. file' = Saved \/ (file' = file /\ "save" \in trouble')
  BY DEF SaveOrThrow
<1>4. \A n \in Name : collections'[n].num \in Nat
  BY DEF MapsNext, Collections_
<1>5. \A n \in Name : file.collections[n] \in Nat
  BY FieldTypes
<1>6. CASE file' = Saved
  <2>1. /\ file' \in Files
        /\ \A n \in Name : file'.collections[n] <= made'
        /\ \A m, n \in Name : file'.collections[m] = file'.collections[n] => m = n \/ file'.collections[m] = 0
    BY <1>1, <1>6 DEF MapsNext
  <2>2. ASSUME "load" \notin trouble', NEW a \in Name, aliases'[a] # NoName
        PROVE  /\ aliases'[a] \in Name /\ collections'[aliases'[a]] # None /\ collections'[a] = None
               /\ file'.aliases[a] = aliases'[a] /\ file'.collections[a] = 0 /\ file'.collections[aliases'[a]] > 0
    <3>1. aliases'[a] \in Name /\ collections'[aliases'[a]] # None /\ collections'[a] = None
      BY <1>2, <2>2 DEF MapsNext
    <3>2. file'.aliases[a] = aliases'[a] /\ file'.collections[a] = collections'[a].num
          /\ file'.collections[aliases'[a]] = collections'[aliases'[a]].num
      BY <1>1, <1>6, <3>1
    <3>. QED
      BY <3>1, <3>2, NoneTyped DEF MapsNext
  <2>3. \A a \in Name : file'.aliases[a] = aliases'[a]
    BY <1>1, <1>6
  <2>4. FileAliasesLead'
    BY <2>2, <2>3 DEF FileAliasesLead
  <2>5. AliasesLead'
    BY <2>2 DEF AliasesLead, Exists
  <2>. QED
    BY <1>2, <1>6, <2>1, <2>4, <2>5
<1>7. CASE file' = file /\ "save" \in trouble'
  <2>1. /\ file' \in Files
        /\ \A n \in Name : file'.collections[n] <= made'
        /\ \A m, n \in Name : file'.collections[m] = file'.collections[n] => m = n \/ file'.collections[m] = 0
    <3>1. file \in Files /\ made \in Nat
      BY DEF RegistryTypes
    <3>2. \A n \in Name : file.collections[n] <= made
      BY DEF Numbers
    <3>3. \A n \in Name : file.collections[n] <= made'
      BY <1>5, <3>1, <3>2
    <3>. QED
      BY <1>7, <3>1, <3>3 DEF Distinct
  <2>2. FileAliasesLead'
    BY <1>2, <1>7 DEF FileAliasesLead
  <2>3. AliasesLead'
    BY <1>2, <1>7 DEF AliasesLead, MapsNext, Exists
  <2>. QED
    BY <1>2, <1>7, <2>1, <2>2, <2>3
<1>. QED
  BY <1>3, <1>6, <1>7

\* Changes of aliases alone.
LEMMA KeptByAliases ==
    ASSUME RegistryInv, ~Replacing, MapsNext, SaveOrThrow, UNCHANGED <<collections, dirs, holds, op, made, opened, acked, left>>
    PROVE  RegistryInv'
<1>. USE DEF RegistryInv
<1>1. made \in Nat /\ made' = made
  BY DEF RegistryTypes
<1>2. /\ file' \in Files
      /\ \A n \in Name : file'.collections[n] <= made'
      /\ \A m, n \in Name : file'.collections[m] = file'.collections[n] => m = n \/ file'.collections[m] = 0
      /\ file' # Saved => "save" \in trouble' /\ file' = file
      /\ trouble \subseteq trouble' /\ ("load" \in trouble' => "load" \in trouble)
      /\ (FileAliasesLead /\ AliasesLead)'
  BY <1>1, SaveKeeps
<1>3. \A n \in Name : Saved.collections[n] = collections[n].num
  BY SavedFields
<1>4. \A n \in Name \ left : file'.collections[n] = collections[n].num /\ file.collections[n] = collections[n].num
  BY <1>2, <1>3 DEF Synced
<1>5. RegistryTypes'
  BY <1>2 DEF RegistryTypes, MapsNext
<1>6. Numbers'
  BY <1>1, <1>2 DEF Numbers, Exists
<1>7. Distinct'
  BY <1>2 DEF Distinct
<1>8. Waiting_'
  BY DEF Waiting_, Replacing
<1>9. Synced'
  BY <1>4 DEF Synced, Replacing
<1>10. DirsOwned'
  BY <1>4 DEF DirsOwned, Dropping
<1>11. HoldersKnown'
  BY DEF HoldersKnown, Dropping, Replacing
<1>12. OnlyOwnWrites'
  BY DEF OnlyOwnWrites, Exists
<1>13. FileComplete'
  BY <1>2, <1>3 DEF FileComplete, Replacing, Exists
<1>. QED
  BY <1>2, <1>5, <1>6, <1>7, <1>8, <1>9, <1>10, <1>11, <1>12, <1>13

LEMMA KeptBySetAlias == ASSUME RegistryInv, NEW a \in Name, NEW n \in Name, set_alias(a, n) PROVE RegistryInv'
<1>. USE DEF RegistryInv
<1>1. /\ ~Exists(a) /\ Exists(n) /\ aliases' = [aliases EXCEPT ![a] = n]
      /\ UNCHANGED <<collections, dirs, holds, op, made, opened, acked, left>> /\ SaveOrThrow
  BY DEF set_alias
<1>2. ~Replacing
  BY <1>1 DEF Waiting_, Exists
<1>3. aliases' \in [Name -> Name \cup {NoName}]
  BY <1>1 DEF RegistryTypes
<1>4. "load" \notin trouble => \A b \in Name : aliases'[b] # NoName => collections[aliases'[b]] # None /\ collections[b] = None
  BY <1>1 DEF AliasesLead, Exists, RegistryTypes
<1>5. MapsNext
  BY <1>1, <1>3, <1>4 DEF MapsNext, Distinct, Numbers, Exists, RegistryTypes
<1>. QED
  BY <1>1, <1>2, <1>5, KeptByAliases

LEMMA KeptByDeleteAlias == ASSUME RegistryInv, NEW a \in Name, delete_alias(a) PROVE RegistryInv'
<1>. USE DEF RegistryInv
<1>1. /\ aliases[a] # NoName /\ aliases' = [aliases EXCEPT ![a] = NoName]
      /\ UNCHANGED <<collections, dirs, holds, op, made, opened, acked, left>> /\ SaveOrThrow
  BY DEF delete_alias
<1>2. ~Replacing
  BY <1>1 DEF Waiting_
<1>3. aliases' \in [Name -> Name \cup {NoName}]
  BY <1>1 DEF RegistryTypes
<1>4. "load" \notin trouble => \A b \in Name : aliases'[b] # NoName => collections[aliases'[b]] # None /\ collections[b] = None
  BY <1>1 DEF AliasesLead, Exists, RegistryTypes
<1>5. MapsNext
  BY <1>1, <1>3, <1>4 DEF MapsNext, Distinct, Numbers, Exists, RegistryTypes
<1>. QED
  BY <1>1, <1>2, <1>5, KeptByAliases

-----------------------------------------------------------------------------
\* A collection is made.
LEMMA KeptByCreate == ASSUME RegistryInv, NEW n \in Name, create(n) PROVE RegistryInv'
<1>. USE DEF RegistryInv
<1>. PICK c : c = [num |-> made + 1, obj |-> opened + 1, shows |-> {made + 1}]
  OBVIOUS
<1>1. /\ op = NoOperation /\ ~Exists(n) /\ aliases[n] = NoName
      /\ made' = made + 1 /\ opened' = opened + 1
      /\ collections' = [collections EXCEPT ![n] = c]
      /\ UNCHANGED <<aliases, dirs, holds, op, acked>>
      /\ SaveOrThrow
      /\ left' = IF file' = Saved THEN left ELSE left \cup {n}
  BY DEF create
<1>2. made \in Nat /\ opened \in Nat /\ made' \in Nat /\ opened' \in Nat /\ made' >= made
  BY <1>1 DEF RegistryTypes
<1>3. c \in Collections_ /\ c.num = made + 1 /\ c.obj = opened + 1 /\ c.shows = {made + 1}
      /\ c # None
  BY <1>2 DEF Collections_, None
<1>4. collections'[n] = c /\ \A m \in Name \ {n} : collections'[m] = collections[m]
  BY <1>1 DEF RegistryTypes
<1>5. op.kind = "none" /\ ~Replacing
  BY <1>1 DEF NoOperation, Replacing
<1>6. \A m \in Name : collections[m].num \in Nat /\ collections[m].num <= made /\ collections[m] \in Collections_
  BY FieldTypes DEF Numbers
<1>7. MapsNext
  <2>1. \A x, y \in Name : collections'[x].num = collections'[y].num => x = y \/ collections'[x].num = 0
    BY <1>2, <1>3, <1>4, <1>6 DEF Distinct
  <2>2. \A m \in Name : collections'[m] \in Collections_ /\ collections'[m].num <= made'
    BY <1>1, <1>2, <1>3, <1>4, <1>6
  <2>3. \A m \in Name : collections'[m] # None => collections'[m].num > 0 /\ collections'[m].obj > 0
    BY <1>2, <1>3, <1>4 DEF Numbers, Exists
  <2>4. "load" \notin trouble => \A a \in Name : aliases'[a] # NoName => collections'[aliases'[a]] # None /\ collections'[a] = None
    BY <1>1, <1>3, <1>4 DEF AliasesLead, Exists, RegistryTypes
  <2>. QED
    BY <1>1, <2>1, <2>2, <2>3, <2>4 DEF MapsNext, RegistryTypes
<1>8. /\ file' \in Files
      /\ \A m \in Name : file'.collections[m] <= made'
      /\ \A x, y \in Name : file'.collections[x] = file'.collections[y] => x = y \/ file'.collections[x] = 0
      /\ file' # Saved => "save" \in trouble' /\ file' = file
      /\ trouble \subseteq trouble' /\ ("load" \in trouble' => "load" \in trouble)
      /\ (FileAliasesLead /\ AliasesLead)'
  BY <1>1, <1>2, <1>5, <1>7, SaveKeeps
<1>9. \A m \in Name : Saved.collections[m] = collections'[m].num
  BY <1>7, SavedFields
<1>10. left \subseteq left' /\ (n \notin left' => file' = Saved)
  BY <1>1
<1>11. \A m \in Name \ left' : file'.collections[m] = collections'[m].num
  BY <1>4, <1>5, <1>8, <1>9, <1>10 DEF Synced
<1>12. RegistryTypes'
  <2>1. collections' \in [Name -> Collections_]
    BY <1>1, <1>3 DEF RegistryTypes
  <2>. QED
    BY <1>1, <1>2, <1>8, <2>1 DEF RegistryTypes
<1>13. Numbers'
  <2>1. \A m \in Name : collections'[m].num <= made' /\ (collections'[m] # None => collections'[m].num > 0 /\ collections'[m].obj > 0)
    BY <1>7 DEF MapsNext
  <2>2. \A r \in Request : holds[r].num \in Nat /\ holds[r].num <= made
    BY FieldTypes DEF Numbers
  <2>3. \A r \in Request : holds'[r].num <= made' /\ (holds'[r].num > 0 => holds'[r].name \in Name /\ holds'[r].obj > 0)
    BY <1>1, <1>2, <2>2 DEF Numbers
  <2>4. \A k \in acked' : k \in 1..made'
    BY <1>1, <1>2 DEF Numbers
  <2>. QED
    BY <1>8, <2>1, <2>3, <2>4 DEF Numbers, Exists
<1>14. Distinct'
  <2>1. ASSUME NEW r \in Request, NEW m \in Name, holds'[r].num > 0, collections'[m].num = holds'[r].num
        PROVE  m = holds'[r].name /\ collections'[m].obj = holds'[r].obj
    <3>1. holds'[r] = holds[r] /\ holds[r].num \in Nat /\ holds[r].num <= made
      BY <1>1, FieldTypes DEF Numbers
    <3>2. m # n
      BY <1>2, <1>3, <1>4, <2>1, <3>1
    <3>. QED
      BY <1>4, <2>1, <3>1, <3>2 DEF Distinct
  <2>. QED
    BY <1>7, <1>8, <2>1 DEF Distinct, MapsNext
<1>15. Waiting_'
  BY <1>1, <1>5 DEF Waiting_, Replacing
<1>16. Synced'
  BY <1>1, <1>5, <1>11 DEF Synced, Replacing
<1>17. DirsOwned'
  <2>. SUFFICES ASSUME NEW m \in Name \ left' PROVE dirs[m] \subseteq {file'.collections[m]} \ {0}
    BY <1>1 DEF DirsOwned
  <2>1. dirs[m] \subseteq {file.collections[m]} \ {0} /\ file.collections[m] = collections[m].num
    BY <1>5, <1>10 DEF DirsOwned, Dropping, Synced
  <2>2. CASE m = n
    BY <1>1, <2>1, <2>2, NoneTyped DEF Exists
  <2>3. CASE m # n
    BY <1>4, <1>11, <2>1, <2>3
  <2>. QED
    BY <2>2, <2>3
<1>18. HoldersKnown'
  <2>. SUFFICES ASSUME NEW r \in Request, holds[r].num > 0, holds[r].name \notin left'
               PROVE  collections'[holds[r].name].num = holds[r].num /\ collections'[holds[r].name].obj = holds[r].obj
    BY <1>1, <1>5 DEF HoldersKnown, Replacing
  <2>1. /\ collections[holds[r].name].num = holds[r].num /\ collections[holds[r].name].obj = holds[r].obj
        /\ holds[r].name \in Name
    BY <1>5, <1>10 DEF HoldersKnown, Dropping, Numbers
  <2>2. holds[r].name # n
    BY <1>1, <2>1, NoneTyped DEF Exists
  <2>. QED
    BY <1>4, <2>1, <2>2
<1>19. OnlyOwnWrites'
  BY <1>3, <1>4, <1>10 DEF OnlyOwnWrites, Exists
<1>20. FileComplete'
  <2>. SUFFICES ASSUME {"save", "load", "replace"} \cap trouble' = {}
               PROVE  /\ \A m \in Name : file'.collections[m] = collections'[m].num
                      /\ \A m \in Name : collections'[m] # None /\ collections'[m].num \in acked => collections'[m].num \in dirs[m]
    BY <1>1 DEF FileComplete, Exists
  <2>1. file' = Saved /\ {"save", "load", "replace"} \cap trouble = {}
    BY <1>8
  <2>2. made + 1 \notin acked
    BY <1>2 DEF Numbers
  <2>. QED
    BY <1>3, <1>4, <1>9, <2>1, <2>2 DEF FileComplete, Exists
<1>. QED
  BY <1>8, <1>12, <1>13, <1>14, <1>15, <1>16, <1>17, <1>18, <1>19, <1>20

-----------------------------------------------------------------------------
\* A collection is dropped: out of the maps, then, without requests, off the disk.
LEMMA KeptByDropBegins == ASSUME RegistryInv, NEW n \in Name, DropBegins(n) PROVE RegistryInv'
<1>. USE DEF RegistryInv
<1>. PICK d : d = [kind |-> "drop", name |-> n, objs |-> {collections[n].obj}]
  OBVIOUS
<1>1. /\ op = NoOperation /\ Exists(n)
      /\ collections' = [collections EXCEPT ![n] = None]
      /\ aliases' = WithoutAliasesOf(n)
      /\ SaveOrThrow
      /\ op' = IF file' = Saved THEN d ELSE NoOperation
      /\ left' = IF file' = Saved THEN left ELSE left \cup {n}
      /\ UNCHANGED <<dirs, holds, made, opened, acked>>
  BY DEF DropBegins
<1>2. made \in Nat /\ opened \in Nat /\ made' = made
  BY <1>1 DEF RegistryTypes
<1>3. d \in Drops /\ d.kind = "drop" /\ d.name = n /\ d.objs = {collections[n].obj}
  BY FieldTypes DEF Drops
<1>4. collections'[n] = None /\ \A m \in Name \ {n} : collections'[m] = collections[m]
  BY <1>1 DEF RegistryTypes
<1>5. op.kind = "none" /\ ~Replacing /\ NoOperation.kind = "none"
  BY <1>1 DEF NoOperation, Replacing
<1>6. ~Replacing'
  BY <1>1, <1>3, <1>5 DEF Replacing
<1>7. \A m \in Name : collections[m].num \in Nat /\ collections[m].num <= made /\ collections[m] \in Collections_
  BY FieldTypes DEF Numbers
<1>8. \A a \in Name : aliases'[a] = IF aliases[a] = n THEN NoName ELSE aliases[a]
  BY <1>1 DEF WithoutAliasesOf
<1>9. MapsNext
  <2>1. \A x, y \in Name : collections'[x].num = collections'[y].num => x = y \/ collections'[x].num = 0
    BY <1>4, NoneTyped DEF Distinct
  <2>2. \A m \in Name : collections'[m] \in Collections_ /\ collections'[m].num <= made'
    BY <1>2, <1>4, <1>7, NoneTyped
  <2>3. \A m \in Name : collections'[m] # None => collections'[m].num > 0 /\ collections'[m].obj > 0
    BY <1>4 DEF Numbers, Exists
  <2>4. aliases' \in [Name -> Name \cup {NoName}]
    BY <1>1 DEF RegistryTypes, WithoutAliasesOf
  <2>5. ASSUME "load" \notin trouble, NEW a \in Name, aliases'[a] # NoName
        PROVE  collections'[aliases'[a]] # None /\ collections'[a] = None
    <3>1. aliases'[a] = aliases[a] /\ aliases[a] # n /\ aliases[a] # NoName /\ aliases[a] \in Name
      BY <1>8, <2>5, FieldTypes
    <3>2. collections[aliases[a]] # None /\ collections[a] = None
      BY <2>5, <3>1 DEF AliasesLead, Exists
    <3>. QED
      BY <1>4, <3>1, <3>2
  <2>. QED
    BY <2>1, <2>2, <2>3, <2>4, <2>5 DEF MapsNext
<1>10. /\ file' \in Files
       /\ \A m \in Name : file'.collections[m] <= made'
       /\ \A x, y \in Name : file'.collections[x] = file'.collections[y] => x = y \/ file'.collections[x] = 0
       /\ file' # Saved => "save" \in trouble' /\ file' = file
       /\ trouble \subseteq trouble' /\ ("load" \in trouble' => "load" \in trouble)
       /\ (FileAliasesLead /\ AliasesLead)'
  BY <1>2, <1>1, <1>5, <1>9, SaveKeeps
<1>11. \A m \in Name : Saved.collections[m] = collections'[m].num
  BY <1>9, SavedFields
<1>12. left \subseteq left' /\ (n \notin left' => file' = Saved /\ op' = d)
  BY <1>1
<1>13. \A m \in Name \ left' : file'.collections[m] = collections'[m].num
  BY <1>4, <1>5, <1>10, <1>11, <1>12 DEF Synced
<1>14. RegistryTypes'
  <2>1. collections' \in [Name -> Collections_]
    BY <1>1, NoneTyped DEF RegistryTypes
  <2>2. op' \in {NoOperation} \cup Drops \cup Replaces
    BY <1>1, <1>3
  <2>3. aliases' \in [Name -> Name \cup {NoName}]
    BY <1>9 DEF MapsNext
  <2>. QED
    BY <1>1, <1>10, <2>1, <2>2, <2>3 DEF RegistryTypes
<1>15. Numbers'
  <2>1. \A m \in Name : collections'[m].num <= made' /\ (collections'[m] # None => collections'[m].num > 0 /\ collections'[m].obj > 0)
    BY <1>9 DEF MapsNext
  <2>. QED
    BY <1>1, <1>10, <2>1 DEF Numbers, Exists
<1>16. Distinct'
  <2>1. ASSUME NEW r \in Request, NEW m \in Name, holds'[r].num > 0, collections'[m].num = holds'[r].num
        PROVE  m = holds'[r].name /\ collections'[m].obj = holds'[r].obj
    <3>1. m # n
      BY <1>4, <2>1, NoneTyped
    <3>. QED
      BY <1>1, <1>4, <2>1, <3>1 DEF Distinct
  <2>. QED
    BY <1>9, <1>10, <2>1 DEF Distinct, MapsNext
<1>17. Waiting_'
  BY <1>1, <1>3, <1>4, <1>5, <1>6 DEF Waiting_
<1>18. Synced'
  BY <1>6, <1>13 DEF Synced
<1>19. DirsOwned'
  <2>. SUFFICES ASSUME NEW m \in Name \ left', ~Dropping(m)' PROVE dirs[m] \subseteq {file'.collections[m]} \ {0}
    BY <1>1 DEF DirsOwned
  <2>1. dirs[m] \subseteq {file.collections[m]} \ {0} /\ file.collections[m] = collections[m].num
    BY <1>5, <1>12 DEF DirsOwned, Dropping, Synced
  <2>2. m # n
    BY <1>3, <1>12 DEF Dropping
  <2>. QED
    BY <1>4, <1>13, <2>1, <2>2
<1>20. HoldersKnown'
  <2>. SUFFICES ASSUME NEW r \in Request, holds[r].num > 0, holds[r].name \notin left'
               PROVE  \/ Dropping(holds[r].name)' /\ holds[r].obj \in op'.objs
                      \/ collections'[holds[r].name].num = holds[r].num /\ collections'[holds[r].name].obj = holds[r].obj
    BY <1>1, <1>6 DEF HoldersKnown, Dropping
  <2>1. /\ collections[holds[r].name].num = holds[r].num /\ collections[holds[r].name].obj = holds[r].obj
        /\ holds[r].name \in Name
    BY <1>5, <1>12 DEF HoldersKnown, Dropping, Numbers
  <2>2. CASE holds[r].name = n
    <3>1. op' = d
      BY <1>12, <2>2
    <3>2. Dropping(holds[r].name)'
      BY <1>1, <1>3, <2>2, <3>1 DEF Dropping
    <3>3. holds[r].obj \in op'.objs
      BY <1>3, <2>1, <2>2, <3>1
    <3>. QED
      BY <3>2, <3>3
  <2>3. CASE holds[r].name # n
    BY <1>4, <2>1, <2>3
  <2>. QED
    BY <2>2, <2>3
<1>21. OnlyOwnWrites'
  BY <1>4, <1>12 DEF OnlyOwnWrites, Exists
<1>22. FileComplete'
  <2>. SUFFICES ASSUME {"save", "load", "replace"} \cap trouble' = {}
               PROVE  /\ \A m \in Name : file'.collections[m] = collections'[m].num
                      /\ \A m \in Name : collections'[m] # None /\ collections'[m].num \in acked => collections'[m].num \in dirs[m]
    BY <1>1 DEF FileComplete, Exists
  <2>1. file' = Saved /\ {"save", "load", "replace"} \cap trouble = {}
    BY <1>10
  <2>. QED
    BY <1>4, <1>11, <2>1 DEF FileComplete, Exists
<1>. QED
  BY <1>10, <1>14, <1>15, <1>16, <1>17, <1>18, <1>19, <1>20, <1>21, <1>22

LEMMA KeptByDropEnds == ASSUME RegistryInv, DropEnds PROVE RegistryInv'
<1>. USE DEF RegistryInv
<1>. PICK n : n = op.name
  OBVIOUS
<1>1. /\ op.kind = "drop" /\ op' = NoOperation
      /\ \/ Drained(op.objs) /\ dirs' = [dirs EXCEPT ![n] = {}] /\ UNCHANGED left
         \/ left' = left \cup {n} /\ UNCHANGED dirs
         \/ dirs' = [dirs EXCEPT ![n] = {}] /\ left' = left \cup {n}
      /\ UNCHANGED <<collections, aliases, file, holds, made, opened, trouble, acked>>
  BY DEF DropEnds
<1>2. n \in Name /\ collections[n] = None /\ ~Replacing
  BY <1>1 DEF RegistryTypes, Drops, Replaces, NoOperation, Waiting_, Replacing
<1>3. op'.kind = "none" /\ ~Replacing'
  BY <1>1 DEF NoOperation, Replacing
<1>4. /\ dirs' \in [Name -> SUBSET Nat]
      /\ \A m \in Name \ {n} : dirs'[m] = dirs[m]
      /\ n \notin left' => dirs'[n] = {} /\ Drained(op.objs)
      /\ left \subseteq left' /\ \A m \in Name : m # n /\ m \in left' => m \in left
  BY <1>1, <1>2 DEF RegistryTypes
<1>5. trouble' = trouble
  BY <1>1
<1>6. RegistryTypes'
  BY <1>1, <1>4 DEF RegistryTypes
<1>7. (Numbers /\ Distinct)'
  BY <1>1 DEF Numbers, Distinct, Exists
<1>8. Waiting_'
  BY <1>3 DEF Waiting_
<1>9. Synced'
  BY <1>1, <1>2, <1>3, <1>4 DEF Synced
<1>10. DirsOwned'
  <2>. SUFFICES ASSUME NEW m \in Name \ left' PROVE dirs'[m] \subseteq {file.collections[m]} \ {0}
    BY <1>1 DEF DirsOwned
  <2>1. CASE m = n
    BY <1>4, <2>1
  <2>2. CASE m # n
    BY <1>4, <2>2 DEF DirsOwned, Dropping
  <2>. QED
    BY <2>1, <2>2
<1>11. HoldersKnown'
  <2>. SUFFICES ASSUME NEW r \in Request, holds[r].num > 0, holds[r].name \notin left'
               PROVE  collections[holds[r].name].num = holds[r].num /\ collections[holds[r].name].obj = holds[r].obj
    BY <1>1, <1>3 DEF HoldersKnown
  <2>1. ~(Dropping(holds[r].name) /\ holds[r].obj \in op.objs)
    BY <1>1, <1>4 DEF Dropping, Drained
  <2>. QED
    BY <1>2, <1>4, <2>1 DEF HoldersKnown
<1>12. OnlyOwnWrites'
  BY <1>1, <1>4 DEF OnlyOwnWrites, Exists
<1>13. FileComplete'
  BY <1>1, <1>2, <1>3, <1>4, <1>5 DEF FileComplete, Exists
<1>14. (FileAliasesLead /\ AliasesLead)'
  BY <1>1, <1>5 DEF FileAliasesLead, AliasesLead, Exists
<1>. QED
  BY <1>6, <1>7, <1>8, <1>9, <1>10, <1>11, <1>12, <1>13, <1>14

-----------------------------------------------------------------------------
\* Requests.
LEMMA KeptByAcquire == ASSUME RegistryInv, NEW r \in Request, NEW n \in Name, acquire(r, n) PROVE RegistryInv'
<1>. USE DEF RegistryInv
<1>. PICK c : c = _resolve_locked(n)
  OBVIOUS
<1>. PICK h : h = [name |-> c, num |-> collections[c].num, obj |-> collections[c].obj]
  OBVIOUS
<1>1. /\ ~Replacing /\ Exists(c) /\ holds' = [holds EXCEPT ![r] = h]
      /\ UNCHANGED <<collections, aliases, file, dirs, op, made, opened, trouble, acked, left>>
  BY DEF acquire
<1>2. c \in Name
  BY DEF _resolve_locked, RegistryTypes
<1>3. collections[c].num \in Nat /\ collections[c].num > 0 /\ collections[c].num <= made /\ collections[c].obj \in Nat
      /\ collections[c].obj > 0
  BY <1>1, <1>2, FieldTypes DEF Numbers
<1>4. h \in Holds_ /\ h.name = c /\ h.num = collections[c].num /\ h.obj = collections[c].obj
  BY <1>2, <1>3 DEF Holds_
<1>5. holds'[r] = h /\ \A q \in Request \ {r} : holds'[q] = holds[q]
  BY <1>1 DEF RegistryTypes
<1>6. RegistryTypes'
  BY <1>1, <1>4 DEF RegistryTypes
<1>7. Numbers'
  BY <1>1, <1>2, <1>3, <1>4, <1>5 DEF Numbers, Exists
<1>8. Distinct'
  <2>1. ASSUME NEW q \in Request, NEW m \in Name, holds'[q].num > 0, collections[m].num = holds'[q].num
        PROVE  m = holds'[q].name /\ collections[m].obj = holds'[q].obj
    <3>1. CASE q = r
      <4>1. collections[m].num = collections[c].num /\ collections[m].num # 0
        BY <1>3, <1>4, <1>5, <2>1, <3>1
      <4>2. m = c
        BY <1>2, <4>1 DEF Distinct
      <4>. QED
        BY <1>4, <1>5, <3>1, <4>2
    <3>2. CASE q # r
      BY <1>5, <2>1, <3>2 DEF Distinct
    <3>. QED
      BY <3>1, <3>2
  <2>. QED
    BY <1>1, <2>1 DEF Distinct
<1>9. (Waiting_ /\ Synced /\ DirsOwned /\ OnlyOwnWrites)'
  BY <1>1 DEF Waiting_, Synced, DirsOwned, OnlyOwnWrites, Replacing, Dropping, Exists
<1>10. HoldersKnown'
  <2>. SUFFICES ASSUME NEW q \in Request, holds'[q].num > 0, holds'[q].name \notin left,
                       ~(Dropping(holds'[q].name) /\ holds'[q].obj \in op.objs)
               PROVE  collections[holds'[q].name].num = holds'[q].num /\ collections[holds'[q].name].obj = holds'[q].obj
    BY <1>1 DEF HoldersKnown, Replacing, Dropping
  <2>1. CASE q = r
    BY <1>4, <1>5, <2>1
  <2>2. CASE q # r
    <3>1. holds'[q] = holds[q]
      BY <1>5, <2>2
    <3>. QED
      BY <1>1, <3>1 DEF HoldersKnown
  <2>. QED
    BY <2>1, <2>2
<1>11. (FileComplete /\ FileAliasesLead /\ AliasesLead)'
  BY <1>1 DEF FileComplete, FileAliasesLead, AliasesLead, Replacing, Exists
<1>. QED
  BY <1>6, <1>7, <1>8, <1>9, <1>10, <1>11

LEMMA KeptByWriteAndRelease == ASSUME RegistryInv, NEW r \in Request, WriteAndRelease(r) PROVE RegistryInv'
<1>. USE DEF RegistryInv
<1>. PICK h : h = holds[r]
  OBVIOUS
<1>1. /\ h.num > 0
      /\ \/ dirs' = [dirs EXCEPT ![h.name] = @ \cup {h.num}]
         \/ /\ ~(collections[h.name].obj = h.obj \/ (op # NoOperation /\ h.obj \in op.objs))
            /\ UNCHANGED dirs
      /\ acked' = acked \cup {h.num}
      /\ holds' = [holds EXCEPT ![r] = NoHold]
      /\ UNCHANGED <<collections, aliases, file, op, made, opened, trouble, left>>
  BY DEF WriteAndRelease
<1>2. h \in Holds_ /\ h.num \in Nat /\ h.name \in Name /\ h.num <= made
  BY <1>1, FieldTypes DEF Numbers
<1>3. holds'[r] = NoHold /\ \A q \in Request \ {r} : holds'[q] = holds[q]
  BY <1>1 DEF RegistryTypes
<1>4. /\ dirs' \in [Name -> SUBSET Nat]
      /\ \A m \in Name : m # h.name => dirs'[m] = dirs[m]
      /\ \A m \in Name : dirs[m] \subseteq dirs'[m]
      /\ dirs'[h.name] \subseteq dirs[h.name] \cup {h.num}
      /\ h.num \in dirs'[h.name] \/ collections[h.name].obj # h.obj
  BY <1>1, <1>2 DEF RegistryTypes
<1>5. RegistryTypes'
  BY <1>1, <1>4, NoHoldTyped DEF RegistryTypes
<1>6. Numbers'
  <2>1. \A c \in acked' : c \in 1..made
    BY <1>1, <1>2 DEF Numbers
  <2>2. \A q \in Request : holds'[q].num <= made /\ (holds'[q].num > 0 => holds'[q].name \in Name /\ holds'[q].obj > 0)
    BY <1>2, <1>3, NoHoldTyped DEF Numbers, RegistryTypes
  <2>. QED
    BY <1>1, <2>1, <2>2 DEF Numbers, Exists
<1>7. Distinct'
  <2>1. ASSUME NEW q \in Request, NEW m \in Name, holds'[q].num > 0, collections[m].num = holds'[q].num
        PROVE  m = holds'[q].name /\ collections[m].obj = holds'[q].obj
    BY <1>3, <2>1, NoHoldTyped DEF Distinct
  <2>. QED
    BY <1>1, <2>1 DEF Distinct
<1>8. (Waiting_ /\ Synced /\ OnlyOwnWrites)'
  BY <1>1 DEF Waiting_, Synced, OnlyOwnWrites, Replacing, Exists
<1>9. DirsOwned'
  <2>. SUFFICES ASSUME NEW m \in Name \ left, ~Dropping(m) PROVE dirs'[m] \subseteq {file.collections[m]} \ {0}
    BY <1>1 DEF DirsOwned, Dropping
  <2>1. dirs[m] \subseteq {file.collections[m]} \ {0}
    BY DEF DirsOwned
  <2>2. CASE m # h.name
    BY <1>4, <2>1, <2>2
  <2>3. CASE m = h.name
    <3>1. file.collections[m] = h.num
      BY <1>1, <2>3 DEF HoldersKnown, Synced
    <3>. QED
      BY <1>1, <1>2, <1>4, <2>1, <2>3, <3>1
  <2>. QED
    BY <2>2, <2>3
<1>10. HoldersKnown'
  <2>1. \A q \in Request : holds'[q].num > 0 => holds'[q] = holds[q]
    BY <1>3, NoHoldTyped
  <2>. QED
    BY <1>1, <2>1 DEF HoldersKnown, Dropping, Replacing
<1>11. FileComplete'
  <2>. SUFFICES ASSUME {"save", "load", "replace"} \cap trouble = {}, NEW m \in Name, Exists(m), collections[m].num \in acked'
               PROVE  collections[m].num \in dirs'[m]
    BY <1>1 DEF FileComplete, Exists, Replacing
  <2>1. CASE collections[m].num \in acked
    BY <1>4, <2>1 DEF FileComplete
  <2>2. CASE collections[m].num = h.num
    <3>1. m = h.name /\ collections[m].obj = h.obj
      BY <1>1, <2>2 DEF Distinct
    <3>. QED
      BY <1>4, <2>2, <3>1
  <2>. QED
    BY <1>1, <2>1, <2>2
<1>12. (FileAliasesLead /\ AliasesLead)'
  BY <1>1 DEF FileAliasesLead, AliasesLead, Exists
<1>. QED
  BY <1>5, <1>6, <1>7, <1>8, <1>9, <1>10, <1>11, <1>12

-----------------------------------------------------------------------------
\* What a load makes of a file and of directories: each collection that is opened is the one of
\* the file and shows its directory; without trouble every one is opened.
LEMMA Loads ==
    ASSUME RegistryTypes, NEW f \in Files, NEW d \in [Name -> SUBSET Nat], NEW fails \in BOOLEAN,
           load_and_recover(f, d, fails)
    PROVE  /\ opened' = opened + 1 /\ opened' \in Nat
           /\ collections' \in [Name -> Collections_] /\ aliases' \in [Name -> Name \cup {NoName}]
           /\ \A n \in Name : collections'[n] # None =>
                  f.collections[n] > 0 /\ collections'[n].num = f.collections[n]
                  /\ collections'[n].obj > 0 /\ collections'[n].shows = d[n]
           /\ ~fails => \A n \in Name : f.collections[n] > 0 => collections'[n] # None
           /\ \A a \in Name : aliases'[a] # NoName =>
                  aliases'[a] = f.aliases[a] /\ (~fails => aliases'[a] \in Name /\ f.collections[aliases'[a]] > 0)
<1>1. opened \in Nat /\ opened' = opened + 1 /\ opened' \in Nat
  BY DEF load_and_recover, RegistryTypes
<1>2. \A n \in Name : f.collections[n] \in Nat /\ d[n] \subseteq Nat /\ f.aliases[n] \in Name \cup {NoName}
  BY DEF Files
<1>3. f.aliases \in [Name -> Name \cup {NoName}]
  BY DEF Files
<1>. DEFINE e(n) == [num |-> f.collections[n], obj |-> opened + 1, shows |-> d[n]]
<1>4. \A n \in Name : e(n) \in Collections_ /\ e(n).num = f.collections[n] /\ e(n).obj = opened + 1 /\ e(n).shows = d[n]
                      /\ e(n) # None
  <2>. TAKE n \in Name
  <2>1. e(n) \in Collections_ /\ e(n).num = f.collections[n] /\ e(n).obj = opened + 1 /\ e(n).shows = d[n]
    BY <1>1, <1>2 DEF Collections_
  <2>2. e(n).obj # 0
    BY <1>1, <2>1
  <2>3. e(n) # None
    BY <2>2, NoneTyped
  <2>. QED
    BY <2>1, <2>3
<1>5. \A names \in SUBSET Registered(f) :
          /\ Opened(names, f, d) \in [Name -> Collections_]
          /\ \A n \in Name : Opened(names, f, d)[n] = IF n \in names THEN e(n) ELSE None
  BY <1>4, NoneTyped DEF Opened
<1>. HIDE DEF e
<1>6. PICK names \in SUBSET Registered(f) : collections' = Opened(names, f, d) /\ (~fails => names = Registered(f))
  <2>1. CASE fails
    BY <2>1 DEF load_and_recover
  <2>2. CASE ~fails
    BY <2>2 DEF load_and_recover
  <2>. QED
    BY <2>1, <2>2
<1>7. \A n \in Name : collections'[n] = IF n \in names THEN e(n) ELSE None
  BY <1>5, <1>6
<1>8. \A n \in names : n \in Name /\ f.collections[n] > 0
  BY <1>6 DEF Registered
<1>9. \A n \in Name : collections'[n] # None =>
          f.collections[n] > 0 /\ collections'[n].num = f.collections[n]
          /\ collections'[n].obj > 0 /\ collections'[n].shows = d[n]
  BY <1>1, <1>4, <1>7, <1>8
<1>10. ~fails => \A n \in Name : f.collections[n] > 0 => collections'[n] # None
  BY <1>4, <1>6, <1>7 DEF Registered
<1>11. /\ aliases' \in [Name -> Name \cup {NoName}]
       /\ \A a \in Name : aliases'[a] # NoName =>
              aliases'[a] = f.aliases[a] /\ (~fails => aliases'[a] \in Name /\ f.collections[aliases'[a]] > 0)
  <2>1. CASE fails
    BY <1>3, <2>1 DEF load_and_recover
  <2>2. CASE ~fails
    <3>1. aliases' = [a \in Name |-> IF f.aliases[a] \in Registered(f) THEN f.aliases[a] ELSE NoName]
      BY <2>2 DEF load_and_recover
    <3>2. \A a \in Name : aliases'[a] = IF f.aliases[a] \in Registered(f) THEN f.aliases[a] ELSE NoName
      BY <3>1
    <3>3. aliases' \in [Name -> Name \cup {NoName}]
      BY <1>2, <3>1
    <3>. QED
      BY <3>2, <3>3 DEF Registered
  <2>. QED
    BY <2>1, <2>2
<1>12. collections' \in [Name -> Collections_]
  BY <1>5, <1>6
<1>. QED
  BY <1>1, <1>9, <1>10, <1>11, <1>12

\* All collections are taken out of the maps; the file and the directories wait.
LEMMA KeptByReplaceBegins == ASSUME RegistryInv, ReplaceBegins PROVE RegistryInv'
<1>. USE DEF RegistryInv
<1>. PICK e : e = [kind |-> "replace", names |-> {n \in Name : Exists(n)}, objs |-> {collections[n].obj : n \in Name} \ {0}]
  OBVIOUS
<1>1. /\ op = NoOperation /\ op' = e
      /\ collections' = [n \in Name |-> None] /\ aliases' = [a \in Name |-> NoName]
      /\ UNCHANGED <<file, dirs, holds, made, opened, trouble, acked, left>>
  BY DEF ReplaceBegins
<1>2. e.kind = "replace" /\ e.names = {n \in Name : Exists(n)} /\ e.objs = {collections[n].obj : n \in Name} \ {0}
  OBVIOUS
<1>3. e \in Replaces
  <2>1. \A n \in Name : collections[n].obj \in Nat
    BY FieldTypes
  <2>. QED
    BY <2>1 DEF Replaces
<1>4. op.kind = "none" /\ ~Replacing /\ Replacing' /\ op'.kind # "drop"
  BY <1>1, <1>2 DEF NoOperation, Replacing
<1>5. \A n \in Name : collections'[n] = None /\ aliases'[n] = NoName /\ collections'[n].num = 0
  BY <1>1, NoneTyped
<1>6. RegistryTypes'
  BY <1>1, <1>3, NoneTyped DEF RegistryTypes
<1>7. Numbers'
  <2>1. made \in Nat
    BY DEF RegistryTypes
  <2>. QED
    BY <1>1, <1>5, <2>1 DEF Numbers, Exists
<1>8. Distinct'
  <2>1. \A r \in Request, n \in Name : ~(holds[r].num > 0 /\ collections'[n].num = holds[r].num)
    BY <1>5
  <2>. QED
    BY <1>1, <1>5, <2>1 DEF Distinct
<1>9. Waiting_'
  BY <1>4, <1>5 DEF Waiting_
<1>10. Synced'
  <2>. SUFFICES ASSUME NEW n \in Name \ left, file.collections[n] > 0 PROVE Exists(n)
    BY <1>1, <1>2, <1>4 DEF Synced
  <2>1. collections[n].num > 0
    BY <1>4 DEF Synced
  <2>. QED
    BY <2>1, NoneTyped DEF Exists
<1>11. DirsOwned'
  BY <1>1, <1>4 DEF DirsOwned, Dropping
<1>12. HoldersKnown'
  <2>. SUFFICES ASSUME NEW r \in Request, holds[r].num > 0, holds[r].name \notin left
               PROVE  holds[r].obj \in e.objs /\ file.collections[holds[r].name] = holds[r].num
    BY <1>1, <1>4 DEF HoldersKnown
  <2>1. holds[r].name \in Name /\ holds[r].obj > 0
    BY DEF Numbers
  <2>2. collections[holds[r].name].num = holds[r].num /\ collections[holds[r].name].obj = holds[r].obj
    BY <1>4 DEF HoldersKnown, Dropping
  <2>3. file.collections[holds[r].name] = holds[r].num
    BY <1>4, <2>1, <2>2 DEF Synced
  <2>. QED
    BY <1>2, <2>1, <2>2, <2>3
<1>13. OnlyOwnWrites'
  BY <1>5 DEF OnlyOwnWrites, Exists
<1>14. (FileComplete /\ FileAliasesLead /\ AliasesLead)'
  BY <1>1, <1>4, <1>5 DEF FileComplete, FileAliasesLead, AliasesLead, Exists
<1>. QED
  BY <1>6, <1>7, <1>8, <1>9, <1>10, <1>11, <1>12, <1>13, <1>14

\* The directories when a replacement got as far as to clear them, with what it made for n.
Filled(n, stay, W) == [Cleared(n, stay) EXCEPT ![n] = @ \cup W]

\* What a replacement leaves of the directories and in the file, when it got so far.
LEMMA ReplacedFiles ==
    ASSUME RegistryInv, Replacing, NEW n \in Name, NEW stay \in SUBSET op.names, NEW W \in {{}, {made + 1}}
    PROVE  /\ Filled(n, stay, W) \in [Name -> SUBSET Nat]
           /\ W \subseteq Filled(n, stay, W)[n] /\ (n \notin stay => Filled(n, stay, W)[n] = W)
           /\ \A m \in Name \ {n} : m \notin left /\ m \notin stay => Filled(n, stay, W)[m] = {}
<1>. PICK d : d = Filled(n, stay, W)
  OBVIOUS
<1>. USE DEF RegistryInv
<1>1. dirs \in [Name -> SUBSET Nat] /\ made \in Nat /\ W \subseteq Nat
  BY DEF RegistryTypes
<1>2. Cleared(n, stay) \in [Name -> SUBSET Nat]
      /\ \A m \in Name : Cleared(n, stay)[m] = IF m \in (op.names \cup {n}) \ stay THEN {} ELSE dirs[m]
  BY <1>1 DEF Cleared, Without
<1>3. d \in [Name -> SUBSET Nat] /\ d[n] = Cleared(n, stay)[n] \cup W
      /\ \A m \in Name \ {n} : d[m] = Cleared(n, stay)[m]
  BY <1>1, <1>2 DEF Filled
<1>4. ASSUME NEW m \in Name \ {n}, m \notin left, m \notin stay PROVE d[m] = {}
  <2>1. CASE m \in op.names
    BY <1>2, <1>3, <1>4, <2>1
  <2>2. CASE m \notin op.names
    <3>1. file.collections[m] \in Nat
      BY FieldTypes
    <3>2. file.collections[m] = 0
      BY <1>4, <2>2, <3>1 DEF Synced
    <3>3. dirs[m] \subseteq {file.collections[m]} \ {0}
      BY <1>4 DEF DirsOwned, Dropping, Replacing
    <3>. QED
      BY <1>2, <1>3, <2>2, <3>2, <3>3
  <2>. QED
    BY <2>1, <2>2
<1>5. W \subseteq d[n] /\ (n \notin stay => d[n] = W)
  BY <1>2, <1>3
<1>. QED
  BY <1>3, <1>4, <1>5

LEMMA ReplacedDirs ==
    ASSUME RegistryInv, Replacing, NEW n \in Name, NEW stay \in SUBSET op.names, NEW W \in {{}, {made + 1}},
           dirs' = Filled(n, stay, W)
    PROVE  /\ dirs' \in [Name -> SUBSET Nat] /\ W \subseteq dirs'[n] /\ (n \notin stay => dirs'[n] = W)
           /\ \A m \in Name \ {n} : m \notin left /\ m \notin stay => dirs'[m] = {}
<1>1. Filled(n, stay, W) \in [Name -> SUBSET Nat]
  BY ReplacedFiles, Zenon
<1>2. W \subseteq Filled(n, stay, W)[n]
  BY ReplacedFiles
<1>3. ASSUME n \notin stay PROVE Filled(n, stay, W)[n] = W
  <2>1. Cleared(n, stay)[n] = {} /\ n \in DOMAIN Cleared(n, stay)
    BY <1>3 DEF Cleared, Without
  <2>. QED
    BY <2>1 DEF Filled
<1>4. ASSUME NEW m \in Name \ {n}, m \notin left, m \notin stay PROVE Filled(n, stay, W)[m] = {}
  BY <1>4, ReplacedFiles, Zenon
<1>. QED
  BY <1>1, <1>2, <1>3, <1>4

LEMMA SnapshotFields ==
    ASSUME NEW n \in Name, made \in Nat
    PROVE  /\ SnapshotFile(n) \in Files /\ SnapshotFile(n).collections[n] = made + 1
           /\ \A m \in Name \ {n} : SnapshotFile(n).collections[m] = 0
           /\ \A a \in Name : SnapshotFile(n).aliases[a] = NoName
  BY DEF SnapshotFile, NoFile, Files

\* While collections are replaced, a directory that a request may still write into is left behind.
LEMMA HolderIsLeft ==
    ASSUME HoldersKnown, op.kind = "replace", NEW r \in Request, holds[r].num > 0
    PROVE  holds[r].name \in left \cup StillWritten
<1>1. holds[r].name \in left \/ holds[r].obj \in op.objs
  BY DEF HoldersKnown, Dropping, Replacing
<1>2. holds[r].obj \in op.objs => holds[r].name \in StillWritten
  BY DEF StillWritten
<1>. QED
  BY <1>1, <1>2

\* The snapshot's collection takes the place of all that were there. It has a number that nobody
\* holds, and whose requests were not waited for is left.
LEMMA KeptByReplaceEnds == ASSUME RegistryInv, ReplaceEnds PROVE RegistryInv'
<1>. USE DEF RegistryInv
<1>1. PICK n \in Name, stay \in SUBSET op.names, fails \in BOOLEAN :
          /\ dirs' = Written(n, stay)
          /\ file' = SnapshotFile(n)
          /\ load_and_recover(file', dirs', fails)
          /\ (trouble \ {"replace"} \subseteq trouble') /\ (fails => "load" \in trouble')
          /\ left' = left \cup StillWritten \cup NotOpened \cup stay
  BY DEF ReplaceEnds, LoadTrouble
<1>2. /\ Replacing /\ made' = made + 1
      /\ acked' = acked \cup {made + 1} /\ op' = NoOperation /\ UNCHANGED holds
  BY DEF ReplaceEnds
<1>3. made \in Nat /\ made' \in Nat
  BY <1>2 DEF RegistryTypes
<1>4. op.kind = "replace" /\ op'.kind = "none" /\ ~Replacing'
  BY <1>2 DEF Replacing, NoOperation
<1>5. /\ dirs' \in [Name -> SUBSET Nat] /\ made + 1 \in dirs'[n] /\ (n \notin left' => dirs'[n] = {made + 1})
      /\ \A m \in Name \ {n} : m \notin left' => dirs'[m] = {}
  <2>1. dirs' = Filled(n, stay, {made + 1})
    BY <1>1 DEF Written, Filled
  <2>2. dirs' \in [Name -> SUBSET Nat] /\ {made + 1} \subseteq dirs'[n] /\ (n \notin stay => dirs'[n] = {made + 1})
        /\ \A m \in Name \ {n} : m \notin left /\ m \notin stay => dirs'[m] = {}
    BY <1>2, <2>1, ReplacedDirs, Zenon
  <2>. QED
    BY <1>1, <2>2
<1>6. /\ file' \in Files /\ file'.collections[n] = made + 1
      /\ \A m \in Name \ {n} : file'.collections[m] = 0
      /\ \A a \in Name : file'.aliases[a] = NoName
  BY <1>1, <1>3, SnapshotFields
<1>7. /\ opened' = opened + 1 /\ opened' \in Nat
      /\ collections' \in [Name -> Collections_] /\ aliases' \in [Name -> Name \cup {NoName}]
      /\ \A m \in Name : collections'[m] # None =>
             file'.collections[m] > 0 /\ collections'[m].num = file'.collections[m]
             /\ collections'[m].obj > 0 /\ collections'[m].shows = dirs'[m]
      /\ ~fails => \A m \in Name : file'.collections[m] > 0 => collections'[m] # None
      /\ \A a \in Name : aliases'[a] # NoName => aliases'[a] = file'.aliases[a]
  <2>1. PICK f, d : f = file' /\ d = dirs'
    OBVIOUS
  <2>2. load_and_recover(f, d, fails) /\ f \in Files /\ d \in [Name -> SUBSET Nat]
    BY <1>1, <1>5, <1>6, <2>1
  <2>3. /\ opened' = opened + 1 /\ opened' \in Nat
        /\ collections' \in [Name -> Collections_] /\ aliases' \in [Name -> Name \cup {NoName}]
        /\ \A m \in Name : collections'[m] # None =>
               f.collections[m] > 0 /\ collections'[m].num = f.collections[m]
               /\ collections'[m].obj > 0 /\ collections'[m].shows = d[m]
        /\ ~fails => \A m \in Name : f.collections[m] > 0 => collections'[m] # None
        /\ \A a \in Name : aliases'[a] # NoName => aliases'[a] = f.aliases[a]
    BY <2>2, Loads
  <2>. QED
    BY <2>1, <2>3
<1>8. \A m \in Name \ {n} : collections'[m] = None /\ collections'[m].num = 0
  BY <1>6, <1>7, NoneTyped
<1>9. collections'[n] # None => collections'[n].num = made + 1 /\ collections'[n].obj > 0 /\ collections'[n].shows = dirs'[n]
  BY <1>5, <1>6, <1>7
<1>10. \A a \in Name : aliases'[a] = NoName
  BY <1>6, <1>7
<1>11. n \notin left' => collections'[n] # None
  BY <1>1, <1>3, <1>6 DEF NotOpened, Registered
<1>12. "load" \notin trouble' => collections'[n] # None
  BY <1>1, <1>3, <1>6, <1>7
<1>13. left \subseteq left'
  BY <1>1
<1>14. \A m \in Name : collections'[m].num = 0 \/ (m = n /\ collections'[m].num = made + 1)
  BY <1>8, <1>9, NoneTyped
<1>15. RegistryTypes'
  BY <1>2, <1>3, <1>5, <1>6, <1>7 DEF RegistryTypes
<1>16. Numbers'
  <2>1. \A m \in Name : collections'[m].num <= made' /\ file'.collections[m] <= made'
    BY <1>2, <1>3, <1>6, <1>14
  <2>2. \A m \in Name : collections'[m] # None => collections'[m].num > 0 /\ collections'[m].obj > 0
    BY <1>3, <1>8, <1>9
  <2>3. \A r \in Request : holds[r].num <= made' /\ (holds[r].num > 0 => holds[r].name \in Name /\ holds[r].obj > 0)
    BY <1>2, <1>3, FieldTypes DEF Numbers
  <2>4. \A c \in acked' : c \in 1..made'
    BY <1>2, <1>3 DEF Numbers
  <2>. QED
    BY <1>2, <2>1, <2>2, <2>3, <2>4 DEF Numbers, Exists
<1>17. Distinct'
  <2>1. \A x, y \in Name : collections'[x].num = collections'[y].num => x = y \/ collections'[x].num = 0
    BY <1>3, <1>14
  <2>2. \A x, y \in Name : file'.collections[x] = file'.collections[y] => x = y \/ file'.collections[x] = 0
    BY <1>3, <1>6
  <2>3. \A r \in Request, m \in Name : ~(holds[r].num > 0 /\ collections'[m].num = holds[r].num)
    <3>1. \A r \in Request : holds[r].num \in Nat /\ holds[r].num <= made
      BY FieldTypes DEF Numbers
    <3>. QED
      BY <1>3, <1>14, <3>1
  <2>. QED
    BY <1>2, <2>1, <2>2, <2>3 DEF Distinct
<1>18. Waiting_'
  BY <1>4 DEF Waiting_
<1>19. Synced'
  <2>1. \A m \in Name \ left' : file'.collections[m] = collections'[m].num
    BY <1>6, <1>8, <1>9, <1>11
  <2>. QED
    BY <1>4, <2>1 DEF Synced
<1>20. DirsOwned'
  <2>. SUFFICES ASSUME NEW m \in Name \ left' PROVE dirs'[m] \subseteq {file'.collections[m]} \ {0}
    BY DEF DirsOwned
  <2>1. CASE m = n
    BY <1>3, <1>5, <1>6, <2>1
  <2>2. CASE m # n
    BY <1>5, <2>2
  <2>. QED
    BY <2>1, <2>2
<1>21. HoldersKnown'
  <2>1. \A r \in Request : holds[r].num > 0 => holds[r].name \in left'
    <3>1. op.kind = "replace"
      BY <1>4
    <3>2. \A r \in Request : holds[r].num > 0 => holds[r].name \in left \cup StillWritten
      BY <3>1, HolderIsLeft
    <3>3. left \cup StillWritten \subseteq left'
      BY <1>1
    <3>. QED
      BY <3>2, <3>3
  <2>. QED
    BY <1>2, <2>1 DEF HoldersKnown
<1>22. OnlyOwnWrites'
  BY <1>5, <1>8, <1>9 DEF OnlyOwnWrites, Exists
<1>23. FileComplete'
  <2>. SUFFICES ASSUME {"save", "load", "replace"} \cap trouble' = {}
               PROVE  \A m \in Name : /\ file'.collections[m] = collections'[m].num
                                      /\ collections'[m] # None => collections'[m].num \in dirs'[m]
    BY DEF FileComplete, Exists
  <2>1. collections'[n] # None
    BY <1>12
  <2>. QED
    BY <1>5, <1>6, <1>8, <1>9, <2>1
<1>24. (FileAliasesLead /\ AliasesLead)'
  BY <1>6, <1>10 DEF FileAliasesLead, AliasesLead
<1>. QED
  BY <1>15, <1>16, <1>17, <1>18, <1>19, <1>20, <1>21, <1>22, <1>23, <1>24

\* Nothing is loaded: the maps stay empty, and what was written so far is left.
LEMMA KeptByReplaceFails == ASSUME RegistryInv, ReplaceFails PROVE RegistryInv'
<1>. USE DEF RegistryInv
<1>1. PICK n \in Name, stay \in SUBSET op.names :
          /\ \/ file' = NoFile /\ dirs' = Cleared(n, stay)
             \/ file' = SnapshotFile(n) /\ dirs' \in {Cleared(n, stay), Written(n, stay)}
          /\ left' = left \cup StillWritten \cup stay \cup {n}
          /\ trouble' = trouble \cup {"replace"}
  BY DEF ReplaceFails
<1>2. /\ Replacing /\ made' = made + 1 /\ acked' = acked \cup {made + 1} /\ op' = NoOperation
      /\ UNCHANGED <<collections, aliases, holds, opened>>
  BY DEF ReplaceFails
<1>3. made \in Nat /\ made' \in Nat
  BY <1>2 DEF RegistryTypes
<1>4. op.kind = "replace" /\ op'.kind = "none" /\ ~Replacing'
  BY <1>2 DEF Replacing, NoOperation
<1>5. dirs' \in [Name -> SUBSET Nat] /\ \A m \in Name \ left' : dirs'[m] = {}
  <2>1. PICK W \in {{}, {made + 1}} : dirs' = Filled(n, stay, W)
    <3>1. Cleared(n, stay) = Filled(n, stay, {})
      BY DEF Cleared, Without, Filled
    <3>2. Written(n, stay) = Filled(n, stay, {made + 1})
      BY DEF Written, Filled
    <3>. QED
      BY <1>1, <3>1, <3>2
  <2>. QED
    BY <1>1, <1>2, <2>1, ReplacedFiles
<1>6. /\ file' \in Files /\ \A m \in Name \ {n} : file'.collections[m] = 0
      /\ file'.collections[n] \in {0, made + 1} /\ \A a \in Name : file'.aliases[a] = NoName
  BY <1>1, <1>3, SnapshotFields, NoFileTyped
<1>7. \A m \in Name : collections[m] = None /\ aliases[m] = NoName /\ collections[m].num = 0
  BY <1>2, NoneTyped DEF Waiting_
<1>8. RegistryTypes'
  BY <1>2, <1>3, <1>5, <1>6 DEF RegistryTypes
<1>9. Numbers'
  <2>1. \A m \in Name : file'.collections[m] <= made'
    BY <1>2, <1>3, <1>6
  <2>2. \A r \in Request : holds[r].num <= made'
    BY <1>2, <1>3, FieldTypes DEF Numbers
  <2>3. \A c \in acked' : c \in 1..made'
    BY <1>2, <1>3 DEF Numbers
  <2>. QED
    BY <1>2, <1>3, <1>7, <2>1, <2>2, <2>3 DEF Numbers, Exists
<1>10. Distinct'
  <2>1. \A x, y \in Name : file'.collections[x] = file'.collections[y] => x = y \/ file'.collections[x] = 0
    BY <1>3, <1>6
  <2>. QED
    BY <1>2, <2>1 DEF Distinct
<1>11. Waiting_'
  BY <1>4 DEF Waiting_
<1>12. (Synced /\ DirsOwned)'
  <2>1. \A m \in Name \ left' : file'.collections[m] = 0
    BY <1>1, <1>6
  <2>. QED
    BY <1>2, <1>4, <1>5, <1>7, <2>1 DEF Synced, DirsOwned
<1>13. HoldersKnown'
  <2>1. \A r \in Request : holds[r].num > 0 => holds[r].name \in left'
    <3>1. op.kind = "replace"
      BY <1>4
    <3>2. \A r \in Request : holds[r].num > 0 => holds[r].name \in left \cup StillWritten
      BY <3>1, HolderIsLeft
    <3>3. left \cup StillWritten \subseteq left'
      BY <1>1
    <3>. QED
      BY <3>2, <3>3
  <2>. QED
    BY <1>2, <2>1 DEF HoldersKnown
<1>14. (OnlyOwnWrites /\ AliasesLead)'
  BY <1>2, <1>7 DEF OnlyOwnWrites, AliasesLead, Exists
<1>15. (FileComplete /\ FileAliasesLead)'
  BY <1>1, <1>6 DEF FileComplete, FileAliasesLead
<1>. QED
  BY <1>8, <1>9, <1>10, <1>11, <1>12, <1>13, <1>14, <1>15

\* A restart: the maps are what the file and the directories say, whatever a crash made of them.
LEMMA KeptByRestart ==
    ASSUME RegistryInv, NEW fails \in BOOLEAN, load_and_recover(file', dirs', fails),
           fails => "load" \in trouble',
           holds' = [r \in Request |-> NoHold], op' = NoOperation,
           file' \in Files, dirs' \in [Name -> SUBSET Nat], made' \in Nat, acked' \subseteq 1..made',
           \A n \in Name : file'.collections[n] <= made',
           \A x, y \in Name : file'.collections[x] = file'.collections[y] => x = y \/ file'.collections[x] = 0,
           \A n \in Name \ left' : /\ dirs'[n] \subseteq {file'.collections[n]} \ {0}
                                   /\ file'.collections[n] > 0 => collections'[n] # None,
           left' \subseteq Name \cup left,
           {"save", "load", "replace"} \cap trouble' = {} =>
               \A n \in Name : file'.collections[n] > 0 /\ file'.collections[n] \in acked' =>
                   file'.collections[n] \in dirs'[n],
           FileAliasesLead'
    PROVE  RegistryInv'
<1>. USE DEF RegistryInv
<1>1. op'.kind = "none" /\ ~Replacing'
  BY DEF Replacing, NoOperation
<1>2. /\ opened' = opened + 1 /\ opened' \in Nat
      /\ collections' \in [Name -> Collections_] /\ aliases' \in [Name -> Name \cup {NoName}]
      /\ \A n \in Name : collections'[n] # None =>
             file'.collections[n] > 0 /\ collections'[n].num = file'.collections[n]
             /\ collections'[n].obj > 0 /\ collections'[n].shows = dirs'[n]
      /\ ~fails => \A n \in Name : file'.collections[n] > 0 => collections'[n] # None
      /\ \A a \in Name : aliases'[a] # NoName =>
             aliases'[a] = file'.aliases[a] /\ (~fails => aliases'[a] \in Name /\ file'.collections[aliases'[a]] > 0)
  <2>1. PICK f, d : f = file' /\ d = dirs'
    OBVIOUS
  <2>2. load_and_recover(f, d, fails) /\ f \in Files /\ d \in [Name -> SUBSET Nat]
    BY <2>1
  <2>3. /\ opened' = opened + 1 /\ opened' \in Nat
        /\ collections' \in [Name -> Collections_] /\ aliases' \in [Name -> Name \cup {NoName}]
        /\ \A n \in Name : collections'[n] # None =>
               f.collections[n] > 0 /\ collections'[n].num = f.collections[n]
               /\ collections'[n].obj > 0 /\ collections'[n].shows = d[n]
        /\ ~fails => \A n \in Name : f.collections[n] > 0 => collections'[n] # None
        /\ \A a \in Name : aliases'[a] # NoName =>
               aliases'[a] = f.aliases[a] /\ (~fails => aliases'[a] \in Name /\ f.collections[aliases'[a]] > 0)
    BY <2>2, Loads
  <2>. QED
    BY <2>1, <2>3
<1>3. \A n \in Name : file'.collections[n] \in Nat
  BY DEF Files
<1>4. \A r \in Request : holds'[r] = NoHold /\ holds'[r].num = 0
  BY NoHoldTyped
<1>5. \A n \in Name : collections'[n].num = 0 \/ collections'[n].num = file'.collections[n]
  BY <1>2, NoneTyped
<1>6. RegistryTypes'
  BY <1>2, NoHoldTyped DEF RegistryTypes
<1>7. Numbers'
  <2>1. \A n \in Name : collections'[n].num <= made'
    BY <1>3, <1>5
  <2>2. \A n \in Name : collections'[n] # None => collections'[n].num > 0 /\ collections'[n].obj > 0
    BY <1>2
  <2>. QED
    BY <1>4, <2>1, <2>2 DEF Numbers, Exists
<1>8. Distinct'
  <2>1. \A x, y \in Name : collections'[x].num = collections'[y].num => x = y \/ collections'[x].num = 0
    BY <1>5
  <2>2. \A r \in Request : ~(holds'[r].num > 0)
    BY <1>4
  <2>. QED
    BY <2>1, <2>2 DEF Distinct
<1>9. Waiting_'
  BY <1>1 DEF Waiting_
<1>10. Synced'
  <2>1. \A n \in Name \ left' : file'.collections[n] = collections'[n].num
    BY <1>2, <1>3, NoneTyped
  <2>. QED
    BY <1>1, <2>1 DEF Synced
<1>11. DirsOwned'
  BY DEF DirsOwned
<1>12. HoldersKnown'
  BY <1>4 DEF HoldersKnown
<1>13. OnlyOwnWrites'
  BY <1>2 DEF OnlyOwnWrites, Exists
<1>14. FileComplete'
  <2>. SUFFICES ASSUME {"save", "load", "replace"} \cap trouble' = {}
               PROVE  \A n \in Name : /\ file'.collections[n] = collections'[n].num
                                      /\ collections'[n] # None /\ collections'[n].num \in acked' => collections'[n].num \in dirs'[n]
    BY DEF FileComplete, Exists
  <2>1. ~fails
    OBVIOUS
  <2>2. \A n \in Name : file'.collections[n] = collections'[n].num
    BY <1>2, <1>3, <2>1, NoneTyped
  <2>. QED
    BY <1>2, <2>2
<1>15. AliasesLead'
  <2>. SUFFICES ASSUME "load" \notin trouble', NEW a \in Name, aliases'[a] # NoName
               PROVE  /\ collections'[aliases'[a]] # None /\ collections'[a] = None
                      /\ file'.aliases[a] = aliases'[a] /\ file'.collections[aliases'[a]] > 0
    BY DEF AliasesLead, Exists
  <2>1. ~fails
    OBVIOUS
  <2>2. aliases'[a] = file'.aliases[a] /\ aliases'[a] \in Name /\ file'.collections[aliases'[a]] > 0
    BY <1>2, <2>1
  <2>3. collections'[aliases'[a]] # None
    BY <1>2, <2>1, <2>2
  <2>4. file'.collections[a] = 0
    BY <2>2 DEF FileAliasesLead
  <2>5. collections'[a] = None
    BY <1>2, <2>4
  <2>. QED
    BY <2>2, <2>3, <2>5
<1>. QED
  BY <1>6, <1>7, <1>8, <1>9, <1>10, <1>11, <1>12, <1>13, <1>14, <1>15

LEMMA KeptByCrashAndLoad == ASSUME RegistryInv, CrashAndLoad PROVE RegistryInv'
<1>. USE DEF RegistryInv
<1>1. PICK fails \in BOOLEAN :
          /\ load_and_recover(file, dirs, fails)
          /\ trouble \subseteq trouble' /\ (fails => "load" \in trouble')
  BY DEF CrashAndLoad, LoadTrouble
<1>2. /\ ~Replacing /\ holds' = [r \in Request |-> NoHold] /\ op' = NoOperation
      /\ UNCHANGED <<file, dirs, made, acked>>
      /\ left' = left \cup NotOpened \cup (IF op.kind = "drop" THEN {op.name} ELSE {})
  BY DEF CrashAndLoad
<1>3. file \in Files /\ dirs \in [Name -> SUBSET Nat] /\ made \in Nat /\ acked \subseteq 1..made
      /\ \A n \in Name : file.collections[n] <= made
  BY DEF RegistryTypes, Numbers
<1>4. left' \subseteq Name \cup left
  BY <1>2 DEF NotOpened, Registered, RegistryTypes, Drops, Replaces, NoOperation
<1>5. \A n \in Name \ left' : n \notin left /\ ~Dropping(n) /\ (file.collections[n] > 0 => collections'[n] # None)
  BY <1>2 DEF NotOpened, Registered, Dropping
<1>6. \A n \in Name \ left' : dirs[n] \subseteq {file.collections[n]} \ {0}
  BY <1>5 DEF DirsOwned
<1>7. ASSUME {"save", "load", "replace"} \cap trouble' = {}, NEW n \in Name,
             file.collections[n] > 0, file.collections[n] \in acked
      PROVE  file.collections[n] \in dirs[n]
  <2>1. {"save", "load", "replace"} \cap trouble = {}
    BY <1>1, <1>7
  <2>2. file.collections[n] = collections[n].num
    BY <1>2, <2>1 DEF FileComplete
  <2>3. Exists(n)
    BY <1>7, <2>2, NoneTyped DEF Exists
  <2>. QED
    BY <1>7, <2>1, <2>2, <2>3 DEF FileComplete
<1>8. FileAliasesLead'
  BY <1>1, <1>2 DEF FileAliasesLead
<1>9. load_and_recover(file', dirs', fails)
  BY <1>1, <1>2
<1>10. \A x, y \in Name : file.collections[x] = file.collections[y] => x = y \/ file.collections[x] = 0
  BY DEF Distinct
<1>. HIDE DEF RegistryInv
<1>. QED
  BY <1>1, <1>2, <1>3, <1>4, <1>5, <1>6, <1>7, <1>8, <1>9, <1>10, KeptByRestart

\* A crash in the middle of a replacement: the old file with fewer directories, none, or the new
\* one, whose directory is not written yet or is.
LEMMA KeptByCrashInReplace == ASSUME RegistryInv, CrashInReplace PROVE RegistryInv'
<1>. USE DEF RegistryInv
<1>1. PICK n \in Name, stay \in SUBSET op.names, fails \in BOOLEAN :
          /\ \/ file' = file /\ dirs' = Without(op.names \ stay)
             \/ file' \in {NoFile, SnapshotFile(n)} /\ dirs' = Cleared(n, stay)
             \/ file' = SnapshotFile(n) /\ dirs' = Written(n, stay)
          /\ load_and_recover(file', dirs', fails)
          /\ trouble' = trouble \cup {"replace"} \cup LoadTrouble(fails)
          /\ left' = left \cup NotOpened \cup (IF file' = file THEN {} ELSE stay)
  BY DEF CrashInReplace
<1>2. /\ Replacing /\ made' = made + 1 /\ acked' = acked \cup {made + 1}
      /\ holds' = [r \in Request |-> NoHold] /\ op' = NoOperation
  BY DEF CrashInReplace
<1>3. made \in Nat /\ made' \in Nat /\ acked' \subseteq 1..made' /\ op.names \subseteq Name
  <2>1. made \in Nat /\ acked \subseteq 1..made
    BY DEF RegistryTypes, Numbers
  <2>2. op.names \subseteq Name
    BY <1>2 DEF RegistryTypes, Drops, Replaces, NoOperation, Replacing
  <2>3. made' = made + 1 /\ acked' = acked \cup {made + 1}
    BY <1>2
  <2>4. made' \in Nat
    BY <2>1, <2>3
  <2>5. ASSUME NEW x \in acked' PROVE x \in 1..made'
    <3>1. x \in 1..made \/ x = made + 1
      BY <2>1, <2>3, <2>5
    <3>. QED
      BY <2>1, <2>3, <3>1
  <2>. QED
    BY <2>1, <2>2, <2>4, <2>5
<1>4. /\ trouble \subseteq trouble' /\ "replace" \in trouble' /\ (fails => "load" \in trouble')
  BY <1>1 DEF LoadTrouble
<1>5. left' \subseteq Name \cup left
  BY <1>1, <1>3 DEF NotOpened, Registered
<1>6. \A m \in Name \ left' : m \notin left /\ (file'.collections[m] > 0 => collections'[m] # None)
  BY <1>1 DEF NotOpened, Registered
<1>. DEFINE Sound ==
              /\ file' \in Files /\ dirs' \in [Name -> SUBSET Nat]
              /\ \A m \in Name : file'.collections[m] <= made'
              /\ \A x, y \in Name : file'.collections[x] = file'.collections[y] => x = y \/ file'.collections[x] = 0
              /\ \A m \in Name \ left' : dirs'[m] \subseteq {file'.collections[m]} \ {0}
              /\ FileAliasesLead'
<1>7. ASSUME file' = file PROVE Sound
  <2>1. file \in Files /\ dirs \in [Name -> SUBSET Nat]
    BY DEF RegistryTypes
  <2>2. dirs' \in [Name -> SUBSET Nat] /\ \A m \in Name : dirs'[m] \subseteq dirs[m]
    <3>1. SnapshotFile(n) # file
      BY <1>3, SnapshotFields DEF Numbers
    <3>2. dirs' = Without(op.names \ stay) \/ dirs' = Cleared(n, stay)
      BY <1>1, <1>7, <3>1
    <3>. QED
      BY <2>1, <3>2 DEF Without, Cleared
  <2>3. \A m \in Name : file.collections[m] \in Nat /\ file.collections[m] <= made
    BY FieldTypes DEF Numbers
  <2>4. \A m \in Name : file'.collections[m] <= made'
    BY <1>2, <1>3, <1>7, <2>3
  <2>5. \A m \in Name \ left' : dirs[m] \subseteq {file.collections[m]} \ {0}
    BY <1>2, <1>6 DEF DirsOwned, Dropping, Replacing
  <2>6. FileAliasesLead'
    BY <1>4, <1>7 DEF FileAliasesLead
  <2>7. \A x, y \in Name : file.collections[x] = file.collections[y] => x = y \/ file.collections[x] = 0
    BY DEF Distinct
  <2>. QED
    BY <1>7, <2>1, <2>2, <2>4, <2>5, <2>6, <2>7
<1>8. ASSUME file' # file, NEW W \in {{}, {made + 1}}, dirs' = Filled(n, stay, W),
             file' = SnapshotFile(n) \/ (file' = NoFile /\ W = {})
      PROVE  Sound
  <2>1. /\ file' \in Files /\ \A m \in Name \ {n} : file'.collections[m] = 0
        /\ file'.collections[n] \in {0, made + 1} /\ \A a \in Name : file'.aliases[a] = NoName
        /\ W = {} \/ file'.collections[n] = made + 1
    BY <1>3, <1>8, SnapshotFields, NoFileTyped
  <2>2. stay \subseteq left'
    BY <1>1, <1>8
  <2>3. /\ dirs' \in [Name -> SUBSET Nat] /\ (n \notin stay => dirs'[n] = W)
        /\ \A m \in Name \ {n} : m \notin left /\ m \notin stay => dirs'[m] = {}
    <3>1. Replacing
      BY <1>2
    <3>2. dirs' = Filled(n, stay, W)
      BY <1>8
    <3>. QED
      BY <3>1, <3>2, ReplacedDirs, Zenon
  <2>4. \A m \in Name : file'.collections[m] <= made'
    BY <1>2, <1>3, <2>1
  <2>5. \A x, y \in Name : file'.collections[x] = file'.collections[y] => x = y \/ file'.collections[x] = 0
    BY <1>3, <2>1
  <2>6. \A m \in Name \ left' : dirs'[m] \subseteq {file'.collections[m]} \ {0}
    BY <1>3, <1>6, <2>1, <2>2, <2>3
  <2>7. FileAliasesLead'
    BY <2>1 DEF FileAliasesLead
  <2>. QED
    BY <2>1, <2>3, <2>4, <2>5, <2>6, <2>7
<1>9. Cleared(n, stay) = Filled(n, stay, {}) /\ Written(n, stay) = Filled(n, stay, {made + 1})
  BY DEF Cleared, Without, Written, Filled
<1>10. Sound
  <2>1. CASE file' = file
    BY <1>7, <2>1
  <2>2. CASE file' # file
    <3>1. PICK W \in {{}, {made + 1}} : /\ dirs' = Filled(n, stay, W)
                                        /\ file' = SnapshotFile(n) \/ (file' = NoFile /\ W = {})
      BY <1>1, <1>9, <2>2
    <3>. QED
      BY <1>8, <2>2, <3>1
  <2>. QED
    BY <2>1, <2>2
<1>. HIDE DEF RegistryInv
<1>. QED
  BY <1>1, <1>2, <1>3, <1>4, <1>5, <1>6, <1>10, KeptByRestart

LEMMA RegistryStutters == ASSUME RegistryInv, UNCHANGED registryVars PROVE RegistryInv'
<1>1. /\ collections' = collections /\ aliases' = aliases /\ file' = file /\ dirs' = dirs /\ holds' = holds /\ op' = op
      /\ made' = made /\ opened' = opened /\ trouble' = trouble /\ acked' = acked /\ left' = left
  BY DEF registryVars
<1>. USE DEF RegistryInv
<1>2. (RegistryTypes /\ Numbers /\ Distinct /\ Waiting_)'
  BY <1>1 DEF RegistryTypes, Numbers, Distinct, Waiting_, Exists, Replacing
<1>3. (Synced /\ DirsOwned /\ HoldersKnown /\ OnlyOwnWrites)'
  BY <1>1 DEF Synced, DirsOwned, HoldersKnown, OnlyOwnWrites, Exists, Replacing, Dropping
<1>4. (FileComplete /\ FileAliasesLead /\ AliasesLead)'
  BY <1>1 DEF FileComplete, FileAliasesLead, AliasesLead, Exists, Replacing
<1>. QED
  BY <1>2, <1>3, <1>4

\* The invariant holds in every state of the registry.
LEMMA RegistryInvariant == RegistrySpec => []RegistryInv
<1>1. RegistryInit => RegistryInv
  BY RegistryInitially
<1>2. RegistryInv /\ [RegistryNext]_registryVars => RegistryInv'
  <2>. SUFFICES ASSUME RegistryInv, [RegistryNext]_registryVars PROVE RegistryInv'
    OBVIOUS
  <2>1. ASSUME NEW n \in Name, create(n) \/ DropBegins(n) \/ delete_alias(n) PROVE RegistryInv'
    BY <2>1, KeptByCreate, KeptByDropBegins, KeptByDeleteAlias
  <2>2. ASSUME NEW a \in Name, NEW n \in Name, set_alias(a, n) PROVE RegistryInv'
    BY <2>2, KeptBySetAlias
  <2>3. ASSUME NEW r \in Request, (\E n \in Name : acquire(r, n)) \/ WriteAndRelease(r) PROVE RegistryInv'
    BY <2>3, KeptByAcquire, KeptByWriteAndRelease
  <2>4. CASE DropEnds \/ ReplaceBegins \/ ReplaceEnds \/ ReplaceFails
    BY <2>4, KeptByDropEnds, KeptByReplaceBegins, KeptByReplaceEnds, KeptByReplaceFails
  <2>5. CASE CrashInReplace \/ CrashAndLoad
    BY <2>5, KeptByCrashInReplace, KeptByCrashAndLoad
  <2>6. CASE UNCHANGED registryVars
    BY <2>6, RegistryStutters
  <2>. QED
    BY <2>1, <2>2, <2>3, <2>4, <2>5, <2>6 DEF RegistryNext
<1>. QED
  BY <1>1, <1>2, PTL DEF RegistrySpec

\* A collection never shows a write of an earlier collection of its name, but where a crash, a
\* failed removal, save or load, a drain that was given up, or a replacement of all files that
\* threw or was cut off by a crash left a directory that no later one took away.
THEOREM CollectionsKeepApart == RegistrySpec => []OnlyOwnWrites
<1>1. RegistryInv => OnlyOwnWrites
  BY DEF RegistryInv
<1>. QED
  BY <1>1, RegistryInvariant, PTL

\* Answered writes are on disk under a name in registry.json, and aliases lead to collections,
\* unless a save or a load failed, or a replacement of all files that threw or was cut off by a
\* crash was not yet made good by another.
THEOREM NamesLead == RegistrySpec => []NamesLeadToData
<1>1. RegistryInv => NamesLeadToData
  <2>. SUFFICES ASSUME RegistryInv PROVE AnsweredWritesKept /\ AliasesLead
    BY DEF NamesLeadToData
  <2>1. AliasesLead
    BY DEF RegistryInv
  <2>2. ASSUME NEW n \in Name, Exists(n), collections[n].num \in acked, {"save", "load", "replace"} \cap trouble = {}
        PROVE  collections[n].num \in dirs[n] /\ file.collections[n] = collections[n].num
    <3>1. ~Replacing
      BY <2>2 DEF RegistryInv, Waiting_, Exists
    <3>. QED
      BY <2>2, <3>1 DEF RegistryInv, FileComplete
  <2>. QED
    BY <2>1, <2>2 DEF AnsweredWritesKept
<1>. QED
  BY <1>1, RegistryInvariant, PTL

-----------------------------------------------------------------------------
\* The drift bridge.

DriftTypes ==
    /\ live \in [Doc -> [ver : Nat, model : {"old", "new"}]]
    /\ shadow \in [Doc -> Nat]
    /\ newest \in [Doc -> Nat]
    /\ swap \in [stage : {"none", "take", "compare", "write", "end", "done"},
                 from : [Doc -> Nat], had : [Doc -> Nat]]
    /\ mirrors \in [Client -> [id : Doc \cup {"none"}, ver : Nat]]
    /\ \A v \in todo : v.id \in Doc /\ v.ver = 1
    /\ writes \in Nat
    /\ inMap \in BOOLEAN /\ aborted \in BOOLEAN

\* A client has written id and not yet mirrored it.
InMirror(id) == \E c \in Client : mirrors[c] # NoMirror /\ mirrors[c].id = id

\* What phase_ says of a migration that was not aborted.
Phases ==
    inMap =>
        \/ swap.stage = "none" /\ phase_ = "MIGRATING"
        \/ swap.stage \in {"take", "compare", "write"} /\ phase_ = "SWAPPING"
        \/ swap.stage = "done" /\ phase_ = "COMPLETE"

Versions ==
    \A id \in Doc :
        /\ swap.stage \in {"none", "take", "compare", "end"} => live[id].ver = newest[id]
        /\ swap.stage = "write" => id \in late \/ (live[id].ver = newest[id] /\ live[id].ver = swap.had[id])
        /\ swap.stage = "done" => id \in late \/ live[id].ver = newest[id]

\* Nothing is written back before the comparison, nor after an abort.
OldUntilWritten ==
    /\ swap.stage \in {"none", "take", "compare"} => \A id \in Doc : live[id].model = "old"
    /\ aborted => ~inMap /\ swap.stage \in {"none", "take", "end", "done"}
                  /\ \A id \in Doc : live[id].model = "old"

\* While vectors are copied, a client that has to mirror a version has the current one.
MirrorsCurrent ==
    swap.stage = "none" =>
        \A c \in Client : mirrors[c] # NoMirror =>
            mirrors[c].id \in Doc /\ (mirrors[c].id \in missed \/ live[mirrors[c].id].ver = mirrors[c].ver)

\* What need not be migrated, or not yet.
Excused(id) == live[id].ver = 0 \/ id \in missed \/ InMirror(id)

ToBeCopied(id) == live[id].ver = 1 /\ shadow[id] = 0 /\ \E v \in todo : v.id = id

Migrating ==
    inMap => \A id \in Doc :
        /\ swap.stage = "none" => Excused(id) \/ shadow[id] = live[id].ver \/ ToBeCopied(id)
        /\ swap.stage = "take" => Excused(id) \/ shadow[id] = live[id].ver
        /\ swap.stage = "compare" => Excused(id) \/ swap.from[id] = live[id].ver
        /\ swap.stage = "write" => Excused(id) \/ id \in late \/ live[id].model = "new" \/ Unchanged(id)
        /\ swap.stage = "done" => Excused(id) \/ id \in late \/ live[id].model = "new"

DriftInv == DriftTypes /\ Phases /\ Versions /\ OldUntilWritten /\ MirrorsCurrent /\ Migrating

\* DriftInv holds in the beginning.
LEMMA DriftInitially == DriftInit => DriftInv
<1>. SUFFICES ASSUME DriftInit PROVE DriftInv
  OBVIOUS
<1>1. DriftTypes
  <2>1. \A v \in todo : v.id \in Doc /\ v.ver = 1
    BY DEF DriftInit
  <2>2. /\ live \in [Doc -> [ver : Nat, model : {"old", "new"}]]
        /\ shadow \in [Doc -> Nat] /\ newest \in [Doc -> Nat]
    BY DEF DriftInit
  <2>3. swap \in [stage : {"none", "take", "compare", "write", "end", "done"},
                  from : [Doc -> Nat], had : [Doc -> Nat]]
    BY DEF DriftInit, NoSwap
  <2>4. mirrors \in [Client -> [id : Doc \cup {"none"}, ver : Nat]]
    BY DEF DriftInit, NoMirror
  <2>. QED
    BY <2>1, <2>2, <2>3, <2>4 DEF DriftInit, DriftTypes
<1>2. \A id \in Doc : live[id].ver = 1 /\ live[id].model = "old" /\ shadow[id] = 0 /\ newest[id] = 1
  BY DEF DriftInit
<1>3. \A id \in Doc : \E v \in todo : v.id = id
  <2>. SUFFICES ASSUME NEW id \in Doc PROVE \E v \in todo : v.id = id
    OBVIOUS
  <2>1. [id |-> id, ver |-> 1] \in todo
    BY DEF DriftInit
  <2>. QED
    BY <2>1
<1>. QED
  BY <1>1, <1>2, <1>3 DEF DriftInit, DriftInv, Phases, Versions, OldUntilWritten, MirrorsCurrent,
     Migrating, ToBeCopied, NoSwap

-----------------------------------------------------------------------------
\* Each step of the thread keeps it.

LEMMA KeptByMigrateNext == DriftInv /\ MigrateNext => DriftInv'
<1>. SUFFICES ASSUME DriftInv, MigrateNext PROVE DriftInv'
  OBVIOUS
<1>. USE DEF DriftInv
<1>1. PICK v \in todo : todo' = todo \ {v} /\ shadow' = [shadow EXCEPT ![v.id] = CopiedOver(@, v.ver)]
  BY DEF MigrateNext
<1>2. /\ phase_ = "MIGRATING" /\ phase_' = phase_
      /\ UNCHANGED <<live, inMap, swap, mirrors, newest, missed, late, aborted, writes>>
  BY DEF MigrateNext
<1>3. v.id \in Doc /\ v.ver = 1
  BY <1>1 DEF DriftTypes
<1>4. \A id \in Doc : shadow'[id] = IF id = v.id /\ shadow[id] = 0 THEN 1 ELSE shadow[id]
  BY <1>1, <1>3 DEF DriftTypes, CopiedOver
<1>5. DriftTypes'
  <2>1. shadow' \in [Doc -> Nat]
    BY <1>1, <1>3 DEF DriftTypes, CopiedOver
  <2>. QED
    BY <1>1, <1>2, <2>1 DEF DriftTypes
<1>6. (Phases /\ Versions /\ OldUntilWritten /\ MirrorsCurrent)'
  BY <1>2 DEF Phases, Versions, OldUntilWritten, MirrorsCurrent
<1>7. Migrating'
  <2>. SUFFICES ASSUME inMap, NEW id \in Doc
               PROVE  Excused(id)' \/ shadow'[id] = live'[id].ver \/ ToBeCopied(id)'
    BY <1>2 DEF Migrating, Phases
  <2>1. swap.stage = "none"
    BY <1>2 DEF Phases
  <2>2. Excused(id) => Excused(id)'
    BY <1>2 DEF Excused, InMirror
  <2>3. shadow[id] = live[id].ver => live[id].ver = 0 \/ shadow'[id] = live'[id].ver
    BY <1>2, <1>4
  <2>4. ToBeCopied(id) => shadow'[id] = live'[id].ver \/ ToBeCopied(id)'
    BY <1>1, <1>2, <1>4 DEF ToBeCopied
  <2>. QED
    BY <2>1, <2>2, <2>3, <2>4 DEF Migrating, Excused
<1>. QED
  BY <1>5, <1>6, <1>7

LEMMA KeptBySkipNext == DriftInv /\ SkipNext => DriftInv'
<1>. SUFFICES ASSUME DriftInv, SkipNext PROVE DriftInv'
  OBVIOUS
<1>. USE DEF DriftInv
<1>1. PICK v \in todo : todo' = todo \ {v} /\ missed' = missed \cup {v.id}
  BY DEF SkipNext
<1>2. /\ phase_ = "MIGRATING" /\ phase_' = phase_
      /\ UNCHANGED <<live, shadow, inMap, swap, mirrors, newest, late, aborted, writes>>
  BY DEF SkipNext
<1>3. (DriftTypes /\ Phases /\ Versions /\ OldUntilWritten /\ MirrorsCurrent)'
  BY <1>1, <1>2 DEF DriftTypes, Phases, Versions, OldUntilWritten, MirrorsCurrent
<1>4. Migrating'
  <2>. SUFFICES ASSUME inMap, NEW id \in Doc
               PROVE  Excused(id)' \/ shadow'[id] = live'[id].ver \/ ToBeCopied(id)'
    BY <1>2 DEF Migrating, Phases
  <2>1. swap.stage = "none"
    BY <1>2 DEF Phases
  <2>2. Excused(id) => Excused(id)'
    BY <1>1, <1>2 DEF Excused, InMirror
  <2>3. ToBeCopied(id) => Excused(id)' \/ ToBeCopied(id)'
    BY <1>1, <1>2 DEF ToBeCopied, Excused
  <2>. QED
    BY <1>2, <2>1, <2>2, <2>3 DEF Migrating
<1>. QED
  BY <1>3, <1>4

LEMMA KeptByStartSwapping == DriftInv /\ StartSwapping => DriftInv'
<1>. SUFFICES ASSUME DriftInv, StartSwapping PROVE DriftInv'
  OBVIOUS
<1>. USE DEF DriftInv
<1>1. /\ todo = {} /\ swap.stage = "none" /\ phase_' = "SWAPPING"
      /\ swap' = [swap EXCEPT !.stage = "take"]
      /\ UNCHANGED <<live, shadow, inMap, todo, mirrors, newest, missed, late, aborted, writes>>
  BY DEF StartSwapping
<1>2. swap'.stage = "take" /\ swap'.from = swap.from /\ swap'.had = swap.had
  BY <1>1 DEF DriftTypes
<1>3. DriftTypes'
  BY <1>1 DEF DriftTypes
<1>4. (Phases /\ Versions /\ OldUntilWritten /\ MirrorsCurrent)'
  BY <1>1, <1>2 DEF Phases, Versions, OldUntilWritten, MirrorsCurrent
<1>5. \A id \in Doc : Excused(id) => Excused(id)'
  BY <1>1 DEF Excused, InMirror
<1>6. Migrating'
  BY <1>1, <1>2, <1>5 DEF Migrating, ToBeCopied
<1>. QED
  BY <1>3, <1>4, <1>6

LEMMA KeptByTakeShadow == DriftInv /\ TakeShadow => DriftInv'
<1>. SUFFICES ASSUME DriftInv, TakeShadow PROVE DriftInv'
  OBVIOUS
<1>. USE DEF DriftInv
<1>1. swap.stage = "take" /\ UNCHANGED <<live, phase_, inMap, todo, mirrors, newest, missed, late, aborted, writes>>
  BY DEF TakeShadow
<1>2. inMap => MayTake
  BY <1>1 DEF Phases, MayTake
<1>3. \A id \in Doc : Excused(id) => Excused(id)'
  BY <1>1 DEF Excused, InMirror
<1>4. CASE MayTake
  <2>1. swap' = [swap EXCEPT !.stage = "compare", !.from = shadow] /\ shadow' = [id \in Doc |-> 0] /\ inMap
    BY <1>4 DEF TakeShadow, MayTake
  <2>2. swap'.stage = "compare" /\ swap'.from = shadow
    BY <2>1 DEF DriftTypes
  <2>3. DriftTypes'
    BY <1>1, <2>1 DEF DriftTypes
  <2>4. (Phases /\ Versions /\ OldUntilWritten /\ MirrorsCurrent)'
    BY <1>1, <2>1, <2>2 DEF Phases, Versions, OldUntilWritten, MirrorsCurrent
  <2>5. Migrating'
    BY <1>1, <1>3, <2>1, <2>2 DEF Migrating
  <2>. QED
    BY <2>3, <2>4, <2>5
<1>5. CASE ~MayTake
  <2>1. swap' = [swap EXCEPT !.stage = "end"] /\ shadow' = shadow /\ ~inMap
    BY <1>2, <1>5 DEF TakeShadow
  <2>2. swap'.stage = "end"
    BY <2>1 DEF DriftTypes
  <2>3. DriftTypes'
    BY <1>1, <2>1 DEF DriftTypes
  <2>4. (Phases /\ Versions /\ OldUntilWritten /\ MirrorsCurrent /\ Migrating)'
    BY <1>1, <2>1, <2>2 DEF Phases, Versions, OldUntilWritten, MirrorsCurrent, Migrating
  <2>. QED
    BY <2>3, <2>4
<1>. QED
  BY <1>4, <1>5

LEMMA KeptByCompareWithLive == DriftInv /\ CompareWithLive => DriftInv'
<1>. SUFFICES ASSUME DriftInv, CompareWithLive PROVE DriftInv'
  OBVIOUS
<1>. USE DEF DriftInv
<1>1. /\ swap.stage = "compare" /\ late' = {}
      /\ swap' = [swap EXCEPT !.stage = "write", !.had = [id \in Doc |-> live[id].ver]]
      /\ UNCHANGED <<live, shadow, phase_, inMap, todo, mirrors, newest, missed, aborted, writes>>
  BY DEF CompareWithLive
<1>2. swap'.stage = "write" /\ swap'.from = swap.from /\ swap'.had = [id \in Doc |-> live[id].ver]
  BY <1>1 DEF DriftTypes
<1>3. DriftTypes'
  <2>1. [id \in Doc |-> live[id].ver] \in [Doc -> Nat]
    BY DEF DriftTypes
  <2>. QED
    BY <1>1, <2>1 DEF DriftTypes
<1>4. (Phases /\ Versions /\ OldUntilWritten /\ MirrorsCurrent)'
  BY <1>1, <1>2 DEF Phases, Versions, OldUntilWritten, MirrorsCurrent
<1>5. Migrating'
  <2>1. \A id \in Doc : Excused(id) => Excused(id)'
    BY <1>1 DEF Excused, InMirror
  <2>2. \A id \in Doc : swap.from[id] = live[id].ver => live[id].ver = 0 \/ Unchanged(id)'
    BY <1>1, <1>2 DEF Unchanged, DriftTypes
  <2>. QED
    BY <1>1, <1>2, <2>1, <2>2 DEF Migrating, Excused
<1>. QED
  BY <1>3, <1>4, <1>5

LEMMA KeptByWriteBack == ASSUME DriftInv, NEW id \in Doc, WriteBack(id) PROVE DriftInv'
<1>. USE DEF DriftInv
<1>1. /\ swap.stage = "write" /\ Unchanged(id)
      /\ live' = [live EXCEPT ![id] = [ver |-> swap.from[id], model |-> "new"]]
      /\ swap' = [swap EXCEPT !.from[id] = 0]
      /\ UNCHANGED <<shadow, phase_, inMap, todo, mirrors, newest, missed, late, aborted, writes>>
  BY DEF WriteBack
<1>2. /\ swap'.stage = "write" /\ swap'.had = swap.had
      /\ \A d \in Doc \ {id} : swap'.from[d] = swap.from[d] /\ live'[d] = live[d]
      /\ live'[id].ver = swap.had[id] /\ live'[id].model = "new"
  BY <1>1 DEF DriftTypes, Unchanged
<1>3. DriftTypes'
  BY <1>1 DEF DriftTypes
<1>4. (Phases /\ OldUntilWritten /\ MirrorsCurrent)'
  BY <1>1, <1>2 DEF Phases, OldUntilWritten, MirrorsCurrent
<1>5. Versions'
  BY <1>1, <1>2 DEF Versions
<1>6. Migrating'
  <2>. SUFFICES ASSUME inMap, NEW d \in Doc
               PROVE  (Excused(d) \/ d \in late \/ live[d].model = "new" \/ Unchanged(d))'
    BY <1>1, <1>2 DEF Migrating
  <2>1. CASE d = id
    BY <1>2, <2>1
  <2>2. CASE d # id
    <3>1. Excused(d) => Excused(d)'
      BY <1>1, <1>2, <2>2 DEF Excused, InMirror
    <3>2. Unchanged(d) => Unchanged(d)'
      BY <1>2, <2>2 DEF Unchanged
    <3>. QED
      BY <1>1, <1>2, <2>2, <3>1, <3>2 DEF Migrating
  <2>. QED
    BY <2>1, <2>2
<1>. QED
  BY <1>3, <1>4, <1>5, <1>6

LEMMA KeptByWriteBackFails == ASSUME DriftInv, NEW id \in Doc, WriteBackFails(id) PROVE DriftInv'
<1>. USE DEF DriftInv
<1>1. /\ swap.stage = "write" /\ Unchanged(id)
      /\ swap' = [swap EXCEPT !.from[id] = 0] /\ missed' = missed \cup {id}
      /\ UNCHANGED <<live, shadow, phase_, inMap, todo, mirrors, newest, late, aborted, writes>>
  BY DEF WriteBackFails
<1>2. /\ swap'.stage = "write" /\ swap'.had = swap.had
      /\ \A d \in Doc \ {id} : swap'.from[d] = swap.from[d]
  BY <1>1 DEF DriftTypes
<1>3. DriftTypes'
  BY <1>1 DEF DriftTypes
<1>4. (Phases /\ Versions /\ OldUntilWritten /\ MirrorsCurrent)'
  BY <1>1, <1>2 DEF Phases, Versions, OldUntilWritten, MirrorsCurrent
<1>5. Migrating'
  <2>. SUFFICES ASSUME inMap, NEW d \in Doc
               PROVE  (Excused(d) \/ d \in late \/ live[d].model = "new" \/ Unchanged(d))'
    BY <1>1, <1>2 DEF Migrating
  <2>1. Excused(d) => Excused(d)'
    BY <1>1 DEF Excused, InMirror
  <2>2. CASE d = id
    BY <1>1, <2>2 DEF Excused
  <2>3. CASE d # id
    <3>1. Unchanged(d) => Unchanged(d)'
      BY <1>2, <2>3 DEF Unchanged
    <3>. QED
      BY <1>1, <2>1, <3>1 DEF Migrating
  <2>. QED
    BY <2>2, <2>3
<1>. QED
  BY <1>3, <1>4, <1>5

LEMMA KeptByCollectionGone == DriftInv /\ CollectionGone => DriftInv'
<1>. SUFFICES ASSUME DriftInv, CollectionGone PROVE DriftInv'
  OBVIOUS
<1>. USE DEF DriftInv
<1>1. /\ live' = [id \in Doc |-> [ver |-> 0, model |-> "old"]] /\ newest' = [id \in Doc |-> 0]
      /\ inMap' = FALSE /\ swap' = [NoSwap EXCEPT !.stage = "done"] /\ mirrors' = [c \in Client |-> NoMirror]
      /\ UNCHANGED <<shadow, todo, missed, late, aborted, writes>>
  BY DEF CollectionGone
<1>2. swap'.stage = "done" /\ swap' \in [stage : {"none", "take", "compare", "write", "end", "done"},
                                       from : [Doc -> Nat], had : [Doc -> Nat]]
  BY <1>1 DEF NoSwap
<1>3. /\ live' \in [Doc -> [ver : Nat, model : {"old", "new"}]] /\ newest' \in [Doc -> Nat]
      /\ mirrors' \in [Client -> [id : Doc \cup {"none"}, ver : Nat]]
      /\ \A id \in Doc : live'[id].ver = 0 /\ live'[id].model = "old" /\ newest'[id] = 0
  BY <1>1 DEF NoMirror
<1>4. DriftTypes'
  BY <1>1, <1>2, <1>3 DEF DriftTypes
<1>. QED
  BY <1>1, <1>2, <1>3, <1>4 DEF Phases, Versions, OldUntilWritten, MirrorsCurrent, Migrating

LEMMA KeptByComplete == DriftInv /\ Complete => DriftInv'
<1>. SUFFICES ASSUME DriftInv, Complete PROVE DriftInv'
  OBVIOUS
<1>. USE DEF DriftInv
<1>1. /\ swap.stage \in {"write", "end"} /\ phase_' = "COMPLETE"
      /\ swap.stage = "write" => \A id \in Doc : ~Unchanged(id)
      /\ swap' = [NoSwap EXCEPT !.stage = "done"]
      /\ UNCHANGED <<live, shadow, inMap, todo, mirrors, newest, missed, late, aborted, writes>>
  BY DEF Complete
<1>2. swap'.stage = "done"
  BY <1>1 DEF NoSwap
<1>3. DriftTypes'
  BY <1>1 DEF DriftTypes, NoSwap
<1>4. (Phases /\ Versions /\ OldUntilWritten /\ MirrorsCurrent)'
  BY <1>1, <1>2 DEF Phases, Versions, OldUntilWritten, MirrorsCurrent
<1>5. Migrating'
  <2>1. \A id \in Doc : Excused(id) => Excused(id)'
    BY <1>1 DEF Excused, InMirror
  <2>2. inMap => swap.stage = "write"
    BY <1>1 DEF Phases
  <2>. QED
    BY <1>1, <1>2, <2>1, <2>2 DEF Migrating
<1>. QED
  BY <1>3, <1>4, <1>5

-----------------------------------------------------------------------------
\* And each step of a client.

LEMMA KeptByUpsertLive ==
    ASSUME DriftInv, NEW c \in Client, NEW id \in Doc, UpsertLive(c, id) PROVE DriftInv'
<1>. USE DEF DriftInv
<1>. DEFINE ver == writes + 2
<1>1. /\ mirrors[c] = NoMirror /\ writes' = writes + 1
      /\ live' = [live EXCEPT ![id] = [ver |-> ver, model |-> "old"]]
      /\ mirrors' = [mirrors EXCEPT ![c] = [id |-> id, ver |-> ver]]
      /\ newest' = [newest EXCEPT ![id] = ver]
      /\ missed' = IF BeingWritten(id) THEN missed \cup {id} ELSE missed
      /\ late' = late \cup {id}
      /\ UNCHANGED <<shadow, phase_, inMap, todo, swap, aborted>>
  BY DEF UpsertLive
<1>2. ver \in Nat /\ ver > 0 /\ writes' \in Nat
  BY <1>1 DEF DriftTypes
<1>3. DriftTypes'
  BY <1>1, <1>2 DEF DriftTypes
<1>4. /\ live'[id].ver = ver /\ newest'[id] = ver /\ live'[id].model = "old"
      /\ \A d \in Doc \ {id} : live'[d] = live[d] /\ newest'[d] = newest[d]
      /\ mirrors'[c] = [id |-> id, ver |-> ver]
      /\ \A b \in Client \ {c} : mirrors'[b] = mirrors[b]
  BY <1>1 DEF DriftTypes
<1>5. (Phases /\ Versions /\ OldUntilWritten)'
  BY <1>1, <1>4 DEF Phases, Versions, OldUntilWritten
<1>6. MirrorsCurrent'
  <2>. SUFFICES ASSUME swap.stage = "none", NEW b \in Client, mirrors'[b] # NoMirror
               PROVE  /\ mirrors'[b].id \in Doc
                      /\ mirrors'[b].id \in missed' \/ live'[mirrors'[b].id].ver = mirrors'[b].ver
    BY <1>1 DEF MirrorsCurrent
  <2>1. CASE b = c
    BY <1>4, <2>1
  <2>2. CASE b # c /\ mirrors[b].id # id
    BY <1>1, <1>4, <2>2 DEF MirrorsCurrent
  <2>3. CASE b # c /\ mirrors[b].id = id
    <3>1. BeingWritten(id)
      BY <2>3 DEF BeingWritten
    <3>. QED
      BY <1>1, <1>4, <2>3, <3>1
  <2>. QED
    BY <2>1, <2>2, <2>3
<1>7. Migrating'
  <2>1. InMirror(id)'
    <3>1. [id |-> id, ver |-> ver] # NoMirror
      BY <1>2 DEF NoMirror
    <3>. QED
      BY <1>4, <3>1 DEF InMirror
  <2>2. \A d \in Doc \ {id} : Excused(d) => Excused(d)'
    BY <1>1, <1>4 DEF Excused, InMirror
  <2>. QED
    BY <1>1, <1>4, <2>1, <2>2 DEF Migrating, Excused, ToBeCopied, Unchanged
<1>. QED
  BY <1>3, <1>5, <1>6, <1>7

LEMMA KeptByMirrorWrite == ASSUME DriftInv, NEW c \in Client, MirrorWrite(c) PROVE DriftInv'
<1>. USE DEF DriftInv
<1>. DEFINE m == mirrors[c]
<1>1. /\ m # NoMirror /\ mirrors' = [mirrors EXCEPT ![c] = NoMirror]
      /\ UNCHANGED <<live, phase_, inMap, todo, swap, newest, late, aborted, writes>>
      /\ \/ inMap /\ phase_ = "MIGRATING" /\ shadow' = [shadow EXCEPT ![m.id] = m.ver] /\ missed' = missed
         \/ missed' = missed \cup {m.id} /\ shadow' = shadow
  BY DEF MirrorWrite
<1>2. /\ mirrors'[c] = NoMirror /\ \A b \in Client \ {c} : mirrors'[b] = mirrors[b]
      /\ m.ver \in Nat
  BY <1>1 DEF DriftTypes
<1>3. DriftTypes'
  BY <1>1, <1>2 DEF DriftTypes, NoMirror
<1>4. missed \subseteq missed'
  BY <1>1
<1>5. (Phases /\ Versions /\ OldUntilWritten)'
  BY <1>1 DEF Phases, Versions, OldUntilWritten
<1>6. MirrorsCurrent'
  BY <1>1, <1>2, <1>4 DEF MirrorsCurrent
<1>7. \A d \in Doc : d # m.id /\ Excused(d) => Excused(d)'
  BY <1>1, <1>2, <1>4 DEF Excused, InMirror
<1>8. Migrating'
  <2>. SUFFICES ASSUME inMap PROVE Migrating'
    BY <1>1 DEF Migrating
  <2>1. CASE missed' = missed \cup {m.id} /\ shadow' = shadow
    <3>1. \A d \in Doc : Excused(d) => Excused(d)'
      BY <1>7, <2>1 DEF Excused
    <3>. QED
      BY <1>1, <2>1, <3>1 DEF Migrating, ToBeCopied, Unchanged
  <2>2. CASE phase_ = "MIGRATING" /\ shadow' = [shadow EXCEPT ![m.id] = m.ver] /\ missed' = missed
    <3>1. swap.stage = "none"
      BY <2>2 DEF Phases
    <3>2. PICK i \in Doc : i = m.id /\ (i \in missed \/ live[i].ver = m.ver)
      BY <1>1, <3>1 DEF MirrorsCurrent
    <3>3. shadow'[i] = m.ver /\ \A d \in Doc : d # i => shadow'[d] = shadow[d]
      BY <2>2, <3>2 DEF DriftTypes
    <3>4. Excused(i)' \/ shadow'[i] = live'[i].ver
      BY <1>1, <1>4, <3>2, <3>3 DEF Excused
    <3>5. \A d \in Doc : d # i =>
             Excused(d)' \/ shadow'[d] = live'[d].ver \/ ToBeCopied(d)'
      BY <1>1, <1>7, <3>1, <3>2, <3>3 DEF Migrating, ToBeCopied
    <3>. QED
      BY <1>1, <3>1, <3>4, <3>5 DEF Migrating
  <2>. QED
    BY <1>1, <2>1, <2>2
<1>. QED
  BY <1>3, <1>5, <1>6, <1>8

LEMMA KeptByRemoveLive == ASSUME DriftInv, NEW id \in Doc, RemoveLive(id) PROVE DriftInv'
<1>. USE DEF DriftInv
<1>1. /\ writes' = writes + 1
      /\ live' = [live EXCEPT ![id] = [ver |-> 0, model |-> "old"]]
      /\ newest' = [newest EXCEPT ![id] = 0]
      /\ missed' = IF BeingWritten(id) THEN missed \cup {id} ELSE missed
      /\ late' = late \cup {id}
      /\ UNCHANGED <<shadow, phase_, inMap, todo, swap, mirrors, aborted>>
  BY DEF RemoveLive
<1>2. DriftTypes'
  BY <1>1 DEF DriftTypes
<1>3. /\ live'[id].ver = 0 /\ newest'[id] = 0 /\ live'[id].model = "old"
      /\ \A d \in Doc \ {id} : live'[d] = live[d] /\ newest'[d] = newest[d]
  BY <1>1 DEF DriftTypes
<1>4. (Phases /\ Versions /\ OldUntilWritten)'
  BY <1>1, <1>3 DEF Phases, Versions, OldUntilWritten
<1>5. MirrorsCurrent'
  BY <1>1, <1>3 DEF MirrorsCurrent, BeingWritten
<1>6. Migrating'
  <2>1. \A d \in Doc \ {id} : Excused(d) => Excused(d)'
    BY <1>1, <1>3 DEF Excused, InMirror
  <2>. QED
    BY <1>1, <1>3, <2>1 DEF Migrating, Excused, ToBeCopied, Unchanged
<1>. QED
  BY <1>2, <1>4, <1>5, <1>6

LEMMA KeptByAbort == DriftInv /\ Abort => DriftInv'
<1>. SUFFICES ASSUME DriftInv, Abort PROVE DriftInv'
  OBVIOUS
<1>. USE DEF DriftInv
<1>1. /\ ~inMap' /\ inMap' \in BOOLEAN /\ aborted' \in BOOLEAN
      /\ aborted' => swap.stage \in {"none", "take"}
      /\ UNCHANGED <<live, shadow, todo, swap, mirrors, newest, missed, late, writes>>
  <2>1. aborted' = (swap.stage \in {"none", "take"})
    BY DEF Abort
  <2>2. aborted' \in BOOLEAN /\ (aborted' => swap.stage \in {"none", "take"})
    <3>1. CASE swap.stage \in {"none", "take"}
      <4>1. aborted' = TRUE
        BY <2>1, <3>1, Zenon
      <4>. QED
        BY <3>1, <4>1
    <3>2. CASE swap.stage \notin {"none", "take"}
      <4>1. (swap.stage \in {"none", "take"}) = FALSE
        BY <3>2
      <4>2. aborted' = FALSE
        BY <2>1, <4>1, Zenon
      <4>. QED
        BY <4>2
    <3>. QED
      BY <3>1, <3>2
  <2>3. ~inMap' /\ inMap' \in BOOLEAN
    BY DEF Abort
  <2>4. UNCHANGED <<live, shadow, todo, swap, mirrors, newest, missed, late, writes>>
    BY DEF Abort
  <2>. QED
    BY <2>2, <2>3, <2>4, Zenon
<1>2. DriftTypes'
  BY <1>1 DEF DriftTypes
<1>3. (Phases /\ Versions /\ MirrorsCurrent /\ Migrating)'
  BY <1>1 DEF Phases, Versions, MirrorsCurrent, Migrating
<1>4. OldUntilWritten'
  BY <1>1 DEF OldUntilWritten
<1>. QED
  BY <1>2, <1>3, <1>4

LEMMA DriftInductive == DriftInv /\ [DriftNext]_driftVars => DriftInv'
<1>. SUFFICES ASSUME DriftInv, [DriftNext]_driftVars PROVE DriftInv'
  OBVIOUS
<1>1. CASE UNCHANGED driftVars
  BY <1>1 DEF driftVars, DriftInv, DriftTypes, Phases, Versions, OldUntilWritten, MirrorsCurrent,
     Migrating, Excused, InMirror, ToBeCopied, Unchanged
<1>. QED
  BY <1>1, KeptByMigrateNext, KeptBySkipNext, KeptByStartSwapping, KeptByTakeShadow,
     KeptByCompareWithLive, KeptByWriteBack, KeptByWriteBackFails, KeptByCollectionGone,
     KeptByComplete, KeptByUpsertLive, KeptByMirrorWrite, KeptByRemoveLive, KeptByAbort DEF DriftNext

\* What the invariant says is what the migration promises.
LEMMA DriftInvSound == DriftInv => MigrationSound
<1>. SUFFICES ASSUME DriftInv PROVE MigrationSound
  OBVIOUS
<1>. USE DEF DriftInv
<1>1. NoRollback
  <2>. SUFFICES ASSUME NEW id \in Doc PROVE live[id].ver = newest[id] \/ id \in late
    BY DEF NoRollback
  <2>1. swap.stage \in {"none", "take", "compare", "write", "end", "done"}
    BY DEF DriftTypes
  <2>. QED
    BY <2>1 DEF Versions
<1>2. AllMigrated
  <2>1. \A id \in Doc : InMirror(id) => BeingWritten(id)
    BY DEF InMirror, BeingWritten
  <2>2. \A id \in Doc : live[id].ver \in Nat
    BY DEF DriftTypes
  <2>. QED
    BY <2>1, <2>2 DEF AllMigrated, Phases, Migrating, Excused
<1>3. AbortKeepsOld
  BY DEF AbortKeepsOld, OldUntilWritten
<1>. QED
  BY <1>1, <1>2, <1>3 DEF MigrationSound

\* However the migration thread, the clients' writes and removals, their mirroring and an abort
\* interleave, and whatever write-back fails: no version is rolled back and nothing removed comes
\* back, except between comparison and write-back; a completed migration leaves no old embedding
\* behind but where the copying, the embedding, the mirroring or the write-back of it missed; an
\* abort in time keeps them all (drift_bridge.hpp, _drift_apply_shadow).
THEOREM MigrationIsSound == DriftSpec => []MigrationSound
<1>1. DriftSpec => []DriftInv
  BY DriftInitially, DriftInductive, PTL DEF DriftSpec
<1>. QED
  BY <1>1, DriftInvSound, PTL
-----------------------------------------------------------------------------
\* The router of several groups.

-----------------------------------------------------------------------------
\* The ranges of the groups.

Tiled == \E n \in 1..MaxGroups : placement \in [1..n -> Ranges] /\ validate(placement)

LEMMA SequenceLength ==
    ASSUME NEW n \in Nat, NEW S, NEW p \in [1..n -> S]
    PROVE  p \in Seq(S) /\ Len(p) = n /\ DOMAIN p = 1..n
  OBVIOUS

LEMMA NextHashIs ==
    ASSUME NEW r \in Ranges
    PROVE  NextHash(r) = IF r.hi = HashMax THEN 0 ELSE r.hi + 1
<1>1. r.hi \in Nat /\ r.hi <= HashMax /\ HashMax \in Nat
  BY RouterAssumption DEF Ranges
<1>2. CASE r.hi = HashMax
  <2>1. (HashMax + 1) % (HashMax + 1) = 0
    BY <1>1
  <2>. QED
    BY <1>2, <2>1 DEF NextHash
<1>3. CASE r.hi < HashMax
  <2>1. r.hi + 1 < HashMax + 1 /\ r.hi + 1 \in Nat /\ HashMax + 1 \in Nat
    BY <1>1, <1>3
  <2>2. (r.hi + 1) % (HashMax + 1) = r.hi + 1
    BY <2>1
  <2>. QED
    BY <1>1, <1>3, <2>2 DEF NextHash
<1>. QED
  BY <1>1, <1>2, <1>3

\* The bounds of equal splits are multiples of their size.
LEMMA Multiples ==
    ASSUME NEW n \in Nat, NEW q \in Nat, q >= 1, NEW k \in 1..n
    PROVE  \E a, b, c \in Nat : /\ a = (k - 1) * q /\ b = k * q /\ c = n * q
                              /\ b = a + q /\ b <= c /\ (k # n => b < c) /\ (k = 1 => a = 0)
<1>1. k \in Nat /\ k - 1 \in Nat /\ k <= n
  OBVIOUS
<1>2. PICK a \in Nat : a = (k - 1) * q
  BY <1>1
<1>3. PICK b \in Nat : b = k * q
  BY <1>1
<1>4. PICK c \in Nat : c = n * q
  OBVIOUS
<1>5. b = a + q
  <2>1. k * q = (k - 1) * q + q
    BY <1>1
  <2>. QED
    BY <1>2, <1>3, <2>1
<1>6. b <= c
  <2>1. k * q <= n * q
    BY <1>1
  <2>. QED
    BY <1>3, <1>4, <2>1
<1>7. ASSUME k # n
      PROVE  b < c
  <2>1. k + 1 <= n /\ k + 1 \in Nat
    BY <1>1, <1>7
  <2>2. (k + 1) * q <= n * q
    BY <2>1
  <2>3. (k + 1) * q = k * q + q
    BY <1>1
  <2>4. b + q <= c
    BY <1>3, <1>4, <2>2, <2>3
  <2>. QED
    BY <2>4
<1>8. k = 1 => a = 0
  BY <1>2
<1>. QED
  BY <1>2, <1>3, <1>4, <1>5, <1>6, <1>7, <1>8

\* Equal splits are valid: they start at 0, end at the last hash, and leave nothing out.
LEMMA UniformTiles ==
    ASSUME NEW n \in 1..MaxGroups
    PROVE  uniform(n) \in [1..n -> Ranges] /\ validate(uniform(n))
<1>0. /\ MaxGroups \in Nat /\ HashMax \in Nat /\ n \in Nat /\ n >= 1 /\ HashMax >= n
  BY RouterAssumption
<1>1. PICK q \in Nat : q = HashMax \div n /\ q >= 1 /\ n * q <= HashMax
  BY <1>0
<1>2. ASSUME NEW k \in 1..n
      PROVE  /\ uniform(n)[k].lo = IF k = 1 THEN 0 ELSE (k - 1) * q + 1
             /\ uniform(n)[k].hi = IF k = n THEN HashMax ELSE k * q
  <2>1. uniform(n)[k] = RangeOf(k - 1, n)
    BY DEF uniform
  <2>2. (k - 1) + 1 = k /\ (k - 1 = 0 <=> k = 1)
    BY <1>0
  <2>. QED
    BY <1>1, <2>1, <2>2 DEF RangeOf
<1>4. ASSUME NEW k \in 1..n
      PROVE  uniform(n)[k] \in Ranges /\ uniform(n)[k].hi >= uniform(n)[k].lo
  <2>1. uniform(n)[k] = [lo |-> uniform(n)[k].lo, hi |-> uniform(n)[k].hi]
    BY DEF uniform, RangeOf
  <2>2. PICK a, b, c \in Nat : /\ a = (k - 1) * q /\ b = k * q /\ c = n * q
                              /\ b = a + q /\ b <= c /\ (k # n => b < c) /\ (k = 1 => a = 0)
    BY <1>0, <1>1, Multiples
  <2>3. c <= HashMax
    BY <1>1, <2>2
  <2>4. /\ uniform(n)[k].lo = IF k = 1 THEN 0 ELSE a + 1
        /\ uniform(n)[k].hi = IF k = n THEN HashMax ELSE b
    BY <1>2, <2>2
  <2>5. uniform(n)[k].lo \in 0..HashMax /\ uniform(n)[k].hi \in 0..HashMax
    BY <1>0, <1>1, <2>2, <2>3, <2>4
  <2>6. uniform(n)[k].hi >= uniform(n)[k].lo
    BY <1>0, <1>1, <2>2, <2>3, <2>4
  <2>. QED
    BY <2>1, <2>5, <2>6 DEF Ranges
<1>5. uniform(n) \in [1..n -> Ranges]
  <2>1. uniform(n) = [k \in 1..n |-> uniform(n)[k]]
    BY DEF uniform
  <2>. QED
    BY <1>4, <2>1
<1>6. ASSUME NEW k \in 1..n, k # 1
      PROVE  uniform(n)[k].lo = NextHash(uniform(n)[k - 1])
  <2>1. k - 1 \in 1..n /\ k - 1 # n
    BY <1>0, <1>6
  <2>2. PICK i \in 1..n : i = k - 1 /\ i # n
    BY <2>1
  <2>3. PICK b, c \in Nat : b = i * q /\ c = n * q /\ b < c
    BY <1>0, <1>1, <2>2, Multiples
  <2>4. uniform(n)[i].hi = b /\ c <= HashMax
    BY <1>1, <1>2, <2>2, <2>3
  <2>5. uniform(n)[k].lo = b + 1
    BY <1>2, <1>6, <2>2, <2>3
  <2>. QED
    BY <1>0, <1>4, <2>2, <2>3, <2>4, <2>5, NextHashIs
<1>7. DOMAIN uniform(n) = 1..n /\ Len(uniform(n)) = n
  BY <1>0, <1>5, SequenceLength
<1>8. uniform(n)[n].hi = HashMax /\ uniform(n)[1].lo = 0
  BY <1>0, <1>2
<1>. QED
  BY <1>4, <1>5, <1>6, <1>7, <1>8 DEF validate

LEMMA TiledInit == RouterInit => Tiled
<1>. SUFFICES ASSUME RouterInit
              PROVE  Tiled
  OBVIOUS
<1>1. PICK n \in 1..MaxGroups :
          placement \in {uniform(n)} \cup {p \in [1..n -> Ranges] : validate(p)}
  BY DEF RouterInit, Placements
<1>. QED
  BY <1>1, UniformTiles DEF Tiled

\* What a valid placement is, group by group.
LEMMA TileFacts ==
    ASSUME Tiled
    PROVE  \E n \in Nat \ {0} :
              /\ DOMAIN placement = 1..n /\ Len(placement) = n /\ Group = 1..n
              /\ \A k \in 1..n : /\ placement[k].lo \in 0..HashMax /\ placement[k].hi \in 0..HashMax
                                 /\ placement[k].lo <= placement[k].hi
              /\ placement[1].lo = 0 /\ placement[n].hi = HashMax
              /\ \A k \in 2..n : placement[k].lo =
                    IF placement[k - 1].hi = HashMax THEN 0 ELSE placement[k - 1].hi + 1
<1>1. PICK n \in 1..MaxGroups : placement \in [1..n -> Ranges] /\ validate(placement)
  BY DEF Tiled
<1>2. n \in Nat \ {0} /\ HashMax \in Nat
  BY RouterAssumption
<1>3. DOMAIN placement = 1..n /\ Len(placement) = n
  BY <1>1, <1>2, SequenceLength
<1>4. ASSUME NEW k \in 1..n
      PROVE  /\ placement[k].lo \in 0..HashMax /\ placement[k].hi \in 0..HashMax
             /\ placement[k].lo <= placement[k].hi
  BY <1>1, <1>2, <1>3 DEF Ranges, validate
<1>5. placement[1].lo = 0 /\ placement[n].hi = HashMax
  BY <1>1, <1>2, <1>3 DEF validate
<1>6. ASSUME NEW k \in 2..n
      PROVE  placement[k].lo = IF placement[k - 1].hi = HashMax THEN 0 ELSE placement[k - 1].hi + 1
  <2>1. k \in 1..n /\ k # 1 /\ k - 1 \in 1..n
    BY <1>2
  <2>2. placement[k].lo = NextHash(placement[k - 1])
    BY <1>1, <1>3, <2>1 DEF validate
  <2>3. placement[k - 1] \in Ranges
    BY <1>1, <2>1
  <2>. QED
    BY <2>2, <2>3, NextHashIs
<1>. QED
  BY <1>2, <1>3, <1>4, <1>5, <1>6 DEF Group

\* The owner of a hash is the first group whose range has it.
LEMMA OwnerIs ==
    ASSUME Tiled, NEW h \in 0..HashMax
    PROVE  /\ owner(h) \in Group
           /\ placement[owner(h)].lo <= h /\ h <= placement[owner(h)].hi
           /\ \A j \in Group : j < owner(h) => placement[j].hi < h
<1>0. HashMax \in Nat
  BY RouterAssumption
<1>1. PICK n \in Nat \ {0} :
              /\ DOMAIN placement = 1..n /\ Group = 1..n
              /\ \A k \in 1..n : /\ placement[k].lo \in 0..HashMax /\ placement[k].hi \in 0..HashMax
                                 /\ placement[k].lo <= placement[k].hi
              /\ placement[1].lo = 0 /\ placement[n].hi = HashMax
              /\ \A k \in 2..n : placement[k].lo =
                    IF placement[k - 1].hi = HashMax THEN 0 ELSE placement[k - 1].hi + 1
  BY TileFacts
<1>2. PICK k \in 1..n : placement[k].hi >= h /\ \A j \in 1..(k - 1) : placement[j].hi < h
  <2>. DEFINE T == {k \in 1..n : placement[k].hi >= h}
  <2>1. T \in SUBSET Nat /\ n \in T
    BY <1>0, <1>1
  <2>2. PICK k \in T : \A j \in T : k <= j
    <3>. HIDE DEF T
    <3>. QED
      BY <2>1, LeastNumber
  <2>3. ASSUME NEW j \in 1..(k - 1)
        PROVE  placement[j].hi < h
    <3>1. j \in 1..n /\ j < k
      BY <2>2
    <3>2. j \notin T
      BY <2>2, <3>1
    <3>. QED
      BY <1>0, <1>1, <3>1, <3>2
  <2>. QED
    BY <2>2, <2>3
<1>3. owner(h) \in 1..n /\ placement[owner(h)].hi >= h /\ \A j \in 1..(owner(h) - 1) : placement[j].hi < h
  <2>. DEFINE P(y) == placement[y].hi >= h /\ \A j \in 1..(y - 1) : placement[j].hi < h
  <2>1. owner(h) = CHOOSE x \in 1..n : P(x)
    BY <1>1 DEF owner
  <2>2. \E x \in 1..n : P(x)
    BY <1>2
  <2>. QED
    BY <2>1, <2>2
<1>4. PICK o \in 1..n : o = owner(h)
  BY <1>3
<1>5. placement[o].hi >= h /\ \A j \in 1..(o - 1) : placement[j].hi < h
  BY <1>3, <1>4
<1>6. placement[o].lo <= h
  <2>1. CASE o = 1
    BY <1>0, <1>1, <2>1
  <2>2. CASE o # 1
    <3>1. o \in 2..n /\ o - 1 \in 1..(o - 1) /\ o - 1 \in 1..n
      BY <1>1, <2>2
    <3>2. placement[o - 1].hi < h /\ placement[o - 1].hi \in Nat
      BY <1>0, <1>1, <1>5, <3>1
    <3>3. placement[o].lo = placement[o - 1].hi + 1
      BY <1>0, <1>1, <3>1, <3>2
    <3>. QED
      BY <3>2, <3>3
  <2>. QED
    BY <2>1, <2>2
<1>7. \A j \in Group : j < o => placement[j].hi < h
  BY <1>1, <1>5
<1>. QED
  BY <1>1, <1>4, <1>5, <1>6, <1>7

LEMMA HomeIsOwner ==
    ASSUME Tiled, NEW g \in Group, NEW id \in Vec
    PROVE  IsHome(g, id) <=> g = owner(HashOf[id])
<1>1. HashOf[id] \in 0..HashMax /\ HashMax \in Nat
  BY RouterAssumption
<1>2. PICK h \in 0..HashMax : h = HashOf[id]
  BY <1>1
<1>3. PICK o \in Group : /\ o = owner(h) /\ placement[o].lo <= h /\ h <= placement[o].hi
                         /\ \A j \in Group : j < o => placement[j].hi < h
  BY OwnerIs
<1>4. PICK n \in Nat \ {0} : /\ Group = 1..n
                             /\ \A k \in 1..n : placement[k].lo \in 0..HashMax /\ placement[k].hi \in 0..HashMax
  BY TileFacts
<1>5. ASSUME IsHome(g, id)
      PROVE  g = o
  <2>1. h <= placement[g].hi /\ \A j \in 1..(g - 1) : ~(placement[j].lo <= h /\ h <= placement[j].hi)
    BY <1>2, <1>5 DEF IsHome, InRange
  <2>2. ~(g < o)
    BY <1>1, <1>3, <1>4, <2>1
  <2>3. ~(o < g)
    BY <1>3, <1>4, <2>1
  <2>. QED
    BY <1>4, <2>2, <2>3
<1>6. IsHome(o, id)
  <2>1. ASSUME NEW j \in 1..(o - 1)
        PROVE  ~InRange(j, id)
    <3>1. j \in Group /\ j < o
      BY <1>4
    <3>. QED
      BY <1>1, <1>2, <1>3, <1>4, <3>1 DEF InRange
  <2>. QED
    BY <1>2, <1>3, <2>1 DEF IsHome, InRange
<1>. QED
  BY <1>2, <1>3, <1>5, <1>6

LEMMA TiledOnce ==
    ASSUME Tiled
    PROVE  OneOwner
<1>. SUFFICES ASSUME ~Wraps, NEW h \in 0..HashMax
              PROVE  {k \in Group : placement[k].lo <= h /\ h <= placement[k].hi} = {owner(h)}
  BY DEF OneOwner
<1>0. HashMax \in Nat
  BY RouterAssumption
<1>1. PICK n \in Nat \ {0} :
              /\ Group = 1..n /\ Len(placement) = n
              /\ \A k \in 1..n : /\ placement[k].lo \in 0..HashMax /\ placement[k].hi \in 0..HashMax
                                 /\ placement[k].lo <= placement[k].hi
              /\ \A k \in 2..n : placement[k].lo =
                    IF placement[k - 1].hi = HashMax THEN 0 ELSE placement[k - 1].hi + 1
  BY TileFacts
<1>2. PICK o \in 1..n : /\ o = owner(h) /\ placement[o].lo <= h /\ h <= placement[o].hi
                        /\ \A j \in Group : j < o => placement[j].hi < h
  BY <1>1, OwnerIs
<1>3. ASSUME NEW k \in 2..n
      PROVE  placement[k].lo = placement[k - 1].hi + 1 /\ placement[k - 1].hi < placement[k].hi
             /\ k - 1 \in 1..n /\ placement[k - 1].hi \in Nat /\ placement[k].hi \in Nat
  <2>1. k - 1 \in 1..(n - 1) /\ k - 1 \in 1..n /\ k \in 1..n
    BY <1>1
  <2>2. placement[k - 1].hi # HashMax
    BY <1>1, <2>1 DEF Wraps
  <2>. QED
    BY <1>0, <1>1, <2>1, <2>2
<1>4. ASSUME NEW k \in 1..n, k > o
      PROVE  placement[k].lo > h
  <2>1. \A j \in o..n : placement[j].hi >= placement[o].hi
    <3>. DEFINE T == {j \in o..n : ~(placement[j].hi >= placement[o].hi)}
    <3>1. SUFFICES ASSUME NEW j \in T
                   PROVE  FALSE
      OBVIOUS
    <3>2. T \in SUBSET Nat
      BY <1>1
    <3>3. PICK m \in T : \A i \in T : m <= i
      <4>. HIDE DEF T
      <4>. QED
        BY <3>1, <3>2, LeastNumber
    <3>4. m # o /\ m \in o..n
      BY <1>0, <1>1, <3>3
    <3>5. m - 1 \in o..n /\ m \in 2..n /\ m - 1 < m
      BY <1>1, <3>4
    <3>6. placement[m - 1].hi >= placement[o].hi
      BY <3>3, <3>5
    <3>7. placement[m].hi >= placement[o].hi
      <4>1. placement[o].hi \in Nat
        BY <1>0, <1>1
      <4>. QED
        BY <1>3, <3>5, <3>6, <4>1
    <3>. QED
      BY <3>3, <3>7
  <2>2. k \in 2..n /\ k - 1 \in o..n
    BY <1>1, <1>4
  <2>3. placement[k - 1].hi >= placement[o].hi /\ placement[o].hi >= h /\ placement[o].hi \in Nat
    BY <1>0, <1>1, <1>2, <2>1, <2>2
  <2>. QED
    BY <1>3, <2>2, <2>3
<1>5. ASSUME NEW g \in Group, placement[g].lo <= h, h <= placement[g].hi
      PROVE  g = o
  <2>1. g \in 1..n /\ placement[g].lo \in Nat /\ placement[g].hi \in Nat
    BY <1>0, <1>1
  <2>2. ~(g < o)
    BY <1>0, <1>2, <1>5, <2>1
  <2>3. ~(g > o)
    BY <1>0, <1>4, <1>5, <2>1
  <2>. QED
    BY <1>1, <2>1, <2>2, <2>3
<1>. QED
  BY <1>1, <1>2, <1>5

-----------------------------------------------------------------------------
\* The inductive invariant.

RouterOp ==
    {o \in [kind : {"create", "drop", "delete_by_filter", "upsert", "delete"}, num : Nat, ids : SUBSET Vec] :
        o.kind = "drop" => o.ids = Vec}

SubResult == {"calling", "ok", "exists", "missing", "failed"}

CallTyped(k) ==
    /\ k = [kind |-> "call", op |-> k.op, sub |-> k.sub]
    /\ k.op \in RouterOp
    /\ k.sub \in [Addressed(k.op) -> SubResult]

RouterTypeOK ==
    /\ exists \in SUBSET Group
    /\ vecs \in [Group -> [Vec -> Nat]]
    /\ DOMAIN calls_ = Caller /\ \A c \in Caller : calls_[c] # NoCall_ => CallTyped(calls_[c])
    /\ calls_ = [c \in Caller |-> calls_[c]]
    /\ \A e \in inFlight : e = <<e[1], e[2]>> /\ e[2] \in RouterOp /\ e[1] \in Addressed(e[2])
    /\ lastWrite \in [Vec -> [op : RouterOp \cup {NoOp_}, confirmed : BOOLEAN]]
    /\ lastDdl = [op |-> lastDdl.op, answer |-> lastDdl.answer] /\ lastDdl.op \in RouterOp \cup {NoOp_}
    /\ ops \in Nat

\* The request is on its way, or an attempt of it may still be executed.
InUse(o) ==
    \/ \E c \in Caller : calls_[c] # NoCall_ /\ calls_[c].op = o
    \/ \E e \in inFlight : e[2] = o

\* Requests are told apart by their numbers.
Numbered ==
    /\ \A o \in RouterOp : InUse(o) => o.num > 0 /\ o.num <= ops
    /\ \A c, d \in Caller :
          calls_[c] # NoCall_ /\ calls_[d] # NoCall_ /\ calls_[c].op.num = calls_[d].op.num => c = d
    /\ \A id \in Vec : /\ lastWrite[id].op.num <= ops
                       /\ \A o \in RouterOp : InUse(o) /\ o.num = lastWrite[id].op.num => o = lastWrite[id].op
    /\ lastDdl.op.num <= ops
    /\ \A o \in RouterOp : InUse(o) /\ o.num = lastDdl.op.num => o = lastDdl.op

\* A vector is where its hash belongs, and nowhere if there is no collection.
Placed ==
    \A g \in Group, id \in Vec :
        /\ vecs[g][id] # 0 => g = owner(HashOf[id])
        /\ g \notin exists => vecs[g][id] = 0

\* Nothing else is under way that touches what an undisturbed request touches.
Undisturbed ==
    /\ \A id \in Vec :
          /\ lastWrite[id].op = NoOp_ \/ id \in Touches(lastWrite[id].op)
          /\ lastWrite[id].op.num \notin mixed =>
                \A o \in RouterOp : InUse(o) /\ id \in Touches(o) => o = lastWrite[id].op
    /\ lastDdl.op.num \notin mixed => \A o \in RouterOp : InUse(o) /\ IsDdl(o) => o = lastDdl.op

\* What a group has of a vector after the request.
After(o, g, id) == IF o.kind = "upsert" /\ g = owner(HashOf[id]) THEN o.num ELSE 0

Executed(o, r) == r = "ok" \/ (o.kind = "drop" /\ r = "missing")

WriteHolds ==
    \A id \in Vec : lastWrite[id].op.num \notin mixed =>
        /\ lastWrite[id].confirmed => \A g \in Group : vecs[g][id] = After(lastWrite[id].op, g, id)
        /\ \A c \in Caller : calls_[c] # NoCall_ /\ calls_[c].op = lastWrite[id].op =>
              \A g \in Addressed(calls_[c].op) :
                  Executed(calls_[c].op, calls_[c].sub[g]) => vecs[g][id] = After(calls_[c].op, g, id)

DdlHolds ==
    lastDdl.op.num \notin mixed =>
        /\ lastDdl.op.kind = "create" /\ lastDdl.answer \in {"ok", "conflict"} => exists = Group
        /\ lastDdl.op.kind = "drop" /\ lastDdl.answer \in {"ok", "not found"} => exists = {}
        /\ \A c \in Caller : calls_[c] # NoCall_ /\ calls_[c].op = lastDdl.op =>
              \A g \in Addressed(calls_[c].op) :
                  /\ lastDdl.op.kind = "create" /\ calls_[c].sub[g] \in {"ok", "exists"} => g \in exists
                  /\ lastDdl.op.kind = "drop" /\ calls_[c].sub[g] \in {"ok", "missing"} => g \notin exists

RouterInv ==
    Tiled /\ RouterTypeOK /\ Numbered /\ Placed /\ Undisturbed /\ WriteHolds /\ DdlHolds

LEMMA UnderWayIs ==
    ASSUME NEW o
    PROVE  o \in UnderWay <=> InUse(o)
  BY DEF UnderWay, InUse

\* The addressed groups exist.
LEMMA AddressedGroups ==
    ASSUME Tiled, NEW o \in RouterOp
    PROVE  /\ Addressed(o) \in SUBSET Group
           /\ o.kind \in {"upsert", "delete"} => Addressed(o) = {owner(HashOf[id]) : id \in o.ids}
           /\ o.kind \notin {"upsert", "delete"} => Addressed(o) = Group
<1>1. \A id \in Vec : owner(HashOf[id]) \in Group
  BY OwnerIs, RouterAssumption
<1>. QED
  BY <1>1 DEF Addressed, RouterOp

-----------------------------------------------------------------------------
\* What a group makes of a request.

LEMMA ExecuteVecs ==
    ASSUME Tiled, RouterTypeOK, NEW o \in RouterOp, NEW x \in Addressed(o), Execute(o, x)
    PROVE  /\ exists' \in SUBSET Group
           /\ vecs' \in [Group -> [Vec -> Nat]]
           /\ \A g \in Group, id \in Vec :
                 vecs'[g][id] =
                     IF g # x \/ x \notin exists \/ id \notin Touches(o) \/ id \notin Part(o, x) THEN vecs[g][id]
                     ELSE IF o.kind = "upsert" THEN o.num ELSE 0
<1>0. x \in Group
  BY AddressedGroups
<1>1. exists' \in SUBSET Group
  BY <1>0 DEF Execute, RouterTypeOK
<1>. DEFINE row == [id \in Vec |->
                       IF x \notin exists \/ id \notin Part(o, x) \/ o.kind = "create" THEN vecs[x][id]
                       ELSE IF o.kind = "upsert" THEN o.num ELSE 0]
<1>2. vecs' = [vecs EXCEPT ![x] = row]
  BY DEF Execute
<1>3. row \in [Vec -> Nat]
  BY <1>0 DEF RouterTypeOK, RouterOp
<1>4. vecs' \in [Group -> [Vec -> Nat]]
  <2>. HIDE DEF row
  <2>. QED
    BY <1>0, <1>2, <1>3 DEF RouterTypeOK
<1>5. ASSUME NEW g \in Group, NEW id \in Vec
      PROVE  vecs'[g][id] = IF g = x THEN row[id] ELSE vecs[g][id]
  <2>. HIDE DEF row
  <2>. QED
    BY <1>0, <1>2 DEF RouterTypeOK
<1>6. ASSUME NEW id \in Vec
      PROVE  row[id] = IF x \notin exists \/ id \notin Touches(o) \/ id \notin Part(o, x) THEN vecs[x][id]
                       ELSE IF o.kind = "upsert" THEN o.num ELSE 0
  <2>1. CASE o.kind = "create"
    BY <2>1 DEF Touches
  <2>2. CASE o.kind # "create"
    <3>1. id \in Part(o, x) => id \in Touches(o)
      BY <2>2 DEF Part, Touches
    <3>. QED
      BY <2>2, <3>1
  <2>. QED
    BY <2>1, <2>2
<1>. QED
  BY <1>1, <1>4, <1>5, <1>6

LEMMA ExecuteExists ==
    ASSUME Tiled, RouterTypeOK, NEW o \in RouterOp, NEW x \in Addressed(o), Execute(o, x)
    PROVE  exists' = CASE o.kind = "create" -> exists \cup {x}
                       [] o.kind = "drop"   -> exists \ {x}
                       [] OTHER              -> exists
  BY DEF Execute

\* Only the group for the vector gets it.
LEMMA ExecutePlaced ==
    ASSUME Tiled, RouterTypeOK, Placed, UNCHANGED placement,
           NEW o \in RouterOp, NEW x \in Addressed(o), Execute(o, x)
    PROVE  Placed'
<1>1. ASSUME NEW g \in Group, NEW id \in Vec
      PROVE  /\ vecs'[g][id] # 0 => g = owner(HashOf[id])
             /\ g \notin exists' => vecs'[g][id] = 0
  <2>1. vecs'[g][id] =
            IF g # x \/ x \notin exists \/ id \notin Touches(o) \/ id \notin Part(o, x) THEN vecs[g][id]
            ELSE IF o.kind = "upsert" THEN o.num ELSE 0
    BY ExecuteVecs
  <2>2. o.kind = "upsert" /\ id \in Part(o, x) => x = owner(HashOf[id])
    BY DEF Part
  <2>3. vecs'[g][id] # 0 => g = owner(HashOf[id])
    BY <2>1, <2>2 DEF Placed
  <2>4. CASE o.kind = "drop"
    <3>1. id \in Touches(o) /\ id \in Part(o, x)
      BY <2>4 DEF Touches, Part, RouterOp
    <3>2. exists' = exists \ {x}
      BY <2>4, ExecuteExists
    <3>. QED
      BY <2>1, <2>3, <2>4, <3>1, <3>2 DEF Placed
  <2>5. CASE o.kind # "drop"
    <3>1. g \notin exists' => g \notin exists
      BY <2>5, ExecuteExists
    <3>. QED
      BY <2>1, <2>3, <3>1 DEF Placed
  <2>. QED
    BY <2>4, <2>5
<1>. QED
  BY <1>1 DEF Placed, Group, owner

\* Executing a request again leaves a vector as the request leaves it.
LEMMA ExecuteAgain ==
    ASSUME Tiled, RouterTypeOK, NEW o \in RouterOp, NEW x \in Addressed(o), Execute(o, x),
           NEW g \in Group, NEW id \in Vec, vecs[g][id] = After(o, g, id)
    PROVE  vecs'[g][id] = After(o, g, id)
<1>1. vecs'[g][id] =
          IF g # x \/ x \notin exists \/ id \notin Touches(o) \/ id \notin Part(o, x) THEN vecs[g][id]
          ELSE IF o.kind = "upsert" THEN o.num ELSE 0
  BY ExecuteVecs
<1>2. o.kind = "upsert" /\ id \in Part(o, x) => x = owner(HashOf[id])
  BY DEF Part
<1>. QED
  BY <1>1, <1>2 DEF After

\* A group that answers that it executed a request has what the request leaves.
LEMMA ExecuteNow ==
    ASSUME Tiled, RouterTypeOK, Placed, NEW o \in RouterOp, NEW x \in Addressed(o), Execute(o, x),
           NEW id \in Touches(o), id \in Vec, Executed(o, Verdict(o, x))
    PROVE  vecs'[x][id] = After(o, x, id)
<1>0. x \in Group /\ o.kind # "create"
  BY AddressedGroups DEF Touches
<1>1. vecs'[x][id] =
          IF x \notin exists \/ id \notin Part(o, x) THEN vecs[x][id]
          ELSE IF o.kind = "upsert" THEN o.num ELSE 0
  BY <1>0, ExecuteVecs
<1>2. x \in exists \/ (o.kind = "drop" /\ x \notin exists)
  BY <1>0 DEF Executed, Verdict
<1>3. CASE x \notin exists
  BY <1>0, <1>1, <1>2, <1>3 DEF After, Placed
<1>4. CASE x \in exists /\ id \in Part(o, x)
  BY <1>1, <1>4 DEF After, Part
<1>5. CASE x \in exists /\ id \notin Part(o, x)
  <2>1. o.kind \in {"upsert", "delete"} /\ x # owner(HashOf[id])
    BY <1>0, <1>5 DEF Part, Touches
  <2>2. vecs[x][id] = 0
    BY <1>0, <2>1 DEF Placed
  <2>. QED
    BY <1>1, <1>5, <2>1, <2>2 DEF After
<1>. QED
  BY <1>2, <1>3, <1>4, <1>5

\* What the last undisturbed write of a vector left stays, whatever is executed.
LEMMA ExecuteKeepsWrite ==
    ASSUME RouterInv, NEW o \in RouterOp, InUse(o), NEW x \in Addressed(o), Execute(o, x),
           NEW id \in Vec, lastWrite[id].op.num \notin mixed,
           NEW g \in Group, vecs[g][id] = After(lastWrite[id].op, g, id)
    PROVE  vecs'[g][id] = After(lastWrite[id].op, g, id)
<1>. USE DEF RouterInv
<1>1. CASE id \in Touches(o)
  <2>1. o = lastWrite[id].op
    BY <1>1 DEF Undisturbed
  <2>. QED
    BY <2>1, ExecuteAgain
<1>2. CASE id \notin Touches(o)
  BY <1>2, ExecuteVecs
<1>. QED
  BY <1>1, <1>2

\* And so does what the last undisturbed create or drop left.
LEMMA ExecuteKeepsDdl ==
    ASSUME RouterInv, NEW o \in RouterOp, InUse(o), NEW x \in Addressed(o), Execute(o, x),
           lastDdl.op.num \notin mixed, NEW g \in Group
    PROVE  /\ lastDdl.op.kind = "create" /\ g \in exists => g \in exists'
           /\ lastDdl.op.kind = "drop" /\ g \notin exists => g \notin exists'
<1>. USE DEF RouterInv
<1>1. CASE IsDdl(o)
  <2>1. o = lastDdl.op
    BY <1>1 DEF Undisturbed
  <2>2. o.kind = "create" => exists' = exists \cup {x}
    BY ExecuteExists
  <2>3. o.kind = "drop" => exists' = exists \ {x}
    BY ExecuteExists
  <2>. QED
    BY <2>1, <2>2, <2>3
<1>2. CASE ~IsDdl(o)
  BY <1>2, ExecuteExists DEF IsDdl
<1>. QED
  BY <1>1, <1>2

-----------------------------------------------------------------------------
\* The steps.

\* One call of a request to a group gets its result.
LEMMA SubStep ==
    ASSUME Tiled, RouterTypeOK, NEW c \in Caller, calls_[c] # NoCall_, NEW g \in Addressed(calls_[c].op),
           NEW r \in SubResult, calls_' = [calls_ EXCEPT ![c].sub[g] = r], UNCHANGED placement
    PROVE  /\ DOMAIN calls_' = Caller /\ calls_' = [d \in Caller |-> calls_'[d]]
           /\ \A d \in Caller : d # c => calls_'[d] = calls_[d]
           /\ \A d \in Caller : /\ calls_'[d] # NoCall_ <=> calls_[d] # NoCall_
                                /\ calls_[d] # NoCall_ => calls_'[d].op = calls_[d].op
           /\ \A h \in Addressed(calls_[c].op) : calls_'[c].sub[h] = IF h = g THEN r ELSE calls_[c].sub[h]
           /\ (\A d \in Caller : calls_[d] # NoCall_ => CallTyped(calls_[d]))'
<1>. DEFINE k == calls_[c]
<1>1. k = [kind |-> "call", op |-> k.op, sub |-> k.sub] /\ k.op \in RouterOp
      /\ k.sub \in [Addressed(k.op) -> SubResult]
  BY DEF RouterTypeOK, CallTyped
<1>2. calls_'[c] = [k EXCEPT !.sub = [k.sub EXCEPT ![g] = r]]
  BY DEF RouterTypeOK
<1>3. calls_'[c] = [kind |-> "call", op |-> k.op, sub |-> [k.sub EXCEPT ![g] = r]]
  BY <1>1, <1>2
<1>4. DOMAIN calls_' = Caller /\ calls_' = [d \in Caller |-> calls_'[d]]
      /\ \A d \in Caller : d # c => calls_'[d] = calls_[d]
  BY DEF RouterTypeOK
<1>5. /\ calls_'[c].op = k.op /\ calls_'[c].sub = [k.sub EXCEPT ![g] = r] /\ calls_'[c].kind = "call"
      /\ calls_'[c] # NoCall_
  BY <1>3 DEF NoCall_
<1>6. \A o : Addressed(o)' = Addressed(o)
  BY DEF Addressed, Group, owner
<1>7. \A h \in Addressed(k.op) : calls_'[c].sub[h] = IF h = g THEN r ELSE k.sub[h]
  BY <1>1, <1>5
<1>8. CallTyped(calls_'[c])
  <2>1. [k.sub EXCEPT ![g] = r] \in [Addressed(k.op) -> SubResult]
    BY <1>1
  <2>. QED
    BY <1>1, <1>3, <1>5, <2>1 DEF CallTyped
<1>9. ASSUME NEW d \in Caller, calls_'[d] # NoCall_
      PROVE  CallTyped(calls_'[d])
  BY <1>4, <1>8, <1>9 DEF RouterTypeOK
<1>10. (\A d \in Caller : calls_[d] # NoCall_ => CallTyped(calls_[d]))'
  BY <1>6, <1>9 DEF CallTyped
<1>. QED
  BY <1>4, <1>5, <1>7, <1>10

\* Addressed and owner depend on nothing that changes.
LEMMA PlacementStays ==
    ASSUME UNCHANGED placement
    PROVE  /\ Group' = Group /\ (Tiled <=> Tiled')
           /\ \A h : owner(h)' = owner(h)
           /\ \A o : Addressed(o)' = Addressed(o)
           /\ \A o, g, id : After(o, g, id)' = After(o, g, id)
<1>1. Group' = Group /\ \A h : owner(h)' = owner(h)
  BY DEF Group, owner
<1>2. \A o : Addressed(o)' = Addressed(o)
  BY <1>1 DEF Addressed
<1>3. \A o, g, id : After(o, g, id)' = After(o, g, id)
  BY <1>1 DEF After
<1>4. Tiled <=> Tiled'
  BY DEF Tiled, validate
<1>. QED
  BY <1>1, <1>2, <1>3, <1>4

\* A step that leads no request in keeps the parts that speak of requests.
LEMMA NoNewRequest ==
    ASSUME Numbered, Undisturbed, UNCHANGED <<placement, ops, mixed, lastDdl>>,
           \A o \in RouterOp : InUse(o)' => InUse(o),
           \A id \in Vec : lastWrite'[id].op = lastWrite[id].op,
           \A c \in Caller : calls_'[c] # NoCall_ => calls_[c] # NoCall_ /\ calls_'[c].op = calls_[c].op
    PROVE  Numbered' /\ Undisturbed'
<1>1. Numbered'
  BY DEF Numbered
<1>2. Undisturbed'
  BY DEF Undisturbed
<1>. QED
  BY <1>1, <1>2

LEMMA CallFields ==
    ASSUME Tiled, RouterTypeOK, NEW c \in Caller, calls_[c] # NoCall_
    PROVE  /\ calls_[c].op \in RouterOp /\ InUse(calls_[c].op)
           /\ calls_[c].sub \in [Addressed(calls_[c].op) -> SubResult]
           /\ DOMAIN calls_[c].sub = Addressed(calls_[c].op)
           /\ Addressed(calls_[c].op) \in SUBSET Group
  BY AddressedGroups DEF RouterTypeOK, CallTyped, InUse

LEMMA AnswersKeeps ==
    ASSUME RouterInv, NEW c \in Caller, NEW g, Answers(c, g)
    PROVE  RouterInv'
<1>. USE DEF RouterInv
<1>1. PICK o \in RouterOp :
          /\ o = calls_[c].op /\ InUse(o) /\ calls_[c] # NoCall_
          /\ g \in Addressed(o) /\ g \in Group /\ calls_[c].sub[g] = "calling"
          /\ Execute(o, g)
          /\ calls_' = [calls_ EXCEPT ![c].sub[g] = Verdict(o, g)]
          /\ UNCHANGED <<placement, inFlight, lastWrite, lastDdl, mixed, ops>>
  BY CallFields DEF Answers
<1>2. Verdict(o, g) \in SubResult
  BY DEF Verdict, SubResult
<1>3. /\ DOMAIN calls_' = Caller /\ calls_' = [d \in Caller |-> calls_'[d]]
      /\ \A d \in Caller : d # c => calls_'[d] = calls_[d]
      /\ \A d \in Caller : /\ calls_'[d] # NoCall_ <=> calls_[d] # NoCall_
                           /\ calls_[d] # NoCall_ => calls_'[d].op = calls_[d].op
      /\ \A h \in Addressed(o) : calls_'[c].sub[h] = IF h = g THEN Verdict(o, g) ELSE calls_[c].sub[h]
      /\ (\A d \in Caller : calls_[d] # NoCall_ => CallTyped(calls_[d]))'
  <2>1. PICK r \in SubResult : r = Verdict(o, g)
    BY <1>2
  <2>2. g \in Addressed(calls_[c].op) /\ calls_' = [calls_ EXCEPT ![c].sub[g] = r]
    BY <1>1, <2>1
  <2>3. Tiled /\ RouterTypeOK /\ calls_[c] # NoCall_ /\ UNCHANGED placement
    BY <1>1
  <2>4. /\ DOMAIN calls_' = Caller /\ calls_' = [d \in Caller |-> calls_'[d]]
        /\ \A d \in Caller : d # c => calls_'[d] = calls_[d]
        /\ \A d \in Caller : /\ calls_'[d] # NoCall_ <=> calls_[d] # NoCall_
                             /\ calls_[d] # NoCall_ => calls_'[d].op = calls_[d].op
        /\ \A h \in Addressed(calls_[c].op) : calls_'[c].sub[h] = IF h = g THEN r ELSE calls_[c].sub[h]
        /\ (\A d \in Caller : calls_[d] # NoCall_ => CallTyped(calls_[d]))'
    BY <2>2, <2>3, SubStep
  <2>. QED
    BY <1>1, <2>1, <2>4
<1>4. /\ Group' = Group /\ Tiled'
      /\ \A h : owner(h)' = owner(h)
      /\ \A p : Addressed(p)' = Addressed(p)
      /\ \A p, h, id : After(p, h, id)' = After(p, h, id)
  BY <1>1, PlacementStays
<1>5. RouterTypeOK'
  <2>1. exists' \in SUBSET Group /\ vecs' \in [Group -> [Vec -> Nat]]
    BY <1>1, ExecuteVecs
  <2>2. (\A e \in inFlight : e = <<e[1], e[2]>> /\ e[2] \in RouterOp /\ e[1] \in Addressed(e[2]))'
    BY <1>1, <1>4 DEF RouterTypeOK
  <2>. QED
    BY <1>1, <1>3, <1>4, <2>1, <2>2 DEF RouterTypeOK
<1>6. \A p : InUse(p)' => InUse(p)
  BY <1>1, <1>3 DEF InUse
<1>7. Numbered' /\ Undisturbed'
  BY <1>1, <1>3, <1>6, NoNewRequest
<1>8. Placed'
  BY <1>1, ExecutePlaced
<1>9. WriteHolds'
  <2>1. SUFFICES ASSUME NEW id \in Vec, lastWrite[id].op.num \notin mixed
                 PROVE  /\ lastWrite[id].confirmed =>
                              \A h \in Group : vecs'[h][id] = After(lastWrite[id].op, h, id)
                        /\ \A d \in Caller : calls_'[d] # NoCall_ /\ calls_'[d].op = lastWrite[id].op =>
                              \A h \in Addressed(calls_'[d].op) :
                                  Executed(calls_'[d].op, calls_'[d].sub[h]) =>
                                      vecs'[h][id] = After(calls_'[d].op, h, id)
    BY <1>1, <1>4 DEF WriteHolds
  <2>2. ASSUME lastWrite[id].confirmed, NEW h \in Group
        PROVE  vecs'[h][id] = After(lastWrite[id].op, h, id)
    BY <1>1, <2>1, <2>2, ExecuteKeepsWrite DEF WriteHolds
  <2>3. ASSUME NEW d \in Caller, calls_'[d] # NoCall_, calls_'[d].op = lastWrite[id].op,
               NEW h \in Addressed(calls_'[d].op), Executed(calls_'[d].op, calls_'[d].sub[h])
        PROVE  vecs'[h][id] = After(calls_'[d].op, h, id)
    <3>1. /\ calls_[d] # NoCall_ /\ calls_[d].op = lastWrite[id].op /\ h \in Addressed(calls_[d].op)
          /\ calls_'[d].op = calls_[d].op /\ h \in Group
      BY <1>3, <2>3, CallFields
    <3>2. CASE d = c /\ h = g
      <4>1. lastWrite[id].op = o /\ Executed(o, Verdict(o, g))
        BY <1>1, <1>3, <2>3, <3>1, <3>2
      <4>2. id \in Touches(o)
        BY <4>1 DEF Undisturbed, NoOp_, Op, RouterOp
      <4>. QED
        BY <1>1, <3>1, <3>2, <4>1, <4>2, ExecuteNow
    <3>3. CASE ~(d = c /\ h = g)
      <4>1. calls_'[d].sub[h] = calls_[d].sub[h]
        BY <1>1, <1>3, <3>1, <3>3
      <4>2. vecs[h][id] = After(lastWrite[id].op, h, id)
        BY <2>1, <2>3, <3>1, <4>1 DEF WriteHolds
      <4>3. vecs'[h][id] = After(lastWrite[id].op, h, id)
        BY <1>1, <2>1, <3>1, <4>2, ExecuteKeepsWrite
      <4>. QED
        BY <2>3, <4>3
    <3>. QED
      BY <3>2, <3>3
  <2>. QED
    BY <2>2, <2>3
<1>10. DdlHolds'
  <2>1. SUFFICES ASSUME lastDdl.op.num \notin mixed
                 PROVE  /\ lastDdl.op.kind = "create" /\ lastDdl.answer \in {"ok", "conflict"} => exists' = Group
                        /\ lastDdl.op.kind = "drop" /\ lastDdl.answer \in {"ok", "not found"} => exists' = {}
                        /\ \A d \in Caller : calls_'[d] # NoCall_ /\ calls_'[d].op = lastDdl.op =>
                              \A h \in Addressed(calls_'[d].op) :
                                  /\ lastDdl.op.kind = "create" /\ calls_'[d].sub[h] \in {"ok", "exists"} =>
                                        h \in exists'
                                  /\ lastDdl.op.kind = "drop" /\ calls_'[d].sub[h] \in {"ok", "missing"} =>
                                        h \notin exists'
    BY <1>1, <1>4 DEF DdlHolds
  <2>2. \A h \in Group : /\ lastDdl.op.kind = "create" /\ h \in exists => h \in exists'
                         /\ lastDdl.op.kind = "drop" /\ h \notin exists => h \notin exists'
    BY <1>1, <2>1, ExecuteKeepsDdl
  <2>3. exists' \in SUBSET Group
    BY <1>1, ExecuteVecs
  <2>4. ASSUME NEW d \in Caller, calls_'[d] # NoCall_, calls_'[d].op = lastDdl.op,
               NEW h \in Addressed(calls_'[d].op)
        PROVE  /\ lastDdl.op.kind = "create" /\ calls_'[d].sub[h] \in {"ok", "exists"} => h \in exists'
               /\ lastDdl.op.kind = "drop" /\ calls_'[d].sub[h] \in {"ok", "missing"} => h \notin exists'
    <3>1. /\ calls_[d] # NoCall_ /\ calls_[d].op = lastDdl.op /\ h \in Addressed(calls_[d].op)
          /\ calls_'[d].op = calls_[d].op /\ h \in Group
      BY <1>3, <2>4, CallFields
    <3>2. CASE d = c /\ h = g
      <4>1. o = lastDdl.op
        BY <1>1, <3>1, <3>2
      <4>2. /\ o.kind = "create" => exists' = exists \cup {g}
            /\ o.kind = "drop" => exists' = exists \ {g}
        BY <1>1, ExecuteExists
      <4>. QED
        BY <3>2, <4>1, <4>2
    <3>3. CASE ~(d = c /\ h = g)
      <4>1. calls_'[d].sub[h] = calls_[d].sub[h]
        BY <1>1, <1>3, <3>1, <3>3
      <4>. QED
        BY <2>1, <2>2, <3>1, <4>1 DEF DdlHolds
    <3>. QED
      BY <3>2, <3>3
  <2>5. lastDdl.op.kind = "create" /\ lastDdl.answer \in {"ok", "conflict"} => exists' = Group
    BY <2>1, <2>2, <2>3 DEF DdlHolds
  <2>6. lastDdl.op.kind = "drop" /\ lastDdl.answer \in {"ok", "not found"} => exists' = {}
    BY <2>1, <2>2, <2>3 DEF DdlHolds
  <2>. QED
    BY <2>4, <2>5, <2>6
<1>. QED
  BY <1>4, <1>5, <1>7, <1>8, <1>9, <1>10

LEMMA LateExecutionKeeps ==
    ASSUME RouterInv, LateExecution
    PROVE  RouterInv'
<1>. USE DEF RouterInv
<1>1. PICK e \in inFlight :
          /\ Execute(e[2], e[1]) /\ inFlight' = inFlight \ {e}
          /\ UNCHANGED <<placement, calls_, lastWrite, lastDdl, mixed, ops>>
  BY DEF LateExecution
<1>2. PICK o \in RouterOp, g \in Addressed(e[2]) : o = e[2] /\ g = e[1]
  BY <1>1 DEF RouterTypeOK
<1>3. InUse(o) /\ Execute(o, g) /\ g \in Addressed(o) /\ g \in Group
  BY <1>1, <1>2, AddressedGroups DEF InUse
<1>4. /\ Group' = Group /\ Tiled'
      /\ \A h : owner(h)' = owner(h)
      /\ \A p : Addressed(p)' = Addressed(p)
      /\ \A p, h, id : After(p, h, id)' = After(p, h, id)
  BY <1>1, PlacementStays
<1>5. RouterTypeOK'
  <2>1. exists' \in SUBSET Group /\ vecs' \in [Group -> [Vec -> Nat]]
    BY <1>3, ExecuteVecs
  <2>2. (\A d \in inFlight : d = <<d[1], d[2]>> /\ d[2] \in RouterOp /\ d[1] \in Addressed(d[2]))'
    BY <1>1, <1>4 DEF RouterTypeOK
  <2>3. (\A d \in Caller : calls_[d] # NoCall_ => CallTyped(calls_[d]))'
    BY <1>1, <1>4 DEF RouterTypeOK, CallTyped
  <2>. QED
    BY <1>1, <1>4, <2>1, <2>2, <2>3 DEF RouterTypeOK
<1>6. \A p : InUse(p)' => InUse(p)
  BY <1>1 DEF InUse
<1>7. Numbered' /\ Undisturbed'
  BY <1>1, <1>6, NoNewRequest
<1>8. Placed'
  BY <1>1, <1>3, ExecutePlaced
<1>9. WriteHolds'
  <2>1. SUFFICES ASSUME NEW id \in Vec, lastWrite[id].op.num \notin mixed
                 PROVE  /\ lastWrite[id].confirmed =>
                              \A h \in Group : vecs'[h][id] = After(lastWrite[id].op, h, id)
                        /\ \A d \in Caller : calls_[d] # NoCall_ /\ calls_[d].op = lastWrite[id].op =>
                              \A h \in Addressed(calls_[d].op) :
                                  Executed(calls_[d].op, calls_[d].sub[h]) =>
                                      vecs'[h][id] = After(calls_[d].op, h, id)
    BY <1>1, <1>4 DEF WriteHolds
  <2>2. ASSUME lastWrite[id].confirmed, NEW h \in Group
        PROVE  vecs'[h][id] = After(lastWrite[id].op, h, id)
    BY <1>3, <2>1, <2>2, ExecuteKeepsWrite DEF WriteHolds
  <2>3. ASSUME NEW d \in Caller, calls_[d] # NoCall_, calls_[d].op = lastWrite[id].op,
               NEW h \in Addressed(calls_[d].op), Executed(calls_[d].op, calls_[d].sub[h])
        PROVE  vecs'[h][id] = After(calls_[d].op, h, id)
    <3>1. h \in Group /\ vecs[h][id] = After(lastWrite[id].op, h, id)
      BY <2>1, <2>3, CallFields DEF WriteHolds
    <3>2. vecs'[h][id] = After(lastWrite[id].op, h, id)
      BY <1>3, <2>1, <3>1, ExecuteKeepsWrite
    <3>. QED
      BY <2>3, <3>2
  <2>. QED
    BY <2>2, <2>3
<1>10. DdlHolds'
  <2>1. SUFFICES ASSUME lastDdl.op.num \notin mixed
                 PROVE  /\ lastDdl.op.kind = "create" /\ lastDdl.answer \in {"ok", "conflict"} => exists' = Group
                        /\ lastDdl.op.kind = "drop" /\ lastDdl.answer \in {"ok", "not found"} => exists' = {}
                        /\ \A d \in Caller : calls_[d] # NoCall_ /\ calls_[d].op = lastDdl.op =>
                              \A h \in Addressed(calls_[d].op) :
                                  /\ lastDdl.op.kind = "create" /\ calls_[d].sub[h] \in {"ok", "exists"} =>
                                        h \in exists'
                                  /\ lastDdl.op.kind = "drop" /\ calls_[d].sub[h] \in {"ok", "missing"} =>
                                        h \notin exists'
    BY <1>1, <1>4 DEF DdlHolds
  <2>2. \A h \in Group : /\ lastDdl.op.kind = "create" /\ h \in exists => h \in exists'
                         /\ lastDdl.op.kind = "drop" /\ h \notin exists => h \notin exists'
    BY <1>3, <2>1, ExecuteKeepsDdl
  <2>3. exists' \in SUBSET Group
    BY <1>3, ExecuteVecs
  <2>4. ASSUME NEW d \in Caller, calls_[d] # NoCall_, calls_[d].op = lastDdl.op,
               NEW h \in Addressed(calls_[d].op)
        PROVE  /\ lastDdl.op.kind = "create" /\ calls_[d].sub[h] \in {"ok", "exists"} => h \in exists'
               /\ lastDdl.op.kind = "drop" /\ calls_[d].sub[h] \in {"ok", "missing"} => h \notin exists'
    <3>1. h \in Group
      BY <2>4, CallFields
    <3>. QED
      BY <2>1, <2>2, <2>4, <3>1 DEF DdlHolds
  <2>5. lastDdl.op.kind = "create" /\ lastDdl.answer \in {"ok", "conflict"} => exists' = Group
    BY <2>1, <2>2, <2>3 DEF DdlHolds
  <2>6. lastDdl.op.kind = "drop" /\ lastDdl.answer \in {"ok", "not found"} => exists' = {}
    BY <2>1, <2>2, <2>3 DEF DdlHolds
  <2>. QED
    BY <2>4, <2>5, <2>6
<1>. QED
  BY <1>4, <1>5, <1>7, <1>8, <1>9, <1>10

LEMMA UnconfirmedKeeps ==
    ASSUME RouterInv, NEW c \in Caller, NEW g, Unconfirmed(c, g)
    PROVE  RouterInv'
<1>. USE DEF RouterInv
<1>1. PICK o \in RouterOp :
          /\ o = calls_[c].op /\ InUse(o) /\ g \in Addressed(o)
          /\ inFlight' = inFlight \cup {<<g, o>>}
          /\ UNCHANGED <<placement, exists, vecs, calls_, lastWrite, lastDdl, mixed, ops>>
  BY CallFields DEF Unconfirmed
<1>2. /\ Group' = Group /\ Tiled'
      /\ \A h : owner(h)' = owner(h)
      /\ \A p : Addressed(p)' = Addressed(p)
      /\ \A p, h, id : After(p, h, id)' = After(p, h, id)
  BY <1>1, PlacementStays
<1>3. RouterTypeOK'
  <2>1. (\A d \in inFlight : d = <<d[1], d[2]>> /\ d[2] \in RouterOp /\ d[1] \in Addressed(d[2]))'
    BY <1>1, <1>2 DEF RouterTypeOK
  <2>2. (\A d \in Caller : calls_[d] # NoCall_ => CallTyped(calls_[d]))'
    BY <1>1, <1>2 DEF RouterTypeOK, CallTyped
  <2>. QED
    BY <1>1, <1>2, <2>1, <2>2 DEF RouterTypeOK
<1>4. \A p : InUse(p)' => InUse(p)
  BY <1>1 DEF InUse
<1>5. Numbered' /\ Undisturbed'
  BY <1>1, <1>4, NoNewRequest
<1>6. Placed' /\ WriteHolds' /\ DdlHolds'
  <2>1. Placed'
    BY <1>1, <1>2 DEF Placed
  <2>2. WriteHolds'
    BY <1>1, <1>2 DEF WriteHolds
  <2>3. DdlHolds'
    BY <1>1, <1>2 DEF DdlHolds
  <2>. QED
    BY <2>1, <2>2, <2>3
<1>. QED
  BY <1>2, <1>3, <1>5, <1>6

LEMMA GivesUpKeeps ==
    ASSUME RouterInv, NEW c \in Caller, NEW g, GivesUp(c, g)
    PROVE  RouterInv'
<1>. USE DEF RouterInv
<1>1. /\ calls_[c] # NoCall_ /\ g \in Addressed(calls_[c].op)
      /\ calls_' = [calls_ EXCEPT ![c].sub[g] = "failed"]
      /\ UNCHANGED <<placement, exists, vecs, inFlight, lastWrite, lastDdl, mixed, ops>>
  BY CallFields DEF GivesUp
<1>2. PICK r \in SubResult : r = "failed"
  BY DEF SubResult
<1>3. /\ DOMAIN calls_' = Caller /\ calls_' = [d \in Caller |-> calls_'[d]]
      /\ \A d \in Caller : d # c => calls_'[d] = calls_[d]
      /\ \A d \in Caller : /\ calls_'[d] # NoCall_ <=> calls_[d] # NoCall_
                           /\ calls_[d] # NoCall_ => calls_'[d].op = calls_[d].op
      /\ \A h \in Addressed(calls_[c].op) : calls_'[c].sub[h] = IF h = g THEN r ELSE calls_[c].sub[h]
      /\ (\A d \in Caller : calls_[d] # NoCall_ => CallTyped(calls_[d]))'
  <2>1. g \in Addressed(calls_[c].op) /\ calls_' = [calls_ EXCEPT ![c].sub[g] = r]
    BY <1>1, <1>2
  <2>2. Tiled /\ RouterTypeOK /\ calls_[c] # NoCall_ /\ UNCHANGED placement
    BY <1>1
  <2>. QED
    <3>. HIDE DEF RouterInv
    <3>. QED
      BY <2>1, <2>2, SubStep
<1>4. /\ Group' = Group /\ Tiled'
      /\ \A h : owner(h)' = owner(h)
      /\ \A p : Addressed(p)' = Addressed(p)
      /\ \A p, h, id : After(p, h, id)' = After(p, h, id)
  BY <1>1, PlacementStays
<1>5. RouterTypeOK'
  <2>1. (\A d \in inFlight : d = <<d[1], d[2]>> /\ d[2] \in RouterOp /\ d[1] \in Addressed(d[2]))'
    BY <1>1, <1>4 DEF RouterTypeOK
  <2>. QED
    BY <1>1, <1>3, <1>4, <2>1 DEF RouterTypeOK
<1>6. \A p : InUse(p)' => InUse(p)
  BY <1>1, <1>3 DEF InUse
<1>7. Numbered' /\ Undisturbed'
  BY <1>1, <1>3, <1>6, NoNewRequest
<1>8. ASSUME NEW d \in Caller, calls_'[d] # NoCall_, NEW h \in Addressed(calls_'[d].op)
      PROVE  /\ calls_[d] # NoCall_ /\ calls_'[d].op = calls_[d].op /\ h \in Addressed(calls_[d].op)
             /\ calls_'[d].sub[h] \in {calls_[d].sub[h], "failed"}
  BY <1>2, <1>3, <1>8
<1>9. WriteHolds'
  <2>1. SUFFICES ASSUME NEW id \in Vec, lastWrite[id].op.num \notin mixed
                 PROVE  /\ lastWrite[id].confirmed =>
                              \A h \in Group : vecs[h][id] = After(lastWrite[id].op, h, id)
                        /\ \A d \in Caller : calls_'[d] # NoCall_ /\ calls_'[d].op = lastWrite[id].op =>
                              \A h \in Addressed(calls_'[d].op) :
                                  Executed(calls_'[d].op, calls_'[d].sub[h]) =>
                                      vecs[h][id] = After(calls_'[d].op, h, id)
    BY <1>1, <1>4 DEF WriteHolds
  <2>2. ASSUME NEW d \in Caller, calls_'[d] # NoCall_, calls_'[d].op = lastWrite[id].op,
               NEW h \in Addressed(calls_'[d].op), Executed(calls_'[d].op, calls_'[d].sub[h])
        PROVE  vecs[h][id] = After(calls_'[d].op, h, id)
    <3>1. calls_'[d].sub[h] = calls_[d].sub[h]
      BY <1>8, <2>2 DEF Executed
    <3>. QED
      BY <1>8, <2>1, <2>2, <3>1 DEF WriteHolds
  <2>. QED
    BY <2>1, <2>2 DEF WriteHolds
<1>10. DdlHolds'
  <2>1. SUFFICES ASSUME lastDdl.op.num \notin mixed, NEW d \in Caller, calls_'[d] # NoCall_,
                        calls_'[d].op = lastDdl.op, NEW h \in Addressed(calls_'[d].op)
                 PROVE  /\ lastDdl.op.kind = "create" /\ calls_'[d].sub[h] \in {"ok", "exists"} => h \in exists
                        /\ lastDdl.op.kind = "drop" /\ calls_'[d].sub[h] \in {"ok", "missing"} => h \notin exists
    BY <1>1, <1>4 DEF DdlHolds
  <2>. QED
    BY <1>8, <2>1 DEF DdlHolds
<1>11. Placed'
  BY <1>1, <1>4 DEF Placed
<1>. QED
  BY <1>4, <1>5, <1>7, <1>9, <1>10, <1>11

\* What arrives is a request of the router, with the next number.
LEMMA ForwardKeeps ==
    ASSUME RouterInv, NEW c \in Caller, NEW rq \in RouterOp, rq.num = ops + 1, Forward(c, rq)
    PROVE  RouterInv'
<1>. USE DEF RouterInv
<1>. DEFINE k == [kind |-> "call", op |-> rq, sub |-> [g \in Addressed(rq) |-> "calling"]]
<1>1. /\ calls_[c] = NoCall_ /\ ops' = ops + 1 /\ ops \in Nat
      /\ calls_' = [calls_ EXCEPT ![c] = k]
      /\ UNCHANGED <<placement, exists, vecs, inFlight>>
  BY DEF Forward, RouterTypeOK
<1>2. /\ DOMAIN calls_' = Caller /\ calls_' = [d \in Caller |-> calls_'[d]]
      /\ calls_'[c] = k /\ \A d \in Caller : d # c => calls_'[d] = calls_[d]
  <2>. HIDE DEF k
  <2>. QED
    BY <1>1 DEF RouterTypeOK
<1>3. /\ k # NoCall_ /\ k.op = rq /\ k.sub \in [Addressed(rq) -> SubResult]
      /\ \A g \in Addressed(rq) : k.sub[g] = "calling"
  BY DEF NoCall_, SubResult
<1>. HIDE DEF k
<1>4. /\ Group' = Group /\ Tiled'
      /\ \A h : owner(h)' = owner(h)
      /\ \A p : Addressed(p)' = Addressed(p)
      /\ \A p, h, id : After(p, h, id)' = After(p, h, id)
  BY <1>1, PlacementStays
<1>5. /\ \A id \in Vec : lastWrite'[id] = IF id \in Touches(rq) THEN [op |-> rq, confirmed |-> FALSE]
                                          ELSE lastWrite[id]
      /\ lastWrite' \in [Vec -> [op : RouterOp \cup {NoOp_}, confirmed : BOOLEAN]]
  BY DEF Forward, RouterTypeOK
<1>6. lastDdl' = IF IsDdl(rq) THEN [op |-> rq, answer |-> "none"] ELSE lastDdl
  BY DEF Forward
<1>7. mixed \subseteq mixed'
  BY DEF Forward
<1>8. rq.num \notin mixed' => \A o : InUse(o) => ~Conflict(o, rq)
  <2>. DEFINE others == {o \in UnderWay : Conflict(o, rq)}
  <2>1. mixed' = mixed \cup {o.num : o \in others} \cup (IF others = {} THEN {} ELSE {rq.num})
    BY DEF Forward
  <2>2. rq.num \notin mixed' => others = {}
    <3>. HIDE DEF others
    <3>. QED
      BY <2>1
  <2>. QED
    BY <2>2, UnderWayIs
<1>9. \A o : InUse(o)' => InUse(o) \/ o = rq
  BY <1>1, <1>2, <1>3 DEF InUse
<1>10. \A o \in RouterOp : InUse(o) => o # rq /\ o.num # rq.num
  BY <1>1 DEF Numbered, RouterOp
<1>11. RouterTypeOK'
  <2>1. (\A d \in inFlight : d = <<d[1], d[2]>> /\ d[2] \in RouterOp /\ d[1] \in Addressed(d[2]))'
    BY <1>1, <1>4 DEF RouterTypeOK
  <2>2. CallTyped(k)
    BY <1>3 DEF CallTyped, k
  <2>3. ASSUME NEW d \in Caller, calls_'[d] # NoCall_
        PROVE  CallTyped(calls_'[d])
    BY <1>2, <2>2, <2>3 DEF RouterTypeOK
  <2>4. (\A d \in Caller : calls_[d] # NoCall_ => CallTyped(calls_[d]))'
    BY <1>4, <2>3 DEF CallTyped
  <2>5. (/\ lastDdl = [op |-> lastDdl.op, answer |-> lastDdl.answer]
         /\ lastDdl.op \in RouterOp \cup {NoOp_})'
    BY <1>6 DEF RouterTypeOK
  <2>6. ops' \in Nat /\ exists' \in SUBSET Group' /\ vecs' \in [Group' -> [Vec -> Nat]]
    BY <1>1, <1>4 DEF RouterTypeOK
  <2>. QED
    BY <1>2, <1>5, <2>1, <2>4, <2>5, <2>6 DEF RouterTypeOK
<1>12. Numbered'
  <2>1. \A o \in RouterOp : InUse(o)' => o.num > 0 /\ o.num <= ops'
    BY <1>1, <1>9 DEF Numbered, RouterOp
  <2>2. ASSUME NEW b \in Caller, NEW d \in Caller, calls_'[b] # NoCall_, calls_'[d] # NoCall_,
               calls_'[b].op.num = calls_'[d].op.num
        PROVE  b = d
    <3>1. \A e \in Caller : e # c /\ calls_[e] # NoCall_ => calls_[e].op.num # rq.num
      BY <1>10, CallFields
    <3>. QED
      BY <1>2, <1>3, <2>2, <3>1 DEF Numbered
  <2>3. ASSUME NEW id \in Vec
        PROVE  /\ lastWrite'[id].op.num <= ops'
               /\ \A o \in RouterOp : InUse(o)' /\ o.num = lastWrite'[id].op.num => o = lastWrite'[id].op
    <3>1. CASE id \in Touches(rq)
      <4>1. lastWrite'[id].op = rq
        BY <1>5, <3>1
      <4>. QED
        BY <1>1, <1>9, <1>10, <4>1
    <3>2. CASE id \notin Touches(rq)
      <4>1. lastWrite'[id].op = lastWrite[id].op
        BY <1>5, <3>2
      <4>2. lastWrite[id].op.num \in Nat /\ lastWrite[id].op.num <= ops
        BY DEF RouterTypeOK, Numbered, RouterOp, NoOp_, Op
      <4>. QED
        BY <1>1, <1>9, <4>1, <4>2 DEF Numbered
    <3>. QED
      BY <3>1, <3>2
  <2>4. /\ lastDdl'.op.num <= ops'
        /\ \A o \in RouterOp : InUse(o)' /\ o.num = lastDdl'.op.num => o = lastDdl'.op
    <3>1. CASE IsDdl(rq)
      <4>1. lastDdl'.op = rq
        BY <1>6, <3>1
      <4>. QED
        BY <1>1, <1>9, <1>10, <4>1
    <3>2. CASE ~IsDdl(rq)
      <4>1. lastDdl'.op = lastDdl.op
        BY <1>6, <3>2
      <4>2. lastDdl.op.num \in Nat /\ lastDdl.op.num <= ops
        BY DEF RouterTypeOK, Numbered, RouterOp, NoOp_, Op
      <4>. QED
        BY <1>1, <1>9, <4>1, <4>2 DEF Numbered
    <3>. QED
      BY <3>1, <3>2
  <2>. QED
    BY <2>1, <2>2, <2>3, <2>4 DEF Numbered
<1>13. Placed'
  BY <1>1, <1>4 DEF Placed
<1>14. Undisturbed'
  <2>1. ASSUME NEW id \in Vec
        PROVE  /\ lastWrite'[id].op = NoOp_ \/ id \in Touches(lastWrite'[id].op)
               /\ lastWrite'[id].op.num \notin mixed' =>
                     \A o \in RouterOp : InUse(o)' /\ id \in Touches(o) => o = lastWrite'[id].op
    <3>1. CASE id \in Touches(rq)
      <4>1. lastWrite'[id].op = rq
        BY <1>5, <3>1
      <4>2. \A o : id \in Touches(o) => Conflict(o, rq)
        BY <3>1 DEF Conflict
      <4>. QED
        BY <1>8, <1>9, <3>1, <4>1, <4>2
    <3>2. CASE id \notin Touches(rq)
      <4>1. lastWrite'[id].op = lastWrite[id].op
        BY <1>5, <3>2
      <4>. QED
        BY <1>7, <1>9, <3>2, <4>1 DEF Undisturbed
    <3>. QED
      BY <3>1, <3>2
  <2>2. lastDdl'.op.num \notin mixed' => \A o \in RouterOp : InUse(o)' /\ IsDdl(o) => o = lastDdl'.op
    <3>1. CASE IsDdl(rq)
      <4>1. lastDdl'.op = rq
        BY <1>6, <3>1
      <4>2. \A o : IsDdl(o) => Conflict(o, rq)
        BY <3>1 DEF Conflict
      <4>. QED
        BY <1>8, <1>9, <4>1, <4>2
    <3>2. CASE ~IsDdl(rq)
      <4>1. lastDdl'.op = lastDdl.op
        BY <1>6, <3>2
      <4>. QED
        BY <1>7, <1>9, <3>2, <4>1 DEF Undisturbed
    <3>. QED
      BY <3>1, <3>2
  <2>. QED
    BY <2>1, <2>2 DEF Undisturbed
<1>15. WriteHolds'
  <2>1. SUFFICES ASSUME NEW id \in Vec, lastWrite'[id].op.num \notin mixed'
                 PROVE  /\ lastWrite'[id].confirmed =>
                              \A h \in Group : vecs[h][id] = After(lastWrite'[id].op, h, id)
                        /\ \A d \in Caller : calls_'[d] # NoCall_ /\ calls_'[d].op = lastWrite'[id].op =>
                              \A h \in Addressed(calls_'[d].op) :
                                  Executed(calls_'[d].op, calls_'[d].sub[h]) =>
                                      vecs[h][id] = After(calls_'[d].op, h, id)
    BY <1>1, <1>4 DEF WriteHolds
  <2>2. ASSUME lastWrite'[id].confirmed
        PROVE  lastWrite'[id] = lastWrite[id] /\ lastWrite[id].op.num \notin mixed
    BY <1>5, <1>7, <2>1, <2>2
  <2>3. ASSUME NEW d \in Caller, calls_'[d] # NoCall_, calls_'[d].op = lastWrite'[id].op,
               NEW h \in Addressed(calls_'[d].op), Executed(calls_'[d].op, calls_'[d].sub[h])
        PROVE  vecs[h][id] = After(calls_'[d].op, h, id)
    <3>1. d # c
      <4>. SUFFICES ASSUME d = c
                    PROVE  FALSE
        OBVIOUS
      <4>. QED
        BY <1>2, <1>3, <2>3 DEF Executed
    <3>2. calls_'[d] = calls_[d] /\ calls_[d].op # rq
      BY <1>2, <1>10, <2>3, <3>1, CallFields
    <3>3. lastWrite'[id] = lastWrite[id] /\ lastWrite[id].op.num \notin mixed
      BY <1>5, <1>7, <2>1, <2>3, <3>2
    <3>. QED
      BY <2>3, <3>2, <3>3 DEF WriteHolds
  <2>. QED
    BY <2>2, <2>3 DEF WriteHolds
<1>16. DdlHolds'
  <2>1. SUFFICES ASSUME lastDdl'.op.num \notin mixed'
                 PROVE  /\ lastDdl'.op.kind = "create" /\ lastDdl'.answer \in {"ok", "conflict"} => exists = Group
                        /\ lastDdl'.op.kind = "drop" /\ lastDdl'.answer \in {"ok", "not found"} => exists = {}
                        /\ \A d \in Caller : calls_'[d] # NoCall_ /\ calls_'[d].op = lastDdl'.op =>
                              \A h \in Addressed(calls_'[d].op) :
                                  /\ lastDdl'.op.kind = "create" /\ calls_'[d].sub[h] \in {"ok", "exists"} =>
                                        h \in exists
                                  /\ lastDdl'.op.kind = "drop" /\ calls_'[d].sub[h] \in {"ok", "missing"} =>
                                        h \notin exists
    BY <1>1, <1>4 DEF DdlHolds
  <2>2. CASE IsDdl(rq)
    <3>1. lastDdl'.op = rq /\ lastDdl'.answer = "none"
      BY <1>6, <2>2
    <3>2. ASSUME NEW d \in Caller, calls_'[d] # NoCall_, calls_'[d].op = rq,
                 NEW h \in Addressed(calls_'[d].op)
          PROVE  calls_'[d].sub[h] = "calling"
      BY <1>2, <1>3, <1>10, <3>2, CallFields
    <3>. QED
      BY <3>1, <3>2
  <2>3. CASE ~IsDdl(rq)
    <3>1. lastDdl' = lastDdl /\ lastDdl.op.num \notin mixed /\ (lastDdl.op.kind \in {"create", "drop"} => lastDdl.op # rq)
      BY <1>6, <1>7, <2>1, <2>3 DEF IsDdl
    <3>2. ASSUME NEW d \in Caller, calls_'[d] # NoCall_, calls_'[d].op = lastDdl.op,
                 lastDdl.op.kind \in {"create", "drop"}
          PROVE  calls_'[d] = calls_[d]
      BY <1>2, <1>3, <3>1, <3>2
    <3>. QED
      BY <3>1, <3>2 DEF DdlHolds
  <2>. QED
    BY <2>2, <2>3
<1>. QED
  BY <1>4, <1>11, <1>12, <1>13, <1>14, <1>15, <1>16

\* The answers of all groups together: what was confirmed holds everywhere.
LEMMA AnswerIsTrue ==
    ASSUME RouterInv, NEW c \in Caller, calls_[c] # NoCall_,
           NEW answer, answer = AnswerTo(calls_[c].op, {calls_[c].sub[g] : g \in DOMAIN calls_[c].sub})
    PROVE  /\ answer = "ok" => \A g \in Addressed(calls_[c].op) :
                                  \/ Executed(calls_[c].op, calls_[c].sub[g])
                                  \/ calls_[c].op.kind = "create" /\ calls_[c].sub[g] = "exists"
           /\ calls_[c].op.kind = "create" /\ answer \in {"ok", "conflict"} =>
                  \A g \in Addressed(calls_[c].op) : calls_[c].sub[g] \in {"ok", "exists"}
           /\ calls_[c].op.kind = "drop" /\ answer \in {"ok", "not found"} =>
                  \A g \in Addressed(calls_[c].op) : calls_[c].sub[g] \in {"ok", "missing"}
<1>1. DOMAIN calls_[c].sub = Addressed(calls_[c].op)
  BY CallFields DEF RouterInv
<1>2. PICK results : results = {calls_[c].sub[g] : g \in DOMAIN calls_[c].sub}
  OBVIOUS
<1>3. \A g \in Addressed(calls_[c].op) : calls_[c].sub[g] \in results
  BY <1>1, <1>2
<1>4. answer = AnswerTo(calls_[c].op, results)
  BY <1>2
<1>. QED
  BY <1>3, <1>4 DEF AnswerTo, AllDone, Executed

LEMMA RouterRepliesKeeps ==
    ASSUME RouterInv, NEW c \in Caller, RouterReplies(c)
    PROVE  RouterInv'
<1>. USE DEF RouterInv
<1>1. PICK o \in RouterOp :
          /\ o = calls_[c].op /\ InUse(o) /\ calls_[c] # NoCall_ /\ Addressed(o) \in SUBSET Group
          /\ calls_' = [calls_ EXCEPT ![c] = NoCall_]
          /\ UNCHANGED <<placement, exists, vecs, inFlight, mixed, ops>>
  BY CallFields DEF RouterReplies
<1>2. PICK answer :
          /\ answer = AnswerTo(o, {calls_[c].sub[g] : g \in DOMAIN calls_[c].sub})
          /\ lastWrite' = [id \in Vec |-> IF lastWrite[id].op.num = o.num
                                          THEN [op |-> o, confirmed |-> (answer = "ok")] ELSE lastWrite[id]]
          /\ lastDdl' = IF lastDdl.op.num = o.num THEN [op |-> o, answer |-> answer] ELSE lastDdl
  BY <1>1 DEF RouterReplies
<1>3. /\ answer = "ok" => \A g \in Addressed(o) : \/ Executed(o, calls_[c].sub[g])
                                                  \/ o.kind = "create" /\ calls_[c].sub[g] = "exists"
      /\ o.kind = "create" /\ answer \in {"ok", "conflict"} =>
             \A g \in Addressed(o) : calls_[c].sub[g] \in {"ok", "exists"}
      /\ o.kind = "drop" /\ answer \in {"ok", "not found"} =>
             \A g \in Addressed(o) : calls_[c].sub[g] \in {"ok", "missing"}
  BY <1>1, <1>2, AnswerIsTrue
<1>4. \A d \in Caller : calls_'[d] = IF d = c THEN NoCall_ ELSE calls_[d]
  BY <1>1 DEF RouterTypeOK
<1>5. /\ Group' = Group /\ Tiled'
      /\ \A h : owner(h)' = owner(h)
      /\ \A p : Addressed(p)' = Addressed(p)
      /\ \A p, h, id : After(p, h, id)' = After(p, h, id)
  BY <1>1, PlacementStays
<1>6. \A id \in Vec : lastWrite[id].op.num = o.num => lastWrite[id].op = o
  BY <1>1 DEF Numbered
<1>7. lastDdl.op.num = o.num => lastDdl.op = o
  BY <1>1 DEF Numbered
<1>8. \A id \in Vec : /\ lastWrite'[id].op = lastWrite[id].op
                      /\ lastWrite'[id].confirmed = IF lastWrite[id].op = o THEN answer = "ok"
                                                    ELSE lastWrite[id].confirmed
  BY <1>2, <1>6
<1>9. /\ lastDdl'.op = lastDdl.op
      /\ lastDdl'.answer = IF lastDdl.op = o THEN answer ELSE lastDdl.answer
  BY <1>2, <1>7
<1>10. RouterTypeOK'
  <2>1. (\A d \in inFlight : d = <<d[1], d[2]>> /\ d[2] \in RouterOp /\ d[1] \in Addressed(d[2]))'
    BY <1>1, <1>5 DEF RouterTypeOK
  <2>2. (\A d \in Caller : calls_[d] # NoCall_ => CallTyped(calls_[d]))'
    BY <1>4, <1>5 DEF RouterTypeOK, CallTyped
  <2>3. lastWrite' \in [Vec -> [op : RouterOp \cup {NoOp_}, confirmed : BOOLEAN]]
    BY <1>2 DEF RouterTypeOK
  <2>4. (/\ lastDdl = [op |-> lastDdl.op, answer |-> lastDdl.answer]
         /\ lastDdl.op \in RouterOp \cup {NoOp_})'
    BY <1>2 DEF RouterTypeOK
  <2>5. ops' \in Nat /\ exists' \in SUBSET Group' /\ vecs' \in [Group' -> [Vec -> Nat]]
    BY <1>1, <1>5 DEF RouterTypeOK
  <2>6. DOMAIN calls_' = Caller /\ calls_' = [d \in Caller |-> calls_'[d]]
    BY <1>1 DEF RouterTypeOK
  <2>. QED
    BY <2>1, <2>2, <2>3, <2>4, <2>5, <2>6 DEF RouterTypeOK
<1>11. \A p : InUse(p)' => InUse(p)
  BY <1>1, <1>4 DEF InUse
<1>12. \A d \in Caller : calls_'[d] # NoCall_ => d # c /\ calls_[d] # NoCall_ /\ calls_'[d] = calls_[d]
  BY <1>4
<1>13. Numbered' /\ Undisturbed'
  <2>1. Numbered'
    <3>1. \A p \in RouterOp : InUse(p)' => p.num > 0 /\ p.num <= ops'
      BY <1>1, <1>11 DEF Numbered
    <3>2. \A b, d \in Caller :
              calls_'[b] # NoCall_ /\ calls_'[d] # NoCall_ /\ calls_'[b].op.num = calls_'[d].op.num => b = d
      BY <1>12 DEF Numbered
    <3>3. \A id \in Vec : /\ lastWrite'[id].op.num <= ops'
                          /\ \A p \in RouterOp : InUse(p)' /\ p.num = lastWrite'[id].op.num => p = lastWrite'[id].op
      BY <1>1, <1>8, <1>11 DEF Numbered
    <3>4. /\ lastDdl'.op.num <= ops'
          /\ \A p \in RouterOp : InUse(p)' /\ p.num = lastDdl'.op.num => p = lastDdl'.op
      BY <1>1, <1>9, <1>11 DEF Numbered
    <3>. QED
      BY <3>1, <3>2, <3>3, <3>4 DEF Numbered
  <2>2. Undisturbed'
    <3>1. \A id \in Vec :
              /\ lastWrite'[id].op = NoOp_ \/ id \in Touches(lastWrite'[id].op)
              /\ lastWrite'[id].op.num \notin mixed' =>
                    \A p \in RouterOp : InUse(p)' /\ id \in Touches(p) => p = lastWrite'[id].op
      BY <1>1, <1>8, <1>11 DEF Undisturbed
    <3>2. lastDdl'.op.num \notin mixed' => \A p \in RouterOp : InUse(p)' /\ IsDdl(p) => p = lastDdl'.op
      BY <1>1, <1>9, <1>11 DEF Undisturbed
    <3>. QED
      BY <3>1, <3>2 DEF Undisturbed
  <2>. QED
    BY <2>1, <2>2
<1>14. Placed'
  BY <1>1, <1>5 DEF Placed
<1>15. WriteHolds'
  <2>1. SUFFICES ASSUME NEW id \in Vec, lastWrite[id].op.num \notin mixed
                 PROVE  /\ lastWrite'[id].confirmed =>
                              \A h \in Group : vecs[h][id] = After(lastWrite[id].op, h, id)
                        /\ \A d \in Caller : calls_'[d] # NoCall_ /\ calls_'[d].op = lastWrite[id].op =>
                              \A h \in Addressed(calls_'[d].op) :
                                  Executed(calls_'[d].op, calls_'[d].sub[h]) =>
                                      vecs[h][id] = After(calls_'[d].op, h, id)
    BY <1>1, <1>5, <1>8 DEF WriteHolds
  <2>2. ASSUME lastWrite'[id].confirmed, NEW h \in Group
        PROVE  vecs[h][id] = After(lastWrite[id].op, h, id)
    <3>1. CASE lastWrite[id].op # o
      BY <1>8, <2>1, <2>2, <3>1 DEF WriteHolds
    <3>2. CASE lastWrite[id].op = o
      <4>1. answer = "ok" /\ id \in Touches(o) /\ o.kind # "create"
        <5>1. answer = "ok"
          BY <1>8, <2>2, <3>2
        <5>2. id \in Touches(o)
          BY <3>2 DEF Undisturbed, NoOp_, Op, RouterOp
        <5>. QED
          BY <5>1, <5>2 DEF Touches
      <4>2. CASE h \in Addressed(o)
        BY <1>1, <1>3, <2>1, <3>2, <4>1, <4>2 DEF WriteHolds
      <4>3. CASE h \notin Addressed(o)
        <5>1. o.kind \in {"upsert", "delete"} /\ id \in o.ids
          BY <4>1, <4>3, AddressedGroups DEF Touches
        <5>2. h # owner(HashOf[id])
          BY <4>3, <5>1, AddressedGroups
        <5>. QED
          BY <3>2, <5>2 DEF Placed, After
      <4>. QED
        BY <4>2, <4>3
    <3>. QED
      BY <3>1, <3>2
  <2>. QED
    BY <1>12, <2>1, <2>2 DEF WriteHolds
<1>16. DdlHolds'
  <2>1. SUFFICES ASSUME lastDdl.op.num \notin mixed
                 PROVE  /\ lastDdl.op.kind = "create" /\ lastDdl'.answer \in {"ok", "conflict"} => exists = Group
                        /\ lastDdl.op.kind = "drop" /\ lastDdl'.answer \in {"ok", "not found"} => exists = {}
                        /\ \A d \in Caller : calls_'[d] # NoCall_ /\ calls_'[d].op = lastDdl.op =>
                              \A h \in Addressed(calls_'[d].op) :
                                  /\ lastDdl.op.kind = "create" /\ calls_'[d].sub[h] \in {"ok", "exists"} =>
                                        h \in exists
                                  /\ lastDdl.op.kind = "drop" /\ calls_'[d].sub[h] \in {"ok", "missing"} =>
                                        h \notin exists
    BY <1>1, <1>5, <1>9 DEF DdlHolds
  <2>2. CASE lastDdl.op # o
    BY <1>9, <1>12, <2>1, <2>2 DEF DdlHolds
  <2>3. CASE lastDdl.op = o
    <3>1. exists \in SUBSET Group
      BY DEF RouterTypeOK
    <3>2. o.kind \in {"create", "drop"} => Addressed(o) = Group
      BY AddressedGroups
    <3>3. o.kind = "create" /\ answer \in {"ok", "conflict"} => exists = Group
      BY <1>1, <1>3, <2>1, <2>3, <3>1, <3>2 DEF DdlHolds
    <3>4. o.kind = "drop" /\ answer \in {"ok", "not found"} => exists = {}
      BY <1>1, <1>3, <2>1, <2>3, <3>1, <3>2 DEF DdlHolds
    <3>. QED
      BY <1>9, <1>12, <2>1, <2>3, <3>3, <3>4 DEF DdlHolds
  <2>. QED
    BY <2>2, <2>3
<1>. QED
  BY <1>5, <1>10, <1>13, <1>14, <1>15, <1>16

-----------------------------------------------------------------------------
LEMMA RouterInitInv == RouterInit => RouterInv
<1>. SUFFICES ASSUME RouterInit
              PROVE  RouterInv
  OBVIOUS
<1>1. Tiled
  BY TiledInit
<1>2. \A c \in Caller : calls_[c] = NoCall_
  BY DEF RouterInit
<1>3. \A o : ~InUse(o)
  BY <1>2 DEF InUse, RouterInit
<1>4. \A id \in Vec : lastWrite[id] = [op |-> NoOp_, confirmed |-> FALSE]
  BY DEF RouterInit
<1>5. lastDdl = [op |-> NoOp_, answer |-> "none"] /\ ops = 0
  BY DEF RouterInit
<1>6. NoOp_.num = 0 /\ NoOp_.kind = "none"
  BY DEF NoOp_, Op
<1>7. RouterTypeOK
  <2>1. lastWrite \in [Vec -> [op : RouterOp \cup {NoOp_}, confirmed : BOOLEAN]]
    BY DEF RouterInit
  <2>2. vecs \in [Group -> [Vec -> Nat]]
    BY DEF RouterInit
  <2>. QED
    BY <1>2, <1>5, <2>1, <2>2 DEF RouterTypeOK, RouterInit
<1>8. Numbered
  BY <1>2, <1>3, <1>4, <1>5, <1>6 DEF Numbered
<1>9. Placed
  BY DEF Placed, RouterInit
<1>10. Undisturbed
  BY <1>3, <1>4, <1>5 DEF Undisturbed
<1>11. WriteHolds
  BY <1>2, <1>4 DEF WriteHolds
<1>12. DdlHolds
  BY <1>2, <1>5, <1>6 DEF DdlHolds
<1>. QED
  BY <1>1, <1>7, <1>8, <1>9, <1>10, <1>11, <1>12 DEF RouterInv

LEMMA RouterNextInv == RouterInv /\ [RouterNext]_routerVars => RouterInv'
<1>. SUFFICES ASSUME RouterInv, [RouterNext]_routerVars
              PROVE  RouterInv'
  OBVIOUS
<1>1. CASE UNCHANGED routerVars
  <2>1. UNCHANGED <<placement, exists, vecs, calls_, inFlight, lastWrite, lastDdl, mixed, ops>>
    BY <1>1 DEF routerVars
  <2>2. /\ Group' = Group /\ Tiled'
        /\ \A h : owner(h)' = owner(h)
        /\ \A p : Addressed(p)' = Addressed(p)
        /\ \A p, h, id : After(p, h, id)' = After(p, h, id)
    BY <2>1, PlacementStays DEF RouterInv
  <2>3. RouterTypeOK'
    <3>1. (\A d \in inFlight : d = <<d[1], d[2]>> /\ d[2] \in RouterOp /\ d[1] \in Addressed(d[2]))'
      BY <2>1, <2>2 DEF RouterInv, RouterTypeOK
    <3>2. (\A d \in Caller : calls_[d] # NoCall_ => CallTyped(calls_[d]))'
      BY <2>1, <2>2 DEF RouterInv, RouterTypeOK, CallTyped
    <3>. QED
      BY <2>1, <2>2, <3>1, <3>2 DEF RouterInv, RouterTypeOK
  <2>4. \A p : InUse(p)' => InUse(p)
    BY <2>1 DEF InUse
  <2>5. Numbered' /\ Undisturbed'
    BY <2>1, <2>4, NoNewRequest DEF RouterInv
  <2>6. Placed'
    BY <2>1, <2>2 DEF RouterInv, Placed
  <2>7. WriteHolds'
    BY <2>1, <2>2 DEF RouterInv, WriteHolds
  <2>8. DdlHolds'
    BY <2>1, <2>2 DEF RouterInv, DdlHolds
  <2>. QED
    BY <2>2, <2>3, <2>5, <2>6, <2>7, <2>8 DEF RouterInv
<1>2. ASSUME NEW c \in Caller, NEW kind \in {"create", "drop", "delete_by_filter"},
             Forward(c, Op(kind, ops + 1, Vec))
      PROVE  RouterInv'
  <2>1. ops \in Nat
    BY DEF RouterInv, RouterTypeOK
  <2>2. PICK n \in Nat : n = ops + 1
    BY <2>1
  <2>3. [kind |-> kind, num |-> n, ids |-> Vec] \in RouterOp
    BY <2>1 DEF RouterOp
  <2>4. PICK rq \in RouterOp : rq = Op(kind, ops + 1, Vec) /\ rq.num = ops + 1
    BY <2>2, <2>3 DEF Op
  <2>. QED
    BY <1>2, <2>4, ForwardKeeps
<1>3. ASSUME NEW c \in Caller, NEW kind \in {"upsert", "delete"}, NEW ids \in Batches,
             Forward(c, Op(kind, ops + 1, ids))
      PROVE  RouterInv'
  <2>1. ops \in Nat /\ ids \in SUBSET Vec
    BY RouterAssumption DEF RouterInv, RouterTypeOK
  <2>2. PICK n \in Nat : n = ops + 1
    BY <2>1
  <2>3. [kind |-> kind, num |-> n, ids |-> ids] \in RouterOp
    BY <2>1 DEF RouterOp
  <2>4. PICK rq \in RouterOp : rq = Op(kind, ops + 1, ids) /\ rq.num = ops + 1
    BY <2>2, <2>3 DEF Op
  <2>. QED
    BY <1>3, <2>4, ForwardKeeps
<1>4. CASE RouterNext
  BY <1>2, <1>3, <1>4, AnswersKeeps, UnconfirmedKeeps, GivesUpKeeps, RouterRepliesKeeps, LateExecutionKeeps
     DEF RouterNext
<1>. QED
  BY <1>1, <1>4

\* What the router answers is true of all groups, for every placement that validate lets pass or that
\* uniform makes, every number of groups, of threads and of vectors, and every interleaving of calls
\* that are answered, lost, executed late and tried again: the range a vector hashes into has one
\* group, which has the last confirmed write of it and no other group has any; and a create or drop
\* that was answered holds on every group.
THEOREM RouterAnswersHold == RouterSpec => []RoutedAndStored
<1>1. RouterInv => RoutedAndStored
  <2>. SUFFICES ASSUME RouterInv
                PROVE  RoutedAndStored
    OBVIOUS
  <2>1. OneOwner
    BY TiledOnce DEF RouterInv
  <2>2. ConfirmedIsStored
    <3>. SUFFICES ASSUME NEW id \in Vec, lastWrite[id].confirmed, lastWrite[id].op.num \notin mixed,
                         NEW g \in Group
                  PROVE  vecs[g][id] = IF lastWrite[id].op.kind = "upsert" /\ IsHome(g, id)
                                       THEN lastWrite[id].op.num ELSE 0
      BY DEF ConfirmedIsStored
    <3>1. vecs[g][id] = After(lastWrite[id].op, g, id)
      BY DEF RouterInv, WriteHolds
    <3>2. IsHome(g, id) <=> g = owner(HashOf[id])
      BY HomeIsOwner DEF RouterInv
    <3>. QED
      BY <3>1, <3>2 DEF After
  <2>3. DdlOnEveryGroup
    BY DEF RouterInv, DdlHolds, DdlOnEveryGroup
  <2>. QED
    BY <2>1, <2>2, <2>3 DEF RoutedAndStored
<1>. QED
  BY <1>1, RouterInitInv, RouterNextInv, PTL DEF RouterSpec

-----------------------------------------------------------------------------
\* The collection that the apply threads of all nodes feed.

UltraTypeOK ==
    /\ logOf \in Seq(Seq(Nat)) /\ accepts \in SUBSET (1..Len(logOf))
    /\ chosen \in Seq(Nat)
    /\ lastApplied \in [Member -> Nat]
    /\ applied_index_ \in Nat
    /\ underlying_ \in Seq(Nat)
    /\ wait \in [User -> [num : Nat, idx : Nat]]
    /\ confirmed \in SUBSET [num : Nat, idx : Nat]
    /\ written \in Nat

\* The newest leader has what is committed.
NewestHasChosen ==
    /\ logOf = <<>> => chosen = <<>>
    /\ logOf # <<>> => /\ Len(chosen) <= Len(logOf[Len(logOf)])
                       /\ \A k \in 1..Len(chosen) : chosen[k] = logOf[Len(logOf)][k]

\* A node has left no entry behind that is not applied, unless its application threw.
PassedIsApplied ==
    \A n \in Member :
        /\ lastApplied[n] <= Len(chosen)
        /\ \A k \in 1..lastApplied[n] : chosen[k] = NoOpEntry \/ k <= applied_index_ \/ k \in threw

\* at[j] is the index of the entry that the collection applied as its j-th.
Ordered(at) ==
    /\ at \in [1..Len(underlying_) -> 1..applied_index_]
    /\ \A j, k \in 1..Len(underlying_) : j < k => at[j] < at[k]
    /\ \A j \in 1..Len(underlying_) : underlying_[j] = chosen[at[j]] /\ chosen[at[j]] # NoOpEntry
    /\ \A k \in 1..applied_index_ :
          chosen[k] = NoOpEntry \/ k \in threw \/ \E j \in 1..Len(underlying_) : at[j] = k

InOrder == applied_index_ <= Len(chosen) /\ \E at : Ordered(at)

Awaits ==
    /\ \A u \in User : wait[u] # NoWait => wait[u].num > 0 /\ wait[u].idx > 0
    /\ \A c \in confirmed : c.num > 0 /\ c.idx > 0

UltraInv ==
    UltraTypeOK /\ NewestHasChosen /\ PassedIsApplied /\ InOrder /\ Awaits /\ ConfirmedIsApplied

\* The committed entries stay, others come behind them.
ChosenGrows ==
    /\ chosen' \in Seq(Nat) /\ Len(chosen) <= Len(chosen')
    /\ \A k \in 1..Len(chosen) : chosen'[k] = chosen[k]

LEMMA PrefixIs ==
    ASSUME NEW s \in Seq(Nat), NEW t \in Seq(Nat), IsPrefix(s, t)
    PROVE  Len(s) <= Len(t) /\ \A k \in 1..Len(s) : s[k] = t[k]
<1>1. Len(s) <= Len(t) /\ SubSeq(s, 1, Len(s)) = SubSeq(t, 1, Len(s))
  BY DEF IsPrefix
<1>2. ASSUME NEW k \in 1..Len(s)
      PROVE  s[k] = t[k]
  <2>1. SubSeq(s, 1, Len(s))[k] = s[k] /\ SubSeq(t, 1, Len(s))[k] = t[k]
    BY <1>1
  <2>. QED
    BY <1>1, <2>1
<1>. QED
  BY <1>1, <1>2

\* A step of Raft's that leaves the collection alone.
LEMMA GrowthKeeps ==
    ASSUME UltraInv, ChosenGrows, UNCHANGED <<lastApplied, applied_index_, underlying_, confirmed, threw>>
    PROVE  PassedIsApplied' /\ InOrder' /\ ConfirmedIsApplied'
<1>1. PassedIsApplied'
  <2>1. SUFFICES ASSUME NEW n \in Member
                 PROVE  /\ lastApplied[n] <= Len(chosen')
                        /\ \A k \in 1..lastApplied[n] :
                              chosen'[k] = NoOpEntry \/ k <= applied_index_ \/ k \in threw
    BY DEF PassedIsApplied
  <2>2. /\ lastApplied[n] <= Len(chosen)
        /\ \A k \in 1..lastApplied[n] : chosen[k] = NoOpEntry \/ k <= applied_index_ \/ k \in threw
    BY DEF UltraInv, PassedIsApplied
  <2>3. /\ lastApplied[n] \in Nat /\ Len(chosen) \in Nat /\ Len(chosen') \in Nat
        /\ Len(chosen) <= Len(chosen') /\ \A k \in 1..Len(chosen) : chosen'[k] = chosen[k]
    BY DEF UltraInv, UltraTypeOK, ChosenGrows
  <2>. QED
    BY <2>2, <2>3
<1>. USE DEF UltraInv, UltraTypeOK, ChosenGrows
<1>2. InOrder'
  <2>1. PICK at : Ordered(at)
    BY DEF InOrder
  <2>2. Ordered(at)'
    <3>1. \A j \in 1..Len(underlying_) : at[j] \in 1..Len(chosen)
      <4>1. \A j \in 1..Len(underlying_) : at[j] \in 1..applied_index_
        BY <2>1 DEF Ordered
      <4>2. applied_index_ <= Len(chosen)
        BY DEF InOrder
      <4>. QED
        BY <4>1, <4>2
    <3>2. \A k \in 1..applied_index_ : k \in 1..Len(chosen)
      BY DEF InOrder
    <3>. QED
      BY <2>1, <3>1, <3>2 DEF Ordered
  <2>3. applied_index_' <= Len(chosen')
    BY DEF InOrder
  <2>. QED
    BY <2>2, <2>3 DEF InOrder
<1>3. ConfirmedIsApplied'
  <2>. SUFFICES ASSUME NEW c \in confirmed
                PROVE  \/ \E j \in DOMAIN underlying_ : underlying_[j] = c.num
                       \/ c.idx <= Len(chosen') /\ chosen'[c.idx] # c.num
                       \/ c.idx \in threw
    BY DEF ConfirmedIsApplied
  <2>1. c.idx > 0 /\ c.idx \in Nat
    BY DEF Awaits
  <2>2. \/ \E j \in DOMAIN underlying_ : underlying_[j] = c.num
        \/ c.idx <= Len(chosen) /\ chosen[c.idx] # c.num
        \/ c.idx \in threw
    BY DEF ConfirmedIsApplied
  <2>3. c.idx <= Len(chosen) => c.idx \in 1..Len(chosen) /\ c.idx <= Len(chosen')
    BY <2>1
  <2>. QED
    BY <2>2, <2>3
<1>. QED
  BY <1>1, <1>2, <1>3

-----------------------------------------------------------------------------
LEMMA LeadersKeep ==
    ASSUME UltraInv, NewLeader \/ StepsDown \/ Commits
    PROVE  UltraInv'
<1>. USE DEF UltraInv
<1>1. CASE NewLeader
  <2>1. PICK base \in {chosen} \cup {logOf[t] : t \in {u \in DOMAIN logOf : IsPrefix(chosen, logOf[u])}} :
            logOf' = Append(logOf, Append(base, NoOpEntry))
    BY <1>1 DEF NewLeader
  <2>2. base \in Seq(Nat) /\ Len(chosen) <= Len(base) /\ \A k \in 1..Len(chosen) : base[k] = chosen[k]
    <3>1. CASE base = chosen
      BY <3>1 DEF UltraTypeOK
    <3>2. CASE base # chosen
      <4>1. PICK t \in DOMAIN logOf : base = logOf[t] /\ IsPrefix(chosen, logOf[t])
        BY <2>1, <3>2
      <4>2. logOf[t] \in Seq(Nat) /\ chosen \in Seq(Nat)
        BY <4>1 DEF UltraTypeOK
      <4>. QED
        BY <4>1, <4>2, PrefixIs
    <3>. QED
      BY <3>1, <3>2
  <2>3. PICK l \in Seq(Nat) : /\ l = Append(base, NoOpEntry)
                              /\ Len(chosen) <= Len(l) /\ \A k \in 1..Len(chosen) : l[k] = chosen[k]
    <3>1. /\ Append(base, NoOpEntry) \in Seq(Nat) /\ Len(Append(base, NoOpEntry)) = Len(base) + 1
          /\ \A k \in 1..Len(base) : Append(base, NoOpEntry)[k] = base[k]
      BY <2>2, AppendProperties DEF NoOpEntry
    <3>2. Len(base) \in Nat /\ Len(chosen) \in Nat
      BY <2>2 DEF UltraTypeOK
    <3>3. Len(chosen) <= Len(base) + 1 /\ \A k \in 1..Len(chosen) : k \in 1..Len(base)
      BY <2>2, <3>2
    <3>4. /\ Len(chosen) <= Len(Append(base, NoOpEntry))
          /\ \A k \in 1..Len(chosen) : Append(base, NoOpEntry)[k] = base[k]
      BY <3>1, <3>3
    <3>. QED
      BY <2>2, <3>1, <3>4
  <2>4. /\ logOf' \in Seq(Seq(Nat)) /\ Len(logOf') = Len(logOf) + 1 /\ logOf'[Len(logOf')] = l
    BY <2>1, <2>3 DEF UltraTypeOK
  <2>5. accepts' \in SUBSET (1..Len(logOf'))
    BY <1>1, <2>4 DEF NewLeader, UltraTypeOK
  <2>6. /\ UNCHANGED <<chosen, lastApplied, applied_index_, underlying_, confirmed, threw, wait, written>>
        /\ ChosenGrows
    BY <1>1 DEF NewLeader, ChosenGrows, UltraTypeOK
  <2>7. NewestHasChosen'
    <3>1. logOf' # <<>>
      BY <2>4 DEF UltraTypeOK
    <3>2. chosen' = chosen /\ logOf'[Len(logOf')] = l
      BY <2>4, <2>6
    <3>. QED
      BY <2>3, <3>1, <3>2 DEF NewestHasChosen
  <2>8. UltraTypeOK'
    BY <2>4, <2>5, <2>6 DEF UltraTypeOK
  <2>9. Awaits'
    BY <2>6 DEF Awaits
  <2>. QED
    BY <2>6, <2>7, <2>8, <2>9, GrowthKeeps
<1>2. CASE StepsDown
  <2>1. /\ UNCHANGED <<logOf, chosen, lastApplied, applied_index_, underlying_, confirmed, threw, wait, written>>
        /\ accepts' \subseteq accepts /\ ChosenGrows
    BY <1>2 DEF StepsDown, ChosenGrows, UltraTypeOK
  <2>2. UltraTypeOK' /\ NewestHasChosen' /\ Awaits'
    BY <2>1 DEF UltraTypeOK, NewestHasChosen, Awaits
  <2>. QED
    BY <2>1, <2>2, GrowthKeeps
<1>3. CASE Commits
  <2>1. PICK l \in Seq(Nat) : /\ l = logOf[Len(logOf)] /\ logOf # <<>> /\ Last(logOf) = l
                              /\ Len(chosen) <= Len(l) /\ \A k \in 1..Len(chosen) : chosen[k] = l[k]
    BY <1>3 DEF Commits, UltraTypeOK, NewestHasChosen, Last
  <2>2. PICK n \in (Len(chosen) + 1)..Len(l) : chosen' = SubSeq(l, 1, n)
    BY <1>3, <2>1 DEF Commits
  <2>3. Len(chosen) \in Nat /\ n \in Nat /\ n <= Len(l) /\ n > Len(chosen)
    BY <2>1, <2>2 DEF UltraTypeOK
  <2>4. chosen' \in Seq(Nat) /\ Len(chosen') = n /\ \A k \in 1..n : chosen'[k] = l[k]
    BY <2>1, <2>2, <2>3
  <2>5. ChosenGrows
    <3>1. Len(chosen) <= n /\ \A k \in 1..Len(chosen) : k \in 1..n
      BY <2>3
    <3>. QED
      BY <2>1, <2>4, <3>1 DEF ChosenGrows
  <2>6. UNCHANGED <<logOf, accepts, lastApplied, applied_index_, underlying_, confirmed, threw, wait, written>>
    BY <1>3 DEF Commits
  <2>7. UltraTypeOK' /\ Awaits'
    BY <2>4, <2>6 DEF UltraTypeOK, Awaits
  <2>8. NewestHasChosen'
    BY <2>1, <2>3, <2>4, <2>6 DEF NewestHasChosen
  <2>. QED
    BY <2>5, <2>6, <2>7, <2>8, GrowthKeeps
<1>. QED
  BY <1>1, <1>2, <1>3

LEMMA WritersKeep ==
    ASSUME UltraInv, NEW u \in User, SubmitWrite(u) \/ Confirm(u) \/ WaitFails(u)
    PROVE  UltraInv'
<1>. USE DEF UltraInv
<1>1. CASE SubmitWrite(u)
  <2>1. PICK t \in accepts :
            /\ logOf' = [logOf EXCEPT ![t] = Append(@, written + 1)]
            /\ wait' = [wait EXCEPT ![u] = [num |-> written + 1, idx |-> Len(logOf[t]) + 1]]
    BY <1>1 DEF SubmitWrite
  <2>2. /\ t \in 1..Len(logOf) /\ logOf[t] \in Seq(Nat) /\ written \in Nat
        /\ UNCHANGED <<accepts, chosen, lastApplied, applied_index_, underlying_, confirmed, threw>>
        /\ written' = written + 1 /\ ChosenGrows
    BY <1>1, <2>1 DEF SubmitWrite, ChosenGrows, UltraTypeOK
  <2>3. PICK l \in Seq(Nat) : /\ l = Append(logOf[t], written + 1)
                              /\ Len(l) = Len(logOf[t]) + 1 /\ \A k \in 1..Len(logOf[t]) : l[k] = logOf[t][k]
    <3>1. written + 1 \in Nat
      BY <2>2
    <3>2. /\ Append(logOf[t], written + 1) \in Seq(Nat)
          /\ Len(Append(logOf[t], written + 1)) = Len(logOf[t]) + 1
          /\ \A k \in 1..Len(logOf[t]) : Append(logOf[t], written + 1)[k] = logOf[t][k]
      BY <2>2, <3>1, AppendProperties
    <3>. QED
      BY <3>2
  <2>4. logOf' = [logOf EXCEPT ![t] = l] /\ Len(logOf[t]) \in Nat
    BY <2>1, <2>2, <2>3
  <2>5. logOf' \in Seq(Seq(Nat)) /\ Len(logOf') = Len(logOf)
        /\ \A k \in 1..Len(logOf) : logOf'[k] = IF k = t THEN l ELSE logOf[k]
    BY <2>2, <2>4 DEF UltraTypeOK
  <2>6. NewestHasChosen'
    <3>1. logOf # <<>> /\ logOf' # <<>> /\ Len(logOf) \in 1..Len(logOf) /\ Len(chosen) \in Nat
      BY <2>2, <2>5 DEF UltraTypeOK
    <3>2. logOf'[Len(logOf')] = IF Len(logOf) = t THEN l ELSE logOf[Len(logOf)]
      BY <2>5, <3>1
    <3>3. Len(chosen) <= Len(logOf[Len(logOf)]) /\ \A k \in 1..Len(chosen) : chosen[k] = logOf[Len(logOf)][k]
      BY <3>1 DEF NewestHasChosen
    <3>4. CASE Len(logOf) = t
      BY <2>2, <2>3, <2>4, <3>1, <3>2, <3>3, <3>4 DEF NewestHasChosen
    <3>5. CASE Len(logOf) # t
      BY <2>2, <3>1, <3>2, <3>3, <3>5 DEF NewestHasChosen
    <3>. QED
      BY <3>4, <3>5
  <2>7. wait' \in [User -> [num : Nat, idx : Nat]]
        /\ \A x \in User : wait'[x] = IF x = u THEN [num |-> written + 1, idx |-> Len(logOf[t]) + 1] ELSE wait[x]
    BY <2>1, <2>2, <2>4 DEF UltraTypeOK
  <2>8. UltraTypeOK'
    BY SMTT(30), <2>2, <2>5, <2>7 DEF UltraTypeOK
  <2>9. Awaits'
    <3>1. written + 1 > 0 /\ Len(logOf[t]) + 1 > 0
      BY <2>2, <2>4
    <3>2. \A x \in User : wait'[x] # NoWait => wait'[x].num > 0 /\ wait'[x].idx > 0
      BY <2>7, <3>1 DEF Awaits
    <3>. QED
      BY <2>2, <3>2 DEF Awaits
  <2>. QED
    BY <2>2, <2>6, <2>8, <2>9, GrowthKeeps
<1>2. CASE Confirm(u)
  <2>1. /\ wait[u] # NoWait /\ wait[u].idx <= applied_index_ /\ applied_index_ \in Nat
        /\ confirmed' = confirmed \cup {wait[u]} /\ wait' = [wait EXCEPT ![u] = NoWait]
        /\ wait[u] \in [num : Nat, idx : Nat]
        /\ UNCHANGED <<logOf, accepts, chosen, lastApplied, applied_index_, underlying_, written, threw>>
    BY <1>2 DEF Confirm, Reached, UltraTypeOK
  <2>2. PICK w \in [num : Nat, idx : Nat] : w = wait[u] /\ w.num > 0 /\ w.idx > 0 /\ w.idx <= applied_index_
    BY <2>1 DEF Awaits
  <2>3. UltraTypeOK'
    BY <2>1 DEF UltraTypeOK, NoWait
  <2>4. NewestHasChosen' /\ PassedIsApplied' /\ InOrder'
    BY SMTT(30), <2>1 DEF NewestHasChosen, PassedIsApplied, InOrder, Ordered
  <2>5. Awaits'
    BY <2>1, <2>2 DEF Awaits, UltraTypeOK
  <2>6. ConfirmedIsApplied'
    <3>1. \/ \E j \in DOMAIN underlying_ : underlying_[j] = w.num
          \/ w.idx <= Len(chosen) /\ chosen[w.idx] # w.num
          \/ w.idx \in threw
      <4>1. PICK at : Ordered(at)
        BY DEF InOrder
      <4>2. w.idx \in 1..applied_index_ /\ w.idx <= Len(chosen)
        BY <2>1, <2>2 DEF InOrder, UltraTypeOK
      <4>3. \/ chosen[w.idx] = NoOpEntry \/ w.idx \in threw
            \/ \E j \in 1..Len(underlying_) : underlying_[j] = chosen[w.idx]
        BY <4>1, <4>2 DEF Ordered
      <4>. QED
        BY <2>2, <4>2, <4>3 DEF NoOpEntry, UltraTypeOK
    <3>. QED
      BY <2>1, <2>2, <3>1 DEF ConfirmedIsApplied
  <2>. QED
    BY <2>3, <2>4, <2>5, <2>6
<1>3. CASE WaitFails(u)
  <2>1. /\ wait' = [wait EXCEPT ![u] = NoWait] /\ ChosenGrows
        /\ UNCHANGED <<logOf, accepts, chosen, lastApplied, applied_index_, underlying_, confirmed, written, threw>>
    BY <1>3 DEF WaitFails, ChosenGrows, UltraTypeOK
  <2>2. UltraTypeOK'
    BY <2>1 DEF UltraTypeOK, NoWait
  <2>3. NewestHasChosen'
    BY <2>1 DEF NewestHasChosen
  <2>4. Awaits'
    BY <2>1 DEF Awaits, UltraTypeOK
  <2>. QED
    BY <2>1, <2>2, <2>3, <2>4, GrowthKeeps
<1>. QED
  BY <1>1, <1>2, <1>3

\* The apply thread of one node.
LEMMA AppliersKeep ==
    ASSUME UltraInv, NEW n \in Member, PassEntry(n) \/ ApplyEntryOf(n) \/ ApplyThrows(n)
    PROVE  UltraInv'
<1>. USE DEF UltraInv
<1>1. /\ lastApplied[n] < Len(chosen) /\ lastApplied' = [lastApplied EXCEPT ![n] = @ + 1]
      /\ UNCHANGED <<logOf, accepts, chosen, wait, confirmed, written>>
  BY DEF PassEntry, ApplyEntryOf, ApplyThrows
<1>2. PICK i \in 1..Len(chosen) : i = lastApplied[n] + 1
  BY <1>1 DEF UltraTypeOK
<1>3. /\ lastApplied' \in [Member -> Nat]
      /\ \A m \in Member : lastApplied'[m] = IF m = n THEN i ELSE lastApplied[m]
  BY <1>1, <1>2 DEF UltraTypeOK
<1>4. NewestHasChosen' /\ Awaits'
  BY <1>1 DEF NewestHasChosen, Awaits
<1>5. \A k \in 1..(i - 1) : chosen[k] = NoOpEntry \/ k <= applied_index_ \/ k \in threw
  BY <1>2 DEF PassedIsApplied, UltraTypeOK
<1>6. \A k \in 1..i : k \in 1..(i - 1) \/ k = i
  OBVIOUS
<1>7. CASE PassEntry(n)
  <2>1. /\ chosen[i] = NoOpEntry \/ i <= applied_index_
        /\ UNCHANGED <<applied_index_, underlying_, threw>>
    BY <1>2, <1>7 DEF PassEntry, AppliedBefore
  <2>2. PassedIsApplied'
    BY <1>1, <1>3, <1>5, <1>6, <2>1 DEF PassedIsApplied
  <2>3. UltraTypeOK'
    BY <1>1, <1>3, <2>1 DEF UltraTypeOK
  <2>4. InOrder'
    BY <1>1, <2>1 DEF InOrder, Ordered
  <2>5. ConfirmedIsApplied'
    BY <1>1, <2>1 DEF ConfirmedIsApplied
  <2>. QED
    BY <1>4, <2>2, <2>3, <2>4, <2>5
<1>8. CASE ApplyThrows(n)
  <2>1. threw' = threw \cup {i} /\ UNCHANGED <<applied_index_, underlying_>>
    BY <1>2, <1>8 DEF ApplyThrows
  <2>2. PassedIsApplied'
    BY <1>1, <1>3, <1>5, <1>6, <2>1 DEF PassedIsApplied
  <2>3. UltraTypeOK'
    BY <1>1, <1>3, <2>1 DEF UltraTypeOK
  <2>4. InOrder' /\ ConfirmedIsApplied'
    BY <1>1, <2>1 DEF InOrder, Ordered, ConfirmedIsApplied
  <2>. QED
    BY <1>4, <2>2, <2>3, <2>4
<1>9. CASE ApplyEntryOf(n)
  <2>1. /\ chosen[i] # NoOpEntry /\ i > applied_index_ /\ applied_index_' = i
        /\ underlying_' = Append(underlying_, chosen[i]) /\ UNCHANGED threw
    BY <1>2, <1>9 DEF ApplyEntryOf, AppliedBefore, UltraTypeOK
  <2>2. PICK len \in Nat : len = Len(underlying_)
    BY DEF UltraTypeOK
  <2>3. /\ underlying_' \in Seq(Nat) /\ Len(underlying_') = len + 1 /\ underlying_'[len + 1] = chosen[i]
        /\ \A j \in 1..len : underlying_'[j] = underlying_[j]
    BY <2>1, <2>2 DEF UltraTypeOK
  <2>4. UltraTypeOK'
    BY <1>1, <1>3, <2>1, <2>3 DEF UltraTypeOK
  <2>5. PassedIsApplied'
    <3>1. \A k \in Nat : k <= applied_index_ => k <= i
      BY <2>1 DEF UltraTypeOK
    <3>. QED
      BY <1>1, <1>3, <2>1, <3>1 DEF PassedIsApplied, UltraTypeOK
  <2>6. InOrder'
    <3>1. PICK at : Ordered(at)
      BY DEF InOrder
    <3>. DEFINE more == [j \in 1..(len + 1) |-> IF j = len + 1 THEN i ELSE at[j]]
    <3>2. \A j \in 1..len : at[j] \in 1..applied_index_ /\ at[j] < i /\ at[j] \in 1..i
      <4>1. \A j \in 1..len : at[j] \in 1..applied_index_
        BY <2>2, <3>1 DEF Ordered
      <4>2. applied_index_ \in Nat /\ applied_index_ < i
        BY <2>1 DEF UltraTypeOK
      <4>. QED
        BY <4>1, <4>2
    <3>3. /\ more \in [1..(len + 1) -> 1..i] /\ more[len + 1] = i
          /\ \A j \in 1..len : more[j] = at[j]
      BY <2>2, <3>2
    <3>4. \A j \in 1..(len + 1) : j = len + 1 \/ (j \in 1..len /\ j < len + 1)
      BY <2>2
    <3>. HIDE DEF more
    <3>5. \A j, k \in 1..(len + 1) : j < k => more[j] < more[k]
      <4>1. SUFFICES ASSUME NEW j \in 1..(len + 1), NEW k \in 1..(len + 1), j < k
                     PROVE  more[j] < more[k]
        OBVIOUS
      <4>2. j \in 1..len
        BY <2>2, <4>1
      <4>3. CASE k = len + 1
        BY <3>2, <3>3, <4>2, <4>3
      <4>4. CASE k \in 1..len
        BY <2>2, <3>1, <3>3, <4>1, <4>2, <4>4 DEF Ordered
      <4>. QED
        BY <3>4, <4>3, <4>4
    <3>6. \A j \in 1..(len + 1) : underlying_'[j] = chosen[more[j]] /\ chosen[more[j]] # NoOpEntry
      BY <2>1, <2>2, <2>3, <3>1, <3>3, <3>4 DEF Ordered
    <3>7. ASSUME NEW k \in 1..i
          PROVE  chosen[k] = NoOpEntry \/ k \in threw \/ \E j \in 1..(len + 1) : more[j] = k
      <4>1. CASE k = i
        BY <2>2, <3>3, <4>1
      <4>2. CASE k <= applied_index_
        <5>1. k \in 1..applied_index_ /\ (1..len) \subseteq (1..(len + 1))
          BY <4>2, <2>2 DEF UltraTypeOK
        <5>. QED
          BY <2>2, <3>1, <3>3, <5>1 DEF Ordered
      <4>3. CASE k # i /\ ~(k <= applied_index_)
        BY <1>5, <1>6, <4>3
      <4>. QED
        BY <4>1, <4>2, <4>3
    <3>8. Ordered(more)'
      <4>1. Len(underlying_') = len + 1 /\ applied_index_' = i /\ chosen' = chosen /\ threw' = threw
        BY <1>1, <2>1, <2>3
      <4>. QED
        BY <3>3, <3>5, <3>6, <3>7, <4>1 DEF Ordered
    <3>9. applied_index_' <= Len(chosen')
      BY <1>1, <2>1
    <3>. QED
      BY <3>8, <3>9 DEF InOrder
  <2>7. ConfirmedIsApplied'
    <3>1. \A j \in 1..len : j \in 1..(len + 1)
      BY <2>2
    <3>. QED
      BY <1>1, <2>1, <2>2, <2>3, <3>1 DEF ConfirmedIsApplied, UltraTypeOK
  <2>. QED
    BY <1>4, <2>4, <2>5, <2>6, <2>7
<1>. QED
  BY <1>7, <1>8, <1>9

LEMMA UltraInitInv == UltraInit => UltraInv
<1>. SUFFICES ASSUME UltraInit
              PROVE  UltraInv
  OBVIOUS
<1>. USE DEF UltraInit
<1>1. UltraTypeOK
  BY DEF UltraTypeOK, NoWait
<1>2. NewestHasChosen /\ PassedIsApplied /\ Awaits /\ ConfirmedIsApplied
  BY DEF NewestHasChosen, PassedIsApplied, Awaits, ConfirmedIsApplied
<1>3. InOrder
  <2>1. Ordered([j \in {} |-> 0])
    BY DEF Ordered
  <2>. QED
    BY <2>1 DEF InOrder
<1>. QED
  BY <1>1, <1>2, <1>3 DEF UltraInv

LEMMA UltraNextInv == UltraInv /\ [UltraNext]_ultraVars => UltraInv'
<1>. SUFFICES ASSUME UltraInv, [UltraNext]_ultraVars
              PROVE  UltraInv'
  OBVIOUS
<1>1. CASE UNCHANGED ultraVars
  <2>1. ChosenGrows /\ UNCHANGED <<logOf, accepts, chosen, lastApplied, applied_index_, underlying_, wait,
                                   confirmed, written, threw>>
    BY <1>1 DEF ultraVars, ChosenGrows, UltraInv, UltraTypeOK
  <2>2. UltraTypeOK' /\ NewestHasChosen' /\ Awaits'
    BY <2>1 DEF UltraInv, UltraTypeOK, NewestHasChosen, Awaits
  <2>. QED
    BY <2>1, <2>2, GrowthKeeps DEF UltraInv
<1>2. CASE UltraNext
  BY <1>2, LeadersKeep, WritersKeep, AppliersKeep DEF UltraNext
<1>. QED
  BY <1>1, <1>2

\* Writes are applied once, in order, and before they are confirmed, for any number of nodes whose
\* apply threads feed one collection, of leaders that overwrite each other's entries, of writers, and
\* of entries whose application throws.
THEOREM UltraWritesAreSeen == UltraSpec => []AppliedOnceAndSeen
<1>1. UltraInv => AppliedOnceAndSeen
  <2>. SUFFICES ASSUME UltraInv
                PROVE  AppliedInOrder
    BY DEF AppliedOnceAndSeen, UltraInv
  <2>1. DOMAIN underlying_ = 1..Len(underlying_)
    BY DEF UltraInv, UltraTypeOK
  <2>2. PICK at : Ordered(at)
    BY DEF UltraInv, InOrder
  <2>3. applied_index_ <= Len(chosen)
    BY DEF UltraInv, InOrder
  <2>4. /\ at \in [DOMAIN underlying_ -> 1..applied_index_]
        /\ \A j, k \in DOMAIN underlying_ : j < k => at[j] < at[k]
        /\ \A j \in DOMAIN underlying_ : underlying_[j] = chosen[at[j]] /\ chosen[at[j]] # NoOpEntry
        /\ \A k \in 1..applied_index_ :
              chosen[k] = NoOpEntry \/ k \in threw \/ \E j \in DOMAIN underlying_ : at[j] = k
    BY <2>1, <2>2 DEF Ordered
  <2>. QED
    BY <2>3, <2>4 DEF AppliedInOrder
<1>. QED
  BY <1>1, UltraInitInv, UltraNextInv, PTL DEF UltraSpec

-----------------------------------------------------------------------------
\* ClusterState: what a replay of a shard's records computes.

Links == SUBSET (Vertex \X Vertex)
EdgeSet == SUBSET [src : Vertex, tgt : Vertex, type : {"UPDATES", "SUPERSEDED_BY"}]
ShardRecords ==
    [kind : {"upsert"}, id : Vertex, at : Nat] \cup [kind : {"delete"}, ids : SUBSET Vertex]
        \cup [kind : {"edges"}, edges : EdgeSet]

\* What Replayed goes through, up to the n-th record.
ReplaysAll(f, records, t, n) ==
    f = [k \in 0..n |-> IF k = 0 THEN NoVectors ELSE ReplayRecord(f[k - 1], records[k], t)]

LEMMA ReplaysAre ==
    ASSUME NEW n \in Nat, NEW f, NEW records, NEW t, ReplaysAll(f, records, t, n)
    PROVE  f[0] = NoVectors /\ \A k \in 1..n : f[k] = ReplayRecord(f[k - 1], records[k], t)
<1>1. \A k \in 0..n : f[k] = IF k = 0 THEN NoVectors ELSE ReplayRecord(f[k - 1], records[k], t)
  BY Zenon DEF ReplaysAll
<1>2. 0 \in 0..n /\ \A k \in 1..n : k \in 0..n /\ k # 0
  OBVIOUS
<1>. QED
  BY <1>1, <1>2

ReplaysTo(more, t, n, last) == \E g : ReplaysAll(g, more, t, n) /\ g[n] = last

LEMMA ReplaysLonger ==
    ASSUME NEW n \in Nat, NEW f, NEW records, NEW more, NEW t, ReplaysAll(f, records, t, n),
           \A k \in 1..n : more[k] = records[k]
    PROVE  ReplaysTo(more, t, n + 1, ReplayRecord(f[n], more[n + 1], t))
<1>1. f[0] = NoVectors /\ \A k \in 1..n : f[k] = ReplayRecord(f[k - 1], records[k], t)
  BY ReplaysAre
<1>. DEFINE g == [k \in 0..(n + 1) |-> IF k = n + 1 THEN ReplayRecord(f[n], more[n + 1], t) ELSE f[k]]
<1>2. DOMAIN g = 0..(n + 1) /\ g = [k \in 0..(n + 1) |-> g[k]]
  OBVIOUS
<1>3. n + 1 \in 0..(n + 1) /\ g[n + 1] = ReplayRecord(f[n], more[n + 1], t)
  OBVIOUS
<1>4. \A k \in 0..n : k \in 0..(n + 1) /\ k # n + 1 /\ g[k] = f[k]
  OBVIOUS
<1>. HIDE DEF g
<1>5. ASSUME NEW k \in 0..(n + 1) PROVE g[k] = IF k = 0 THEN NoVectors ELSE ReplayRecord(g[k - 1], more[k], t)
  <2>1. CASE k = 0
    BY <1>1, <1>4, <2>1
  <2>2. CASE k = n + 1
    <3>1. k # 0 /\ k - 1 = n /\ n \in 0..n
      BY <2>2
    <3>2. g[k - 1] = f[n]
      BY <1>4, <3>1
    <3>. QED
      BY <1>3, <2>2, <3>1, <3>2
  <2>3. CASE k # 0 /\ k # n + 1
    <3>1. k \in 1..n /\ k \in 0..n /\ k - 1 \in 0..n
      BY <2>3
    <3>2. g[k] = f[k] /\ g[k - 1] = f[k - 1] /\ more[k] = records[k]
      BY <1>4, <3>1
    <3>. QED
      BY <1>1, <2>3, <3>1, <3>2
  <2>. QED
    BY <2>1, <2>2, <2>3
<1>6. [k \in 0..(n + 1) |-> g[k]]
        = [k \in 0..(n + 1) |-> IF k = 0 THEN NoVectors ELSE ReplayRecord(g[k - 1], more[k], t)]
  BY <1>5
<1>7. ReplaysAll(g, more, t, n + 1)
  BY <1>2, <1>6 DEF ReplaysAll
<1>. QED
  BY <1>3, <1>7 DEF ReplaysTo

LEMMA ReplaysExist ==
    ASSUME NEW records, NEW t, NEW n \in Nat
    PROVE  \E f : ReplaysAll(f, records, t, n)
<1>. DEFINE P(m) == \E f : ReplaysAll(f, records, t, m)
            Bad == {m \in Nat : ~P(m)}
<1>1. P(0)
  <2>. DEFINE f == [k \in 0..0 |-> NoVectors]
  <2>1. \A k \in 0..0 : k = 0
    OBVIOUS
  <2>2. f = [k \in 0..0 |-> IF k = 0 THEN NoVectors ELSE ReplayRecord(f[k - 1], records[k], t)]
    BY <2>1
  <2>. HIDE DEF f
  <2>. QED
    BY <2>2 DEF ReplaysAll
<1>2. ASSUME NEW m \in Nat, P(m) PROVE P(m + 1)
  BY <1>2, ReplaysLonger DEF ReplaysTo
<1>. HIDE DEF P
<1>3. SUFFICES ASSUME NEW k \in Bad PROVE FALSE
  <2>1. P(n)
    BY <1>3
  <2>. QED
    BY <2>1 DEF P
<1>4. PICK m \in Bad : \A j \in Bad : m <= j
  <2>1. Bad \in SUBSET Nat
    OBVIOUS
  <2>. HIDE DEF Bad
  <2>. QED
    BY <2>1, <1>3, LeastNumber
<1>5. m \in Nat /\ ~P(m)
  OBVIOUS
<1>6. m # 0 /\ m - 1 \in Nat
  BY <1>1, <1>5
<1>7. P(m - 1)
  <2>1. m - 1 \notin Bad
    BY <1>4, <1>5, <1>6
  <2>. QED
    BY <1>6, <2>1
<1>. QED
  BY <1>2, <1>5, <1>6, <1>7

LEMMA ReplaysUnique ==
    ASSUME NEW records, NEW t, NEW n \in Nat, NEW f, NEW g,
           ReplaysAll(f, records, t, n), ReplaysAll(g, records, t, n)
    PROVE  f[n] = g[n]
<1>1. f[0] = NoVectors /\ \A k \in 1..n : f[k] = ReplayRecord(f[k - 1], records[k], t)
  BY ReplaysAre
<1>2. g[0] = NoVectors /\ \A k \in 1..n : g[k] = ReplayRecord(g[k - 1], records[k], t)
  BY ReplaysAre
<1>. DEFINE Bad == {k \in 0..n : f[k] # g[k]}
<1>3. SUFFICES ASSUME NEW k \in Bad PROVE FALSE
  BY <1>3
<1>4. PICK m \in Bad : \A j \in Bad : m <= j
  <2>1. Bad \in SUBSET Nat
    OBVIOUS
  <2>. HIDE DEF Bad
  <2>. QED
    BY <2>1, <1>3, LeastNumber
<1>5. m \in 1..n /\ f[m] # g[m]
  BY <1>1, <1>2
<1>6. m - 1 \in 0..n /\ m - 1 \notin Bad
  BY <1>4, <1>5
<1>7. f[m - 1] = g[m - 1]
  BY <1>6
<1>. QED
  BY <1>1, <1>2, <1>5, <1>7

LEMMA ReplayedIs ==
    ASSUME NEW records, NEW t, Len(records) \in Nat, NEW f, ReplaysAll(f, records, t, Len(records))
    PROVE  Replayed(records, t) = f[Len(records)]
<1>. DEFINE after == CHOOSE h : ReplaysAll(h, records, t, Len(records))
<1>1. ReplaysAll(after, records, t, Len(records))
  BY Zenon
<1>2. Replayed(records, t) = after[Len(records)]
  BY Zenon DEF Replayed, ReplaysAll
<1>. HIDE DEF after
<1>. QED
  BY <1>1, <1>2, ReplaysUnique

LEMMA ReplayedNone == ASSUME NEW t PROVE Replayed(<<>>, t) = NoVectors
<1>1. Len(<<>>) = 0
  OBVIOUS
<1>2. PICK f : ReplaysAll(f, <<>>, t, 0)
  BY ReplaysExist
<1>3. f[0] = NoVectors
  BY <1>2, ReplaysAre
<1>. QED
  BY <1>1, <1>2, <1>3, ReplayedIs

LEMMA ReplayedOneMore ==
    ASSUME NEW records \in Seq(ShardRecords), NEW r \in ShardRecords, NEW t
    PROVE  Replayed(Append(records, r), t) = ReplayRecord(Replayed(records, t), r, t)
<1>1. PICK n, more : n = Len(records) /\ more = Append(records, r)
  OBVIOUS
<1>2. n \in Nat /\ Len(more) = n + 1 /\ more[n + 1] = r /\ \A k \in 1..n : more[k] = records[k]
  BY <1>1
<1>3. PICK f : ReplaysAll(f, records, t, n)
  BY <1>2, ReplaysExist
<1>4. ReplaysTo(more, t, n + 1, ReplayRecord(f[n], more[n + 1], t))
  BY <1>2, <1>3, ReplaysLonger
<1>5. PICK g : ReplaysAll(g, more, t, n + 1) /\ g[n + 1] = ReplayRecord(f[n], more[n + 1], t)
  BY <1>4 DEF ReplaysTo
<1>6. Replayed(records, t) = f[n]
  BY <1>1, <1>2, <1>3, ReplayedIs
<1>7. Replayed(more, t) = g[n + 1]
  BY <1>2, <1>5, ReplayedIs
<1>. QED
  BY <1>1, <1>2, <1>5, <1>6, <1>7

-----------------------------------------------------------------------------
\* What a command does to a collection, and that it does the same wherever the same is visible.

Commands ==
    [op : {"upsert"}, id : Fact, at : Nat] \cup [op : {"delete"}, id : Fact] \cup [op : {"delete_where"}]

Indices == [Vertex -> Nat]

\* The second is what the first would be without purges.
Purged(x, y, t) == \A id \in Vertex : x[id] = y[id] \/ (x[id] = 0 /\ Expired(y[id], t))

LookAlike(x, t, y, u) == Visible(x, t) = Visible(y, u) /\ \A id \in Visible(x, t) : x[id] = y[id]

LEMMA PurgedLooksAlike ==
    ASSUME NEW x \in Indices, NEW y \in Indices, NEW t \in Nat, Purged(x, y, t)
    PROVE  LookAlike(x, t, y, t)
<1>1. Ttl \in Nat
  BY ClusterStateAssumption
<1>2. \A id \in Vertex : x[id] \in Nat /\ y[id] \in Nat
  BY DEF Indices
<1>3. ASSUME NEW id \in Vertex
      PROVE  /\ (x[id] > 0 /\ x[id] + Ttl >= t) <=> (y[id] > 0 /\ y[id] + Ttl >= t)
             /\ x[id] > 0 => x[id] = y[id]
  BY <1>1, <1>2 DEF Purged, Expired
<1>. QED
  BY <1>2, <1>3 DEF LookAlike, Visible

\* The same for a given configuration.
StoresBy(cfg, index, t) == ~(cfg.dedup /\ Visible(index, t) # {})

UpsertBy(cfg, index, id, at, t) == IF StoresBy(cfg, index, t) THEN [index EXCEPT ![id] = at] ELSE index

LinksBy(cfg, index, id, at, t) ==
    IF ~cfg.supersede THEN {}
    ELSE {IF index[other] <= at THEN <<id, other>> ELSE <<other, id>> : other \in Visible(index, t) \ {id}}

LEMMA ByConfig ==
    ASSUME NEW index, NEW t
    PROVE  /\ Stores(index, t) = StoresBy(config, index, t)
           /\ \A id, at : UpsertIn(index, id, at, t) = UpsertBy(config, index, id, at, t)
           /\ \A id, at : PlanLinks(index, id, at, t) = LinksBy(config, index, id, at, t)
BY DEF Stores, StoresBy, UpsertIn, UpsertBy, PlanLinks, LinksBy

LEMMA SameDecisions ==
    ASSUME NEW cfg, NEW x, NEW y, NEW t, NEW u, LookAlike(x, t, y, u)
    PROVE  /\ StoresBy(cfg, x, t) = StoresBy(cfg, y, u)
           /\ Matching(x, t) = Matching(y, u)
           /\ \A id, at : LinksBy(cfg, x, id, at, t) = LinksBy(cfg, y, id, at, u)
<1>1. PICK seen : seen = Visible(x, t) /\ seen = Visible(y, u) /\ \A id \in seen : x[id] = y[id]
  BY DEF LookAlike
<1>2. StoresBy(cfg, x, t) = StoresBy(cfg, y, u)
  BY <1>1 DEF StoresBy
<1>3. Matching(x, t) = Matching(y, u)
  BY <1>1 DEF Matching
<1>4. ASSUME NEW id, NEW at PROVE LinksBy(cfg, x, id, at, t) = LinksBy(cfg, y, id, at, u)
  <2>1. {IF x[other] <= at THEN <<id, other>> ELSE <<other, id>> : other \in seen \ {id}}
          = {IF y[other] <= at THEN <<id, other>> ELSE <<other, id>> : other \in seen \ {id}}
    BY <1>1
  <2>. QED
    BY <1>1, <2>1 DEF LinksBy
<1>. QED
  BY <1>2, <1>3, <1>4

LEMMA SameLinks ==
    ASSUME NEW cfg, NEW x, NEW y, NEW t, NEW u, NEW id, NEW at, LookAlike(x, t, y, u)
    PROVE  LinksBy(cfg, x, id, at, t) = LinksBy(cfg, y, id, at, u)
BY SameDecisions

Chosen(c, x, t) == IF c.op = "delete" THEN {c.id} ELSE Matching(x, t)

LinkEdges(cfg, c, s, t) == EdgesOf(s.graph, LinksBy(cfg, s.index, c.id, c.at, t))

AfterCommand(cfg, c, s, t) ==
    IF c.op = "upsert"
    THEN [index |-> UpsertBy(cfg, s.index, c.id, c.at, t),
          graph |-> WithEdges(s.graph, LinkEdges(cfg, c, s, t)),
          wal   |-> s.wal \o <<UpsertRecord(c.id, c.at), EdgesRecord(LinkEdges(cfg, c, s, t))>>]
    ELSE [index |-> WithoutVectors(s.index, Chosen(c, s.index, t)),
          graph |-> WithoutNodes(s.graph, Chosen(c, s.index, t)),
          wal   |-> Append(s.wal, DeleteRecords(Chosen(c, s.index, t)))]

LEMMA AfterSame ==
    ASSUME NEW cfg, NEW c, NEW s, NEW t, NEW u, Visible(s.index, t) = Visible(s.index, u)
    PROVE  AfterCommand(cfg, c, s, t) = AfterCommand(cfg, c, s, u)
<1>1. LookAlike(s.index, t, s.index, u)
  BY DEF LookAlike
<1>2. /\ StoresBy(cfg, s.index, t) = StoresBy(cfg, s.index, u)
      /\ Matching(s.index, t) = Matching(s.index, u)
      /\ \A id, at : LinksBy(cfg, s.index, id, at, t) = LinksBy(cfg, s.index, id, at, u)
  BY <1>1, SameDecisions
<1>3. LinkEdges(cfg, c, s, t) = LinkEdges(cfg, c, s, u) /\ Chosen(c, s.index, t) = Chosen(c, s.index, u)
  BY <1>2 DEF LinkEdges, Chosen
<1>4. UpsertBy(cfg, s.index, c.id, c.at, t) = UpsertBy(cfg, s.index, c.id, c.at, u)
  BY <1>2 DEF UpsertBy
<1>. QED
  BY <1>3, <1>4 DEF AfterCommand

\* What an index holds has been written by one of the first commands.
Sourced(x, k, cmds) ==
    \A id \in Vertex : x[id] # 0 => \E j \in 1..k : cmds[j].op = "upsert" /\ cmds[j].at = x[id]

StraddledIn(k, cmds, ev) ==
    \E t, u \in ev[k], j \in 1..(k - 1) :
        cmds[j].op = "upsert" /\ t <= cmds[j].at + Ttl /\ cmds[j].at + Ttl < u

LEMMA SameTimes ==
    ASSUME NEW cmds, NEW ev, NEW k \in Nat \ {0}, ~StraddledIn(k, cmds, ev), ev[k] \in SUBSET Nat,
           NEW x \in Indices, Sourced(x, k - 1, cmds), NEW t \in ev[k], NEW u \in ev[k]
    PROVE  Visible(x, t) = Visible(x, u)
<1>1. Ttl \in Nat /\ t \in Nat /\ u \in Nat
  BY ClusterStateAssumption
<1>2. ASSUME NEW id \in Vertex, NEW a \in ev[k], NEW b \in ev[k], x[id] > 0, x[id] + Ttl >= a PROVE x[id] + Ttl >= b
  <2>1. x[id] \in Nat /\ a \in Nat /\ b \in Nat
    BY DEF Indices
  <2>2. PICK j \in 1..(k - 1) : cmds[j].op = "upsert" /\ cmds[j].at = x[id]
    BY <1>2, <2>1 DEF Sourced
  <2>3. a <= cmds[j].at + Ttl
    BY <1>1, <1>2, <2>1, <2>2
  <2>4. ~(cmds[j].at + Ttl < b)
    BY <2>2, <2>3 DEF StraddledIn
  <2>. QED
    BY <1>1, <2>1, <2>2, <2>4
<1>3. \A id \in Vertex : x[id] > 0 => (x[id] + Ttl >= t <=> x[id] + Ttl >= u)
  BY <1>2
<1>. QED
  BY <1>3 DEF Visible

LEMMA LinksTyped ==
    ASSUME NEW cfg, NEW x \in Indices, NEW id \in Vertex, NEW at, NEW t
    PROVE  LinksBy(cfg, x, id, at, t) \in Links
<1>1. Visible(x, t) \subseteq Vertex
  BY DEF Visible
<1>2. \A other \in Visible(x, t) \ {id} : (IF x[other] <= at THEN <<id, other>> ELSE <<other, id>>) \in Vertex \X Vertex
  BY <1>1
<1>. QED
  BY <1>2 DEF LinksBy, Links

LEMMA EdgesTyped == ASSUME NEW g, NEW links \in Links PROVE EdgesOf(g, links) \in EdgeSet
<1>1. \A l \in links : l[1] \in Vertex /\ l[2] \in Vertex
  BY DEF Links
<1>2. \A l \in links : {Edge(l[1], l[2], "UPDATES"), Edge(l[2], l[1], "SUPERSEDED_BY")}
                         \subseteq [src : Vertex, tgt : Vertex, type : {"UPDATES", "SUPERSEDED_BY"}]
  BY <1>1 DEF Edge
<1>. QED
  BY <1>2 DEF EdgesOf, EdgeSet

LEMMA AfterTyped ==
    ASSUME NEW cfg, NEW cmds, NEW k \in Nat \ {0}, NEW c \in Commands, c = cmds[k], NEW s, NEW t,
           s.index \in Indices, s.wal \in Seq(ShardRecords), Sourced(s.index, k - 1, cmds)
    PROVE  /\ AfterCommand(cfg, c, s, t).index \in Indices /\ AfterCommand(cfg, c, s, t).wal \in Seq(ShardRecords)
           /\ Sourced(AfterCommand(cfg, c, s, t).index, k, cmds)
<1>1. Fact \subseteq Vertex
  BY ClusterStateAssumption
<1>. PICK x, wal : x = s.index /\ wal = s.wal
  OBVIOUS
<1>2. \A id \in Vertex : x[id] # 0 => \E j \in 1..k : cmds[j].op = "upsert" /\ cmds[j].at = x[id]
  <2>1. 1..(k - 1) \subseteq 1..k
    OBVIOUS
  <2>. QED
    BY <2>1 DEF Sourced
<1>3. CASE c.op = "upsert"
  <2>1. c.id \in Vertex /\ c.at \in Nat
    BY <1>1, <1>3 DEF Commands
  <2>. PICK y, more : y = UpsertBy(cfg, x, c.id, c.at, t) /\ more = LinkEdges(cfg, c, s, t)
    OBVIOUS
  <2>2. y \in Indices /\ \A id \in Vertex : y[id] = x[id] \/ y[id] = c.at
    BY <2>1 DEF UpsertBy, Indices
  <2>3. k \in 1..k
    OBVIOUS
  <2>4. Sourced(y, k, cmds)
    BY <1>2, <1>3, <2>2, <2>3 DEF Sourced
  <2>5. more \in EdgeSet
    BY <2>1, LinksTyped, EdgesTyped DEF LinkEdges
  <2>6. UpsertRecord(c.id, c.at) \in ShardRecords /\ EdgesRecord(more) \in ShardRecords
    BY <2>1, <2>5 DEF UpsertRecord, EdgesRecord, ShardRecords
  <2>7. \A a, b \in ShardRecords : wal \o <<a, b>> \in Seq(ShardRecords)
    OBVIOUS
  <2>8. wal \o <<UpsertRecord(c.id, c.at), EdgesRecord(more)>> \in Seq(ShardRecords)
    BY <2>6, <2>7, Zenon
  <2>9. AfterCommand(cfg, c, s, t).index = y /\ AfterCommand(cfg, c, s, t).wal = wal \o <<UpsertRecord(c.id, c.at), EdgesRecord(more)>>
    BY <1>3 DEF AfterCommand
  <2>. QED
    BY <2>2, <2>4, <2>8, <2>9
<1>4. CASE c.op # "upsert"
  <2>. PICK y, ids : y = WithoutVectors(x, ids) /\ ids = Chosen(c, x, t)
    OBVIOUS
  <2>1. y \in Indices /\ \A id \in Vertex : y[id] # 0 => y[id] = x[id]
    BY DEF WithoutVectors, Indices
  <2>2. Sourced(y, k, cmds)
    BY <1>2, <2>1 DEF Sourced
  <2>3. ids \in SUBSET Vertex
    BY <1>1, <1>4 DEF Chosen, Commands, Matching
  <2>4. DeleteRecords(ids) \in ShardRecords
    BY <2>3 DEF DeleteRecords, ShardRecords
  <2>5. Append(wal, DeleteRecords(ids)) \in Seq(ShardRecords)
    BY <2>4
  <2>6. AfterCommand(cfg, c, s, t).index = y /\ AfterCommand(cfg, c, s, t).wal = Append(wal, DeleteRecords(ids))
    BY <1>4 DEF AfterCommand
  <2>. QED
    BY <2>1, <2>2, <2>5, <2>6
<1>. QED
  BY <1>3, <1>4

-----------------------------------------------------------------------------
\* A history: the collection after each command, on a node on which nothing is purged.

CleanTo(k, cmds, ev) == \A j \in 1..k : ~StraddledIn(j, cmds, ev)

Evaluations(cmds, ev) ==
    /\ Len(cmds) \in Nat /\ \A k \in 1..Len(cmds) : cmds[k] \in Commands
    /\ \A k \in 1..Len(cmds) : ev[k] \in SUBSET Nat

HistoryTyped(C, cmds) ==
    /\ C = [k \in 0..Len(cmds) |-> C[k]]
    /\ C[0] = [index |-> NoVectors.index, graph |-> NoVectors.graph, wal |-> <<>>]
    /\ \A k \in 0..Len(cmds) :
          C[k].index \in Indices /\ C[k].wal \in Seq(ShardRecords) /\ Sourced(C[k].index, k, cmds)

History(cfg, C, cmds, ev) ==
    /\ HistoryTyped(C, cmds)
    /\ \A k \in 1..Len(cmds) : CleanTo(k, cmds, ev) => \A t \in ev[k] : C[k] = AfterCommand(cfg, cmds[k], C[k - 1], t)

\* The same commands, looked at more often.
LooksMore(cmds, ev, more) == \A k \in 1..Len(cmds) : ev[k] \subseteq more[k]

LEMMA CleanBefore ==
    ASSUME NEW cmds, NEW ev, NEW more, LooksMore(cmds, ev, more), Len(cmds) \in Nat,
           NEW k \in 0..Len(cmds), CleanTo(k, cmds, more)
    PROVE  CleanTo(k, cmds, ev)
<1>1. \A j \in 1..k : ev[j] \subseteq more[j]
  BY DEF LooksMore
<1>2. ASSUME NEW j \in 1..k, StraddledIn(j, cmds, ev) PROVE StraddledIn(j, cmds, more)
  BY <1>1, <1>2 DEF StraddledIn
<1>. QED
  BY <1>2 DEF CleanTo

LEMMA HistoryGoesOn ==
    ASSUME NEW cfg, NEW cmds, NEW ev, NEW more, NEW C, Evaluations(cmds, ev), Evaluations(cmds, more), History(cfg, C, cmds, ev),
           LooksMore(cmds, ev, more), \A k \in 1..Len(cmds) : ev[k] # {} \/ more[k] = {}
    PROVE  History(cfg, C, cmds, more)
<1>1. ASSUME NEW k \in 1..Len(cmds), CleanTo(k, cmds, more), NEW t \in more[k]
      PROVE  C[k] = AfterCommand(cfg, cmds[k], C[k - 1], t)
  <2>1. Len(cmds) \in Nat /\ k \in 0..Len(cmds) /\ k \in 1..k /\ k \in Nat \ {0} /\ k - 1 \in 0..Len(cmds)
    BY DEF Evaluations
  <2>2. CleanTo(k, cmds, ev) /\ ~StraddledIn(k, cmds, more)
    BY <1>1, <2>1, CleanBefore DEF CleanTo
  <2>3. PICK u : u \in ev[k] /\ u \in more[k]
    BY DEF LooksMore
  <2>4. C[k] = AfterCommand(cfg, cmds[k], C[k - 1], u)
    BY <2>2, <2>3 DEF History
  <2>5. more[k] \in SUBSET Nat
    BY DEF Evaluations
  <2>6. C[k - 1].index \in Indices /\ Sourced(C[k - 1].index, k - 1, cmds)
    BY <2>1 DEF History, HistoryTyped
  <2>7. Visible(C[k - 1].index, t) = Visible(C[k - 1].index, u)
    BY <2>1, <2>2, <2>3, <2>5, <2>6, SameTimes
  <2>. QED
    BY <2>4, <2>7, AfterSame
<1>. QED
  BY <1>1 DEF History

\* A history that has the states of C up to the n-th.
KeepsTo(cfg, cmds, ev, n, C) == \E D : History(cfg, D, cmds, ev) /\ \A k \in 0..n : D[k] = C[k]

\* The last command is looked at for the first time: the history has what it does.
LEMMA HistoryLooksFirst ==
    ASSUME NEW cfg, NEW cmds, NEW ev, NEW more, NEW C, Evaluations(cmds, ev), Evaluations(cmds, more), History(cfg, C, cmds, ev),
           NEW n, n = Len(cmds), n # 0, ev[n] = {}, NEW t, more[n] = {t}, \A k \in 1..(n - 1) : more[k] = ev[k]
    PROVE  KeepsTo(cfg, cmds, more, n - 1, C)
<1>1. n \in Nat \ {0} /\ n \in 1..n /\ n - 1 \in 0..n /\ cmds[n] \in Commands
  BY DEF Evaluations
<1>. DEFINE D == [k \in 0..n |-> IF k = n THEN AfterCommand(cfg, cmds[n], C[n - 1], t) ELSE C[k]]
<1>2. D = [k \in 0..n |-> D[k]] /\ D[n] = AfterCommand(cfg, cmds[n], C[n - 1], t)
  BY <1>1
<1>3. \A k \in 0..(n - 1) : k \in 0..n /\ k # n /\ D[k] = C[k]
  BY <1>1
<1>. HIDE DEF D
<1>4. C[n - 1].index \in Indices /\ C[n - 1].wal \in Seq(ShardRecords) /\ Sourced(C[n - 1].index, n - 1, cmds)
  BY <1>1 DEF History, HistoryTyped
<1>5. D[n].index \in Indices /\ D[n].wal \in Seq(ShardRecords) /\ Sourced(D[n].index, n, cmds)
  <2>1. PICK s, c : s = C[n - 1] /\ c = cmds[n]
    OBVIOUS
  <2>2. c \in Commands /\ s.index \in Indices /\ s.wal \in Seq(ShardRecords) /\ Sourced(s.index, n - 1, cmds)
    BY <1>1, <1>4, <2>1
  <2>3. /\ AfterCommand(cfg, c, s, t).index \in Indices /\ AfterCommand(cfg, c, s, t).wal \in Seq(ShardRecords)
        /\ Sourced(AfterCommand(cfg, c, s, t).index, n, cmds)
    BY <1>1, <2>1, <2>2, AfterTyped
  <2>. QED
    BY <1>2, <2>1, <2>3
<1>6. HistoryTyped(D, cmds)
  <2>1. D[0] = C[0]
    BY <1>1, <1>3
  <2>2. \A k \in 0..n : k = n \/ k \in 0..(n - 1)
    BY <1>1
  <2>. QED
    BY <1>2, <1>3, <1>5, <2>1, <2>2 DEF History, HistoryTyped
<1>7. ASSUME NEW k \in 1..n, CleanTo(k, cmds, more), NEW u \in more[k] PROVE D[k] = AfterCommand(cfg, cmds[k], D[k - 1], u)
  <2>1. CASE k = n
    <3>1. u = t
      BY <1>7, <2>1
    <3>2. n - 1 \in 0..(n - 1)
      BY <1>1
    <3>3. D[n - 1] = C[n - 1]
      BY <1>3, <3>2
    <3>. QED
      BY <1>2, <2>1, <3>1, <3>3
  <2>2. CASE k # n
    <3>1. k \in 1..(n - 1) /\ k \in 0..(n - 1) /\ k - 1 \in 0..(n - 1) /\ more[k] = ev[k]
      BY <1>1, <2>2
    <3>2. \A j \in 1..k : more[j] = ev[j]
      BY <1>1, <3>1
    <3>3. CleanTo(k, cmds, ev)
      BY <1>7, <3>2 DEF CleanTo, StraddledIn
    <3>. QED
      BY <1>3, <1>7, <3>1, <3>3 DEF History
  <2>. QED
    BY <2>1, <2>2
<1>8. History(cfg, D, cmds, more)
  BY <1>6, <1>7 DEF History
<1>. QED
  BY <1>3, <1>8 DEF KeepsTo

\* A command is submitted.
LEMMA HistorySubmits ==
    ASSUME NEW cfg, NEW cmds, NEW ev, NEW C, Evaluations(cmds, ev), History(cfg, C, cmds, ev), NEW longer, NEW evs,
           Len(longer) = Len(cmds) + 1, evs[Len(cmds) + 1] = {},
           \A k \in 1..Len(cmds) : longer[k] = cmds[k] /\ evs[k] = ev[k]
    PROVE  KeepsTo(cfg, longer, evs, Len(cmds), C)
<1>. PICK n : n = Len(cmds)
  OBVIOUS
<1>1. n \in Nat
  BY DEF Evaluations
<1>. DEFINE D == [k \in 0..(n + 1) |-> IF k = n + 1 THEN C[n] ELSE C[k]]
<1>2. D = [k \in 0..(n + 1) |-> D[k]] /\ D[n + 1] = C[n]
  BY <1>1
<1>3. \A k \in 0..n : k \in 0..(n + 1) /\ k # n + 1 /\ D[k] = C[k]
  BY <1>1
<1>. HIDE DEF D
<1>4. ASSUME NEW k \in 0..(n + 1) PROVE D[k].index \in Indices /\ D[k].wal \in Seq(ShardRecords) /\ Sourced(D[k].index, k, longer)
  <2>1. PICK j \in 0..n : D[k] = C[j] /\ j <= k
    BY <1>1, <1>2, <1>3
  <2>2. C[j].index \in Indices /\ C[j].wal \in Seq(ShardRecords) /\ Sourced(C[j].index, j, cmds)
    BY DEF History, HistoryTyped
  <2>3. \A i \in 1..j : i \in 1..k /\ longer[i] = cmds[i]
    BY <1>1, <2>1
  <2>4. Sourced(C[j].index, k, longer)
    BY <2>2, <2>3 DEF Sourced
  <2>. QED
    BY <2>1, <2>2, <2>4
<1>5. HistoryTyped(D, longer)
  <2>1. D[0] = C[0]
    BY <1>1, <1>3
  <2>. QED
    BY <1>2, <1>4, <2>1 DEF History, HistoryTyped
<1>6. ASSUME NEW k \in 1..(n + 1), CleanTo(k, longer, evs), NEW t \in evs[k] PROVE D[k] = AfterCommand(cfg, longer[k], D[k - 1], t)
  <2>1. k \in 1..n /\ k \in 0..n /\ k - 1 \in 0..n
    BY <1>1, <1>6
  <2>2. \A j \in 1..k : evs[j] = ev[j] /\ longer[j] = cmds[j]
    BY <1>1, <2>1
  <2>3. CleanTo(k, cmds, ev)
    BY <1>6, <2>2 DEF CleanTo, StraddledIn
  <2>. QED
    BY <1>3, <1>6, <2>1, <2>2, <2>3 DEF History
<1>7. History(cfg, D, longer, evs)
  BY <1>5, <1>6 DEF History
<1>. QED
  BY <1>3, <1>7 DEF KeepsTo

\* A replay of the records of a history makes its collection, if what it decides again is decided at a
\* time at which the commands have been looked at too.
DecidedAgain(n, t, cmds, ev) == config.dedup => \A j \in 1..n : cmds[j].op = "upsert" => t \in ev[j]

MadeAgain(record, t) == Replayed(record.wal, t) = [index |-> record.index, graph |-> record.graph]

LEMMA HistoryReplayed ==
    ASSUME NEW cmds, NEW ev, NEW C, Evaluations(cmds, ev), History(config, C, cmds, ev), NEW n \in 0..Len(cmds), NEW t,
           CleanTo(n, cmds, ev), \A j \in 1..n : ev[j] # {},
           DecidedAgain(n, t, cmds, ev)
    PROVE  MadeAgain(C[n], t)
<1>. DEFINE P(k) == Replayed(C[k].wal, t) = [index |-> C[k].index, graph |-> C[k].graph]
            Bad == {k \in 0..n : ~P(k)}
<1>1. Len(cmds) \in Nat /\ n \in Nat /\ n <= Len(cmds)
  BY DEF Evaluations
<1>2. P(0)
  <2>1. C[0].wal = <<>> /\ C[0].index = NoVectors.index /\ C[0].graph = NoVectors.graph
    BY DEF History, HistoryTyped
  <2>2. Replayed(<<>>, t) = NoVectors
    BY ReplayedNone
  <2>. QED
    BY <2>1, <2>2 DEF NoVectors
<1>3. ASSUME NEW k \in 1..n, P(k - 1) PROVE P(k)
  <2>1. k \in 1..Len(cmds) /\ k - 1 \in 0..Len(cmds) /\ cmds[k] \in Commands
    BY <1>1 DEF Evaluations
  <2>2. CleanTo(k, cmds, ev)
    BY <1>1 DEF CleanTo
  <2>3. PICK s, c : s = C[k - 1] /\ c = cmds[k]
    OBVIOUS
  <2>4. s.index \in Indices /\ s.wal \in Seq(ShardRecords)
    BY <2>1, <2>3 DEF History, HistoryTyped
  <2>5. PICK u : u \in ev[k] /\ ((config.dedup /\ c.op = "upsert") => u = t)
    BY <2>3 DEF DecidedAgain
  <2>6. C[k] = AfterCommand(config, c, s, u)
    BY <2>1, <2>2, <2>3, <2>5 DEF History
  <2>7. Replayed(s.wal, t) = [index |-> s.index, graph |-> s.graph]
    BY <1>3, <2>3
  <2>8. CASE c.op = "upsert"
    <3>1. c.id \in Vertex /\ c.at \in Nat
      BY <2>1, <2>3, <2>8, ClusterStateAssumption DEF Commands
    <3>2. PICK a, b, edges : a = UpsertRecord(c.id, c.at) /\ b = EdgesRecord(edges) /\ edges = LinkEdges(config, c, s, u)
      OBVIOUS
    <3>3. edges \in EdgeSet
      BY <2>4, <3>1, <3>2, LinksTyped, EdgesTyped DEF LinkEdges
    <3>4. a \in ShardRecords /\ b \in ShardRecords
      BY <3>1, <3>2, <3>3 DEF UpsertRecord, EdgesRecord, ShardRecords
    <3>5. PICK wal, wal1 : wal = s.wal /\ wal1 = Append(wal, a)
      OBVIOUS
    <3>6. wal \in Seq(ShardRecords) /\ wal1 \in Seq(ShardRecords) /\ wal \o <<a, b>> = Append(wal1, b)
      BY <2>4, <3>4, <3>5
    <3>7. C[k].wal = Append(wal1, b) /\ C[k].index = UpsertBy(config, s.index, c.id, c.at, u) /\ C[k].graph = WithEdges(s.graph, edges)
      BY <2>6, <2>8, <3>2, <3>5, <3>6 DEF AfterCommand
    <3>8. Replayed(wal1, t) = ReplayRecord(Replayed(wal, t), a, t)
      BY <3>4, <3>5, <3>6, ReplayedOneMore
    <3>9. Replayed(Append(wal1, b), t) = ReplayRecord(Replayed(wal1, t), b, t)
      BY <3>4, <3>6, ReplayedOneMore
    <3>10. UpsertBy(config, s.index, c.id, c.at, t) = UpsertBy(config, s.index, c.id, c.at, u)
      BY <2>5, <2>8 DEF UpsertBy, StoresBy
    <3>14. UpsertIn(s.index, c.id, c.at, t) = UpsertBy(config, s.index, c.id, c.at, u)
      BY <3>10, ByConfig
    <3>11. Replayed(wal1, t) = [index |-> UpsertBy(config, s.index, c.id, c.at, u), graph |-> s.graph]
      <4>1. a.kind = "upsert" /\ a.id = c.id /\ a.at = c.at
        BY <3>2 DEF UpsertRecord
      <4>2. Replayed(wal, t).index = s.index /\ Replayed(wal, t).graph = s.graph
        BY <2>7, <3>5
      <4>. QED
        BY <3>8, <3>14, <4>1, <4>2 DEF ReplayRecord
    <3>12. b.kind = "edges" /\ b.edges = edges
      BY <3>2 DEF EdgesRecord
    <3>13. Replayed(C[k].wal, t) = [index |-> UpsertBy(config, s.index, c.id, c.at, u), graph |-> WithEdges(s.graph, edges)]
      BY <3>7, <3>9, <3>11, <3>12 DEF ReplayRecord
    <3>. QED
      BY <3>7, <3>13
  <2>9. CASE c.op # "upsert"
    <3>1. PICK ids, a : ids = Chosen(c, s.index, u) /\ a = DeleteRecords(ids)
      OBVIOUS
    <3>2. ids \in SUBSET Vertex
      BY <2>1, <2>3, <2>9, <3>1, ClusterStateAssumption DEF Chosen, Commands, Matching
    <3>3. a \in ShardRecords /\ a.kind = "delete" /\ a.ids = ids
      BY <3>1, <3>2 DEF DeleteRecords, ShardRecords
    <3>4. /\ C[k].wal = Append(s.wal, a) /\ C[k].index = WithoutVectors(s.index, ids)
          /\ C[k].graph = WithoutNodes(s.graph, ids)
      BY <2>6, <2>9, <3>1 DEF AfterCommand
    <3>5. Replayed(Append(s.wal, a), t) = ReplayRecord(Replayed(s.wal, t), a, t)
      BY <2>4, <3>3, ReplayedOneMore
    <3>6. Replayed(s.wal, t).index = s.index /\ Replayed(s.wal, t).graph = s.graph
      BY <2>7
    <3>7. ReplayRecord(Replayed(s.wal, t), a, t) = [index |-> WithoutVectors(s.index, ids), graph |-> WithoutNodes(s.graph, ids)]
      BY <3>3, <3>6 DEF ReplayRecord
    <3>. QED
      BY <3>4, <3>5, <3>7
  <2>. QED
    BY <2>8, <2>9
<1>. HIDE DEF P
<1>4. SUFFICES ASSUME NEW k \in Bad PROVE FALSE
  <2>1. n \in 0..n
    BY <1>1
  <2>2. P(n)
    BY <1>4, <2>1
  <2>. QED
    BY <2>2 DEF P, MadeAgain
<1>5. PICK m \in Bad : \A j \in Bad : m <= j
  <2>1. Bad \in SUBSET Nat
    OBVIOUS
  <2>. HIDE DEF Bad
  <2>. QED
    BY <2>1, <1>4, LeastNumber
<1>6. m \in 0..n /\ ~P(m)
  OBVIOUS
<1>7. m \in 1..n /\ m - 1 \in 0..n
  BY <1>1, <1>2, <1>6
<1>8. P(m - 1)
  <2>1. m - 1 \notin Bad
    BY <1>5, <1>6, <1>7
  <2>. QED
    BY <1>7, <2>1
<1>. QED
  BY <1>3, <1>6, <1>7, <1>8

-----------------------------------------------------------------------------
\* Every node follows the history.

Fits(s, p, cmds, ev) ==
    /\ DOMAIN s = {"applied", "index", "graph", "wal"}
    /\ s.applied \in 0..Len(cmds)
    /\ \A j \in 1..s.applied : ev[j] # {}
    /\ p.busy => s.applied + 1 \in 1..Len(cmds) /\ cmds[s.applied + 1].op = "upsert" /\ ev[s.applied + 1] # {}

\* The node holds what it should, but for what it has purged; and the links that it has planned were
\* those to plan.
Holds(now, s, record) ==
    /\ s.index \in Indices /\ Purged(s.index, record.index, now)
    /\ s.graph = record.graph /\ s.wal = record.wal

PlannedWell(cfg, p, c, record, times) == \E t \in times : p.links = LinksBy(cfg, record.index, c.id, c.at, t)

Follows(cfg, C, s, p, now, cmds, ev) ==
    /\ CleanTo(s.applied, cmds, ev) => Holds(now, s, C[s.applied])
    /\ p.busy /\ CleanTo(s.applied + 1, cmds, ev) =>
          PlannedWell(cfg, p, cmds[s.applied + 1], C[s.applied], ev[s.applied + 1])

ClusterTypes ==
    /\ tick \in Nat /\ commands \in Seq(Commands) /\ evaluated \in Seq(SUBSET Nat)
    /\ Len(evaluated) = Len(commands)
    /\ \A k \in 1..(Len(commands) - 1) : evaluated[k] # {}
    /\ nodeState = [n \in Peer |-> nodeState[n]] /\ planned = [n \in Peer |-> planned[n]]

AllFollow(cfg, C, now, cmds, ev) == \A n \in Peer : Follows(cfg, C, nodeState[n], planned[n], now, cmds, ev)

ClusterInv ==
    /\ ClusterTypes
    /\ \A n \in Peer : Fits(nodeState[n], planned[n], commands, evaluated)
    /\ \E C : History(config, C, commands, evaluated) /\ AllFollow(config, C, tick, commands, evaluated)

LEMMA EvaluationsAre == ASSUME ClusterTypes PROVE Evaluations(commands, evaluated) /\ DOMAIN evaluated = 1..Len(commands)
BY DEF ClusterTypes, Evaluations

LEMMA FollowsOn ==
    ASSUME NEW cfg, NEW C, NEW D, NEW s, NEW p, NEW now \in Nat, NEW later \in Nat, now <= later, NEW cmds, NEW ev, NEW more,
           Evaluations(cmds, ev), LooksMore(cmds, ev, more), Fits(s, p, cmds, ev), HistoryTyped(C, cmds),
           Follows(cfg, C, s, p, now, cmds, ev), D[s.applied] = C[s.applied]
    PROVE  Follows(cfg, D, s, p, later, cmds, more) /\ Fits(s, p, cmds, more)
<1>. PICK k : k = s.applied
  OBVIOUS
<1>1. Len(cmds) \in Nat /\ k \in 0..Len(cmds) /\ (p.busy => k + 1 \in 1..Len(cmds))
  BY DEF Evaluations, Fits
<1>2. ASSUME CleanTo(k, cmds, more) PROVE Holds(later, s, D[k])
  <2>1. Holds(now, s, C[k])
    BY <1>1, <1>2, CleanBefore DEF Follows
  <2>2. C[k].index \in Indices /\ Ttl \in Nat
    BY <1>1, ClusterStateAssumption DEF HistoryTyped
  <2>3. \A id \in Vertex : Expired(C[k].index[id], now) => Expired(C[k].index[id], later)
    BY <2>2 DEF Expired, Indices
  <2>. QED
    BY <2>1, <2>3 DEF Holds, Purged
<1>3. ASSUME p.busy, CleanTo(k + 1, cmds, more) PROVE PlannedWell(cfg, p, cmds[k + 1], D[k], more[k + 1])
  <2>1. k + 1 \in 0..Len(cmds)
    BY <1>1, <1>3
  <2>2. CleanTo(k + 1, cmds, ev)
    BY <1>1, <1>3, <2>1, CleanBefore
  <2>3. PlannedWell(cfg, p, cmds[k + 1], C[k], ev[k + 1])
    BY <1>3, <2>2 DEF Follows
  <2>4. ev[k + 1] \subseteq more[k + 1]
    BY <1>1, <1>3 DEF LooksMore
  <2>. QED
    BY <2>3, <2>4 DEF PlannedWell
<1>4. Fits(s, p, cmds, more)
  <2>1. \A j \in 1..k : ev[j] \subseteq more[j]
    BY <1>1 DEF LooksMore
  <2>2. p.busy => ev[k + 1] \subseteq more[k + 1]
    BY <1>1 DEF LooksMore
  <2>. QED
    BY <2>1, <2>2 DEF Fits
<1>. QED
  BY <1>2, <1>3, <1>4 DEF Follows

\* A command is looked at once more, by whichever node.
LEMMA LookedAt ==
    ASSUME ClusterInv, NEW k \in 1..Len(commands), NEW more, more = [evaluated EXCEPT ![k] = @ \cup {tick}]
    PROVE  /\ more \in Seq(SUBSET Nat) /\ Len(more) = Len(commands) /\ Evaluations(commands, more)
           /\ \A j \in 1..(Len(commands) - 1) : more[j] # {}
           /\ tick \in more[k]
           /\ \A n \in Peer : Fits(nodeState[n], planned[n], commands, more)
           /\ \E D : History(config, D, commands, more) /\ AllFollow(config, D, tick, commands, more)
<1>1. /\ ClusterTypes /\ tick \in Nat /\ Len(commands) \in Nat /\ DOMAIN evaluated = 1..Len(commands)
      /\ Evaluations(commands, evaluated) /\ Len(evaluated) = Len(commands) /\ evaluated \in Seq(SUBSET Nat)
      /\ commands \in Seq(Commands)
  <2>1. ClusterTypes
    BY DEF ClusterInv
  <2>2. Evaluations(commands, evaluated) /\ DOMAIN evaluated = 1..Len(commands)
    BY <2>1, EvaluationsAre
  <2>3. Len(commands) \in Nat
    BY <2>2 DEF Evaluations
  <2>. QED
    BY <2>1, <2>2, <2>3 DEF ClusterTypes
<1>2. /\ more[k] = evaluated[k] \cup {tick} /\ \A j \in 1..Len(commands) : j # k => more[j] = evaluated[j]
      /\ more = [j \in 1..Len(commands) |-> more[j]]
  BY <1>1
<1>3. \A j \in 1..Len(commands) : more[j] \in SUBSET Nat
  BY <1>1, <1>2 DEF Evaluations
<1>4. more \in Seq(SUBSET Nat) /\ Len(more) = Len(commands)
  <2>1. more \in [1..Len(commands) -> SUBSET Nat]
    BY <1>2, <1>3
  <2>. QED
    BY <1>1, <2>1
<1>5. Evaluations(commands, more)
  BY <1>1, <1>3 DEF Evaluations
<1>6. LooksMore(commands, evaluated, more)
  BY <1>2 DEF LooksMore
<1>7. \A j \in 1..(Len(commands) - 1) : more[j] # {}
  BY <1>1, <1>2 DEF ClusterTypes
<1>8. PICK C : History(config, C, commands, evaluated) /\ AllFollow(config, C, tick, commands, evaluated)
  BY DEF ClusterInv
<1>9. \A n \in Peer : Fits(nodeState[n], planned[n], commands, evaluated)
  BY DEF ClusterInv
<1>10. \E D : /\ History(config, D, commands, more)
              /\ \A n \in Peer : D[nodeState[n].applied] = C[nodeState[n].applied]
  <2>1. CASE evaluated[k] # {}
    <3>1. \A j \in 1..Len(commands) : evaluated[j] # {} \/ more[j] = {}
      BY <1>2, <2>1
    <3>. QED
      BY <1>1, <1>5, <1>6, <1>8, <3>1, HistoryGoesOn
  <2>2. CASE evaluated[k] = {}
    <3>1. k = Len(commands)
      BY <1>1, <2>2 DEF ClusterTypes
    <3>2. more[k] = {tick} /\ evaluated[k] = {} /\ k # 0
      BY <1>2, <2>2, <3>1
    <3>3. \A j \in 1..(k - 1) : more[j] = evaluated[j]
      BY <1>1, <1>2, <3>1
    <3>6. /\ Evaluations(commands, evaluated) /\ Evaluations(commands, more) /\ History(config, C, commands, evaluated)
      BY <1>1, <1>5, <1>8
    <3>7. KeepsTo(config, commands, more, k - 1, C)
      BY <3>1, <3>2, <3>3, <3>6, HistoryLooksFirst
    <3>4. PICK D : History(config, D, commands, more) /\ \A j \in 0..(k - 1) : D[j] = C[j]
      BY <3>7 DEF KeepsTo
    <3>5. ASSUME NEW n \in Peer PROVE nodeState[n].applied \in 0..(k - 1)
      <4>1. PICK i : i = nodeState[n].applied
        OBVIOUS
      <4>2. i \in 0..Len(commands) /\ \A j \in 1..i : evaluated[j] # {}
        BY <1>9, <4>1 DEF Fits
      <4>3. i # Len(commands)
        BY <1>1, <3>1, <3>2, <4>2
      <4>. QED
        BY <1>1, <3>1, <4>1, <4>2, <4>3
    <3>. QED
      BY <3>4, <3>5
  <2>. QED
    BY <2>1, <2>2
<1>11. PICK D : History(config, D, commands, more) /\ \A n \in Peer : D[nodeState[n].applied] = C[nodeState[n].applied]
  BY <1>10
<1>12. HistoryTyped(C, commands)
  BY <1>8 DEF History
<1>13. ASSUME NEW n \in Peer
       PROVE  Follows(config, D, nodeState[n], planned[n], tick, commands, more) /\ Fits(nodeState[n], planned[n], commands, more)
  <2>1. PICK s, p : s = nodeState[n] /\ p = planned[n]
    OBVIOUS
  <2>2. Follows(config, C, s, p, tick, commands, evaluated) /\ Fits(s, p, commands, evaluated) /\ D[s.applied] = C[s.applied]
    BY <1>8, <1>9, <1>11, <2>1 DEF AllFollow
  <2>3. tick <= tick
    BY <1>1
  <2>4. Follows(config, D, s, p, tick, commands, more) /\ Fits(s, p, commands, more)
    BY <1>1, <1>6, <1>12, <2>2, <2>3, FollowsOn
  <2>. QED
    BY <2>1, <2>4
<1>. QED
  BY <1>2, <1>4, <1>5, <1>7, <1>11, <1>13 DEF AllFollow

\* One node changes; the commands have been looked at as they should.
LEMMA OneNode ==
    ASSUME ClusterTypes, ClusterTypes', UNCHANGED <<config, commands>>, tick' = tick, NEW n \in Peer, NEW D,
           History(config, D, commands, evaluated'), AllFollow(config, D, tick, commands, evaluated'),
           \A m \in Peer : Fits(nodeState[m], planned[m], commands, evaluated'),
           \A m \in Peer \ {n} : nodeState'[m] = nodeState[m] /\ planned'[m] = planned[m],
           Fits(nodeState'[n], planned'[n], commands, evaluated'),
           Follows(config, D, nodeState'[n], planned'[n], tick, commands, evaluated')
    PROVE  ClusterInv'
<1>1. ASSUME NEW m \in Peer
      PROVE  /\ Fits(nodeState'[m], planned'[m], commands, evaluated')
             /\ Follows(config, D, nodeState'[m], planned'[m], tick, commands, evaluated')
  <2>1. CASE m = n
    BY <2>1
  <2>2. CASE m # n
    BY <2>2 DEF AllFollow
  <2>. QED
    BY <2>1, <2>2
<1>2. History(config', D, commands', evaluated') /\ \A m \in Peer : Follows(config', D, nodeState'[m], planned'[m], tick', commands', evaluated')
  BY <1>1
<1>3. \A m \in Peer : Fits(nodeState'[m], planned'[m], commands', evaluated')
  BY <1>1
<1>. QED
  BY <1>2, <1>3 DEF ClusterInv, AllFollow

LEMMA ClusterBegins ==
    ASSUME ClusterInv, NEW n \in Peer, UpsertBegins(n)
    PROVE  ClusterInv'
<1>. PICK s, p, k, c : s = nodeState[n] /\ p = planned'[n] /\ k = s.applied + 1 /\ c = commands[k]
  OBVIOUS
<1>1. /\ s.applied < Len(commands) /\ c.op = "upsert"
      /\ planned' = [planned EXCEPT ![n] = [busy |-> TRUE, links |-> PlanLinks(s.index, c.id, c.at, tick)]]
      /\ evaluated' = [evaluated EXCEPT ![k] = @ \cup {tick}]
      /\ UNCHANGED <<config, tick, commands, nodeState>>
  BY DEF UpsertBegins, HasCommand, NextCommand, Evaluate
<1>2. /\ ClusterTypes /\ Fits(s, planned[n], commands, evaluated) /\ tick \in Nat /\ Len(commands) \in Nat
      /\ planned = [m \in Peer |-> planned[m]]
  BY DEF ClusterInv, ClusterTypes
<1>3. k \in 1..Len(commands) /\ s.applied \in Nat /\ k = s.applied + 1
  BY <1>1, <1>2 DEF Fits
<1>4. PICK more : more = evaluated'
  OBVIOUS
<1>5. /\ more \in Seq(SUBSET Nat) /\ Len(more) = Len(commands) /\ Evaluations(commands, more)
      /\ \A j \in 1..(Len(commands) - 1) : more[j] # {}
      /\ tick \in more[k]
      /\ \A m \in Peer : Fits(nodeState[m], planned[m], commands, more)
      /\ \E D : History(config, D, commands, more) /\ AllFollow(config, D, tick, commands, more)
  BY <1>1, <1>3, <1>4, LookedAt
<1>6. PICK D : History(config, D, commands, more) /\ AllFollow(config, D, tick, commands, more)
  BY <1>5
<1>7. /\ p.busy = TRUE /\ p.links = LinksBy(config, s.index, c.id, c.at, tick)
      /\ \A m \in Peer \ {n} : nodeState'[m] = nodeState[m] /\ planned'[m] = planned[m]
      /\ planned' = [m \in Peer |-> planned'[m]]
  BY <1>1, <1>2, ByConfig
<1>8. ClusterTypes'
  BY <1>1, <1>2, <1>4, <1>5, <1>7 DEF ClusterTypes
<1>9. Fits(s, p, commands, more)
  <2>1. Fits(s, planned[n], commands, more)
    BY <1>5
  <2>. QED
    BY <1>1, <1>3, <1>5, <1>7, <2>1 DEF Fits
<1>10. Follows(config, D, s, p, tick, commands, more)
  <2>1. Follows(config, D, s, planned[n], tick, commands, more)
    BY <1>6 DEF AllFollow
  <2>2. ASSUME CleanTo(k, commands, more) PROVE PlannedWell(config, p, c, D[s.applied], more[k])
    <3>1. CleanTo(s.applied, commands, more)
      BY <1>3, <2>2 DEF CleanTo
    <3>2. s.index \in Indices /\ Purged(s.index, D[s.applied].index, tick)
      BY <2>1, <3>1 DEF Follows, Holds
    <3>3. s.applied \in 0..Len(commands)
      BY <1>9 DEF Fits
    <3>4. D[s.applied].index \in Indices
      BY <1>6, <3>3 DEF History, HistoryTyped
    <3>5. LookAlike(s.index, tick, D[s.applied].index, tick)
      BY <1>2, <3>2, <3>3, <3>4, PurgedLooksAlike
    <3>6. p.links = LinksBy(config, D[s.applied].index, c.id, c.at, tick)
      <4>1. PICK x, y : x = s.index /\ y = D[s.applied].index
        OBVIOUS
      <4>2. LookAlike(x, tick, y, tick)
        BY <3>5, <4>1
      <4>3. LinksBy(config, x, c.id, c.at, tick) = LinksBy(config, y, c.id, c.at, tick)
        BY <4>2, SameLinks
      <4>. QED
        BY <1>7, <4>1, <4>3
    <3>. QED
      BY <1>5, <3>6 DEF PlannedWell
  <2>. QED
    BY <1>3, <2>1, <2>2 DEF Follows
<1>11. /\ Fits(nodeState'[n], planned'[n], commands, more)
       /\ Follows(config, D, nodeState'[n], planned'[n], tick, commands, more)
  BY <1>1, <1>9, <1>10
<1>. QED
  BY <1>1, <1>2, <1>4, <1>5, <1>6, <1>7, <1>8, <1>11, OneNode

\* What a node keeps of a command's effect is what the history keeps.
LEMMA SameEffect ==
    ASSUME NEW s, NEW record, NEW now \in Nat, Holds(now, s, record), record.index \in Indices
    PROVE  /\ LookAlike(s.index, now, record.index, now)
           /\ \A id, at : Purged(UpsertBy(config, s.index, id, at, now), UpsertBy(config, record.index, id, at, now), now)
           /\ \A ids : Purged(WithoutVectors(s.index, ids), WithoutVectors(record.index, ids), now)
           /\ \A c : Chosen(c, s.index, now) = Chosen(c, record.index, now)
           /\ \A id, at : at \in Nat => UpsertBy(config, s.index, id, at, now) \in Indices
           /\ \A ids : WithoutVectors(s.index, ids) \in Indices
<1>. PICK x, y : x = s.index /\ y = record.index
  OBVIOUS
<1>1. Purged(x, y, now) /\ x \in Indices /\ y \in Indices
  BY DEF Holds
<1>2. LookAlike(x, now, y, now)
  BY <1>1, PurgedLooksAlike
<1>3. StoresBy(config, x, now) = StoresBy(config, y, now) /\ Matching(x, now) = Matching(y, now)
  BY <1>2, SameDecisions
<1>4. ASSUME NEW id, NEW at PROVE Purged(UpsertBy(config, x, id, at, now), UpsertBy(config, y, id, at, now), now)
  BY <1>1, <1>3 DEF UpsertBy, Purged, Indices
<1>5. ASSUME NEW ids PROVE Purged(WithoutVectors(x, ids), WithoutVectors(y, ids), now)
  BY <1>1 DEF WithoutVectors, Purged
<1>6. ASSUME NEW c PROVE Chosen(c, x, now) = Chosen(c, y, now)
  BY <1>3 DEF Chosen
<1>7. /\ \A id, at : at \in Nat => UpsertBy(config, x, id, at, now) \in Indices
      /\ \A ids : WithoutVectors(x, ids) \in Indices
  BY <1>1 DEF UpsertBy, WithoutVectors, Indices
<1>. QED
  BY <1>2, <1>4, <1>5, <1>6, <1>7

LEMMA ClusterEnds ==
    ASSUME ClusterInv, NEW n \in Peer, UpsertEnds(n)
    PROVE  ClusterInv'
<1>. PICK s, p, k, c, edges, ns : s = nodeState[n] /\ p = planned[n] /\ k = s.applied + 1 /\ c = commands[k]
                                  /\ edges = EdgesOf(s.graph, p.links) /\ ns = nodeState'[n]
  OBVIOUS
<1>1. /\ p.busy
      /\ nodeState' = [nodeState EXCEPT
               ![n].applied = @ + 1,
               ![n].index = UpsertIn(@, c.id, c.at, tick),
               ![n].graph = WithEdges(@, edges),
               ![n].wal = @ \o <<UpsertRecord(c.id, c.at), EdgesRecord(edges)>>]
      /\ planned' = [planned EXCEPT ![n] = NoLinks]
      /\ evaluated' = [evaluated EXCEPT ![k] = @ \cup {tick}]
      /\ UNCHANGED <<config, tick, commands>>
  BY DEF UpsertEnds, NextCommand, Evaluate
<1>2. /\ ClusterTypes /\ Fits(s, p, commands, evaluated) /\ tick \in Nat /\ Len(commands) \in Nat
      /\ planned = [m \in Peer |-> planned[m]] /\ nodeState = [m \in Peer |-> nodeState[m]]
  BY DEF ClusterInv, ClusterTypes
<1>3. k \in 1..Len(commands) /\ s.applied \in Nat /\ k = s.applied + 1 /\ c.op = "upsert"
  BY <1>1, <1>2 DEF Fits
<1>4. PICK more : more = evaluated'
  OBVIOUS
<1>5. /\ more \in Seq(SUBSET Nat) /\ Len(more) = Len(commands) /\ Evaluations(commands, more)
      /\ \A j \in 1..(Len(commands) - 1) : more[j] # {}
      /\ tick \in more[k]
      /\ \A m \in Peer : Fits(nodeState[m], planned[m], commands, more)
      /\ \E D : History(config, D, commands, more) /\ AllFollow(config, D, tick, commands, more)
  BY <1>1, <1>3, <1>4, LookedAt
<1>6. PICK D : History(config, D, commands, more) /\ AllFollow(config, D, tick, commands, more)
  BY <1>5
<1>7. /\ \A m \in Peer \ {n} : nodeState'[m] = nodeState[m] /\ planned'[m] = planned[m]
      /\ planned' = [m \in Peer |-> planned'[m]] /\ nodeState' = [m \in Peer |-> nodeState'[m]]
      /\ planned'[n] = NoLinks
  BY <1>1, <1>2
<1>8. /\ DOMAIN ns = {"applied", "index", "graph", "wal"} /\ ns.applied = k
      /\ ns.index = UpsertBy(config, s.index, c.id, c.at, tick) /\ ns.graph = WithEdges(s.graph, edges)
      /\ ns.wal = s.wal \o <<UpsertRecord(c.id, c.at), EdgesRecord(edges)>>
  <2>1. DOMAIN s = {"applied", "index", "graph", "wal"}
    BY <1>2 DEF Fits
  <2>2. ns = [s EXCEPT !.applied = @ + 1, !.index = UpsertIn(@, c.id, c.at, tick), !.graph = WithEdges(@, edges),
                       !.wal = @ \o <<UpsertRecord(c.id, c.at), EdgesRecord(edges)>>]
    BY <1>1, <1>2
  <2>3. UpsertIn(s.index, c.id, c.at, tick) = UpsertBy(config, s.index, c.id, c.at, tick)
    BY ByConfig
  <2>. QED
    BY <2>1, <2>2, <2>3
<1>9. ClusterTypes'
  BY <1>1, <1>2, <1>4, <1>5, <1>7 DEF ClusterTypes
<1>10. s.applied \in 0..Len(commands) /\ k - 1 = s.applied /\ c.id \in Vertex /\ c.at \in Nat
  <2>1. c \in Commands
    BY <1>3, <1>5 DEF Evaluations
  <2>. QED
    BY <1>2, <1>3, <2>1, ClusterStateAssumption DEF Fits, Commands
<1>11. Fits(ns, NoLinks, commands, more)
  <2>2. \A j \in 1..k : j = k \/ j \in 1..s.applied
    BY <1>3
  <2>3. \A j \in 1..s.applied : more[j] # {}
    BY <1>5 DEF Fits
  <2>4. \A j \in 1..k : more[j] # {}
    BY <1>5, <2>2, <2>3
  <2>5. k \in 0..Len(commands) /\ NoLinks.busy = FALSE
    BY <1>3 DEF NoLinks
  <2>. QED
    BY <1>8, <2>4, <2>5 DEF Fits
<1>12. ASSUME CleanTo(k, commands, more) PROVE Holds(tick, ns, D[k])
  <2>1. CleanTo(s.applied, commands, more) /\ ~StraddledIn(k, commands, more)
    BY <1>3, <1>12 DEF CleanTo
  <2>2. PICK r : r = D[s.applied]
    OBVIOUS
  <2>3. Follows(config, D, s, p, tick, commands, more)
    BY <1>6 DEF AllFollow
  <2>4. Holds(tick, s, r)
    BY <2>1, <2>2, <2>3 DEF Follows
  <2>5. PlannedWell(config, p, c, r, more[k])
    BY <1>1, <1>12, <2>2, <2>3 DEF Follows
  <2>6. r.index \in Indices /\ Sourced(r.index, k - 1, commands)
    BY <1>6, <1>10, <2>2 DEF History, HistoryTyped
  <2>7. D[k] = AfterCommand(config, c, r, tick)
    BY <1>3, <1>5, <1>6, <1>10, <1>12, <2>2 DEF History
  <2>8. PICK t \in more[k] : p.links = LinksBy(config, r.index, c.id, c.at, t)
    BY <2>5 DEF PlannedWell
  <2>9. Visible(r.index, t) = Visible(r.index, tick)
    <3>1. more[k] \in SUBSET Nat /\ k \in Nat \ {0}
      BY <1>3, <1>5 DEF Evaluations
    <3>. QED
      BY <1>5, <2>1, <2>6, <2>8, <3>1, SameTimes
  <2>10. p.links = LinksBy(config, r.index, c.id, c.at, tick)
    <3>1. LookAlike(r.index, t, r.index, tick)
      BY <2>9 DEF LookAlike
    <3>. QED
      BY <2>8, <3>1, SameDecisions
  <2>11. edges = LinkEdges(config, c, r, tick)
    BY <2>4, <2>10 DEF LinkEdges, Holds
  <2>12. /\ Purged(UpsertBy(config, s.index, c.id, c.at, tick), UpsertBy(config, r.index, c.id, c.at, tick), tick)
         /\ UpsertBy(config, s.index, c.id, c.at, tick) \in Indices
    <3>1. tick \in Nat /\ Holds(tick, s, r) /\ r.index \in Indices
      BY <1>2, <2>4, <2>6
    <3>. QED
      BY <1>10, <3>1, SameEffect
  <2>13. /\ D[k].index = UpsertBy(config, r.index, c.id, c.at, tick) /\ D[k].graph = WithEdges(r.graph, edges)
         /\ D[k].wal = r.wal \o <<UpsertRecord(c.id, c.at), EdgesRecord(edges)>>
    BY <1>3, <2>7, <2>11 DEF AfterCommand
  <2>14. s.graph = r.graph /\ s.wal = r.wal
    BY <2>4 DEF Holds
  <2>. QED
    BY <1>8, <2>12, <2>13, <2>14 DEF Holds
<1>13. Follows(config, D, ns, NoLinks, tick, commands, more)
  BY <1>8, <1>12 DEF Follows, NoLinks
<1>. QED
  BY <1>1, <1>2, <1>4, <1>5, <1>6, <1>7, <1>9, <1>11, <1>13, OneNode

LEMMA ClusterRemoves ==
    ASSUME ClusterInv, NEW n \in Peer, ApplyDelete(n) \/ ApplyDeleteWhere(n)
    PROVE  ClusterInv'
<1>. PICK s, k, c, ids, ns : s = nodeState[n] /\ k = s.applied + 1 /\ c = commands[k]
                             /\ ids = Chosen(c, s.index, tick) /\ ns = nodeState'[n]
  OBVIOUS
<1>1. /\ s.applied < Len(commands) /\ c.op # "upsert"
      /\ nodeState' = [nodeState EXCEPT ![n] = Removed(@, ids)]
      /\ evaluated' = [evaluated EXCEPT ![k] = @ \cup {tick}]
      /\ UNCHANGED <<config, tick, commands, planned>>
  BY DEF ApplyDelete, ApplyDeleteWhere, HasCommand, NextCommand, Evaluate, Chosen
<1>2. /\ ClusterTypes /\ Fits(s, planned[n], commands, evaluated) /\ tick \in Nat /\ Len(commands) \in Nat
      /\ planned = [m \in Peer |-> planned[m]] /\ nodeState = [m \in Peer |-> nodeState[m]]
  BY DEF ClusterInv, ClusterTypes
<1>3. k \in 1..Len(commands) /\ s.applied \in Nat /\ k = s.applied + 1 /\ ~planned[n].busy
  BY <1>1, <1>2 DEF Fits
<1>4. PICK more : more = evaluated'
  OBVIOUS
<1>5. /\ more \in Seq(SUBSET Nat) /\ Len(more) = Len(commands) /\ Evaluations(commands, more)
      /\ \A j \in 1..(Len(commands) - 1) : more[j] # {}
      /\ tick \in more[k]
      /\ \A m \in Peer : Fits(nodeState[m], planned[m], commands, more)
      /\ \E D : History(config, D, commands, more) /\ AllFollow(config, D, tick, commands, more)
  BY <1>1, <1>3, <1>4, LookedAt
<1>6. PICK D : History(config, D, commands, more) /\ AllFollow(config, D, tick, commands, more)
  BY <1>5
<1>7. /\ \A m \in Peer \ {n} : nodeState'[m] = nodeState[m] /\ planned'[m] = planned[m]
      /\ nodeState' = [m \in Peer |-> nodeState'[m]] /\ planned'[n] = planned[n]
  BY <1>1, <1>2
<1>8. /\ DOMAIN ns = {"applied", "index", "graph", "wal"} /\ ns.applied = k
      /\ ns.index = WithoutVectors(s.index, ids) /\ ns.graph = WithoutNodes(s.graph, ids)
      /\ ns.wal = Append(s.wal, DeleteRecords(ids))
  <2>1. DOMAIN s = {"applied", "index", "graph", "wal"}
    BY <1>2 DEF Fits
  <2>2. ns = Removed(s, ids)
    BY <1>1, <1>2
  <2>. QED
    BY <2>1, <2>2 DEF Removed
<1>9. ClusterTypes'
  BY <1>1, <1>2, <1>4, <1>5, <1>7 DEF ClusterTypes
<1>10. s.applied \in 0..Len(commands) /\ k - 1 = s.applied
  BY <1>2, <1>3 DEF Fits
<1>11. Fits(ns, planned[n], commands, more)
  <2>2. \A j \in 1..k : j = k \/ j \in 1..s.applied
    BY <1>3
  <2>3. \A j \in 1..s.applied : more[j] # {}
    BY <1>5 DEF Fits
  <2>4. \A j \in 1..k : more[j] # {}
    BY <1>5, <2>2, <2>3
  <2>5. k \in 0..Len(commands)
    BY <1>3
  <2>. QED
    BY <1>3, <1>8, <2>4, <2>5 DEF Fits
<1>12. ASSUME CleanTo(k, commands, more) PROVE Holds(tick, ns, D[k])
  <2>1. CleanTo(s.applied, commands, more)
    BY <1>3, <1>12 DEF CleanTo
  <2>2. PICK r : r = D[s.applied]
    OBVIOUS
  <2>3. Follows(config, D, s, planned[n], tick, commands, more)
    BY <1>6 DEF AllFollow
  <2>4. Holds(tick, s, r)
    BY <2>1, <2>2, <2>3 DEF Follows
  <2>5. r.index \in Indices
    BY <1>6, <1>10, <2>2 DEF History, HistoryTyped
  <2>6. D[k] = AfterCommand(config, c, r, tick)
    BY <1>3, <1>5, <1>6, <1>10, <1>12, <2>2 DEF History
  <2>7. /\ ids = Chosen(c, r.index, tick)
        /\ Purged(WithoutVectors(s.index, ids), WithoutVectors(r.index, ids), tick)
        /\ WithoutVectors(s.index, ids) \in Indices
    <3>1. tick \in Nat /\ Holds(tick, s, r) /\ r.index \in Indices
      BY <1>2, <2>4, <2>5
    <3>2. Chosen(c, s.index, tick) = Chosen(c, r.index, tick)
      BY <3>1, SameEffect
    <3>3. /\ Purged(WithoutVectors(s.index, ids), WithoutVectors(r.index, ids), tick)
          /\ WithoutVectors(s.index, ids) \in Indices
      BY <3>1, SameEffect
    <3>. QED
      BY <3>2, <3>3
  <2>8. /\ D[k].index = WithoutVectors(r.index, ids) /\ D[k].graph = WithoutNodes(r.graph, ids)
        /\ D[k].wal = Append(r.wal, DeleteRecords(ids))
    BY <1>1, <2>6, <2>7 DEF AfterCommand
  <2>9. s.graph = r.graph /\ s.wal = r.wal
    BY <2>4 DEF Holds
  <2>. QED
    BY <1>8, <2>7, <2>8, <2>9 DEF Holds
<1>13. Follows(config, D, ns, planned[n], tick, commands, more)
  BY <1>3, <1>8, <1>12 DEF Follows
<1>. QED
  BY <1>1, <1>2, <1>4, <1>5, <1>6, <1>7, <1>9, <1>11, <1>13, OneNode

LEMMA ClusterSearches ==
    ASSUME ClusterInv, NEW n \in Peer, Search(n)
    PROVE  ClusterInv'
<1>. PICK s, ns : s = nodeState[n] /\ ns = nodeState'[n]
  OBVIOUS
<1>1. /\ nodeState' = [nodeState EXCEPT ![n].index = purge_expired(@, tick)]
      /\ UNCHANGED <<config, tick, commands, planned, evaluated>>
  BY DEF Search
<1>2. /\ ClusterTypes /\ Fits(s, planned[n], commands, evaluated) /\ tick \in Nat
      /\ nodeState = [m \in Peer |-> nodeState[m]]
  BY DEF ClusterInv, ClusterTypes
<1>3. PICK D : History(config, D, commands, evaluated) /\ AllFollow(config, D, tick, commands, evaluated)
  BY DEF ClusterInv
<1>4. /\ \A m \in Peer \ {n} : nodeState'[m] = nodeState[m] /\ planned'[m] = planned[m]
      /\ nodeState' = [m \in Peer |-> nodeState'[m]]
  BY <1>1, <1>2
<1>5. /\ DOMAIN ns = {"applied", "index", "graph", "wal"} /\ ns.applied = s.applied
      /\ ns.index = purge_expired(s.index, tick) /\ ns.graph = s.graph /\ ns.wal = s.wal
  <2>1. DOMAIN s = {"applied", "index", "graph", "wal"}
    BY <1>2 DEF Fits
  <2>2. ns = [s EXCEPT !.index = purge_expired(@, tick)]
    BY <1>1, <1>2
  <2>. QED
    BY <2>1, <2>2
<1>6. ClusterTypes'
  BY <1>1, <1>2, <1>4 DEF ClusterTypes
<1>8. Fits(ns, planned[n], commands, evaluated)
  BY <1>2, <1>5 DEF Fits
<1>9. ASSUME NEW record, Holds(tick, s, record) PROVE Holds(tick, ns, record)
  <2>1. ns.index \in Indices /\ Purged(ns.index, record.index, tick)
    BY <1>5, <1>9 DEF Holds, Purged, purge_expired, Indices
  <2>. QED
    BY <1>5, <1>9, <2>1 DEF Holds
<1>10. Follows(config, D, ns, planned[n], tick, commands, evaluated)
  <2>1. Follows(config, D, s, planned[n], tick, commands, evaluated)
    BY <1>3 DEF AllFollow
  <2>. QED
    BY <1>5, <1>9, <2>1 DEF Follows
<1>11. \A m \in Peer : Fits(nodeState[m], planned[m], commands, evaluated)
  BY DEF ClusterInv
<1>. QED
  BY <1>1, <1>2, <1>3, <1>4, <1>6, <1>8, <1>10, <1>11, OneNode

LEMMA ClusterRestarts ==
    ASSUME ClusterInv, NEW n \in Peer, NEW m \in Peer, RestartOrRestore(n, m)
    PROVE  ClusterInv'
<1>. PICK s, k, ns, more : s = nodeState[m] /\ k = s.applied /\ ns = nodeState'[n] /\ more = evaluated'
  OBVIOUS
<1>1. /\ ~planned[n].busy
      /\ nodeState' = [nodeState EXCEPT ![n] = Recovered(s, tick)]
      /\ more = [j \in DOMAIN evaluated |->
                    IF config.dedup /\ j <= k /\ commands[j].op = "upsert" THEN evaluated[j] \cup {tick}
                    ELSE evaluated[j]]
      /\ UNCHANGED <<config, tick, commands, planned>>
  BY DEF RestartOrRestore, EvaluateAgain
<1>2. /\ ClusterTypes /\ tick \in Nat /\ Len(commands) \in Nat /\ DOMAIN evaluated = 1..Len(commands)
      /\ Evaluations(commands, evaluated) /\ Fits(s, planned[m], commands, evaluated)
      /\ nodeState = [i \in Peer |-> nodeState[i]]
  BY EvaluationsAre DEF ClusterInv, ClusterTypes
<1>3. k \in 0..Len(commands) /\ k \in Nat /\ \A j \in 1..k : evaluated[j] # {}
  BY <1>2 DEF Fits
<1>4. /\ \A j \in 1..Len(commands) : evaluated[j] \subseteq more[j] /\ more[j] \in SUBSET Nat
      /\ \A j \in 1..Len(commands) : evaluated[j] # {} \/ more[j] = {}
      /\ more = [j \in 1..Len(commands) |-> more[j]]
      /\ config.dedup => \A j \in 1..k : commands[j].op = "upsert" => tick \in more[j]
  <2>1. \A j \in 1..Len(commands) : evaluated[j] \in SUBSET Nat /\ j \in Nat
    BY <1>2 DEF Evaluations
  <2>2. \A j \in 1..k : j \in 1..Len(commands) /\ j <= k
    BY <1>3
  <2>3. \A j \in 1..Len(commands) : j \in 1..k \/ ~(j <= k)
    BY <1>3
  <2>4. \A j \in 1..Len(commands) :
           more[j] = IF config.dedup /\ j <= k /\ commands[j].op = "upsert" THEN evaluated[j] \cup {tick} ELSE evaluated[j]
    BY <1>1, <1>2
  <2>. QED
    BY <1>1, <1>2, <1>3, <2>1, <2>2, <2>3, <2>4
<1>5. /\ more \in Seq(SUBSET Nat) /\ Len(more) = Len(commands)
      /\ Evaluations(commands, more) /\ LooksMore(commands, evaluated, more)
  <2>1. more \in [1..Len(commands) -> SUBSET Nat]
    BY <1>4
  <2>2. more \in Seq(SUBSET Nat) /\ Len(more) = Len(commands)
    BY <1>2, <2>1
  <2>. QED
    BY <1>2, <1>4, <2>2 DEF Evaluations, LooksMore
<1>6. PICK C : History(config, C, commands, evaluated) /\ AllFollow(config, C, tick, commands, evaluated)
  BY DEF ClusterInv
<1>7. History(config, C, commands, more) /\ HistoryTyped(C, commands)
  <2>1. \A j \in 1..Len(commands) : evaluated[j] # {} \/ more[j] = {}
    BY <1>4
  <2>2. History(config, C, commands, more)
    BY <1>2, <1>5, <1>6, <2>1, HistoryGoesOn
  <2>. QED
    BY <2>2 DEF History
<1>8. ASSUME NEW i \in Peer
      PROVE  Follows(config, C, nodeState[i], planned[i], tick, commands, more) /\ Fits(nodeState[i], planned[i], commands, more)
  <2>1. PICK x, p : x = nodeState[i] /\ p = planned[i]
    OBVIOUS
  <2>2. Follows(config, C, x, p, tick, commands, evaluated) /\ Fits(x, p, commands, evaluated) /\ C[x.applied] = C[x.applied]
    BY <1>6, <2>1 DEF AllFollow, ClusterInv
  <2>3. tick <= tick
    BY <1>2
  <2>4. Follows(config, C, x, p, tick, commands, more) /\ Fits(x, p, commands, more)
    BY <1>2, <1>5, <1>7, <2>2, <2>3, FollowsOn
  <2>. QED
    BY <2>1, <2>4
<1>9. /\ \A i \in Peer \ {n} : nodeState'[i] = nodeState[i] /\ planned'[i] = planned[i]
      /\ nodeState' = [i \in Peer |-> nodeState'[i]] /\ planned'[n] = planned[n]
  BY <1>1, <1>2
<1>10. /\ DOMAIN ns = {"applied", "index", "graph", "wal"} /\ ns.applied = k /\ ns.wal = s.wal
       /\ ns.index = Replayed(s.wal, tick).index /\ ns.graph = Replayed(s.wal, tick).graph
  <2>1. DOMAIN s = {"applied", "index", "graph", "wal"}
    BY <1>2 DEF Fits
  <2>2. ns = Recovered(s, tick)
    BY <1>1, <1>2
  <2>. QED
    BY <2>1, <2>2 DEF Recovered
<1>11. ClusterTypes'
  <2>1. \A j \in 1..(Len(commands) - 1) : more[j] # {}
    <3>1. \A j \in 1..(Len(commands) - 1) : j \in 1..Len(commands) /\ evaluated[j] # {}
      BY <1>2 DEF ClusterTypes
    <3>. QED
      BY <1>4, <3>1
  <2>. QED
    BY <1>1, <1>2, <1>5, <1>9, <2>1 DEF ClusterTypes
<1>12. ASSUME CleanTo(k, commands, more) PROVE Holds(tick, ns, C[k])
  <2>1. Holds(tick, s, C[k])
    BY <1>8, <1>12 DEF Follows
  <2>2. s.wal = C[k].wal
    BY <2>1 DEF Holds
  <2>3. \A j \in 1..k : more[j] # {}
    BY <1>3, <1>4
  <2>4. Replayed(C[k].wal, tick) = [index |-> C[k].index, graph |-> C[k].graph]
    <3>1. DecidedAgain(k, tick, commands, more)
      BY <1>4 DEF DecidedAgain
    <3>2. k \in 0..Len(commands) /\ Evaluations(commands, more) /\ History(config, C, commands, more)
      BY <1>3, <1>5, <1>7
    <3>3. PICK cmds, t : cmds = commands /\ t = tick
      OBVIOUS
    <3>4. /\ CleanTo(k, cmds, more) /\ \A j \in 1..k : more[j] # {}
          /\ DecidedAgain(k, t, cmds, more) /\ k \in 0..Len(cmds)
          /\ Evaluations(cmds, more) /\ History(config, C, cmds, more)
      BY <1>12, <2>3, <3>1, <3>2, <3>3
    <3>5. MadeAgain(C[k], t)
      BY <3>4, HistoryReplayed
    <3>. QED
      BY <3>3, <3>5 DEF MadeAgain
  <2>5. ns.index = C[k].index /\ ns.graph = C[k].graph /\ ns.wal = C[k].wal
    BY <1>10, <2>2, <2>4
  <2>6. C[k].index \in Indices
    BY <1>3, <1>7 DEF HistoryTyped
  <2>. QED
    BY <2>5, <2>6 DEF Holds, Purged
<1>13. Follows(config, C, ns, planned[n], tick, commands, more)
  BY <1>1, <1>10, <1>12 DEF Follows
<1>14. Fits(ns, planned[n], commands, more)
  <2>1. \A j \in 1..k : more[j] # {}
    BY <1>3, <1>4
  <2>. QED
    BY <1>1, <1>3, <1>10, <2>1 DEF Fits
<1>15. AllFollow(config, C, tick, commands, more) /\ \A i \in Peer : Fits(nodeState[i], planned[i], commands, more)
  BY <1>8 DEF AllFollow
<1>. QED
  BY <1>1, <1>2, <1>7, <1>9, <1>11, <1>13, <1>14, <1>15, OneNode

LEMMA ClusterSubmits ==
    ASSUME ClusterInv, SubmitCommand
    PROVE  ClusterInv'
<1>. PICK longer, evs, size : longer = commands' /\ evs = evaluated' /\ size = Len(commands)
  OBVIOUS
<1>1. /\ \A k \in DOMAIN commands : evaluated[k] # {}
      /\ \E c \in [op : {"upsert"}, id : Fact, at : 1..tick]
                \cup [op : {"delete"}, id : Fact] \cup [op : {"delete_where"}] : longer = Append(commands, c)
      /\ evs = Append(evaluated, {}) /\ UNCHANGED <<config, tick, nodeState, planned>>
  BY DEF SubmitCommand
<1>2. /\ ClusterTypes /\ tick \in Nat /\ size \in Nat /\ commands \in Seq(Commands) /\ evaluated \in Seq(SUBSET Nat)
      /\ Len(evaluated) = size /\ Evaluations(commands, evaluated)
  BY EvaluationsAre DEF ClusterInv, ClusterTypes
<1>3. PICK c \in Commands : longer = Append(commands, c)
  <2>1. 1..tick \subseteq Nat
    BY <1>2
  <2>. QED
    BY <1>1, <2>1 DEF Commands
<1>4. /\ longer \in Seq(Commands) /\ Len(longer) = size + 1 /\ \A k \in 1..size : longer[k] = commands[k]
      /\ longer[size + 1] = c
  BY <1>2, <1>3
<1>5. /\ evs \in Seq(SUBSET Nat) /\ Len(evs) = size + 1 /\ \A k \in 1..size : evs[k] = evaluated[k]
      /\ evs[size + 1] = {}
  BY <1>1, <1>2
<1>6. ClusterTypes'
  <2>1. \A k \in 1..((size + 1) - 1) : evs[k] # {}
    BY <1>1, <1>2, <1>5
  <2>2. longer \in Seq(Commands) /\ evs \in Seq(SUBSET Nat) /\ Len(evs) = Len(longer)
        /\ \A k \in 1..(Len(longer) - 1) : evs[k] # {}
    BY <1>4, <1>5, <2>1
  <2>. QED
    BY <1>1, <1>2, <2>2 DEF ClusterTypes
<1>7. PICK C : History(config, C, commands, evaluated) /\ AllFollow(config, C, tick, commands, evaluated)
  BY DEF ClusterInv
<1>8. PICK D : History(config, D, longer, evs) /\ \A k \in 0..size : D[k] = C[k]
  <2>1. /\ Evaluations(commands, evaluated) /\ History(config, C, commands, evaluated)
        /\ Len(longer) = Len(commands) + 1 /\ evs[Len(commands) + 1] = {}
    BY <1>2, <1>4, <1>5, <1>7
  <2>2. \A k \in 1..Len(commands) : longer[k] = commands[k] /\ evs[k] = evaluated[k]
    BY <1>4, <1>5
  <2>3. KeepsTo(config, longer, evs, Len(commands), C)
    BY <2>1, <2>2, HistorySubmits
  <2>. QED
    BY <2>3 DEF KeepsTo
<1>9. ASSUME NEW n \in Peer
      PROVE  Fits(nodeState[n], planned[n], longer, evs) /\ Follows(config, D, nodeState[n], planned[n], tick, longer, evs)
  <2>1. PICK s, p, k : s = nodeState[n] /\ p = planned[n] /\ k = s.applied
    OBVIOUS
  <2>2. Fits(s, p, commands, evaluated) /\ Follows(config, C, s, p, tick, commands, evaluated)
    BY <1>7, <2>1 DEF AllFollow, ClusterInv
  <2>3. k \in 0..size /\ k \in Nat /\ (p.busy => k + 1 \in 1..size)
    BY <1>2, <2>1, <2>2 DEF Fits
  <2>4. \A j \in 1..k : j \in 1..size
    BY <1>2, <2>3
  <2>5. Fits(s, p, longer, evs)
    <3>1. \A j \in 1..k : evs[j] # {}
      BY <1>5, <2>1, <2>2, <2>4 DEF Fits
    <3>2. p.busy => k + 1 \in 1..Len(longer) /\ longer[k + 1].op = "upsert" /\ evs[k + 1] # {}
      <4>1. p.busy => commands[k + 1].op = "upsert" /\ evaluated[k + 1] # {}
        BY <2>1, <2>2 DEF Fits
      <4>2. p.busy => k + 1 \in 1..(size + 1)
        BY <1>2, <2>3
      <4>. QED
        BY <1>4, <1>5, <2>3, <4>1, <4>2
    <3>3. k \in 0..Len(longer)
      BY <1>2, <1>4, <2>3
    <3>4. DOMAIN s = {"applied", "index", "graph", "wal"}
      BY <2>2 DEF Fits
    <3>. QED
      BY <2>1, <3>1, <3>2, <3>3, <3>4 DEF Fits
  <2>6. ASSUME NEW i \in 0..size, CleanTo(i, longer, evs) PROVE CleanTo(i, commands, evaluated)
    <3>1. \A j \in 1..i : evs[j] = evaluated[j] /\ longer[j] = commands[j] /\ 1..(j - 1) \subseteq 1..i
      BY <1>2, <1>4, <1>5
    <3>. QED
      BY <2>6, <3>1 DEF CleanTo, StraddledIn
  <2>7. CleanTo(k, longer, evs) => Holds(tick, s, D[k])
    BY <1>8, <2>1, <2>2, <2>3, <2>6 DEF Follows
  <2>8. ASSUME p.busy, CleanTo(k + 1, longer, evs) PROVE PlannedWell(config, p, longer[k + 1], D[k], evs[k + 1])
    <3>1. k + 1 \in 1..size /\ k + 1 \in 0..size
      BY <1>2, <2>3, <2>8
    <3>2. PlannedWell(config, p, commands[k + 1], C[k], evaluated[k + 1])
      BY <2>1, <2>2, <2>6, <2>8, <3>1 DEF Follows
    <3>. QED
      BY <1>4, <1>5, <1>8, <2>3, <3>1, <3>2
  <2>. QED
    BY <2>1, <2>5, <2>7, <2>8 DEF Follows
<1>10. History(config, D, longer, evs) /\ \A n \in Peer : Follows(config, D, nodeState[n], planned[n], tick, longer, evs)
  BY <1>8, <1>9
<1>11. History(config', D, commands', evaluated') /\ \A n \in Peer : Follows(config', D, nodeState'[n], planned'[n], tick', commands', evaluated')
  BY <1>1, <1>10
<1>12. \A n \in Peer : Fits(nodeState'[n], planned'[n], commands', evaluated')
  BY <1>1, <1>9
<1>. QED
  BY <1>6, <1>11, <1>12 DEF ClusterInv, AllFollow

LEMMA ClusterWaits ==
    ASSUME ClusterInv, TimePasses
    PROVE  ClusterInv'
<1>1. tick' = tick + 1 /\ UNCHANGED <<config, commands, nodeState, planned, evaluated>>
  BY DEF TimePasses
<1>2. ClusterTypes /\ tick \in Nat /\ tick + 1 \in Nat /\ tick <= tick + 1 /\ Evaluations(commands, evaluated)
  BY EvaluationsAre DEF ClusterInv, ClusterTypes
<1>3. ClusterTypes'
  BY <1>1, <1>2 DEF ClusterTypes
<1>4. PICK C : History(config, C, commands, evaluated) /\ AllFollow(config, C, tick, commands, evaluated)
  BY DEF ClusterInv
<1>5. LooksMore(commands, evaluated, evaluated) /\ HistoryTyped(C, commands)
  BY <1>4 DEF LooksMore, History
<1>6. ASSUME NEW n \in Peer
      PROVE  Follows(config, C, nodeState[n], planned[n], tick + 1, commands, evaluated)
  <2>1. PICK s, p : s = nodeState[n] /\ p = planned[n]
    OBVIOUS
  <2>2. Follows(config, C, s, p, tick, commands, evaluated) /\ Fits(s, p, commands, evaluated) /\ C[s.applied] = C[s.applied]
    BY <1>4, <2>1 DEF AllFollow, ClusterInv
  <2>3. Follows(config, C, s, p, tick + 1, commands, evaluated)
    BY <1>2, <1>5, <2>2, FollowsOn
  <2>. QED
    BY <2>1, <2>3
<1>7. History(config', C, commands', evaluated') /\ \A n \in Peer : Follows(config', C, nodeState'[n], planned'[n], tick', commands', evaluated')
  BY <1>1, <1>4, <1>6
<1>8. \A n \in Peer : Fits(nodeState'[n], planned'[n], commands', evaluated')
  BY <1>1 DEF ClusterInv
<1>. QED
  BY <1>3, <1>7, <1>8 DEF ClusterInv, AllFollow

LEMMA ClusterInitially == CSInit => ClusterInv
<1>. SUFFICES ASSUME CSInit PROVE ClusterInv
  OBVIOUS
<1>1. /\ tick = 2 /\ commands = <<>> /\ evaluated = <<>> /\ planned = [n \in Peer |-> NoLinks]
      /\ nodeState = [n \in Peer |-> [applied |-> 0, index |-> NoVectors.index, graph |-> NoVectors.graph, wal |-> <<>>]]
  BY DEF CSInit
<1>2. Len(commands) = 0 /\ Len(evaluated) = 0
  BY <1>1
<1>3. ClusterTypes
  BY <1>1, <1>2 DEF ClusterTypes
<1>. DEFINE first == [index |-> NoVectors.index, graph |-> NoVectors.graph, wal |-> <<>>]
            C == [k \in 0..0 |-> first]
<1>4. C[0] = first /\ C = [k \in 0..0 |-> C[k]] /\ \A k \in 0..0 : k = 0
  OBVIOUS
<1>5. first.index \in Indices /\ \A id \in Vertex : first.index[id] = 0
  BY DEF NoVectors, Indices
<1>6. first.wal \in Seq(ShardRecords)
  OBVIOUS
<1>. HIDE DEF C
<1>7. HistoryTyped(C, commands)
  BY <1>2, <1>4, <1>5, <1>6 DEF HistoryTyped, Sourced
<1>8. History(config, C, commands, evaluated)
  BY <1>2, <1>7 DEF History
<1>9. ASSUME NEW n \in Peer
      PROVE  /\ Fits(nodeState[n], planned[n], commands, evaluated)
             /\ Follows(config, C, nodeState[n], planned[n], tick, commands, evaluated)
  <2>1. PICK s : s = nodeState[n]
    OBVIOUS
  <2>2. /\ s = [applied |-> 0, index |-> NoVectors.index, graph |-> NoVectors.graph, wal |-> <<>>]
        /\ planned[n] = NoLinks
    BY <1>1, <2>1
  <2>3. NoLinks.busy = FALSE
    BY DEF NoLinks
  <2>4. Fits(s, planned[n], commands, evaluated)
    BY <1>2, <2>2, <2>3 DEF Fits
  <2>5. Holds(tick, s, C[0])
    BY <1>4, <1>5, <2>2 DEF Holds, Purged
  <2>6. Follows(config, C, s, planned[n], tick, commands, evaluated)
    BY <2>2, <2>3, <2>5 DEF Follows
  <2>. QED
    BY <2>1, <2>4, <2>6
<1>. QED
  BY <1>3, <1>8, <1>9 DEF ClusterInv, AllFollow

LEMMA ClusterInvariant == CSSpec => []ClusterInv
<1>1. ClusterInv /\ [CSNext]_csVars => ClusterInv'
  <2>. SUFFICES ASSUME ClusterInv, [CSNext]_csVars PROVE ClusterInv'
    OBVIOUS
  <2>1. CASE TimePasses \/ SubmitCommand
    BY <2>1, ClusterWaits, ClusterSubmits
  <2>2. ASSUME NEW n \in Peer, UpsertBegins(n) \/ UpsertEnds(n) PROVE ClusterInv'
    BY <2>2, ClusterBegins, ClusterEnds
  <2>3. ASSUME NEW n \in Peer, ApplyDelete(n) \/ ApplyDeleteWhere(n) PROVE ClusterInv'
    BY <2>3, ClusterRemoves
  <2>4. ASSUME NEW n \in Peer, Search(n) PROVE ClusterInv'
    BY <2>4, ClusterSearches
  <2>5. ASSUME NEW n \in Peer, NEW m \in Peer, RestartOrRestore(n, m) PROVE ClusterInv'
    BY <2>5, ClusterRestarts
  <2>6. CASE UNCHANGED csVars
    <3>1. config' = config /\ tick' = tick /\ commands' = commands /\ nodeState' = nodeState /\ planned' = planned /\ evaluated' = evaluated
      BY <2>6 DEF csVars
    <3>2. ClusterTypes'
      BY <3>1 DEF ClusterInv, ClusterTypes
    <3>3. PICK C : History(config, C, commands, evaluated) /\ AllFollow(config, C, tick, commands, evaluated)
      BY DEF ClusterInv
    <3>4. History(config', C, commands', evaluated') /\ \A n \in Peer : Follows(config', C, nodeState'[n], planned'[n], tick', commands', evaluated')
      BY <3>1, <3>3 DEF AllFollow
    <3>5. \A n \in Peer : Fits(nodeState'[n], planned'[n], commands', evaluated')
      BY <3>1 DEF ClusterInv
    <3>. QED
      BY <3>2, <3>4, <3>5 DEF ClusterInv, AllFollow
  <2>. QED
    BY <2>1, <2>2, <2>3, <2>4, <2>5, <2>6 DEF CSNext
<1>. QED
  BY <1>1, ClusterInitially, PTL DEF CSSpec

\* Whatever nodes have applied the same commands show the same vectors with the same newer versions:
\* each at the times it got to them, purged by its own searches, restarted, or restored from the
\* snapshot of another; unless a vector expired between two evaluations of a command.
THEOREM ReplicasShowTheSame == CSSpec => []NodesAgree
<1>1. ClusterInv => NodesAgree
  <2>. SUFFICES ASSUME ClusterInv, NEW n \in Peer, NEW m \in Peer,
                       nodeState[n].applied = nodeState[m].applied,
                       \A k \in 1..nodeState[n].applied : ~Straddled(k),
                       NEW id \in Vertex
                PROVE  Shown(n, id) = Shown(m, id)
    BY DEF NodesAgree
  <2>1. PICK k : k = nodeState[n].applied /\ k = nodeState[m].applied
    OBVIOUS
  <2>2. CleanTo(k, commands, evaluated)
    BY <2>1 DEF CleanTo, StraddledIn, Straddled
  <2>3. PICK C : History(config, C, commands, evaluated) /\ AllFollow(config, C, tick, commands, evaluated)
    BY DEF ClusterInv
  <2>4. Holds(tick, nodeState[n], C[k]) /\ Holds(tick, nodeState[m], C[k])
    BY <2>1, <2>2, <2>3 DEF AllFollow, Follows
  <2>5. C[k].index \in Indices /\ tick \in Nat
    BY <2>1, <2>3 DEF History, HistoryTyped, ClusterInv, ClusterTypes, Fits
  <2>6. /\ LookAlike(nodeState[n].index, tick, C[k].index, tick)
        /\ LookAlike(nodeState[m].index, tick, C[k].index, tick)
    BY <2>4, <2>5, SameEffect
  <2>7. nodeState[n].graph = nodeState[m].graph
    BY <2>4 DEF Holds
  <2>. QED
    BY <2>6, <2>7 DEF LookAlike, Shown
<1>. QED
  BY <1>1, ClusterInvariant, PTL
=============================================================================
