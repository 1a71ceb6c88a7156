---------------------------- MODULE UltraDurable ----------------------------
(***************************************************************************)
(* Writes of cluster/ultra_durable_collection.hpp: they go through a group *)
(* of Raft nodes in the same process that share one collection. Each node  *)
(* has its own apply thread, and whichever comes first to an entry applies *)
(* it; a writer waits until the index of its entry has been applied.       *)
(*                                                                         *)
(* Of Raft (the subject of the module of that name) there are the logs of  *)
(* the leaders, of which only the newest commits; an older one may not     *)
(* have heard of it yet and still accept writes.                           *)
(***************************************************************************)
EXTENDS Naturals, Sequences, SequencesExt, FiniteSets

CONSTANTS
    Member,         \* the nodes of the group
    User,           \* the threads that write
    MaxLeaders,     \* bound: leaders
    MaxWritten,     \* bound: writes
    MaxThrows       \* bound: entries whose application throws

ASSUME UltraAssumption == {MaxLeaders, MaxWritten, MaxThrows} \subseteq Nat

VARIABLES
    logOf,          \* the log of each leader, the newest last: numbers of writes, 0 for a no-op
    accepts,        \* the leaders that still think they lead
    chosen,         \* the committed entries
    lastApplied,    \* last_applied_ of each node
    applied_index_, \* of the collection
    underlying_,    \* the collection: the writes that were applied to it, in order
    wait,           \* the write each thread waits for, with its index
    confirmed,      \* history: writes whose call returned, with their index
    written,        \* writes so far
    threw           \* history: indices at which the application threw

ultraVars == <<logOf, accepts, chosen, lastApplied, applied_index_, underlying_, wait, confirmed,
               written, threw>>

NoWait == [num |-> 0, idx |-> 0]

NoOpEntry == 0

-----------------------------------------------------------------------------
\* A new leader has all that is committed, perhaps more of an older leader's log, and a no-op.
NewLeader ==
    /\ Len(logOf) < MaxLeaders
    /\ \E base \in {chosen} \cup {logOf[t] : t \in {u \in DOMAIN logOf : IsPrefix(chosen, logOf[u])}} :
          logOf' = Append(logOf, Append(base, NoOpEntry))
    /\ accepts' = accepts \cup {Len(logOf) + 1}
    /\ UNCHANGED <<chosen, lastApplied, applied_index_, underlying_, wait, confirmed, written, threw>>

\* An older leader hears of the new one.
StepsDown ==
    /\ \E t \in accepts : t < Len(logOf) /\ accepts' = accepts \ {t}
    /\ UNCHANGED <<logOf, chosen, lastApplied, applied_index_, underlying_, wait, confirmed, written, threw>>

\* The newest leader commits; its no-op stands between older entries and its own.
Commits ==
    /\ logOf # <<>>
    /\ \E n \in (Len(chosen) + 1)..Len(Last(logOf)) :
          /\ \A t \in 1..(Len(logOf) - 1) : ~IsPrefix(SubSeq(Last(logOf), 1, n), logOf[t])
          /\ chosen' = SubSeq(Last(logOf), 1, n)
    /\ UNCHANGED <<logOf, accepts, lastApplied, applied_index_, underlying_, wait, confirmed, written, threw>>

-----------------------------------------------------------------------------
\* upsert, remove, add_edge: RaftGroup::submit asks the first node that says it leads.
SubmitWrite(u) ==
    /\ wait[u] = NoWait /\ written < MaxWritten
    /\ \E t \in accepts :
          /\ logOf' = [logOf EXCEPT ![t] = Append(@, written + 1)]
          /\ wait' = [wait EXCEPT ![u] = [num |-> written + 1, idx |-> Len(logOf[t]) + 1]]
    /\ written' = written + 1
    /\ UNCHANGED <<accepts, chosen, lastApplied, applied_index_, underlying_, confirmed, threw>>

\* Mutant: an entry that was applied is applied again.
AppliedBefore_OffByOne(idx) == idx < applied_index_

AppliedBefore(idx) == idx <= applied_index_

\* The apply thread of a node passes over a no-op, or an entry another node has applied.
PassEntry(n) ==
    /\ lastApplied[n] < Len(chosen)
    /\ LET idx == lastApplied[n] + 1 IN chosen[idx] = NoOpEntry \/ AppliedBefore(idx)
    /\ lastApplied' = [lastApplied EXCEPT ![n] = @ + 1]
    /\ UNCHANGED <<logOf, accepts, chosen, applied_index_, underlying_, wait, confirmed, written, threw>>

\* _apply_raft_entry, under apply_mu_.
ApplyEntryOf(n) ==
    /\ lastApplied[n] < Len(chosen)
    /\ LET idx == lastApplied[n] + 1
       IN  /\ chosen[idx] # NoOpEntry /\ ~AppliedBefore(idx)
           /\ underlying_' = Append(underlying_, chosen[idx])
           /\ applied_index_' = idx
    /\ lastApplied' = [lastApplied EXCEPT ![n] = @ + 1]
    /\ UNCHANGED <<logOf, accepts, chosen, wait, confirmed, written, threw>>

\* The collection throws: the node goes on to the next entry, another may try this one.
ApplyThrows(n) ==
    /\ lastApplied[n] < Len(chosen)
    /\ LET idx == lastApplied[n] + 1
       IN  /\ chosen[idx] # NoOpEntry /\ ~AppliedBefore(idx)
           /\ threw' = threw \cup {idx}
    /\ Cardinality(threw') <= MaxThrows
    /\ lastApplied' = [lastApplied EXCEPT ![n] = @ + 1]
    /\ UNCHANGED <<logOf, accepts, chosen, applied_index_, underlying_, wait, confirmed, written>>

\* Mutant: the writer wakes up one entry early.
Reached_Early(idx) == applied_index_ + 1 >= idx

Reached(idx) == applied_index_ >= idx

\* _wait_applied returns.
Confirm(u) ==
    /\ wait[u] # NoWait /\ Reached(wait[u].idx)
    /\ confirmed' = confirmed \cup {wait[u]}
    /\ wait' = [wait EXCEPT ![u] = NoWait]
    /\ UNCHANGED <<logOf, accepts, chosen, lastApplied, applied_index_, underlying_, written, threw>>

\* Its time is up.
WaitFails(u) ==
    /\ wait[u] # NoWait
    /\ wait' = [wait EXCEPT ![u] = NoWait]
    /\ UNCHANGED <<logOf, accepts, chosen, lastApplied, applied_index_, underlying_, confirmed, written, threw>>

UltraInit ==
    /\ logOf = <<>> /\ accepts = {} /\ chosen = <<>>
    /\ lastApplied = [n \in Member |-> 0]
    /\ applied_index_ = 0
    /\ underlying_ = <<>>
    /\ wait = [u \in User |-> NoWait]
    /\ confirmed = {} /\ written = 0 /\ threw = {}

UltraNext ==
    \/ NewLeader \/ StepsDown \/ Commits
    \/ \E u \in User : SubmitWrite(u) \/ Confirm(u) \/ WaitFails(u)
    \/ \E n \in Member : PassEntry(n) \/ ApplyEntryOf(n) \/ ApplyThrows(n)

UltraSpec == UltraInit /\ [][UltraNext]_ultraVars

-----------------------------------------------------------------------------
\* However the nodes' apply threads interleave, every committed write reaches the collection once
\* and in the order of the log; one whose application threw may be missing.
AppliedInOrder ==
    /\ applied_index_ <= Len(chosen)
    /\ \E at \in [DOMAIN underlying_ -> 1..applied_index_] :
          /\ \A j, k \in DOMAIN underlying_ : j < k => at[j] < at[k]
          /\ \A j \in DOMAIN underlying_ : underlying_[j] = chosen[at[j]] /\ chosen[at[j]] # NoOpEntry
          /\ \A k \in 1..applied_index_ :
                chosen[k] = NoOpEntry \/ k \in threw \/ \E j \in DOMAIN underlying_ : at[j] = k

\* A call that returned has its write in the collection ("so reads see the write"), except where
\* another leader put another entry at its index, or the application threw: neither is noticed.
ConfirmedIsApplied ==
    \A c \in confirmed :
        \/ \E j \in DOMAIN underlying_ : underlying_[j] = c.num
        \/ c.idx <= Len(chosen) /\ chosen[c.idx] # c.num
        \/ c.idx \in threw

\* Writes are applied once, in order, and before they are confirmed.
AppliedOnceAndSeen == AppliedInOrder /\ ConfirmedIsApplied
=============================================================================
