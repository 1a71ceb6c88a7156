----------------------------- MODULE RaftReads -----------------------------
(***************************************************************************)
(* Linearizable reads of consensus/raft.hpp: read_index, which confirms    *)
(* the leader with a round of heartbeats, and lease_read, which counts on  *)
(* what a majority acknowledged a short time ago. Clocks run alike on all  *)
(* nodes, and check_quorum is on.                                          *)
(*                                                                         *)
(* Logs are compared by their last entry only, an election collects its    *)
(* votes in one step, and a follower takes the leader's log as a whole;    *)
(* the steps of these are the subject of Raft. One RPC to each peer is     *)
(* under way at a time.                                                    *)
(***************************************************************************)
EXTENDS Naturals, FiniteSets

CONSTANTS
    Server,         \* the nodes
    FirstLeader,    \* the one that leads in the beginning
    TimeoutMin,     \* _election_timeout_min
    TimeoutMax,     \* _election_timeout_max
    MaxNow,         \* bound: time
    MaxTermR,       \* bound: terms
    MaxEntries,     \* bound: entries
    MaxRounds,      \* bound: heartbeat rounds of a node
    MaxForgets,     \* bound: restarts
    MaxSends        \* bound: AppendEntries

ASSUME ReadsAssumption ==
    /\ FirstLeader \in Server /\ IsFiniteSet(Server) /\ Cardinality(Server) = 3
    /\ {TimeoutMin, TimeoutMax, MaxNow, MaxTermR, MaxEntries, MaxRounds, MaxForgets,
      MaxSends} \subseteq Nat
    /\ TimeoutMin <= TimeoutMax

VARIABLES
    now,        \* the time
    leads,      \* the nodes whose role_ is LEADER
    termOf,     \* current_term_
    lastEntry,  \* term and index of the last entry of each log
    knows,      \* term and index of the entry at commit_index_
    contact,    \* last_leader_contact_, 0 for never
    hb_round_,  \* of each node
    ackAt,      \* last_ack of the peers of each node, 0 for never
    ackRound,   \* ack_round
    rpc,        \* the AppendEntries from one node to another, or its reply
    reading,    \* the read at each node: the index it will read at, the round it waits for
    committed,  \* history: the highest index that any leader has committed
    stale,      \* history: reads that were answered with less than was committed when they began
    forgets,    \* restarts so far
    sends       \* AppendEntries so far

readVars == <<now, leads, termOf, lastEntry, knows, contact, hb_round_, ackAt, ackRound, rpc, reading,
              committed, stale, forgets, sends>>

NoRpc == [is |-> "none"]

NoRead == [is |-> "none"]

Majority(Q) == 2 * Cardinality(Q) > Cardinality(Server)

UpToDate(e, f) == e.term > f.term \/ (e.term = f.term /\ e.idx >= f.idx)

_leader_recent(n) == n \in leads \/ (contact[n] > 0 /\ now - contact[n] < TimeoutMin)

NextMoment ==
    /\ now < MaxNow /\ now' = now + 1
    /\ UNCHANGED <<leads, termOf, lastEntry, knows, contact, hb_round_, ackAt, ackRound, rpc, reading,
                   committed, stale, forgets, sends>>

-----------------------------------------------------------------------------
\* Elections and replication.

\* Mutant: leader stickiness is left out.
MayVote_Always(v, n) == termOf[v] <= termOf[n] /\ UpToDate(lastEntry[n], lastEntry[v])

MayVote(v, n) ==
    termOf[v] <= termOf[n] /\ UpToDate(lastEntry[n], lastEntry[v]) /\ ~_leader_recent(v)

\* A node whose election timer has run out wins, and appends its no-op.
Wins(n) ==
    /\ n \notin leads /\ termOf[n] < MaxTermR /\ lastEntry[n].idx < MaxEntries
    /\ contact[n] > 0 => now - contact[n] >= TimeoutMin
    /\ \E Q \in SUBSET (Server \ {n}) :
          /\ Majority(Q \cup {n}) /\ \A v \in Q : MayVote(v, n)
          /\ termOf' = [m \in Server |-> IF m \in Q \cup {n} THEN termOf[n] + 1 ELSE termOf[m]]
          /\ leads' = (leads \ Q) \cup {n}
    /\ lastEntry' = [lastEntry EXCEPT ![n] = [term |-> termOf[n] + 1, idx |-> @.idx + 1]]
    /\ ackAt' = [ackAt EXCEPT ![n] = [m \in Server |-> 0]]
    /\ UNCHANGED <<now, knows, contact, hb_round_, ackRound, rpc, reading, committed, stale, forgets, sends>>

\* submit
AppendWrite(n) ==
    /\ n \in leads /\ lastEntry[n].idx < MaxEntries
    /\ lastEntry' = [lastEntry EXCEPT ![n] = [term |-> termOf[n], idx |-> @.idx + 1]]
    /\ UNCHANGED <<now, leads, termOf, knows, contact, hb_round_, ackAt, ackRound, rpc, reading,
                   committed, stale, forgets, sends>>

\* The replicator notes round and time, and lets go of the lock.
Send(n, m) ==
    /\ n \in leads /\ rpc[n][m] = NoRpc
    /\ sends < MaxSends /\ sends' = sends + 1
    /\ rpc' = [rpc EXCEPT ![n][m] = [is |-> "request", term |-> termOf[n], entry |-> lastEntry[n],
                                     commit |-> knows[n], round |-> hb_round_[n], at |-> now]]
    /\ UNCHANGED <<now, leads, termOf, lastEntry, knows, contact, hb_round_, ackAt, ackRound, reading,
                   committed, stale, forgets>>

\* on_append_entries
Receive(n, m) ==
    /\ rpc[n][m].is = "request"
    /\ LET r == rpc[n][m]
       IN  IF r.term < termOf[m]
           THEN /\ rpc' = [rpc EXCEPT ![n][m] = [@ EXCEPT !.is = "refused", !.term = termOf[m]]]
                /\ UNCHANGED <<leads, termOf, lastEntry, knows, contact>>
           ELSE /\ rpc' = [rpc EXCEPT ![n][m].is = "reply"]
                /\ termOf' = [termOf EXCEPT ![m] = r.term]
                /\ leads' = leads \ {m}
                /\ contact' = [contact EXCEPT ![m] = now]
                /\ lastEntry' = [lastEntry EXCEPT ![m] = IF UpToDate(r.entry, @) THEN r.entry ELSE @]
                /\ knows' = [knows EXCEPT ![m] = IF r.commit.idx > @.idx THEN r.commit ELSE @]
    /\ UNCHANGED <<now, hb_round_, ackAt, ackRound, reading, committed, stale, forgets, sends>>

\* The reply: acknowledgement, and commitment if the entry is of this term. Of three nodes the two
\* are a majority.
ReceiveReply(n, m) ==
    /\ rpc[n][m].is \in {"reply", "refused"}
    /\ LET r == rpc[n][m]
           current == n \in leads /\ termOf[n] = r.term /\ r.is = "reply"
       IN  /\ termOf' = [termOf EXCEPT ![n] = IF r.term > @ THEN r.term ELSE @]
           /\ leads' = IF r.term > termOf[n] THEN leads \ {n} ELSE leads
           /\ ackAt' = IF current /\ r.at > ackAt[n][m] THEN [ackAt EXCEPT ![n][m] = r.at] ELSE ackAt
           /\ ackRound' = IF current /\ r.round > ackRound[n][m]
                          THEN [ackRound EXCEPT ![n][m] = r.round] ELSE ackRound
           /\ IF current /\ r.entry.term = termOf[n] /\ r.entry.idx > knows[n].idx
              THEN /\ knows' = [knows EXCEPT ![n] = r.entry]
                   /\ committed' = IF r.entry.idx > committed THEN r.entry.idx ELSE committed
              ELSE UNCHANGED <<knows, committed>>
    /\ rpc' = [rpc EXCEPT ![n][m] = NoRpc]
    /\ UNCHANGED <<now, lastEntry, contact, hb_round_, reading, stale, forgets, sends>>

Lost(n, m) ==
    /\ rpc[n][m] # NoRpc
    /\ rpc' = [rpc EXCEPT ![n][m] = NoRpc]
    /\ UNCHANGED <<now, leads, termOf, lastEntry, knows, contact, hb_round_, ackAt, ackRound, reading,
                   committed, stale, forgets, sends>>

\* check_quorum: a leader without a majority steps down.
LosesQuorum(n) ==
    /\ n \in leads /\ now >= TimeoutMax
    /\ ~Majority({n} \cup {m \in Server : now - ackAt[n][m] < TimeoutMax})
    /\ leads' = leads \ {n}
    /\ UNCHANGED <<now, termOf, lastEntry, knows, contact, hb_round_, ackAt, ackRound, rpc, reading,
                   committed, stale, forgets, sends>>

\* A restart: term, vote and log are on disk, everything else is not.
Forgets(n) ==
    /\ forgets < MaxForgets /\ forgets' = forgets + 1
    /\ leads' = leads \ {n}
    /\ contact' = [contact EXCEPT ![n] = 0]
    /\ hb_round_' = [hb_round_ EXCEPT ![n] = 0]
    /\ ackAt' = [ackAt EXCEPT ![n] = [m \in Server |-> 0]]
    /\ ackRound' = [ackRound EXCEPT ![n] = [m \in Server |-> 0]]
    /\ rpc' = [rpc EXCEPT ![n] = [m \in Server |-> NoRpc]]
    /\ reading' = [reading EXCEPT ![n] = NoRead]
    /\ knows' = [knows EXCEPT ![n] = [term |-> 0, idx |-> 0]]
    /\ UNCHANGED <<now, termOf, lastEntry, committed, stale, sends>>

-----------------------------------------------------------------------------
\* Reads.

Judge(kind, idx, start) == IF idx < start THEN stale \cup {kind} ELSE stale

\* Mutant: an entry of the term need not have been committed.
TermCommitted_Any(n) == TRUE

TermCommitted(n) == knows[n].term = termOf[n]

\* read_index: an entry of the term is committed; the index is noted, and a round starts.
BeginReadIndex(n) ==
    /\ n \in leads /\ reading[n] = NoRead /\ hb_round_[n] < MaxRounds
    /\ TermCommitted(n)
    /\ hb_round_' = [hb_round_ EXCEPT ![n] = @ + 1]
    /\ reading' = [reading EXCEPT ![n] = [is |-> "read", term |-> termOf[n], idx |-> knows[n].idx,
                                          round |-> hb_round_[n] + 1, start |-> committed]]
    /\ UNCHANGED <<now, leads, termOf, lastEntry, knows, contact, ackAt, ackRound, rpc, committed,
                   stale, forgets, sends>>

\* Mutant: an answer to an earlier heartbeat counts.
Confirmed_AnyRound(n, round) == Majority({n} \cup {m \in Server : ackAt[n][m] > 0})

Confirmed(n, round) == Majority({n} \cup {m \in Server : ackRound[n][m] >= round})

\* A majority answered the round, and the node still leads the term.
EndReadIndex(n) ==
    /\ reading[n].is = "read"
    /\ n \in leads /\ termOf[n] = reading[n].term /\ Confirmed(n, reading[n].round)
    /\ stale' = Judge("read_index", reading[n].idx, reading[n].start)
    /\ reading' = [reading EXCEPT ![n] = NoRead]
    /\ UNCHANGED <<now, leads, termOf, lastEntry, knows, contact, hb_round_, ackAt, ackRound, rpc,
                   committed, forgets, sends>>

ReadIndexFails(n) ==
    /\ reading[n].is = "read"
    /\ reading' = [reading EXCEPT ![n] = NoRead]
    /\ UNCHANGED <<now, leads, termOf, lastEntry, knows, contact, hb_round_, ackAt, ackRound, rpc,
                   committed, stale, forgets, sends>>

\* Mutant: the lease is as long as a leader keeps its role without a majority.
InLease_TimeoutMax(at) == at > 0 /\ now - at < TimeoutMax

\* 80% of the minimum timeout.
InLease(at) == at > 0 /\ 5 * (now - at) < 4 * TimeoutMin

\* lease_read, within the lease.
lease_read(n) ==
    /\ n \in leads /\ TermCommitted(n)
    /\ Majority({n} \cup {m \in Server : InLease(ackAt[n][m])})
    /\ stale' = Judge("lease_read", knows[n].idx, committed)
    /\ UNCHANGED <<now, leads, termOf, lastEntry, knows, contact, hb_round_, ackAt, ackRound, rpc,
                   reading, committed, forgets, sends>>

-----------------------------------------------------------------------------
\* A group that has elected its first leader, whose no-op is committed and known.
ReadsInit ==
    /\ now = 1
    /\ leads = {FirstLeader}
    /\ termOf = [n \in Server |-> 1]
    /\ lastEntry = [n \in Server |-> [term |-> 1, idx |-> 1]]
    /\ knows = [n \in Server |-> [term |-> 1, idx |-> 1]]
    /\ contact = [n \in Server |-> IF n = FirstLeader THEN 0 ELSE 1]
    /\ hb_round_ = [n \in Server |-> 0]
    /\ ackAt = [n \in Server |-> [m \in Server |-> IF n = FirstLeader /\ m # n THEN 1 ELSE 0]]
    /\ ackRound = [n \in Server |-> [m \in Server |-> 0]]
    /\ rpc = [n \in Server |-> [m \in Server |-> NoRpc]]
    /\ reading = [n \in Server |-> NoRead]
    /\ committed = 1
    /\ stale = {} /\ forgets = 0 /\ sends = 0

ReadsNext ==
    \/ NextMoment
    \/ \E n \in Server :
          \/ Wins(n) \/ AppendWrite(n) \/ LosesQuorum(n) \/ Forgets(n)
          \/ BeginReadIndex(n) \/ EndReadIndex(n) \/ ReadIndexFails(n) \/ lease_read(n)
          \/ \E m \in Server \ {n} : Send(n, m) \/ Receive(n, m) \/ ReceiveReply(n, m) \/ Lost(n, m)

ReadsSpec == ReadsInit /\ [][ReadsNext]_readVars

-----------------------------------------------------------------------------
\* A read with a round of heartbeats never misses a write that was committed, by whichever leader,
\* before it began; restarts and delayed answers included.
ReadIndexFresh == "read_index" \notin stale

\* Nor does a read under the lease, as long as no node is restarted: a restarted follower no
\* longer knows that it heard of a leader, and may vote at once.
LeaseFresh == "lease_read" \notin stale \/ forgets > 0

\* No linearizable read is stale.
ReadsFresh == ReadIndexFresh /\ LeaseFresh
=============================================================================
