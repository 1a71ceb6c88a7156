--------------------------- MODULE RaftLogProofs ----------------------------
(***************************************************************************)
(* Why a committed entry is never lost, for a group whose membership stays *)
(* fixed. The model forgets what a proof has to talk about: entries that a *)
(* snapshot replaced, logs that leaders once had, who stored what and      *)
(* when. So the invariant (LogSafe) says that these exist, as three values *)
(* that fit the state:                                                     *)
(*   H: the log of the leader of each term,                                *)
(*   G: the whole log of each node,                                        *)
(*   R: the records <<v, k, t>> of the nodes having stored entries.        *)
(* An entry is committed when a quorum stored it in its own term (Mark). A *)
(* quorum that passed the term without doing so blocks it (Blocked). Each  *)
(* leader's log has all entries of the leaders before it that are not      *)
(* blocked (BranchOk), which needs what voters stored to be in the log of  *)
(* a candidate, or blocked (CandidateOk). Each step is shown to have next  *)
(* values of the three with which the invariant holds again (Result). This *)
(* module has the invariant, the steps that leave the whole logs alone,    *)
(* and what leaders commit.                                                *)
(***************************************************************************)
EXTENDS RaftProofs

\* l and m begin with the same n entries.
Agree(l, m, n) == n <= Len(l) /\ n <= Len(m) /\ \A k \in 1..n : l[k] = m[k]

\* Entry k of l is of term t.
Has(l, k, t) == k \in 1..Len(l) /\ l[k].term = t

\* The term of entry n of l; 0 before the first.
TermOf(l, n) == IF n = 0 THEN 0 ELSE l[n].term

\* Every prefix of l is a prefix of the log of the leader of its last entry's term.
Valid(H, l) == \A n \in 1..Len(l) : Agree(l, H[l[n].term], n)

-----------------------------------------------------------------------------
\* The three values the invariant is about.

\* H has the log of the leader of each term.
Trunks(H)   == H \in [Nat -> Seq(LogEntry)]

\* G has the whole log of each node, the entries its snapshot replaced included.
Branches(G) == G \in [Server -> Seq(LogEntry)]

\* R has <<v, k, t>> when node v stored entry k of term t while it was in term t.
Records(R)  == R \in SUBSET (Server \X Nat \X Nat)

\* The types of the three.
Ghosts(H, G, R) == Trunks(H) /\ Branches(G) /\ Records(R)

-----------------------------------------------------------------------------
\* What is committed, and what can no longer be.

\* Some node has become leader in term w.
Elected(w) == \E i \in Server : <<w, i>> \in elected

\* Entry k of term t can no longer be committed: a quorum has passed term t without
\* having stored it in that term.
Blocked(R, k, t) ==
    \E Q \in SUBSET Server :
        /\ Quorum(InitConfig, Q)
        /\ \A v \in Q : currentTerm[v] > t /\ <<v, k, t>> \notin R

\* Entry k of term t has been stored, in term t, by a quorum: with all before it, it is
\* committed.
Mark(H, R, k, t) ==
    /\ Has(H[t], k, t)
    /\ \E Q \in SUBSET Server :
        /\ Quorum(InitConfig, Q)
        /\ \A v \in Q : <<v, k, t>> \in R

\* The first n entries of l are committed, by a leader of a term that is at most w.
SafeTo(H, R, l, n, w) ==
    \/ n = 0
    \/ \E k \in Nat, t \in Nat :
          k >= n /\ t <= w /\ Mark(H, R, k, t) /\ Agree(l, H[t], n)

-----------------------------------------------------------------------------
\* The invariant: the logs of leaders and of nodes.

\* The log of the leader of term w: made of the logs of the leaders before it, without
\* changes of the configuration, and with terms that never decrease.
TrunkOk(H, w) ==
    /\ Valid(H, H[w]) /\ NoConfig(H[w])
    /\ H[w] # << >> => Elected(w)
    /\ \A n \in 1..Len(H[w]) : H[w][n].term <= w
    /\ \A m, n \in 1..Len(H[w]) : m <= n => H[w][m].term <= H[w][n].term

\* A leader of term w has every entry of the leaders before it that may still be committed.
BranchOk(H, R, w) ==
    Elected(w) =>
      \A t, k \in Nat : t < w /\ Has(H[t], k, t) => Has(H[w], k, t) \/ Blocked(R, k, t)

\* All leaders' logs.
Trees(H, R) == \A w \in Nat : TrunkOk(H, w) /\ BranchOk(H, R, w)

\* The whole log of i continues what i still has after its snapshot.
ViewOk(G, i) ==
    /\ Len(G[i]) = LastIndex(i)
    /\ snap[i].term = TermOf(G[i], snap[i].idx)
    /\ \A n \in 1..Len(log[i]) : log[i][n] = G[i][snap[i].idx + n]

\* The indexes a node keeps, in their order.
BoundOk(i) ==
    /\ snap[i].idx <= commitIndex[i] /\ lastApplied[i] <= commitIndex[i]
    /\ snapping[i] <= lastApplied[i] /\ commitIndex[i] <= LastIndex(i)

\* What node i has: entries of leaders' logs, none of a later term than its own; committed
\* entries up to its commit index; every entry it ever stored in its term, unless that one
\* can no longer be committed.
NodeOk(H, G, R, i) ==
    /\ Valid(H, G[i])
    /\ \A n \in 1..Len(G[i]) :
         /\ G[i][n].term <= currentTerm[i]
         /\ G[i][n].term = currentTerm[i] => <<i, n, currentTerm[i]>> \in R
    /\ SafeTo(H, R, G[i], commitIndex[i], currentTerm[i])
    /\ \A k, t \in Nat : <<i, k, t>> \in R =>
         /\ t <= currentTerm[i] /\ Has(H[t], k, t)
         /\ Has(G[i], k, t) \/ Blocked(R, k, t)

\* All nodes.
Nodes(H, G, R) == \A i \in Server : ViewOk(G, i) /\ BoundOk(i) /\ NodeOk(H, G, R, i)

-----------------------------------------------------------------------------
\* Leaders, candidates and messages.

\* j has stored the first m entries of the leader of term t, in that term.
Acked(H, G, R, j, m, t) ==
    /\ m <= Len(H[t]) /\ currentTerm[j] >= t
    /\ currentTerm[j] = t => Agree(G[j], H[t], m)
    /\ \A k \in 1..m : Has(H[t], k, t) => <<j, k, t>> \in R

\* A leader's whole log is the log of its term, and match_index tells what is stored.
LeaderOk(H, G, R, i) ==
    role[i] = "LEADER" =>
      /\ <<currentTerm[i], i>> \in elected
      /\ G[i] = H[currentTerm[i]]
      /\ \A j \in Server, m, t \in Nat :
           m = matchIndex[i][j] /\ m > 0 /\ t = currentTerm[i] => Acked(H, G, R, j, m, t)

\* What the voters of candidate c have stored is in the log of c, or can no longer be
\* committed.
CandidateOk(G, R, c) ==
    role[c] = "CANDIDATE" =>
      /\ <<currentTerm[c], c>> \notin elected
      /\ \A v \in Server, k, t \in Nat :
           Backs(v, c, currentTerm[c]) /\ <<v, k, t>> \in R /\ t < currentTerm[c] =>
             Has(G[c], k, t) \/ Blocked(R, k, t)

\* What a request of a leader says is true of the leader's log.
RequestOk(H, R, q) ==
    /\ q.type = "append" =>
         /\ Elected(q.term)
         /\ q.prev + Len(q.entries) <= Len(H[q.term])
         /\ q.prevTerm = TermOf(H[q.term], q.prev)
         /\ \A n \in 1..Len(q.entries) : q.entries[n] = H[q.term][q.prev + n]
         /\ SafeTo(H, R, H[q.term], q.commit, q.term)
    /\ q.type = "snapshot" =>
         /\ Elected(q.term)
         /\ q.snap.idx <= Len(H[q.term])
         /\ q.snap.term = TermOf(H[q.term], q.snap.idx)
         /\ SafeTo(H, R, H[q.term], q.snap.idx, q.term)

\* A RequestVote names the end of the candidate's log, as long as it is a candidate.
BallotOk(G, i, q) ==
    q.type = "vote" =>
      /\ q.term <= currentTerm[i]
      /\ q.term = currentTerm[i] /\ role[i] = "CANDIDATE" =>
           q.lastIndex = Len(G[i]) /\ q.lastTerm = TermOf(G[i], Len(G[i]))

\* An acknowledgement is given for what has been stored.
ReplyOk(H, G, R, j, q, r) ==
    r.ok =>
      /\ q.type = "append" => Acked(H, G, R, j, q.prev + Len(q.entries), q.term)
      /\ q.type = "snapshot" => Acked(H, G, R, j, q.snap.idx, q.term)

\* What i and j have said to each other in a call that has not ended.
CallOk(H, G, R, i, j) ==
    \A q \in Request : call[i][j] = q /\ q # Nil =>
      /\ RequestOk(H, R, q)
      /\ BallotOk(G, i, q)
      /\ \A r \in Reply : reply[i][j] = r /\ r # Nil => ReplyOk(H, G, R, j, q, r)

-----------------------------------------------------------------------------
\* The committed sequence, and the whole invariant.

\* The committed sequence up to n is the log of the leader that committed entry n.
DecidedOk(H, R, n) ==
    \E k \in Nat :
        /\ k >= n /\ Mark(H, R, k, decided[n].at)
        /\ \A m \in 1..n : decided[m].entry = H[decided[n].at][m]

\* The part of the invariant about logs.
Core(H, G, R) ==
    /\ Trees(H, R) /\ Nodes(H, G, R)
    /\ \A i \in Server : LeaderOk(H, G, R, i)
    /\ \A p \in elected : p[1] <= currentTerm[p[2]]
    /\ \A n \in DOMAIN decided : DecidedOk(H, R, n)

\* The part of the invariant about candidates and messages.
Net(H, G, R) ==
    /\ \A c \in Server : CandidateOk(G, R, c)
    /\ \A i, j \in Server : CallOk(H, G, R, i, j)
    /\ \A m \in stale : RequestOk(H, R, m.req)

\* The invariant: there are such leaders' logs, whole logs and records.
LogSafe == \E H, G, R : Ghosts(H, G, R) /\ Core(H, G, R) /\ Net(H, G, R)

-----------------------------------------------------------------------------
\* What a step may do to the three values.

\* In H2 the leaders' logs of H may have become longer.
Ext(H, H2) == \A w \in Nat : Agree(H[w], H2[w], Len(H[w]))

\* What a step never takes back: terms, leaders, their logs and the records, and a new
\* record is of its node's term.
Grows(H, R, H2, R2) ==
    /\ \A i \in Server : currentTerm'[i] >= currentTerm[i]
    /\ elected \subseteq elected'
    /\ Ext(H, H2)
    /\ R \subseteq R2
    /\ \A v \in Server, k, t \in Nat :
         <<v, k, t>> \in R2 => <<v, k, t>> \in R \/ t = currentTerm'[v]

\* How the three change in a step: besides growing, a candidate's log stays, and a node
\* that stays in its term keeps what it shares with the leader of that term.
Move(H, G, R, H2, G2, R2) ==
    /\ Grows(H, R, H2, R2)
    /\ \A i \in Server : role'[i] = "CANDIDATE" => G2[i] = G[i]
    /\ \A i \in Server, t, m \in Nat :
         currentTerm[i] = t /\ currentTerm'[i] = t /\ Agree(G[i], H[t], m) =>
           Agree(G2[i], H2[t], m)

\* No term goes back.
TermsGrow == \A i \in Server : currentTerm'[i] >= currentTerm[i]

\* Terms never go back: no node restarts while raft_meta is behind its memory.
NoTermLost == [][TermsGrow]_vars

-----------------------------------------------------------------------------

-----------------------------------------------------------------------------
\* Logs that begin alike.
LEMMA AgreeLess ==
    ASSUME NEW l, NEW m, NEW n \in Int, Agree(l, m, n), NEW k \in Int, k <= n,
           Len(l) \in Nat, Len(m) \in Nat
    PROVE  Agree(l, m, k)
  BY DEF Agree

\* Agreement is symmetric.
LEMMA AgreeSym ==
    ASSUME NEW l, NEW m, NEW n, Agree(l, m, n)
    PROVE  Agree(m, l, n)
  BY DEF Agree

\* Agreement is transitive.
LEMMA AgreeTrans ==
    ASSUME NEW l, NEW m, NEW r, NEW n, Agree(l, m, n), Agree(m, r, n)
    PROVE  Agree(l, r, n)
  BY DEF Agree

\* A log agrees with itself.
LEMMA AgreeSelf ==
    ASSUME NEW l \in Seq(LogEntry), NEW n \in Int, n <= Len(l)
    PROVE  Agree(l, l, n)
  BY DEF Agree

\* An entry in the part two logs share is in both.
LEMMA AgreeHas ==
    ASSUME NEW l \in Seq(LogEntry), NEW m \in Seq(LogEntry), NEW n \in Int, Agree(l, m, n),
           NEW k, NEW t, Has(l, k, t), k <= n
    PROVE  Has(m, k, t)
<1>1. k \in 1..n /\ k \in 1..Len(m)
  BY DEF Agree, Has
<1>. QED
  BY <1>1 DEF Agree, Has

\* So is its term.
LEMMA AgreeTerm ==
    ASSUME NEW l, NEW m, NEW n \in Int, Agree(l, m, n), NEW k \in Nat, k <= n
    PROVE  TermOf(l, k) = TermOf(m, k)
  BY DEF Agree, TermOf

\* Logs that have the same entry begin alike.
LEMMA HasAgrees ==
    ASSUME NEW H, NEW l, Valid(H, l), NEW k, NEW t, Has(l, k, t)
    PROVE  Agree(l, H[t], k)
  BY DEF Valid, Has

\* Two valid logs that have the same entry share everything before it.
LEMMA BothHave ==
    ASSUME NEW H, NEW l, NEW m, Valid(H, l), Valid(H, m), NEW k, NEW t,
           Has(l, k, t), Has(m, k, t)
    PROVE  Agree(l, m, k)
<1>1. Agree(l, H[t], k) /\ Agree(m, H[t], k)
  BY HasAgrees
<1>2. Agree(H[t], m, k)
  BY <1>1, AgreeSym
<1>. QED
  BY <1>1, <1>2, AgreeTrans

\* A prefix of a valid log is valid.
LEMMA PrefixValid ==
    ASSUME NEW H, NEW l \in Seq(LogEntry), NEW m \in Seq(LogEntry),
           Valid(H, m), Agree(l, m, Len(l))
    PROVE  Valid(H, l)
<1>1. ASSUME NEW n \in 1..Len(l) PROVE Agree(l, H[l[n].term], n)
  <2>1. n \in 1..Len(m) /\ l[n] = m[n] /\ Len(l) \in Nat /\ n <= Len(l)
    BY DEF Agree
  <2>2. Agree(m, H[l[n].term], n)
    BY <2>1 DEF Valid
  <2>3. Agree(l, m, n)
    BY <2>1, AgreeLess
  <2>. QED
    BY <2>2, <2>3, AgreeTrans
<1>. QED
  BY <1>1 DEF Valid

\* What grows keeps what is known of it.
LEMMA EntryTerm ==
    ASSUME NEW l \in Seq(LogEntry), NEW n \in 1..Len(l)
    PROVE  l[n] \in LogEntry /\ l[n].term \in Nat
<1>1. l[n] \in LogEntry
  OBVIOUS
<1>. QED
  BY <1>1 DEF LogEntry

\* The log of a term's leader is a sequence of entries.
LEMMA TrunkType ==
    ASSUME NEW H, Trunks(H), NEW w \in Nat
    PROVE  H[w] \in Seq(LogEntry) /\ Len(H[w]) \in Nat
<1>1. H[w] \in Seq(LogEntry)
  BY DEF Trunks
<1>. QED
  BY <1>1

\* What agrees with a leader's log agrees with its continuation.
LEMMA ExtAgree ==
    ASSUME NEW H, Trunks(H), NEW H2, Trunks(H2), Ext(H, H2),
           NEW w \in Nat, NEW l, NEW n \in Int, Agree(l, H[w], n)
    PROVE  Agree(l, H2[w], n)
<1>1. n <= Len(H[w]) /\ Agree(H[w], H2[w], Len(H[w]))
  BY DEF Ext, Agree
<1>2. Len(H[w]) \in Nat /\ Len(H2[w]) \in Nat
  BY TrunkType
<1>3. Agree(H[w], H2[w], n)
  BY <1>1, <1>2, AgreeLess
<1>. QED
  BY <1>3, AgreeTrans

\* An entry of a leader's log stays where it is.
LEMMA ExtHas ==
    ASSUME NEW H, Trunks(H), NEW H2, Trunks(H2), Ext(H, H2),
           NEW w \in Nat, NEW k, NEW t, Has(H[w], k, t)
    PROVE  Has(H2[w], k, t)
<1>1. k <= Len(H[w]) /\ Agree(H[w], H2[w], Len(H[w])) /\ Len(H[w]) \in Int
  BY DEF Ext, Has
<1>2. H[w] \in Seq(LogEntry) /\ H2[w] \in Seq(LogEntry)
  BY TrunkType
<1>. QED
  BY <1>1, <1>2, AgreeHas

\* A valid log stays valid.
LEMMA ExtValid ==
    ASSUME NEW H, Trunks(H), NEW H2, Trunks(H2), Ext(H, H2),
           NEW l \in Seq(LogEntry), Valid(H, l)
    PROVE  Valid(H2, l)
<1>1. ASSUME NEW n \in 1..Len(l) PROVE Agree(l, H2[l[n].term], n)
  <2>1. l[n].term \in Nat
    BY EntryTerm
  <2>2. Agree(l, H[l[n].term], n) /\ n \in Int
    BY DEF Valid
  <2>. QED
    BY <2>1, <2>2, ExtAgree
<1>. QED
  BY <1>1 DEF Valid

\* What can no longer be committed stays so.
LEMMA BlockedStays ==
    ASSUME IInv, IInv', NEW H, NEW R, NEW H2, NEW R2, Grows(H, R, H2, R2),
           NEW k \in Nat, NEW t \in Nat, Blocked(R, k, t)
    PROVE  Blocked(R2, k, t)'
<1>1. PICK Q \in SUBSET Server :
        /\ Quorum(InitConfig, Q)
        /\ \A v \in Q : currentTerm[v] > t /\ <<v, k, t>> \notin R
  BY DEF Blocked
<1>2. ASSUME NEW v \in Q PROVE currentTerm'[v] > t /\ <<v, k, t>> \notin R2
  <2>1. currentTerm[v] \in Nat /\ currentTerm'[v] \in Nat
    BY DEF IInv, NodeType, VoteType
  <2>2. currentTerm'[v] >= currentTerm[v] /\ currentTerm[v] > t
    BY <1>1 DEF Grows
  <2>. QED
    BY <1>1, <2>1, <2>2 DEF Grows
<1>. QED
  BY <1>1, <1>2 DEF Blocked

\* What a quorum has stored stays so.
LEMMA MarkStays ==
    ASSUME NEW H, Trunks(H), NEW H2, Trunks(H2),
           NEW R, NEW R2, Ext(H, H2), R \subseteq R2,
           NEW k, NEW t \in Nat, Mark(H, R, k, t)
    PROVE  Mark(H2, R2, k, t)
  BY ExtHas DEF Mark

\* What is committed stays so, in every log that keeps it and for every later term.
LEMMA SafeStays ==
    ASSUME NEW H, Trunks(H), NEW H2, Trunks(H2),
           NEW R, NEW R2, Ext(H, H2), R \subseteq R2,
           NEW l \in Seq(LogEntry), NEW l2 \in Seq(LogEntry),
           NEW n \in Nat, NEW n2 \in Nat, n2 <= n, n <= Len(l) => Agree(l2, l, n),
           NEW w \in Nat, NEW w2 \in Nat, w <= w2,
           SafeTo(H, R, l, n, w)
    PROVE  SafeTo(H2, R2, l2, n2, w2)
<1>1. CASE n = 0
  BY <1>1 DEF SafeTo
<1>2. CASE n # 0
  <2>1. PICK k \in Nat, t \in Nat :
          k >= n /\ t <= w /\ Mark(H, R, k, t) /\ Agree(l, H[t], n)
    BY <1>2 DEF SafeTo
  <2>2. Mark(H2, R2, k, t)
    BY <2>1, MarkStays
  <2>3. Agree(l, H2[t], n)
    <3>1. Agree(l, H[t], n) /\ n \in Int
      BY <2>1
    <3>. QED
      BY <3>1, ExtAgree
  <2>4. Agree(l2, l, n)
    BY <2>1 DEF Agree
  <2>5. Agree(l2, H2[t], n)
    BY <2>3, <2>4, AgreeTrans
  <2>6. Len(l2) \in Nat /\ Len(H2[t]) \in Nat
    BY TrunkType
  <2>7. Agree(l2, H2[t], n2)
    BY <2>5, <2>6, AgreeLess
  <2>8. k >= n2 /\ t <= w2
    <3>1. k >= n /\ t <= w
      BY <2>1
    <3>. QED
      BY <3>1
  <2>. QED
    BY <2>2, <2>7, <2>8 DEF SafeTo
<1>. QED
  BY <1>1, <1>2

-----------------------------------------------------------------------------
\* What a majority has stored is in the log of every later leader.
LEMMA MarkedNotBlocked ==
    ASSUME NEW H, NEW R, NEW k, NEW t, Mark(H, R, k, t), Blocked(R, k, t)
    PROVE  FALSE
<1>1. PICK Q \in SUBSET Server :
        Quorum(InitConfig, Q) /\ \A v \in Q : currentTerm[v] > t /\ <<v, k, t>> \notin R
  BY DEF Blocked
<1>2. PICK A \in SUBSET Server : Quorum(InitConfig, A) /\ \A v \in A : <<v, k, t>> \in R
  BY DEF Mark
<1>3. PICK v \in Q : v \in A
  BY <1>1, <1>2, QuorumsIntersect
<1>. QED
  BY <1>1, <1>2, <1>3

\* Leader completeness: a leader of a later term has what a quorum has stored, and
\* everything before it.
LEMMA LeadersHoldMarked ==
    ASSUME NEW H, Trunks(H), NEW R, \A w \in Nat : TrunkOk(H, w) /\ BranchOk(H, R, w),
           NEW k \in Nat, NEW t \in Nat, Mark(H, R, k, t), NEW w \in Nat, Elected(w), t <= w
    PROVE  Has(H[w], k, t) /\ Agree(H[w], H[t], k)
<1>1. Has(H[t], k, t)
  BY DEF Mark
<1>2. Has(H[w], k, t)
  <2>1. CASE t = w
    BY <1>1, <2>1
  <2>2. CASE t < w
    BY <1>1, <2>2, MarkedNotBlocked DEF BranchOk
  <2>. QED
    BY <2>1, <2>2
<1>3. Valid(H, H[w])
  BY DEF TrunkOk
<1>. QED
  BY <1>2, <1>3, HasAgrees

\* So are the entries a node knows to be committed.
LEMMA NodeAgrees ==
    ASSUME NEW H, Trunks(H), NEW R, \A w \in Nat : TrunkOk(H, w) /\ BranchOk(H, R, w),
           NEW l \in Seq(LogEntry), NEW n \in Nat, NEW w \in Nat, SafeTo(H, R, l, n, w),
           NEW u \in Nat, Elected(u), w <= u
    PROVE  Agree(l, H[u], n)
<1>1. CASE n = 0
  <2>1. Len(H[u]) \in Nat /\ Len(l) \in Nat
    BY TrunkType
  <2>. QED
    BY <1>1, <2>1 DEF Agree
<1>2. CASE n # 0
  <2>1. PICK k \in Nat, t \in Nat : k >= n /\ t <= w /\ Mark(H, R, k, t) /\ Agree(l, H[t], n)
    BY <1>2 DEF SafeTo
  <2>2. t <= u
    <3>1. t <= w
      BY <2>1
    <3>. QED
      BY <3>1
  <2>3. Agree(H[u], H[t], k)
    BY <2>1, <2>2, LeadersHoldMarked
  <2>4. Agree(H[t], H[u], n)
    <3>1. k >= n /\ Len(H[u]) \in Nat /\ Len(H[t]) \in Nat
      BY <2>1, TrunkType
    <3>2. Agree(H[t], H[u], k)
      BY <2>3, AgreeSym
    <3>. QED
      BY <3>1, <3>2, AgreeLess
  <2>. QED
    BY <2>1, <2>4, AgreeTrans
<1>. QED
  BY <1>1, <1>2

-----------------------------------------------------------------------------
\* A node whose log a step leaves alone, cuts or extends.
LEMMA NodeFields ==
    ASSUME IInv, NEW i \in Server
    PROVE  /\ currentTerm[i] \in Nat /\ commitIndex[i] \in Nat /\ lastApplied[i] \in Nat
           /\ snapping[i] \in Nat
           /\ log[i] \in Seq(LogEntry) /\ Len(log[i]) \in Nat
           /\ snap[i] \in Snapshot /\ snap[i].idx \in Nat /\ snap[i].term \in Nat
           /\ LastIndex(i) \in Nat /\ LastIndex(i) = snap[i].idx + Len(log[i])
<1>1. snap[i] \in Snapshot /\ log[i] \in Seq(LogEntry)
  BY DEF IInv, NodeType, LogType
<1>2. snap[i].idx \in Nat /\ snap[i].term \in Nat
  BY <1>1 DEF Snapshot
<1>3. /\ currentTerm[i] \in Nat /\ commitIndex[i] \in Nat /\ lastApplied[i] \in Nat
      /\ snapping[i] \in Nat
  BY DEF IInv, NodeType, LogType, VoteType
<1>4. Len(log[i]) \in Nat
  BY <1>1
<1>. QED
  BY <1>1, <1>2, <1>3, <1>4 DEF LastIndex

\* The same of the state after a step.
LEMMA NodeFieldsNext ==
    ASSUME IInv', NEW i \in Server
    PROVE  /\ currentTerm'[i] \in Nat /\ commitIndex'[i] \in Nat /\ lastApplied'[i] \in Nat
           /\ snapping'[i] \in Nat
           /\ log'[i] \in Seq(LogEntry) /\ Len(log'[i]) \in Nat
           /\ snap'[i] \in Snapshot /\ snap'[i].idx \in Nat /\ snap'[i].term \in Nat
           /\ LastIndex(i)' \in Nat /\ LastIndex(i)' = snap'[i].idx + Len(log'[i])
<1>1. snap'[i] \in Snapshot /\ log'[i] \in Seq(LogEntry)
  BY DEF IInv, NodeType, LogType
<1>2. snap'[i].idx \in Nat /\ snap'[i].term \in Nat
  BY <1>1 DEF Snapshot
<1>3. /\ currentTerm'[i] \in Nat /\ commitIndex'[i] \in Nat /\ lastApplied'[i] \in Nat
      /\ snapping'[i] \in Nat
  BY DEF IInv, NodeType, LogType, VoteType
<1>4. Len(log'[i]) \in Nat
  BY <1>1
<1>. QED
  BY <1>1, <1>2, <1>3, <1>4 DEF LastIndex

\* The facts of a node whose new log holds what the old one held, as far as it can still
\* be committed.
LEMMA NodeStays ==
    ASSUME IInv, IInv', NEW H, Trunks(H), NEW H2, Trunks(H2), NEW G, NEW G2,
           NEW R, NEW R2, Grows(H, R, H2, R2), NEW i \in Server, NodeOk(H, G, R, i),
           Valid(H2, G2[i]),
           \A n \in 1..Len(G2[i]) :
             /\ G2[i][n].term <= currentTerm'[i]
             /\ G2[i][n].term = currentTerm'[i] => <<i, n, currentTerm'[i]>> \in R2,
           SafeTo(H2, R2, G2[i], commitIndex'[i], currentTerm'[i]),
           \A k, t \in Nat : <<i, k, t>> \in R /\ Has(G[i], k, t) =>
             Has(G2[i], k, t) \/ Blocked(R, k, t),
           \A k, t \in Nat : <<i, k, t>> \in R2 =>
             <<i, k, t>> \in R \/ (t = currentTerm'[i] /\ Has(G2[i], k, t) /\ Has(H2[t], k, t))
    PROVE  NodeOk(H2, G2, R2, i)'
<1>1. ASSUME NEW k \in Nat, NEW t \in Nat, <<i, k, t>> \in R2
      PROVE  /\ t <= currentTerm'[i] /\ Has(H2[t], k, t)
             /\ Has(G2[i], k, t) \/ Blocked(R2, k, t)'
  <2>1. currentTerm[i] \in Nat /\ currentTerm'[i] \in Nat /\ currentTerm'[i] >= currentTerm[i]
    BY NodeFields, NodeFieldsNext DEF Grows
  <2>2. CASE <<i, k, t>> \in R
    <3>1. t <= currentTerm[i] /\ Has(H[t], k, t) /\ (Has(G[i], k, t) \/ Blocked(R, k, t))
      BY <2>2 DEF NodeOk
    <3>2. Has(H2[t], k, t)
      BY <3>1, ExtHas DEF Grows
    <3>3. Has(G2[i], k, t) \/ Blocked(R, k, t)
      BY <2>2, <3>1
    <3>4. Blocked(R, k, t) => Blocked(R2, k, t)'
      BY BlockedStays
    <3>. QED
      BY <2>1, <3>1, <3>2, <3>3, <3>4
  <2>3. CASE <<i, k, t>> \notin R
    <3>1. t = currentTerm'[i] /\ Has(G2[i], k, t) /\ Has(H2[t], k, t)
      BY <1>1, <2>3
    <3>. QED
      BY <2>1, <3>1
  <2>. QED
    BY <2>2, <2>3
<1>. QED
  BY <1>1 DEF NodeOk

\* The facts of a node whose log stays.
LEMMA NodeSame ==
    ASSUME IInv, IInv', NEW H, Trunks(H), NEW H2, Trunks(H2), NEW G, Branches(G), NEW G2,
           NEW R, NEW R2, Grows(H, R, H2, R2), NEW i \in Server, NodeOk(H, G, R, i),
           G2[i] = G[i], commitIndex'[i] <= commitIndex[i],
           \A k, t \in Nat : <<i, k, t>> \in R2 => <<i, k, t>> \in R
    PROVE  NodeOk(H2, G2, R2, i)'
<1>1. /\ currentTerm[i] \in Nat /\ currentTerm'[i] \in Nat /\ currentTerm'[i] >= currentTerm[i]
      /\ commitIndex[i] \in Nat /\ commitIndex'[i] \in Nat
  BY NodeFields, NodeFieldsNext DEF Grows
<1>2. G[i] \in Seq(LogEntry)
  BY DEF Branches
<1>3. Valid(H2, G2[i])
  BY <1>2, ExtValid DEF NodeOk, Grows
<1>4. ASSUME NEW n \in 1..Len(G2[i])
      PROVE  /\ G2[i][n].term <= currentTerm'[i]
             /\ G2[i][n].term = currentTerm'[i] => <<i, n, currentTerm'[i]>> \in R2
  <2>1. /\ G[i][n].term <= currentTerm[i] /\ G[i][n].term \in Nat
        /\ G[i][n].term = currentTerm[i] => <<i, n, currentTerm[i]>> \in R
    BY <1>2, EntryTerm DEF NodeOk
  <2>. QED
    BY SMTT(30), <1>1, <2>1 DEF Grows
<1>5. SafeTo(H2, R2, G2[i], commitIndex'[i], currentTerm'[i])
  <2>1. SafeTo(H, R, G[i], commitIndex[i], currentTerm[i])
    BY DEF NodeOk
  <2>2. commitIndex[i] <= Len(G[i]) => Agree(G2[i], G[i], commitIndex[i])
    BY <1>1, <1>2, AgreeSelf
  <2>3. Ext(H, H2) /\ R \subseteq R2
    BY DEF Grows
  <2>. QED
    BY <1>1, <1>2, <2>1, <2>2, <2>3, SafeStays
<1>. QED
  BY <1>3, <1>4, <1>5, NodeStays

\* What a node acknowledged it keeps, as long as no later leader takes it away.
LEMMA AckedStays ==
    ASSUME IInv, IInv', NEW H, Trunks(H), NEW H2, Trunks(H2), NEW G, NEW G2,
           NEW R, NEW R2, Grows(H, R, H2, R2), NEW j \in Server, NEW m \in Nat, NEW t \in Nat,
           Acked(H, G, R, j, m, t),
           currentTerm[j] = t /\ currentTerm'[j] = t /\ Agree(G[j], H[t], m) =>
             Agree(G2[j], H2[t], m)
    PROVE  Acked(H2, G2, R2, j, m, t)'
<1>1. /\ currentTerm[j] \in Nat /\ currentTerm'[j] \in Nat /\ currentTerm'[j] >= currentTerm[j]
      /\ currentTerm[j] >= t /\ m <= Len(H[t])
  BY NodeFields, NodeFieldsNext DEF Grows, Acked
<1>2. /\ Len(H[t]) \in Nat /\ Len(H2[t]) \in Nat /\ H[t] \in Seq(LogEntry)
      /\ H2[t] \in Seq(LogEntry) /\ Agree(H[t], H2[t], Len(H[t]))
  BY TrunkType DEF Grows, Ext
<1>3. m <= Len(H2[t])
  BY <1>1, <1>2 DEF Agree
<1>4. currentTerm'[j] = t => Agree(G2[j], H2[t], m)
  BY <1>1 DEF Acked
<1>5. ASSUME NEW k \in 1..m, Has(H2[t], k, t) PROVE <<j, k, t>> \in R2
  <2>1. Agree(H2[t], H[t], Len(H[t])) /\ k <= Len(H[t])
    BY <1>1, <1>2, AgreeSym
  <2>2. Has(H[t], k, t)
    BY <1>2, <1>5, <2>1, AgreeHas
  <2>. QED
    BY <2>2 DEF Acked, Grows
<1>. QED
  BY <1>1, <1>3, <1>4, <1>5 DEF Acked

-----------------------------------------------------------------------------
\* Who can be a candidate after a step, and with which votes.
LEMMA AdvanceRole ==
    ASSUME IInv, NEW i \in Server, NEW t, NEW l, NEW match, AdvanceCommit(i, t, l, match)
    PROVE  /\ \A c \in Server : role'[c] = "CANDIDATE" => role[c] = "CANDIDATE" /\ c # i
           /\ \A c \in Server : c # i => role'[c] = role[c] /\ commitIndex'[c] = commitIndex[c]
           /\ role'[i] \in {"FOLLOWER", "LEADER"}
<1>1. role \in [Server -> {"FOLLOWER", "CANDIDATE", "LEADER"}] /\ commitIndex \in [Server -> Nat]
  BY DEF IInv, NodeType, VoteType, LogType
<1>2. /\ \E r \in {"FOLLOWER", "LEADER"} : role' = [role EXCEPT ![i] = r]
      /\ \E c : commitIndex' = [commitIndex EXCEPT ![i] = c]
  BY DEF AdvanceCommit
<1>. QED
  BY <1>1, <1>2

\* Winning an election makes no candidate.
LEMMA ElectRole ==
    ASSUME IInv, NEW i \in Server, NEW t, BecomeLeader(i, t)
    PROVE  /\ \A c \in Server : role'[c] = "CANDIDATE" => role[c] = "CANDIDATE" /\ c # i
           /\ \A c \in Server : c # i => role'[c] = role[c]
           /\ role'[i] \in {"FOLLOWER", "LEADER"}
<1>1. CASE diskFull[i]
  BY <1>1 DEF BecomeLeader, IInv, NodeType, VoteType
<1>2. CASE ~diskFull[i]
  <2>1. AdvanceCommit(i, t, Append(log[i], Entry(t, "NOOP", {})), [j \in Server |-> 0])
    BY <1>2 DEF BecomeLeader
  <2>. QED
    BY <2>1, AdvanceRole
<1>. QED
  BY <1>1, <1>2

\* Stepping down makes a follower.
LEMMA StepDownRole ==
    ASSUME IInv, NEW i \in Server, NEW t, StepDown(i, t)
    PROVE  /\ role' = [role EXCEPT ![i] = "FOLLOWER"] /\ role'[i] = "FOLLOWER"
           /\ \A c \in Server : c # i => role'[c] = role[c] /\ currentTerm'[c] = currentTerm[c]
<1>1. \/ currentTerm' = currentTerm
      \/ currentTerm' = [currentTerm EXCEPT ![i] = t]
  BY DEF StepDown, durable
<1>. QED
  BY <1>1 DEF StepDown, IInv, NodeType, VoteType

\* What a handler does to roles and terms.
LEMMA HandleRole ==
    ASSUME IInv, NEW i \in Server, NEW j \in Server, NEW q \in Request, Handle(i, j, q)
    PROVE  /\ \A c \in Server : c # j => role'[c] = role[c] /\ currentTerm'[c] = currentTerm[c]
           /\ \/ role'[j] = "FOLLOWER"
              \/ role'[j] = role[j] /\ currentTerm'[j] = currentTerm[j]
<1>1. q.term \in Nat /\ currentTerm[j] \in Nat
  BY RequestFields DEF IInv, NodeType, VoteType
<1>2. CASE UNCHANGED <<durable, ballot>>
  BY <1>2 DEF durable, ballot
<1>3. CASE HearLeader(j, q.term)
  BY <1>3, StepDownRole DEF HearLeader
<1>4. CASE HandleVote(i, j, q)
  <2>1. CASE IgnoresVote(j, q)
    BY <1>4, <2>1, <1>2 DEF HandleVote
  <2>2. CASE ~IgnoresVote(j, q)
    <3>1. /\ currentTerm' = [currentTerm EXCEPT ![j] = q.term]
          /\ \/ q.term > currentTerm[j] /\ role' = [role EXCEPT ![j] = "FOLLOWER"]
             \/ ~(q.term > currentTerm[j]) /\ role' = role
      BY <1>4, <2>2 DEF HandleVote, ballot
    <3>2. q.term >= currentTerm[j]
      BY <1>1, <2>2 DEF IgnoresVote
    <3>. QED
      BY <1>1, <3>1, <3>2 DEF IInv, NodeType, VoteType
  <2>. QED
    BY <2>1, <2>2
<1>5. CASE HandlePreVote(j, q)
  BY <1>2, <1>5 DEF HandlePreVote
<1>6. CASE HandleAppend(j, q)
  BY <1>2, <1>3, <1>6 DEF HandleAppend, ballot
<1>7. CASE HandleSnapshot(j, q)
  BY <1>2, <1>3, <1>7 DEF HandleSnapshot, ballot
<1>. QED
  BY <1>4, <1>5, <1>6, <1>7 DEF Handle

\* A campaign concerns the campaigning node only.
LEMMA StartRole ==
    ASSUME IInv, NEW i \in Server, StartElection(i)
    PROVE  \A c \in Server : c # i => role'[c] = role[c] /\ currentTerm'[c] = currentTerm[c]
<1>1. CASE Quorum(Config(i), {i})
  BY <1>1, ElectRole DEF StartElection, IInv, NodeType, VoteType
<1>2. CASE ~Quorum(Config(i), {i})
  BY <1>2 DEF StartElection, IInv, NodeType, VoteType
<1>. QED
  BY <1>1, <1>2

\* A candidate after a step was one before, in the same term, or has just started a
\* campaign.
LEMMA CandidateSteps ==
    ASSUME IInv, Next, NEW c \in Server, role'[c] = "CANDIDATE"
    PROVE  \/ role[c] = "CANDIDATE" /\ currentTerm'[c] = currentTerm[c]
           \/ StartElection(c)
<1>. DEFINE Goal == \/ role[c] = "CANDIDATE" /\ currentTerm'[c] = currentTerm[c]
                    \/ StartElection(c)
<1>1. ASSUME UNCHANGED <<durable, role>> PROVE Goal
  BY <1>1 DEF durable
<1>2. ASSUME NEW i \in Server, StartElection(i) PROVE Goal
  BY <1>2, StartRole
<1>3. ASSUME NEW i \in Server, NEW t, StepDown(i, t) PROVE Goal
  BY <1>3, StepDownRole
<1>4. ASSUME NEW i \in Server, NEW j \in Server, NEW q \in Request, Handle(i, j, q) PROVE Goal
  BY <1>4, HandleRole
<1>5. ASSUME NEW i \in Server, NEW t, NEW l, NEW match, AdvanceCommit(i, t, l, match),
             UNCHANGED durable
      PROVE  Goal
  BY <1>5, AdvanceRole DEF durable
<1>6. ASSUME NEW i \in Server, Step(i) PROVE Goal
  <2>1. CASE Timeout(i)
    BY <1>1, <1>2, <2>1 DEF Timeout, ballot
  <2>2. CASE Submit(i)
    BY <1>5, <2>2 DEF Submit, AppendLocal
  <2>3. CASE SubmitFails(i)
    BY <1>3, <2>3 DEF SubmitFails
  <2>4. CASE Restart(i) \/ CheckQuorumFails(i)
    BY <2>4 DEF Restart, CheckQuorumFails, durable, IInv, NodeType, VoteType
  <2>5. CASE \E a \in adds[i] : AddServerFinish(i, a) \/ AddServerAbandon(i, a)
    BY <1>1, <1>5, <2>5 DEF AddServerFinish, AddServerAbandon, AppendLocal, ballot
  <2>6. CASE \/ ContactExpires(i) \/ Apply(i) \/ FinishSnapshot(i)
             \/ DiskFills(i) \/ DiskDrains(i)
    BY <1>1, <2>6 DEF ContactExpires, Apply, FinishSnapshot, DiskFills, DiskDrains, ballot
  <2>. QED
    BY <1>6, <2>1, <2>2, <2>3, <2>4, <2>5, <2>6 DEF Step
<1>7. ASSUME NEW i \in Server, NEW j \in Server, PairStep(i, j) PROVE Goal
  <2>1. CASE Deliver(i, j)
    <3>1. call[i][j] \in Request /\ Handle(i, j, call[i][j])
      BY <2>1 DEF Deliver, IInv, NetType
    <3>. QED
      BY <1>4, <3>1
  <2>2. CASE ReceiveHigherTerm(i, j)
    BY <1>3, <2>2 DEF ReceiveHigherTerm
  <2>3. CASE ReceivePreVote(i, j)
    BY <1>1, <1>2, <2>3 DEF ReceivePreVote
  <2>4. CASE ReceiveVote(i, j)
    <3>1. CASE Quorum(Config(i), votes[i] \cup {j})
      BY <2>4, <3>1, ElectRole DEF ReceiveVote, durable
    <3>2. CASE ~Quorum(Config(i), votes[i] \cup {j})
      BY <1>1, <2>4, <3>2 DEF ReceiveVote
    <3>. QED
      BY <3>1, <3>2
  <2>5. CASE ReceiveAppendOk(i, j) \/ ReceiveSnapshotOk(i, j)
    BY <1>5, <2>5 DEF ReceiveAppendOk, ReceiveSnapshotOk, Acknowledge
  <2>6. CASE \/ SendPreVote(i, j) \/ SendVote(i, j) \/ SendAppend(i, j) \/ SendSnapshot(i, j)
    BY <1>1, <2>6 DEF SendPreVote, SendVote, SendAppend, SendSnapshot, Send
  <2>7. CASE AbandonCall(i, j) \/ ReceiveAppendConflict(i, j)
    BY <1>1, <2>7 DEF AbandonCall, ReceiveAppendConflict, ballot
  <2>8. CASE \/ AddServerBegin(i, j) \/ AddServerAtOnce(i, j)
             \/ RemoveServer(i, j) \/ RemoveLearner(i, j)
    BY <1>1, <1>5, <2>8 DEF AddServerBegin, AddServerAtOnce, RemoveServer, RemoveLearner,
       AppendLocal, ballot
  <2>. QED
    BY <1>7, <2>1, <2>2, <2>3, <2>4, <2>5, <2>6, <2>7, <2>8 DEF PairStep
<1>8. CASE DeliverStale
  <2>1. PICK m \in stale : Handle(m.from, m.to, m.req)
    BY <1>8 DEF DeliverStale
  <2>2. m.from \in Server /\ m.to \in Server /\ m.req \in Request
    BY DEF IInv, NetType
  <2>. QED
    BY <1>4, <2>1, <2>2
<1>. QED
  BY <1>6, <1>7, <1>8 DEF Next

\* The nodes elected in a step do not stay candidates.
LEMMA NewlyElected ==
    ASSUME IInv, IInv', Next
    PROVE  /\ elected \subseteq elected'
           /\ \A p \in elected' : p \in elected \/
                /\ p[2] \in Server /\ p[1] = currentTerm'[p[2]]
                /\ role'[p[2]] # "CANDIDATE"
<1>. DEFINE Goal == /\ elected \subseteq elected'
                    /\ \A p \in elected' : p \in elected \/
                         /\ p[2] \in Server /\ p[1] = currentTerm'[p[2]]
                         /\ role'[p[2]] # "CANDIDATE"
<1>1. CASE elected' = elected
  BY <1>1
<1>2. ASSUME NEW i \in Server, NEW t \in Nat, BecomeLeader(i, t), t = currentTerm'[i] PROVE Goal
  <2>1. role'[i] \in {"FOLLOWER", "LEADER"}
    BY <1>2, ElectRole
  <2>. QED
    BY <1>2, <2>1, ElectAdds
<1>3. ASSUME NEW i \in Server, StartElection(i) PROVE Goal
  <2>1. currentTerm'[i] = currentTerm[i] + 1 /\ currentTerm[i] + 1 \in Nat
    BY <1>3 DEF StartElection, IInv, NodeType, VoteType
  <2>2. CASE Quorum(Config(i), {i})
    BY <1>2, <1>3, <2>1, <2>2 DEF StartElection
  <2>3. CASE ~Quorum(Config(i), {i})
    BY <1>1, <1>3, <2>3 DEF StartElection, history
  <2>. QED
    BY <2>2, <2>3
<1>4. ASSUME NEW i \in Server, NEW j \in Server, ReceiveVote(i, j) PROVE Goal
  <2>1. currentTerm'[i] = currentTerm[i] /\ currentTerm[i] \in Nat
    BY <1>4 DEF ReceiveVote, durable, IInv, NodeType, VoteType
  <2>2. CASE Quorum(Config(i), votes[i] \cup {j})
    BY <1>2, <1>4, <2>1, <2>2 DEF ReceiveVote
  <2>3. CASE ~Quorum(Config(i), votes[i] \cup {j})
    BY <1>1, <1>4, <2>3 DEF ReceiveVote, history
  <2>. QED
    BY <2>2, <2>3
<1>. QED
  BY <1>1, <1>3, <1>4, ElectedSteps

\* A vote that is new is the candidate's own or has just been granted.
LEMMA NewBacks ==
    ASSUME MetaInv, CallReply, Next, NEW v \in Server, NEW c \in Server, NEW w \in Nat,
           Backs(v, c, w)'
    PROVE  \/ Backs(v, c, w)
           \/ StartElection(c) /\ v = c /\ w = currentTerm[c] + 1
           \/ /\ Deliver(c, v) /\ call[c][v].type = "vote" /\ call[c][v].term = w
              /\ reply'[c][v].ok
<1>. DEFINE Goal == \/ Backs(v, c, w)
                    \/ StartElection(c) /\ v = c /\ w = currentTerm[c] + 1
                    \/ /\ Deliver(c, v) /\ call[c][v].type = "vote" /\ call[c][v].term = w
                       /\ reply'[c][v].ok
<1>1. CASE NoNewVote
  BY <1>1 DEF NoNewVote
<1>2. ASSUME NEW i \in Server, StartElection(i), AnswersKept PROVE Goal
  <2>1. currentTerm[i] + 1 \in Nat
    BY MetaTyped DEF MetaInv, MetaFields
  <2>2. NoNewVote \/ NewVote(i, i, currentTerm[i] + 1)
    BY <1>2, <2>1, StartIsNew
  <2>. QED
    BY <1>1, <1>2, <2>1, <2>2 DEF NewVote
<1>3. ASSUME NEW i \in Server, NEW j \in Server, Deliver(i, j), call[i][j].type = "vote"
      PROVE  Goal
  <2>1. call[i][j] \in Request /\ Handle(i, j, call[i][j])
    BY <1>3 DEF Deliver, MetaInv, IInv, NetType
  <2>2. VotesKept
    BY <2>1, HandleVotes DEF MetaInv
  <2>3. call' = call /\ reply' = [reply EXCEPT ![i][j] = ReplyTo(i, j, call[i][j])]
    BY <1>3 DEF Deliver
  <2>4. CASE v \in votes'[c] /\ currentTerm'[c] = w
    BY <2>2, <2>4 DEF VotesKept, Backs
  <2>5. CASE Cast(v, c, w)'
    <3>1. CASE c = i /\ v = j
      BY <1>3, <2>3, <2>5, <3>1 DEF Cast
    <3>2. CASE ~(c = i /\ v = j)
      <4>1. reply'[c][v] = reply[c][v]
        BY <2>3, <3>2 DEF MetaInv, IInv, NetType
      <4>. QED
        BY <2>3, <2>5, <4>1 DEF Cast, Backs
    <3>. QED
      BY <3>1, <3>2
  <2>. QED
    BY <2>4, <2>5 DEF Backs
<1>4. CASE AnswersKept
  <2>1. ASSUME NEW i \in Server, NEW j \in Server, ReceiveVote(i, j) PROVE NoNewVote
    BY <2>1, CountedVotes
  <2>. QED
    BY <1>1, <1>2, <1>4, <2>1, VotesSteps, KeptIsQuiet DEF MetaInv
<1>. QED
  BY <1>3, <1>4, AnswersSteps DEF MetaInv

-----------------------------------------------------------------------------
\* The index and term a node sends or compares are those of its whole log.
LEMMA ViewTerm ==
    ASSUME IInv, NEW G, NEW i \in Server, ViewOk(G, i), NEW n \in Nat,
           snap[i].idx <= n, n <= LastIndex(i)
    PROVE  TermAt(i, n) = TermOf(G[i], n)
<1>1. /\ snap[i].idx \in Nat /\ Len(log[i]) \in Nat /\ LastIndex(i) = snap[i].idx + Len(log[i])
  BY NodeFields
<1>2. CASE n = snap[i].idx
  BY <1>2 DEF ViewOk, TermAt, TermIn
<1>3. CASE n # snap[i].idx
  <2>1. n - snap[i].idx \in 1..Len(log[i]) /\ n # 0 /\ snap[i].idx + (n - snap[i].idx) = n
    BY <1>1, <1>3
  <2>2. log[i][n - snap[i].idx] = G[i][n]
    BY <2>1 DEF ViewOk
  <2>. QED
    BY <1>3, <2>1, <2>2 DEF TermAt, TermIn, TermOf
<1>. QED
  BY <1>2, <1>3

\* What is known of a request stays true.
LEMMA ElectedStays ==
    ASSUME NEW w, elected \subseteq elected', Elected(w)
    PROVE  Elected(w)'
  BY DEF Elected

\* A request that was true of its leader's log stays true of it.
LEMMA RequestStays ==
    ASSUME NEW H, Trunks(H), NEW H2, Trunks(H2), NEW R, NEW R2, Grows(H, R, H2, R2),
           NEW q \in Request, RequestOk(H, R, q)
    PROVE  RequestOk(H2, R2, q)'
<1>1. q.term \in Nat
  BY RequestFields
<1>2. /\ Ext(H, H2) /\ R \subseteq R2
      /\ Elected(q.term) => Elected(q.term)'
  BY ElectedStays DEF Grows
<1>3. /\ H[q.term] \in Seq(LogEntry) /\ H2[q.term] \in Seq(LogEntry)
      /\ Len(H[q.term]) \in Nat /\ Len(H2[q.term]) \in Nat
      /\ Agree(H[q.term], H2[q.term], Len(H[q.term]))
  BY <1>1, <1>2, TrunkType DEF Ext
<1>4. ASSUME NEW n \in Nat, n <= Len(H[q.term])
      PROVE  n <= Len(H2[q.term]) /\ TermOf(H2[q.term], n) = TermOf(H[q.term], n)
  <2>1. Len(H[q.term]) <= Len(H2[q.term])
    BY <1>3 DEF Agree
  <2>2. Len(H[q.term]) \in Int /\ n <= Len(H[q.term])
    BY <1>3, <1>4
  <2>3. TermOf(H[q.term], n) = TermOf(H2[q.term], n)
    BY <1>3, <2>2, AgreeTerm
  <2>. QED
    BY <1>3, <2>1, <2>2, <2>3
<1>5. ASSUME NEW n \in Nat, SafeTo(H, R, H[q.term], n, q.term)
      PROVE  SafeTo(H2, R2, H2[q.term], n, q.term)
  <2>1. n <= Len(H[q.term]) => Agree(H2[q.term], H[q.term], n)
    BY <1>3, AgreeSym, AgreeLess
  <2>. QED
    BY <1>1, <1>2, <1>3, <1>5, <2>1, SafeStays
<1>6. CASE q.type = "append"
  <2>1. q.prev \in Nat /\ q.commit \in Nat /\ q.entries \in Seq(LogEntry) /\ Len(q.entries) \in Nat
    <3>1. q.prev \in Nat /\ q.commit \in Nat /\ q.entries \in Seq(LogEntry)
      BY <1>6, RequestFields
    <3>. QED
      BY <3>1
  <2>2. /\ Elected(q.term)
        /\ q.prev + Len(q.entries) <= Len(H[q.term])
        /\ q.prevTerm = TermOf(H[q.term], q.prev)
        /\ \A n \in 1..Len(q.entries) : q.entries[n] = H[q.term][q.prev + n]
        /\ SafeTo(H, R, H[q.term], q.commit, q.term)
    BY <1>6 DEF RequestOk
  <2>3. q.prev + Len(q.entries) <= Len(H2[q.term])
    <3>1. q.prev + Len(q.entries) \in Nat
      BY <2>1
    <3>. QED
      BY <2>2, <3>1, <1>4
  <2>4. q.prevTerm = TermOf(H2[q.term], q.prev)
    BY <1>3, <2>1, <2>2, <1>4
  <2>5. ASSUME NEW n \in 1..Len(q.entries) PROVE q.entries[n] = H2[q.term][q.prev + n]
    <3>1. q.prev + n \in 1..Len(H[q.term])
      BY <1>3, <2>1, <2>2
    <3>. QED
      BY <1>3, <2>2, <3>1 DEF Agree
  <2>. QED
    BY <1>2, <1>5, <1>6, <2>1, <2>2, <2>3, <2>4, <2>5 DEF RequestOk
<1>7. CASE q.type = "snapshot"
  <2>1. q.snap.idx \in Nat
    BY <1>7, RequestFields DEF Snapshot
  <2>. QED
    BY <1>2, <1>4, <1>5, <1>7, <2>1 DEF RequestOk
<1>8. CASE q.type \notin {"append", "snapshot"}
  BY <1>8 DEF RequestOk
<1>. QED
  BY <1>6, <1>7, <1>8

\* So does an acknowledgement.
LEMMA ReplyStays ==
    ASSUME IInv, IInv', NEW H, Trunks(H), NEW H2, Trunks(H2), NEW G, NEW G2,
           NEW R, NEW R2, Move(H, G, R, H2, G2, R2), NEW j \in Server, NEW q \in Request, NEW r,
           ReplyOk(H, G, R, j, q, r)
    PROVE  ReplyOk(H2, G2, R2, j, q, r)'
<1>1. q.term \in Nat /\ Grows(H, R, H2, R2)
  BY RequestFields DEF Move
<1>2. ASSUME NEW m \in Nat, Acked(H, G, R, j, m, q.term)
      PROVE  Acked(H2, G2, R2, j, m, q.term)'
  BY <1>1, <1>2, AckedStays DEF Move
<1>3. CASE q.type = "append"
  <2>1. q.prev + Len(q.entries) \in Nat
    <3>1. q.prev \in Nat /\ q.entries \in Seq(LogEntry)
      BY <1>3, RequestFields
    <3>. QED
      BY <3>1
  <2>. QED
    BY <1>2, <1>3, <2>1 DEF ReplyOk
<1>4. CASE q.type = "snapshot"
  <2>1. q.snap.idx \in Nat
    BY <1>4, RequestFields DEF Snapshot
  <2>. QED
    BY <1>2, <1>4, <2>1 DEF ReplyOk
<1>5. CASE q.type \notin {"append", "snapshot"}
  BY <1>5 DEF ReplyOk
<1>. QED
  BY <1>3, <1>4, <1>5

\* So does a candidate's ballot, since its log does not move while it is a candidate.
LEMMA BallotStays ==
    ASSUME IInv, IInv', Next, NEW H, NEW G, NEW R, NEW H2, NEW G2, NEW R2,
           Move(H, G, R, H2, G2, R2), NEW i \in Server, NEW q \in Request, BallotOk(G, i, q)
    PROVE  BallotOk(G2, i, q)'
<1>1. /\ q.term \in Nat /\ currentTerm[i] \in Nat /\ currentTerm'[i] \in Nat
      /\ currentTerm'[i] >= currentTerm[i]
  BY RequestFields, NodeFields, NodeFieldsNext DEF Move, Grows
<1>2. ASSUME q.type = "vote"
      PROVE  /\ q.term <= currentTerm'[i]
             /\ q.term = currentTerm'[i] /\ role'[i] = "CANDIDATE" =>
                  q.lastIndex = Len(G2[i]) /\ q.lastTerm = TermOf(G2[i], Len(G2[i]))
  <2>1. q.term <= currentTerm[i]
    BY <1>2 DEF BallotOk
  <2>2. ASSUME q.term = currentTerm'[i], role'[i] = "CANDIDATE"
        PROVE  q.lastIndex = Len(G2[i]) /\ q.lastTerm = TermOf(G2[i], Len(G2[i]))
    <3>1. G2[i] = G[i]
      BY <2>2 DEF Move
    <3>2. ~StartElection(i)
      <4>1. StartElection(i) => currentTerm'[i] = currentTerm[i] + 1
        BY DEF StartElection, IInv, NodeType, VoteType
      <4>. QED
        BY <1>1, <2>1, <2>2, <4>1
    <3>3. role[i] = "CANDIDATE" /\ currentTerm'[i] = currentTerm[i]
      BY <2>2, <3>2, CandidateSteps
    <3>. QED
      BY <1>2, <2>2, <3>1, <3>3 DEF BallotOk
  <2>. QED
    BY <1>1, <2>1, <2>2
<1>. QED
  BY <1>2 DEF BallotOk

\* The acknowledgements given in a step are true.
Answers(H, G, R) ==
    \A i, j \in Server, q \in Request, r \in Reply :
      /\ call[i][j] = q /\ call'[i][j] = q /\ q # Nil
      /\ reply[i][j] = Nil /\ reply'[i][j] = r /\ r # Nil
      => ReplyOk(H, G, R, j, q, r)'

\* The step has a next value of each of the three, with which the invariant holds after it.
Result(H, G, R) ==
    \E H2, G2, R2 : /\ Ghosts(H2, G2, R2) /\ Move(H, G, R, H2, G2, R2)
                    /\ Core(H2, G2, R2)' /\ Answers(H2, G2, R2)

\* What a node sends is true of its log.
LEMMA SendAppendOk ==
    ASSUME IInv, NEW H, Trunks(H), NEW G, Branches(G), NEW R, NEW i \in Server, NEW j \in Server,
           LeaderOk(H, G, R, i), ViewOk(G, i), BoundOk(i), NodeOk(H, G, R, i), SendAppend(i, j)
    PROVE  \E q \in Request : Send(i, j, q) /\ RequestOk(H, R, q) /\ BallotOk(G, i, q)
<1>. DEFINE ni   == Min({nextIndex[i][j], LastIndex(i) + 1})
            from == ni - snap[i].idx
            upto == Min({Len(log[i]), from + MaxEntriesPerRpc - 1})
            es   == SubSeq(log[i], from, upto)
            q    == [type |-> "append", term |-> currentTerm[i], prev |-> ni - 1,
                     prevTerm |-> TermAt(i, ni - 1), entries |-> es,
                     commit |-> commitIndex[i]]
<1>1. /\ nextIndex[i][j] \in Nat /\ nextIndex[i][j] > snap[i].idx
      /\ Send(i, j, q) /\ role[i] = "LEADER"
  BY DEF SendAppend, IInv, NodeType, VoteType, LogType
<1>2. /\ currentTerm[i] \in Nat /\ commitIndex[i] \in Nat
      /\ log[i] \in Seq(LogEntry) /\ Len(log[i]) \in Nat
      /\ snap[i].idx \in Nat
      /\ LastIndex(i) \in Nat /\ LastIndex(i) = snap[i].idx + Len(log[i])
  BY NodeFields
<1>3. \A n \in snap[i].idx..LastIndex(i) : TermAt(i, n) \in Nat
  BY TermType DEF IInv, NodeType
<1>4. ni \in (snap[i].idx + 1)..(LastIndex(i) + 1)
  <2>. DEFINE k == LastIndex(i) + 1
  <2>1. k \in Int /\ nextIndex[i][j] \in Int
    BY <1>1, <1>2
  <2>. HIDE DEF k
  <2>2. Min({nextIndex[i][j], k}) = IF nextIndex[i][j] <= k THEN nextIndex[i][j] ELSE k
    BY <2>1, MinPair
  <2>. QED
    BY <1>1, <1>2, <2>2 DEF k
<1>5. upto \in Int /\ upto <= Len(log[i])
  <2>. DEFINE k == from + MaxEntriesPerRpc - 1
  <2>1. k \in Int /\ Len(log[i]) \in Int
    BY <1>2, <1>4, ThresholdAssumption
  <2>. HIDE DEF k
  <2>2. Min({Len(log[i]), k}) = IF Len(log[i]) <= k THEN Len(log[i]) ELSE k
    BY <2>1, MinPair
  <2>. QED
    BY <2>1, <2>2 DEF k
<1>6. /\ G[i] = H[currentTerm[i]] /\ <<currentTerm[i], i>> \in elected
      /\ Len(G[i]) = LastIndex(i)
      /\ \A n \in 1..Len(log[i]) : log[i][n] = G[i][snap[i].idx + n]
      /\ SafeTo(H, R, G[i], commitIndex[i], currentTerm[i])
  BY <1>1 DEF LeaderOk, ViewOk, NodeOk
<1>7. /\ es \in Seq(LogEntry)
      /\ ni - 1 + Len(es) <= LastIndex(i)
      /\ \A n \in 1..Len(es) : es[n] = G[i][ni - 1 + n]
  <2>. HIDE DEF ni, upto
  <2>1. from \in Int /\ from >= 1 /\ from <= Len(log[i]) + 1
    BY SMTT(30), <1>2, <1>4
  <2>2. \A k \in from..upto : k \in 1..Len(log[i]) /\ log[i][k] \in LogEntry
    BY <1>2, <1>5, <2>1
  <2>. DEFINE f == from
  <2>. HIDE DEF f
  <2>3. /\ SubSeq(log[i], f, upto) \in Seq(LogEntry)
        /\ Len(SubSeq(log[i], f, upto)) = IF f <= upto THEN upto - f + 1 ELSE 0
        /\ \A k \in 1..(upto - f + 1) : SubSeq(log[i], f, upto)[k] = log[i][f + k - 1]
    BY SMTT(30), <1>5, <2>1, <2>2, SubSeqProperties DEF f
  <2>4. /\ es \in Seq(LogEntry)
        /\ Len(es) = IF from <= upto THEN upto - from + 1 ELSE 0
        /\ \A k \in 1..(upto - from + 1) : es[k] = log[i][from + k - 1]
    BY <2>3 DEF f
  <2>. HIDE DEF es
  <2>5. ni - 1 = from + snap[i].idx - 1 /\ ni \in Int /\ Len(es) \in Int
    BY <1>2, <1>4, <1>5, <2>1, <2>4
  <2>. HIDE DEF from
  <2>6. ni - 1 + Len(es) <= LastIndex(i)
    <3>1. from + Len(es) <= Len(log[i]) + 1
      BY <1>2, <1>5, <2>1, <2>4
    <3>2. PICK a \in Int, b \in Int, c \in Int, d \in Int, e \in Int :
             /\ a = ni /\ b = from /\ c = snap[i].idx /\ d = Len(es) /\ e = Len(log[i])
             /\ LastIndex(i) = c + e
      <4>1. /\ ni \in Int /\ from \in Int /\ snap[i].idx \in Int
            /\ Len(es) \in Int /\ Len(log[i]) \in Int
        BY <1>2, <2>1, <2>5
      <4>2. LastIndex(i) = snap[i].idx + Len(log[i])
        BY <1>2
      <4>. QED
        BY <4>1, <4>2, Zenon
    <3>3. a - 1 = b + c - 1 /\ b + d <= e + 1
      BY <2>5, <3>1, <3>2
    <3>4. a - 1 + d <= c + e
      BY <3>3
    <3>. QED
      BY <3>2, <3>4
  <2>7. ASSUME NEW n \in 1..Len(es) PROVE es[n] = G[i][ni - 1 + n]
    <3>1. n \in 1..(upto - from + 1) /\ from + n - 1 \in 1..Len(log[i])
      BY SMTT(30), <1>2, <1>5, <2>1, <2>4
    <3>2. snap[i].idx + (from + n - 1) = ni - 1 + n
      <4>1. n \in Int
        BY <2>5
      <4>2. PICK a \in Int, b \in Int, c \in Int : a = ni /\ b = from /\ c = snap[i].idx
        BY <1>2, <2>1, <2>5
      <4>3. a - 1 = b + c - 1
        BY <2>5, <4>2
      <4>4. c + (b + n - 1) = a - 1 + n
        BY <4>1, <4>3
      <4>. QED
        BY <4>2, <4>4
    <3>3. es[n] = log[i][from + n - 1]
      BY <2>4, <3>1
    <3>. QED
      BY <1>6, <3>1, <3>2, <3>3
  <2>. QED
    BY <2>4, <2>6, <2>7
<1>8. ni - 1 \in Nat /\ TermAt(i, ni - 1) \in Nat /\ TermAt(i, ni - 1) = TermOf(G[i], ni - 1)
  <2>. HIDE DEF ni
  <2>1. ni - 1 \in Nat /\ ni - 1 \in snap[i].idx..LastIndex(i)
    BY <1>2, <1>4
  <2>. QED
    BY <1>3, <2>1, ViewTerm
<1>. HIDE DEF ni, es
<1>9. q \in Request
  BY <1>2, <1>7, <1>8 DEF Request, AppendRequest
<1>10. RequestOk(H, R, q) /\ BallotOk(G, i, q)
  BY <1>6, <1>7, <1>8 DEF RequestOk, BallotOk, Elected
<1>. QED
  BY <1>1, <1>9, <1>10

\* What a node sends, in any call, is true of its log.
LEMMA SendOk ==
    ASSUME IInv, NEW H, Trunks(H), NEW G, Branches(G), NEW R, NEW i \in Server, NEW j \in Server,
           LeaderOk(H, G, R, i), ViewOk(G, i), BoundOk(i), NodeOk(H, G, R, i),
           \/ SendPreVote(i, j) \/ SendVote(i, j) \/ SendAppend(i, j) \/ SendSnapshot(i, j)
    PROVE  \E q \in Request : Send(i, j, q) /\ RequestOk(H, R, q) /\ BallotOk(G, i, q)
<1>1. /\ currentTerm[i] \in Nat /\ currentTerm[i] + 1 \in Nat /\ commitIndex[i] \in Nat
      /\ snap[i] \in Snapshot /\ snap[i].idx \in Nat /\ LastIndex(i) \in Nat
      /\ LastIndex(i) = snap[i].idx + Len(log[i]) /\ Len(log[i]) \in Nat
  BY NodeFields
<1>2. ASSUME NEW type \in {"prevote", "vote"}, NEW t \in Nat,
             Send(i, j, BallotRequest(i, type, t)), type = "vote" => t = currentTerm[i]
      PROVE  \E q \in Request : Send(i, j, q) /\ RequestOk(H, R, q) /\ BallotOk(G, i, q)
  <2>. DEFINE q == BallotRequest(i, type, t)
  <2>1. q \in Request
    BY BallotRequestType DEF IInv
  <2>2. /\ q.type = type /\ q.term = t /\ q.lastIndex = LastIndex(i)
        /\ q.lastTerm = TermAt(i, LastIndex(i))
    BY DEF BallotRequest, LastTerm
  <2>3. q.lastTerm = TermOf(G[i], LastIndex(i)) /\ Len(G[i]) = LastIndex(i)
    BY <1>1, <2>2, ViewTerm DEF ViewOk
  <2>. HIDE DEF q
  <2>4. RequestOk(H, R, q)
    BY <2>2 DEF RequestOk
  <2>5. BallotOk(G, i, q)
    BY <1>1, <1>2, <2>2, <2>3 DEF BallotOk
  <2>. QED
    BY <1>2, <2>1, <2>4, <2>5 DEF q
<1>3. CASE SendPreVote(i, j)
  BY <1>1, <1>2, <1>3 DEF SendPreVote
<1>4. CASE SendVote(i, j)
  BY <1>1, <1>2, <1>4 DEF SendVote
<1>5. CASE SendSnapshot(i, j)
  <2>. DEFINE q == [type |-> "snapshot", term |-> currentTerm[i], snap |-> snap[i]]
  <2>1. q \in Request
    BY <1>1 DEF Request, SnapshotRequest
  <2>2. Send(i, j, q) /\ role[i] = "LEADER"
    BY <1>5 DEF SendSnapshot
  <2>3. /\ G[i] = H[currentTerm[i]] /\ Elected(currentTerm[i])
        /\ snap[i].idx <= Len(H[currentTerm[i]])
        /\ snap[i].term = TermOf(H[currentTerm[i]], snap[i].idx)
    BY <1>1, <2>2 DEF LeaderOk, ViewOk, Elected
  <2>4. G[i] \in Seq(LogEntry) /\ Len(G[i]) \in Nat
    <3>1. G[i] \in Seq(LogEntry)
      BY DEF Branches
    <3>. QED
      BY <3>1
  <2>5. SafeTo(H, R, H[currentTerm[i]], snap[i].idx, currentTerm[i])
    <3>1. SafeTo(H, R, G[i], commitIndex[i], currentTerm[i]) /\ snap[i].idx <= commitIndex[i]
      BY DEF NodeOk, BoundOk
    <3>2. Ext(H, H) /\ R \subseteq R
      BY TrunkType, AgreeSelf DEF Ext
    <3>3. commitIndex[i] <= Len(G[i]) => Agree(G[i], G[i], commitIndex[i])
      BY <1>1, <2>4, AgreeSelf
    <3>4. currentTerm[i] <= currentTerm[i]
      BY <1>1
    <3>5. SafeTo(H, R, G[i], snap[i].idx, currentTerm[i])
      BY <1>1, <2>4, <3>1, <3>2, <3>3, <3>4, SafeStays
    <3>. QED
      BY <2>3, <3>5
  <2>6. RequestOk(H, R, q) /\ BallotOk(G, i, q)
    BY <2>3, <2>5 DEF RequestOk, BallotOk
  <2>. QED
    BY <2>1, <2>2, <2>6
<1>. QED
  BY <1>3, <1>4, <1>5, SendAppendOk

-----------------------------------------------------------------------------
\* Requests and answers after a step, whatever the step is: what was on its way
\* stays true, and what is new is true of the log it was read from.
LEMMA NetStep ==
    ASSUME IInv, IInv', Next, CallReply,
           NEW H, Trunks(H), NEW H2, Trunks(H2), NEW G, Branches(G), NEW G2, NEW R, NEW R2,
           Core(H, G, R), Net(H, G, R), Move(H, G, R, H2, G2, R2),
           Answers(H2, G2, R2)
    PROVE  /\ \A i, j \in Server : CallOk(H2, G2, R2, i, j)'
           /\ \A m \in stale' : RequestOk(H2, R2, m.req)'
<1>. DEFINE CallsOk == \A i, j \in Server : CallOk(H2, G2, R2, i, j)'
            StaleOk == \A m \in stale' : RequestOk(H2, R2, m.req)'
<1>1. Grows(H, R, H2, R2)
  BY DEF Move
<1>2. ASSUME NEW i \in Server, NEW j \in Server, NEW q \in Request, q # Nil, call[i][j] = q
      PROVE  /\ RequestOk(H, R, q) /\ BallotOk(G, i, q)
             /\ \A r \in Reply : reply[i][j] = r /\ r # Nil => ReplyOk(H, G, R, j, q, r)
  BY <1>2 DEF Net, CallOk
\* A call of which the request and the answer, if there is one, are not new.
<1>3. ASSUME NEW i \in Server, NEW j \in Server,
             \/ call'[i][j] = Nil
             \/ call'[i][j] = call[i][j] /\ reply'[i][j] \in {reply[i][j], Nil}
             \/ call'[i][j] = call[i][j] /\ Deliver(i, j)
             \/ \E q \in Request : /\ call'[i][j] = q /\ reply'[i][j] = Nil
                                   /\ RequestOk(H, R, q) /\ BallotOk(G, i, q)
      PROVE  CallOk(H2, G2, R2, i, j)'
  <2>1. ASSUME NEW q \in Request, call'[i][j] = q, q # Nil
        PROVE  /\ RequestOk(H2, R2, q)' /\ BallotOk(G2, i, q)'
               /\ \A r \in Reply : reply'[i][j] = r /\ r # Nil => ReplyOk(H2, G2, R2, j, q, r)'
    <3>1. RequestOk(H, R, q) /\ BallotOk(G, i, q)
      BY <1>2, <1>3, <2>1
    <3>2. RequestOk(H2, R2, q)' /\ BallotOk(G2, i, q)'
      BY <1>1, <3>1, RequestStays, BallotStays
    <3>3. ASSUME NEW r \in Reply, reply'[i][j] = r, r # Nil
          PROVE  ReplyOk(H2, G2, R2, j, q, r)'
      <4>1. \/ call[i][j] = q /\ reply[i][j] = r
            \/ call[i][j] = q /\ Deliver(i, j)
        BY <1>3, <2>1, <3>3
      <4>2. CASE call[i][j] = q /\ reply[i][j] = r
        <5>1. ReplyOk(H, G, R, j, q, r)
          BY <1>2, <2>1, <3>3, <4>2
        <5>. QED
          BY <5>1, ReplyStays
      <4>3. CASE call[i][j] = q /\ Deliver(i, j)
        BY <2>1, <3>3, <4>3 DEF Answers, Deliver
      <4>. QED
        BY <4>1, <4>2, <4>3
    <3>. QED
      BY <3>2, <3>3
  <2>. QED
    BY <2>1 DEF CallOk
<1>4. ASSUME NEW m \in stale', m \in stale \/ \E i, j \in Server : m.req = call[i][j] /\ m.req # Nil
      PROVE  RequestOk(H2, R2, m.req)'
  <2>1. m.req \in Request
    BY DEF IInv, NetType
  <2>2. RequestOk(H, R, m.req)
    BY <1>2, <1>4, <2>1 DEF Net
  <2>. QED
    BY <1>1, <2>1, <2>2, RequestStays
<1>. HIDE DEF CallsOk, StaleOk
<1>5. CASE UNCHANGED net
  <2>1. call' = call /\ reply' = reply /\ stale' = stale
    BY <1>5 DEF net
  <2>2. CallsOk
    BY <1>3, <2>1 DEF CallsOk
  <2>3. StaleOk
    BY <1>4, <2>1 DEF StaleOk
  <2>. QED
    BY <2>2, <2>3 DEF StaleOk, CallsOk
<1>6. ASSUME NEW i \in Server, NEW j \in Server,
             \/ SendPreVote(i, j) \/ SendVote(i, j) \/ SendAppend(i, j) \/ SendSnapshot(i, j)
      PROVE  CallsOk /\ StaleOk
  <2>1. LeaderOk(H, G, R, i) /\ ViewOk(G, i) /\ BoundOk(i) /\ NodeOk(H, G, R, i)
    BY DEF Core, Nodes
  <2>2. PICK q \in Request : Send(i, j, q) /\ RequestOk(H, R, q) /\ BallotOk(G, i, q)
    BY <1>6, <2>1, SendOk
  <2>3. /\ call[i][j] = Nil /\ stale' = stale /\ reply' = reply
        /\ \A a, b \in Server : call'[a][b] = IF a = i /\ b = j THEN q ELSE call[a][b]
    BY <2>2 DEF Send, IInv, NetType
  <2>4. reply[i][j] = Nil
    BY <2>3 DEF CallReply
  <2>5. CallsOk
    BY <1>3, <2>2, <2>3, <2>4 DEF CallsOk
  <2>. QED
    BY <1>4, <2>3, <2>5 DEF StaleOk
<1>7. ASSUME NEW i \in Server, NEW j \in Server, Deliver(i, j)
      PROVE  CallsOk /\ StaleOk
  <2>1. /\ call' = call /\ stale' = stale
        /\ \A a, b \in Server : a # i \/ b # j => reply'[a][b] = reply[a][b]
    BY <1>7 DEF Deliver, IInv, NetType
  <2>2. CallsOk
    BY <1>3, <1>7, <2>1 DEF CallsOk
  <2>. QED
    BY <1>4, <2>1, <2>2 DEF StaleOk
<1>8. ASSUME NEW i \in Server, NEW j \in Server, HangUp(i, j),
             stale' = stale \/ AbandonCall(i, j)
      PROVE  CallsOk /\ StaleOk
  <2>1. \A a, b \in Server : \/ call'[a][b] = Nil
                             \/ call'[a][b] = call[a][b] /\ reply'[a][b] = reply[a][b]
    BY <1>8 DEF HangUp, IInv, NetType
  <2>2. \A m \in stale' : m \in stale \/ (m.req = call[i][j] /\ m.req # Nil)
    BY <1>8 DEF AbandonCall
  <2>3. CallsOk
    BY <1>3, <2>1 DEF CallsOk
  <2>. QED
    BY <1>4, <2>2, <2>3 DEF StaleOk
<1>9. ASSUME NEW i \in Server, Restart(i)
      PROVE  CallsOk /\ StaleOk
  <2>1. \A a, b \in Server : \/ call'[a][b] = Nil
                             \/ call'[a][b] = call[a][b] /\ reply'[a][b] = reply[a][b]
    BY <1>9 DEF Restart, IInv, NetType
  <2>2. PICK kept \in SUBSET {j \in Server : call[i][j] # Nil /\ reply[i][j] = Nil} :
          stale' = stale \cup {[from |-> i, to |-> j, req |-> call[i][j]] : j \in kept}
    BY <1>9 DEF Restart
  <2>3. \A m \in stale' : m \in stale \/ \E j \in Server : m.req = call[i][j] /\ m.req # Nil
    BY <2>2
  <2>4. CallsOk
    BY <1>3, <2>1 DEF CallsOk
  <2>. QED
    BY <1>4, <2>3, <2>4 DEF StaleOk
<1>10. CASE DeliverStale
  <2>1. call' = call /\ reply' = reply /\ stale' \subseteq stale
    BY <1>10 DEF DeliverStale
  <2>2. CallsOk
    BY <1>3, <2>1 DEF CallsOk
  <2>3. StaleOk
    BY <1>4, <2>1 DEF StaleOk
  <2>. QED
    BY <2>2, <2>3 DEF StaleOk, CallsOk
<1>. QED
  BY <1>5, <1>6, <1>7, <1>8, <1>9, <1>10, NetSteps DEF CallsOk, StaleOk

-----------------------------------------------------------------------------
\* The last entry of a log says which leader's log it is a part of.
LEMMA LastOfLog ==
    ASSUME NEW H, Trunks(H), NEW R, Trees(H, R), NEW l \in Seq(LogEntry), Valid(H, l),
           NEW n \in Nat, n = Len(l), n > 0, NEW u, u = l[n].term
    PROVE  /\ u \in Nat /\ Elected(u) /\ Agree(l, H[u], n)
           /\ \A k, t : Has(l, k, t) => k \in Nat /\ k <= n /\ t <= u
           /\ \A k, t \in Nat : Has(H[u], k, t) /\ (k <= n \/ t < u) => Has(l, k, t)
<1>1. n \in 1..Len(l) /\ u \in Nat
  BY EntryTerm
<1>2. Agree(l, H[u], n)
  BY <1>1 DEF Valid
<1>3. H[u] \in Seq(LogEntry) /\ Len(H[u]) \in Nat /\ n <= Len(H[u]) /\ H[u][n].term = u
  BY <1>1, <1>2, TrunkType DEF Agree
<1>4. \A a, b \in 1..Len(H[u]) : a <= b => H[u][a].term <= H[u][b].term
  BY <1>1 DEF Trees, TrunkOk
<1>5. Elected(u)
  <2>1. H[u] # << >>
    BY <1>3
  <2>. QED
    BY <1>1, <2>1 DEF Trees, TrunkOk
<1>6. ASSUME NEW k, NEW t, Has(l, k, t) PROVE k \in Nat /\ k <= n /\ t <= u
  <2>1. k \in 1..n /\ k \in 1..Len(H[u]) /\ n \in 1..Len(H[u])
    BY <1>1, <1>3, <1>6 DEF Has
  <2>2. H[u][k].term = t
    BY <1>2, <1>6, <2>1 DEF Agree, Has
  <2>. QED
    BY <1>3, <1>4, <2>1, <2>2
<1>7. ASSUME NEW k \in Nat, NEW t \in Nat, Has(H[u], k, t), k <= n \/ t < u
      PROVE  Has(l, k, t)
  <2>1. k <= n
    <3>1. CASE t < u /\ ~(k <= n)
      <4>1. k \in 1..Len(H[u]) /\ n \in 1..Len(H[u]) /\ n <= k
        BY <1>1, <1>3, <1>7, <3>1 DEF Has
      <4>2. u <= t
        BY <1>3, <1>4, <1>7, <4>1 DEF Has
      <4>. QED
        BY <1>1, <3>1, <4>2
    <3>. QED
      BY <1>7, <3>1
  <2>2. Agree(H[u], l, n)
    BY <1>2, AgreeSym
  <2>. QED
    BY <1>3, <1>7, <2>1, <2>2, AgreeHas
<1>. QED
  BY <1>1, <1>2, <1>5, <1>6, <1>7

\* A voter's log has nothing that the log of a candidate it finds up-to-date lacks,
\* unless it can no longer be committed.
LEMMA UpToDateHas ==
    ASSUME IInv, NEW H, Trunks(H), NEW G, Branches(G), NEW R, Trees(H, R),
           NEW v \in Server, NEW c \in Server,
           ViewOk(G, v), NodeOk(H, G, R, v), Valid(H, G[c]),
           NEW q, UpToDate(v, q),
           q.lastIndex = Len(G[c]), q.lastTerm = TermOf(G[c], Len(G[c])),
           NEW k \in Nat, NEW t \in Nat, <<v, k, t>> \in R
    PROVE  Has(G[c], k, t) \/ Blocked(R, k, t)
<1>1. CASE Has(G[v], k, t)
  <2>1. G[v] \in Seq(LogEntry) /\ G[c] \in Seq(LogEntry) /\ Valid(H, G[v])
    BY DEF Branches, NodeOk
  <2>2. PICK m \in Nat, n \in Nat : m = Len(G[v]) /\ n = Len(G[c])
    BY <2>1
  <2>3. m > 0 /\ k <= m /\ k >= 1
    BY <1>1, <2>2 DEF Has
  <2>4. PICK u : u = G[v][m].term
    OBVIOUS
  <2>5. /\ u \in Nat /\ Elected(u) /\ Agree(G[v], H[u], m) /\ t <= u
    BY <1>1, <2>1, <2>2, <2>3, <2>4, LastOfLog
  <2>6. LastTerm(v) = u /\ LastIndex(v) = m
    <3>1. Len(G[v]) = LastIndex(v) /\ LastIndex(v) = snap[v].idx + Len(log[v])
      BY NodeFields DEF ViewOk
    <3>2. snap[v].idx <= LastIndex(v) /\ LastIndex(v) \in Nat
      BY NodeFields, <3>1
    <3>3. TermAt(v, LastIndex(v)) = TermOf(G[v], LastIndex(v))
      BY <3>2, ViewTerm
    <3>. QED
      BY <2>2, <2>3, <2>4, <3>1, <3>3 DEF LastTerm, TermOf
  <2>7. Has(H[u], k, t)
    BY <1>1, <2>1, <2>3, <2>5, TrunkType, AgreeHas
  <2>8. CASE q.lastTerm = u /\ n >= m
    <3>1. n > 0 /\ G[c][n].term = u /\ k <= n
      BY <2>2, <2>3, <2>8 DEF TermOf
    <3>. QED
      BY <2>1, <2>2, <2>7, <3>1, LastOfLog
  <2>9. CASE q.lastTerm > u
    <3>1. n > 0 /\ q.lastTerm = G[c][n].term
      BY <2>2, <2>5, <2>9 DEF TermOf
    <3>2. PICK w : w = G[c][n].term
      OBVIOUS
    <3>3. w \in Nat /\ Elected(w) /\ \A a, b \in Nat : Has(H[w], a, b) /\ b < w => Has(G[c], a, b)
      <4>1. /\ w \in Nat /\ Elected(w)
            /\ \A a, b \in Nat : Has(H[w], a, b) /\ (a <= n \/ b < w) => Has(G[c], a, b)
        BY <2>1, <2>2, <3>1, <3>2, LastOfLog
      <4>. QED
        BY <4>1
    <3>4. t < w /\ Has(H[t], k, t)
      <4>1. w > u
        BY <2>9, <3>1, <3>2
      <4>. QED
        BY <2>5, <3>3, <4>1 DEF NodeOk
    <3>5. Has(H[w], k, t) \/ Blocked(R, k, t)
      BY <3>3, <3>4 DEF Trees, BranchOk
    <3>. QED
      BY <3>3, <3>4, <3>5
  <2>. QED
    BY <2>2, <2>6, <2>8, <2>9 DEF UpToDate
<1>. QED
  BY <1>1 DEF NodeOk

-----------------------------------------------------------------------------
\* The candidates after a step.
LEMMA CandidateStep ==
    ASSUME ElectionInv, ElectionInv', Next,
           NEW H, Trunks(H), NEW H2, NEW G, Branches(G), NEW G2, NEW R, NEW R2,
           Core(H, G, R), Net(H, G, R), Move(H, G, R, H2, G2, R2), NEW c \in Server
    PROVE  CandidateOk(G2, R2, c)'
<1>1. /\ MetaInv /\ IInv /\ CallReply /\ IInv' /\ BackedByDisk'
      /\ \A i \in Server : Persisted(i)'
  BY DEF ElectionInv, MetaInv
<1>2. /\ Grows(H, R, H2, R2)
      /\ role'[c] = "CANDIDATE" => G2[c] = G[c]
  BY DEF Move
<1>. SUFFICES ASSUME role'[c] = "CANDIDATE"
              PROVE  CandidateOk(G2, R2, c)'
  BY DEF CandidateOk
<1>3. PICK w : w = currentTerm'[c]
  OBVIOUS
<1>4. w \in Nat /\ currentTerm[c] \in Nat
  BY <1>1, <1>3, NodeFields, NodeFieldsNext
<1>5. \/ role[c] = "CANDIDATE" /\ currentTerm[c] = w
      \/ StartElection(c) /\ w = currentTerm[c] + 1
  <2>1. StartElection(c) => currentTerm'[c] = currentTerm[c] + 1
    BY <1>1 DEF StartElection, IInv, NodeType, VoteType
  <2>. QED
    BY <1>1, <1>3, <2>1, CandidateSteps
<1>6. <<w, c>> \notin elected'
  <2>1. <<w, c>> \notin elected
    <3>1. CASE role[c] = "CANDIDATE" /\ currentTerm[c] = w
      BY <3>1 DEF Net, CandidateOk
    <3>2. CASE w = currentTerm[c] + 1
      <4>1. <<w, c>> \in elected => w <= currentTerm[c]
        BY DEF Core
      <4>. QED
        BY <1>4, <3>2, <4>1
    <3>. QED
      BY <1>5, <3>1, <3>2
  <2>. QED
    BY <1>1, <2>1, NewlyElected
<1>7. ASSUME NEW v \in Server, NEW k \in Nat, NEW t \in Nat,
             Backs(v, c, w)', <<v, k, t>> \in R2, t < w
      PROVE  Has(G[c], k, t) \/ Blocked(R2, k, t)'
  <2>1. <<v, k, t>> \in R
    <3>1. disk'[v].term >= w
      <4>1. Voted(v, c, w)'
        BY <1>1, <1>4, <1>7 DEF BackedByDisk
      <4>2. disk'[v].term \in Nat
        <5>1. disk'[v] \in Meta
          BY <1>1 DEF IInv, NodeType, VoteType
        <5>. QED
          BY <5>1 DEF Meta
      <4>. QED
        BY <1>4, <4>1, <4>2 DEF Voted
    <3>2. disk'[v].term <= currentTerm'[v] /\ disk'[v].term \in Nat /\ currentTerm'[v] \in Nat
      <4>1. disk'[v] \in Meta
        BY <1>1 DEF IInv, NodeType, VoteType
      <4>. QED
        BY <1>1, <4>1, NodeFieldsNext DEF Meta, Persisted
    <3>3. t # currentTerm'[v]
      BY <1>4, <1>7, <3>1, <3>2
    <3>. QED
      BY <1>2, <1>7, <3>3 DEF Grows
  <2>2. Has(G[c], k, t) \/ Blocked(R, k, t)
    <3>1. CASE Backs(v, c, w)
      <4>1. role[c] = "CANDIDATE" /\ currentTerm[c] = w
        <5>1. CASE w = currentTerm[c] + 1
          <6>1. Cast(v, c, w)
            BY <1>4, <3>1, <5>1 DEF Backs
          <6>2. call[c][v] \in Request /\ call[c][v] # Nil
            BY <1>1, <6>1 DEF Cast, IInv, NetType
          <6>3. call[c][v].term <= currentTerm[c]
            BY <6>1, <6>2 DEF Cast, Net, CallOk, BallotOk
          <6>. QED
            BY <1>4, <5>1, <6>1, <6>3 DEF Cast
        <5>. QED
          BY <1>5, <5>1
      <4>. QED
        BY <1>7, <2>1, <3>1, <4>1 DEF Net, CandidateOk
    <3>2. CASE v = c
      BY <2>1, <3>2 DEF Core, Nodes, NodeOk
    <3>3. CASE /\ Deliver(c, v) /\ call[c][v].type = "vote" /\ call[c][v].term = w
               /\ reply'[c][v].ok
      <4>1. PICK q : q = call[c][v]
        OBVIOUS
      <4>2. q \in Request /\ q # Nil /\ q.type = "vote" /\ q.term = w
        BY <1>1, <3>3, <4>1 DEF Deliver, IInv, NetType
      <4>3. /\ q.term <= currentTerm[c]
            /\ q.term = currentTerm[c] /\ role[c] = "CANDIDATE" =>
                 q.lastIndex = Len(G[c]) /\ q.lastTerm = TermOf(G[c], Len(G[c]))
        BY <4>1, <4>2 DEF Net, CallOk, BallotOk
      <4>4. role[c] = "CANDIDATE" /\ currentTerm[c] = w
        BY <1>4, <1>5, <4>2, <4>3
      <4>5. UpToDate(v, q)
        <5>1. reply'[c][v] = VoteReply(c, v, q)
          <6>1. reply' = [reply EXCEPT ![c][v] = ReplyTo(c, v, q)]
            BY <3>3, <4>1 DEF Deliver
          <6>2. reply'[c][v] = ReplyTo(c, v, q)
            BY <1>1, <6>1 DEF IInv, NetType
          <6>. QED
            BY <4>2, <6>2 DEF ReplyTo
        <5>2. VoteReply(c, v, q).ok = Grants(c, v, q)
          BY DEF VoteReply, Answer
        <5>. QED
          BY <3>3, <5>1, <5>2 DEF Grants
      <4>6. /\ Trees(H, R) /\ ViewOk(G, v) /\ NodeOk(H, G, R, v) /\ Valid(H, G[c])
        BY DEF Core, Nodes, NodeOk
      <4>. QED
        BY <1>1, <2>1, <4>2, <4>3, <4>4, <4>5, <4>6, UpToDateHas
    <3>. QED
      BY <1>1, <1>4, <1>7, <3>1, <3>2, <3>3, NewBacks
  <2>. QED
    BY <1>1, <1>2, <2>2, BlockedStays
<1>. QED
  BY <1>2, <1>3, <1>6, <1>7 DEF CandidateOk

-----------------------------------------------------------------------------
\* What a step keeps of the logs of leaders, of leaders and of committed entries.
LEMMA TrunkStays ==
    ASSUME NEW H, Trunks(H), NEW H2, Trunks(H2), Ext(H, H2), elected \subseteq elected',
           NEW w \in Nat, H2[w] = H[w], TrunkOk(H, w)
    PROVE  TrunkOk(H2, w)'
<1>1. Valid(H2, H2[w])
  BY TrunkType, ExtValid DEF TrunkOk
<1>2. Elected(w) => Elected(w)'
  BY ElectedStays
<1>. QED
  BY <1>1, <1>2 DEF TrunkOk

\* A leader's log keeps having what it must have, as long as the entries new in the logs
\* of earlier leaders come too late.
LEMMA BranchStays ==
    ASSUME IInv, IInv', NEW H, Trunks(H), NEW H2, Trunks(H2), NEW R, NEW R2,
           Grows(H, R, H2, R2), NEW w \in Nat, Elected(w), BranchOk(H, R, w),
           \A t, k \in Nat : t < w /\ Has(H2[t], k, t) /\ ~Has(H[t], k, t) => Blocked(R2, k, t)'
    PROVE  BranchOk(H2, R2, w)'
<1>1. ASSUME NEW t \in Nat, NEW k \in Nat, t < w, Has(H2[t], k, t)
      PROVE  Has(H2[w], k, t) \/ Blocked(R2, k, t)'
  <2>1. CASE Has(H[t], k, t)
    <3>1. Has(H[w], k, t) \/ Blocked(R, k, t)
      BY <1>1, <2>1 DEF BranchOk
    <3>2. Has(H[w], k, t) => Has(H2[w], k, t)
      BY ExtHas DEF Grows
    <3>. QED
      BY <3>1, <3>2, BlockedStays
  <2>. QED
    BY <1>1, <2>1
<1>. QED
  BY <1>1 DEF BranchOk

\* The leaders' logs of a step that elects nobody and appends nothing.
LEMMA TreesSame ==
    ASSUME IInv, IInv', NEW H, Trunks(H), NEW R, NEW R2, Grows(H, R, H, R2), Trees(H, R),
           elected' = elected
    PROVE  Trees(H, R2)'
<1>1. ASSUME NEW w \in Nat PROVE TrunkOk(H, w)' /\ BranchOk(H, R2, w)'
  <2>1. TrunkOk(H, w) /\ BranchOk(H, R, w)
    BY DEF Trees
  <2>2. TrunkOk(H, w)'
    BY <2>1, TrunkStays DEF Grows
  <2>3. BranchOk(H, R2, w)'
    <3>1. CASE Elected(w)
      BY <2>1, <3>1, BranchStays
    <3>2. CASE ~Elected(w)
      BY <3>2 DEF BranchOk, Elected
    <3>. QED
      BY <3>1, <3>2
  <2>. QED
    BY <2>2, <2>3
<1>. QED
  BY <1>1 DEF Trees

\* A leader whose log stays.
LEMMA LeaderStays ==
    ASSUME IInv, IInv', NEW H, Trunks(H), NEW H2, Trunks(H2), NEW G, NEW G2,
           NEW R, NEW R2, Move(H, G, R, H2, G2, R2), NEW i \in Server, LeaderOk(H, G, R, i),
           role'[i] = "LEADER" => role[i] = "LEADER" /\ currentTerm'[i] = currentTerm[i],
           G2[i] = G[i], H2[currentTerm[i]] = H[currentTerm[i]],
           \A j \in Server : matchIndex'[i][j] \in {matchIndex[i][j], 0}
    PROVE  LeaderOk(H2, G2, R2, i)'
<1>. SUFFICES ASSUME role'[i] = "LEADER"
              PROVE  LeaderOk(H2, G2, R2, i)'
  BY DEF LeaderOk
<1>1. PICK t \in Nat : t = currentTerm[i] /\ t = currentTerm'[i]
  BY NodeFields
<1>2. <<t, i>> \in elected' /\ G2[i] = H2[t]
  BY <1>1 DEF LeaderOk, Move, Grows
<1>3. ASSUME NEW j \in Server, NEW m \in Nat, m = matchIndex'[i][j], m > 0
      PROVE  Acked(H2, G2, R2, j, m, t)'
  <2>1. m = matchIndex[i][j]
    BY <1>3
  <2>2. Acked(H, G, R, j, m, t)
    BY <1>1, <1>3, <2>1 DEF LeaderOk
  <2>. QED
    BY <2>2, AckedStays DEF Move
<1>. QED
  BY <1>1, <1>2, <1>3 DEF LeaderOk

\* An element of a sequence.
LEMMA SeqElement ==
    ASSUME NEW S, NEW s \in Seq(S), NEW n \in DOMAIN s
    PROVE  s[n] \in S /\ n \in Nat /\ n >= 1 /\ n <= Len(s)
  OBVIOUS

\* The committed sequence where it stays.
LEMMA DecidedStays ==
    ASSUME IInv, NEW H, Trunks(H), NEW H2, Trunks(H2), NEW R, NEW R2, Ext(H, H2), R \subseteq R2,
           NEW n \in DOMAIN decided, DecidedOk(H, R, n),
           \A m \in 1..n : decided'[m] = decided[m]
    PROVE  DecidedOk(H2, R2, n)'
<1>1. /\ n \in Nat /\ n \in 1..n /\ decided[n].at \in Nat
  <2>1. decided \in Seq([entry: LogEntry, at: Nat])
    BY DEF IInv, NodeType, LogType
  <2>2. decided[n] \in [entry: LogEntry, at: Nat] /\ n \in Nat /\ n >= 1
    BY <2>1, SeqElement
  <2>. QED
    BY <2>2
<1>2. PICK t \in Nat : t = decided[n].at
  BY <1>1
<1>3. PICK k \in Nat : /\ k >= n /\ Mark(H, R, k, t)
                       /\ \A m \in 1..n : decided[m].entry = H[t][m]
  BY <1>2 DEF DecidedOk
<1>4. Mark(H2, R2, k, t)
  BY <1>3, MarkStays
<1>5. \A m \in 1..n : H2[t][m] = H[t][m]
  <2>1. k <= Len(H[t]) /\ Len(H[t]) \in Nat
    BY <1>3, TrunkType DEF Mark, Has
  <2>2. Agree(H[t], H2[t], Len(H[t]))
    BY DEF Ext
  <2>3. \A m \in 1..n : m \in 1..Len(H[t])
    BY <1>1, <1>3, <2>1
  <2>. QED
    BY <2>2, <2>3 DEF Agree
<1>6. decided'[n].at = t /\ \A m \in 1..n : decided'[m].entry = H2[t][m]
  BY <1>1, <1>2, <1>3, <1>5
<1>. QED
  BY <1>1, <1>3, <1>4, <1>6 DEF DecidedOk

\* A step that neither elects, commits nor changes a log.
LEMMA QuietCore ==
    ASSUME IInv, IInv', NEW H, NEW G, NEW R, Ghosts(H, G, R), Core(H, G, R),
           \A i \in Server : currentTerm'[i] >= currentTerm[i],
           UNCHANGED history,
           \A i \in Server : /\ role'[i] = "LEADER" =>
                                  role[i] = "LEADER" /\ currentTerm'[i] = currentTerm[i]
                             /\ \A j \in Server : matchIndex'[i][j] \in {matchIndex[i][j], 0}
                             /\ ViewOk(G, i)' /\ BoundOk(i)' /\ commitIndex'[i] <= commitIndex[i]
    PROVE  Move(H, G, R, H, G, R) /\ Core(H, G, R)'
<1>1. Trunks(H) /\ Branches(G)
  BY DEF Ghosts
<1>2. elected' = elected /\ decided' = decided
  BY DEF history
<1>3. Ext(H, H)
  BY <1>1, TrunkType, AgreeSelf DEF Ext
<1>4. Grows(H, R, H, R)
  BY <1>2, <1>3 DEF Grows
<1>5. Move(H, G, R, H, G, R)
  BY <1>4 DEF Move
<1>6. Trees(H, R)'
  BY <1>1, <1>2, <1>4, TreesSame DEF Core
<1>7. Nodes(H, G, R)'
  <2>1. ASSUME NEW i \in Server PROVE NodeOk(H, G, R, i)'
    BY <1>1, <1>4, NodeSame DEF Core, Nodes
  <2>. QED
    BY <2>1 DEF Nodes
<1>8. \A i \in Server : LeaderOk(H, G, R, i)'
  BY <1>1, <1>5, LeaderStays DEF Core
<1>9. \A p \in elected' : p[1] <= currentTerm'[p[2]]
  <2>1. ASSUME NEW p \in elected PROVE p[1] <= currentTerm'[p[2]]
    <3>1. p[1] \in Nat /\ p[2] \in Server
      BY DEF IInv, NodeType, RestType
    <3>2. p[1] <= currentTerm[p[2]]
      BY DEF Core
    <3>. QED
      BY <3>1, <3>2, NodeFields, NodeFieldsNext
  <2>. QED
    BY <1>2, <2>1
<1>10. \A n \in DOMAIN decided' : DecidedOk(H, R, n)'
  <2>1. ASSUME NEW n \in DOMAIN decided PROVE DecidedOk(H, R, n)'
    BY <1>1, <1>2, <1>3, DecidedStays DEF Core
  <2>. QED
    BY <1>2, <2>1
<1>. QED
  BY <1>5, <1>6, <1>7, <1>8, <1>9, <1>10 DEF Core

-----------------------------------------------------------------------------
\* The steps that leave the logs, as the ghosts have them, alone.
NoneElected ==
    \A i \in Server : /\ role'[i] = "LEADER" =>
                           role[i] = "LEADER" /\ currentTerm'[i] = currentTerm[i]
                      /\ \A j \in Server : matchIndex'[i][j] \in {matchIndex[i][j], 0}

\* No call is answered.
NoAnswer == \A i, j \in Server : reply'[i][j] \in {reply[i][j], Nil}

\* A step that commits nothing, elects nobody, answers no call and leaves every whole log
\* as it is.
LEMMA QuietResult ==
    ASSUME IInv, IInv', NEW H, NEW G, NEW R, Ghosts(H, G, R), Core(H, G, R),
           TermsGrow, UNCHANGED history, NoneElected, NoAnswer,
           \A i \in Server : ViewOk(G, i)' /\ BoundOk(i)' /\ commitIndex'[i] <= commitIndex[i]
    PROVE  Result(H, G, R)
<1>1. Answers(H, G, R)
  BY DEF Answers, NoAnswer
<1>2. Move(H, G, R, H, G, R) /\ Core(H, G, R)'
  BY QuietCore DEF TermsGrow, NoneElected
<1>. QED
  BY <1>1, <1>2 DEF Result

\* In particular one that leaves the logs, and what is committed and applied, alone.
LEMMA QuietSame ==
    ASSUME IInv, IInv', NEW H, NEW G, NEW R, Ghosts(H, G, R), Core(H, G, R),
           TermsGrow, NoneElected, NoAnswer,
           UNCHANGED <<log, snap, commitIndex, machine, history>>
    PROVE  Result(H, G, R)
<1>1. ASSUME NEW i \in Server
      PROVE  ViewOk(G, i)' /\ BoundOk(i)' /\ commitIndex'[i] <= commitIndex[i]
  <2>1. ViewOk(G, i) /\ BoundOk(i) /\ commitIndex[i] \in Nat
    BY NodeFields DEF Core, Nodes
  <2>. QED
    BY <2>1 DEF machine, ViewOk, BoundOk, LastIndex
<1>. QED
  BY <1>1, QuietResult

\* Who leads after a step of node i.
LEMMA RolesKept ==
    ASSUME IInv, NEW i \in Server,
           \A c \in Server : c # i => role'[c] = role[c] /\ currentTerm'[c] = currentTerm[c],
           \/ role'[i] # "LEADER"
           \/ role'[i] = role[i] /\ currentTerm'[i] = currentTerm[i],
           \/ matchIndex' = matchIndex
           \/ matchIndex' = [matchIndex EXCEPT ![i] = [j \in Server |-> 0]]
    PROVE  NoneElected
<1>1. \A c, j \in Server : matchIndex'[c][j] \in {matchIndex[c][j], 0}
  <2>1. matchIndex \in [Server -> [Server -> Nat]]
    BY DEF IInv, NodeType, LogType
  <2>. QED
    BY <2>1
<1>. QED
  BY <1>1 DEF NoneElected

\* Steps that answer no call.
LEMMA Hushed ==
    ASSUME IInv, \/ UNCHANGED net
                 \/ reply' = reply
                 \/ \E i, j \in Server : HangUp(i, j)
    PROVE  NoAnswer
  BY DEF NoAnswer, net, HangUp, IInv, NetType

\* A campaign, as long as it does not win.
LEMMA StartQuiet ==
    ASSUME IInv, NEW i \in Server, StartElection(i), role'[i] # "LEADER"
    PROVE  NoneElected
<1>1. \A c \in Server : c # i => role'[c] = role[c] /\ currentTerm'[c] = currentTerm[c]
  BY StartRole
<1>2. \/ matchIndex' = matchIndex
      \/ matchIndex' = [matchIndex EXCEPT ![i] = [j \in Server |-> 0]]
  BY DEF StartElection, BecomeLeader, progress
<1>. QED
  BY <1>1, <1>2, RolesKept

\* The steps of one node.
LEMMA StepQuiet ==
    ASSUME IInv, IInv', NEW H, NEW G, NEW R, Ghosts(H, G, R), Core(H, G, R), TermsGrow,
           NEW i \in Server,
           \/ ContactExpires(i) \/ CheckQuorumFails(i) \/ SubmitFails(i)
           \/ DiskFills(i) \/ DiskDrains(i)
    PROVE  Result(H, G, R)
<1>1. CASE ContactExpires(i) \/ DiskFills(i) \/ DiskDrains(i)
  <2>1. /\ UNCHANGED <<durable, ballot, log, snap, commitIndex, machine, progress, net, history>>
    BY <1>1 DEF ContactExpires, DiskFills, DiskDrains
  <2>2. NoneElected /\ NoAnswer
    BY <2>1, RolesKept, Hushed DEF durable, ballot, progress
  <2>. QED
    BY <2>1, <2>2, QuietSame
<1>2. CASE CheckQuorumFails(i)
  <2>1. /\ UNCHANGED <<durable, log, snap, commitIndex, machine, progress, net, history>>
        /\ role' = [role EXCEPT ![i] = "FOLLOWER"]
    BY <1>2 DEF CheckQuorumFails
  <2>2. NoneElected /\ NoAnswer
    <3>1. \A c \in Server : /\ c # i => role'[c] = role[c]
                            /\ role'[i] = "FOLLOWER" /\ currentTerm'[c] = currentTerm[c]
      BY <2>1 DEF durable, IInv, NodeType, VoteType
    <3>. QED
      BY <2>1, <3>1, RolesKept, Hushed DEF progress
  <2>. QED
    BY <2>1, <2>2, QuietSame
<1>3. CASE SubmitFails(i)
  <2>1. /\ UNCHANGED <<log, snap, commitIndex, machine, progress, net, history>>
        /\ StepDown(i, currentTerm[i])
    BY <1>3 DEF SubmitFails
  <2>2. NoneElected /\ NoAnswer
    BY <2>1, StepDownRole, RolesKept, Hushed DEF progress
  <2>. QED
    BY <2>1, <2>2, QuietSame
<1>. QED
  BY <1>1, <1>2, <1>3

\* Applying an entry.
LEMMA ApplyQuiet ==
    ASSUME IInv, IInv', NEW H, NEW G, NEW R, Ghosts(H, G, R), Core(H, G, R), TermsGrow,
           NEW i \in Server, Apply(i)
    PROVE  Result(H, G, R)
<1>1. /\ UNCHANGED <<durable, ballot, log, snap, commitIndex, progress, net, history>>
      /\ snapping[i] = 0 /\ HasToApply(i)
  BY DEF Apply
<1>2. PICK n : /\ n = IF lastApplied[i] < snap[i].idx THEN snap[i].idx ELSE lastApplied[i] + 1
               /\ lastApplied' = [lastApplied EXCEPT ![i] = n]
               /\ \/ snapping' = [snapping EXCEPT ![i] = n]
                  \/ snapping' = snapping
  BY DEF Apply, IInv, NodeType, LogType
<1>3. NoneElected /\ NoAnswer
  BY <1>1, RolesKept, Hushed DEF durable, ballot, progress
<1>4. ASSUME NEW j \in Server
      PROVE  ViewOk(G, j)' /\ BoundOk(j)' /\ commitIndex'[j] <= commitIndex[j]
  <2>1. ViewOk(G, j) /\ BoundOk(j)
    BY DEF Core, Nodes
  <2>2. ViewOk(G, j)' /\ LastIndex(j)' = LastIndex(j)
    BY <1>1, <2>1 DEF ViewOk, LastIndex
  <2>3. /\ commitIndex[j] \in Nat /\ lastApplied[j] \in Nat /\ snapping[j] \in Nat
        /\ snap[j].idx \in Nat /\ LastIndex(j) \in Nat
    BY NodeFields
  <2>4. CASE j # i
    <3>1. lastApplied'[j] = lastApplied[j] /\ snapping'[j] = snapping[j]
      BY <1>2, <2>4 DEF IInv, NodeType, LogType
    <3>. QED
      BY <1>1, <2>1, <2>2, <2>3, <3>1 DEF BoundOk
  <2>5. CASE j = i
    <3>1. lastApplied'[i] = n /\ snapping'[i] \in {n, 0}
      BY <1>1, <1>2 DEF IInv, NodeType, LogType
    <3>2. n \in Nat /\ n <= commitIndex[i]
      BY <1>1, <1>2, <2>1, <2>3, <2>5 DEF BoundOk, HasToApply
    <3>. QED
      BY <1>1, <2>1, <2>2, <2>3, <2>5, <3>1, <3>2 DEF BoundOk
  <2>. QED
    BY <2>4, <2>5
<1>. QED
  BY <1>1, <1>3, <1>4, QuietResult

\* Compaction: the entries a snapshot replaces were applied, so they stay in the whole log.
LEMMA CompactQuiet ==
    ASSUME IInv, IInv', NEW H, NEW G, NEW R, Ghosts(H, G, R), Core(H, G, R), TermsGrow,
           NEW i \in Server, FinishSnapshot(i)
    PROVE  Result(H, G, R)
<1>1. /\ UNCHANGED <<durable, ballot, commitIndex, lastApplied, progress, net, history>>
      /\ snapping' = [snapping EXCEPT ![i] = 0]
  BY DEF FinishSnapshot
<1>2. NoneElected /\ NoAnswer
  BY <1>1, RolesKept, Hushed DEF durable, ballot, progress
<1>3. PICK n : n = snapping[i]
  OBVIOUS
<1>4. \/ UNCHANGED <<snap, log>>
      \/ /\ n > snap[i].idx /\ n <= LastIndex(i)
         /\ snap' = [snap EXCEPT ![i] = SnapshotOf(i, n)]
         /\ log' = [log EXCEPT ![i] = SubSeq(log[i], n - snap[i].idx + 1, Len(log[i]))]
  <2>1. \/ UNCHANGED <<snap, log>>
        \/ /\ ~(n <= snap[i].idx) /\ ~(n > LastIndex(i))
           /\ snap' = [snap EXCEPT ![i] = SnapshotOf(i, n)]
           /\ log' = [log EXCEPT ![i] = SubSeq(log[i], n - snap[i].idx + 1, Len(log[i]))]
    BY <1>3 DEF FinishSnapshot
  <2>. QED
    BY <1>3, <2>1, NodeFields
<1>5. ASSUME NEW j \in Server
      PROVE  ViewOk(G, j)' /\ BoundOk(j)' /\ commitIndex'[j] <= commitIndex[j]
  <2>1. ViewOk(G, j) /\ BoundOk(j)
    BY DEF Core, Nodes
  <2>2. /\ commitIndex[j] \in Nat /\ lastApplied[j] \in Nat /\ snapping[j] \in Nat
        /\ snap[j].idx \in Nat /\ LastIndex(j) \in Nat /\ log[j] \in Seq(LogEntry)
        /\ Len(log[j]) \in Nat /\ LastIndex(j) = snap[j].idx + Len(log[j])
    BY NodeFields
  <2>3. snapping'[j] \in {snapping[j], 0}
    BY <1>1 DEF IInv, NodeType, LogType
  <2>4. CASE snap'[j] = snap[j] /\ log'[j] = log[j]
    <3>1. ViewOk(G, j)' /\ LastIndex(j)' = LastIndex(j)
      BY <2>1, <2>4 DEF ViewOk, LastIndex
    <3>. QED
      BY <1>1, <2>1, <2>2, <2>3, <2>4, <3>1 DEF BoundOk
  <2>5. CASE /\ j = i /\ n > snap[i].idx /\ n <= LastIndex(i)
             /\ snap' = [snap EXCEPT ![i] = SnapshotOf(i, n)]
             /\ log' = [log EXCEPT ![i] = SubSeq(log[i], n - snap[i].idx + 1, Len(log[i]))]
    <3>1. PICK s \in Nat, len \in Nat, k \in Nat :
            /\ s = snap[i].idx /\ len = Len(log[i]) /\ n = s + k
            /\ n \in Nat /\ k \in 1..len
      <4>1. \A s, m, a \in Nat : a > s /\ a <= s + m => a - s \in 1..m /\ a = s + (a - s)
        OBVIOUS
      <4>2. n \in Nat /\ n > snap[i].idx /\ n <= snap[i].idx + Len(log[i])
        BY <1>3, <2>2, <2>5
      <4>3. n - snap[i].idx \in 1..Len(log[i]) /\ n = snap[i].idx + (n - snap[i].idx)
        BY <2>2, <2>5, <4>1, <4>2
      <4>4. n - snap[i].idx \in Nat
        BY <2>2, <2>5, <4>3
      <4>. QED
        BY <2>2, <2>5, <4>2, <4>3, <4>4
    <3>2. /\ snap'[i] = SnapshotOf(i, n)
          /\ log'[i] = SubSeq(log[i], k + 1, len)
      <4>1. n - snap[i].idx + 1 = k + 1
        BY <3>1
      <4>. QED
        BY <2>5, <3>1, <4>1 DEF IInv, NodeType, LogType
    <3>3. snap'[i].idx = n /\ snap'[i].term = TermAt(i, n)
      BY <3>2 DEF SnapshotOf
    <3>4. TermAt(i, n) = TermOf(G[i], n)
      BY <2>1, <2>2, <2>5, <3>1, ViewTerm
    <3>5. /\ Len(log'[i]) = len - k
          /\ \A m \in 1..(len - k) : log'[i][m] = log[i][k + m]
      <4>1. PICK a \in Nat : a = k + 1
        BY <3>1
      <4>2. \A m \in a..len : log[i][m] \in LogEntry
        <5>1. \A m \in a..len : m \in 1..Len(log[i])
          BY <3>1, <4>1
        <5>. QED
          BY <2>2, <2>5, <5>1
      <4>3. /\ Len(SubSeq(log[i], a, len)) = IF a <= len THEN len - a + 1 ELSE 0
            /\ \A m \in 1..(len - a + 1) : SubSeq(log[i], a, len)[m] = log[i][a + m - 1]
        BY <3>1, <4>1, <4>2, SubSeqProperties
      <4>4. log'[i] = SubSeq(log[i], a, len)
        BY <3>2, <4>1
      <4>5. Len(log'[i]) = len - k
        <5>1. (IF a <= len THEN len - a + 1 ELSE 0) = len - k
          BY <3>1, <4>1
        <5>. QED
          BY <4>3, <4>4, <5>1
      <4>6. ASSUME NEW m \in 1..(len - k) PROVE log'[i][m] = log[i][k + m]
        <5>1. m \in 1..(len - a + 1) /\ a + m - 1 = k + m
          BY <3>1, <4>1
        <5>2. log'[i][m] = log[i][a + m - 1]
          BY <4>3, <4>4, <5>1
        <5>. QED
          BY <5>1, <5>2
      <4>. QED
        BY <4>5, <4>6
    <3>7. LastIndex(i)' = LastIndex(i) /\ LastIndex(i) = s + len
      <4>1. LastIndex(i)' = n + (len - k)
        BY <3>3, <3>5 DEF LastIndex
      <4>2. n + (len - k) = s + len
        <5>1. \A x, y, z \in Int : (x + y) + (z - y) = x + z
          OBVIOUS
        <5>2. n = s + k /\ s \in Int /\ k \in Int /\ len \in Int
          BY <3>1
        <5>. QED
          BY <5>1, <5>2, Zenon
      <4>3. LastIndex(i) = s + len
        BY <3>1 DEF LastIndex
      <4>. QED
        BY <4>1, <4>2, <4>3
    <3>8. ASSUME NEW m \in 1..Len(log'[i]) PROVE log'[i][m] = G[i][n + m]
      <4>1. m \in 1..(len - k) /\ k + m \in 1..len /\ s + (k + m) = n + m
        BY SMTT(30), <3>1, <3>5
      <4>2. log[i][k + m] = G[i][s + (k + m)]
        BY <2>1, <2>5, <3>1, <4>1 DEF ViewOk
      <4>. QED
        BY <3>5, <4>1, <4>2
    <3>9. ViewOk(G, i)'
      BY <2>1, <2>5, <3>3, <3>4, <3>7, <3>8 DEF ViewOk
    <3>10. n <= lastApplied[i] /\ n <= commitIndex[i]
      <4>1. n <= lastApplied[i] /\ lastApplied[i] <= commitIndex[i]
        BY <1>3, <2>1, <2>5 DEF BoundOk
      <4>. QED
        BY SMTT(30), <2>2, <2>5, <3>1, <4>1
    <3>. QED
      BY <1>1, <2>1, <2>2, <2>3, <2>5, <3>1, <3>3, <3>7, <3>9, <3>10 DEF BoundOk
  <2>6. \/ snap'[j] = snap[j] /\ log'[j] = log[j]
        \/ j = i
    BY <1>4 DEF IInv, NodeType, LogType
  <2>. QED
    BY <1>4, <2>4, <2>5, <2>6
<1>. QED
  BY <1>1, <1>2, <1>5, QuietResult

\* A restart: the log and the snapshot are on the disk.
LEMMA RestartQuiet ==
    ASSUME IInv, IInv', NEW H, NEW G, NEW R, Ghosts(H, G, R), Core(H, G, R), TermsGrow,
           NEW i \in Server, Restart(i)
    PROVE  Result(H, G, R)
<1>1. /\ UNCHANGED <<log, snap, history>>
      /\ role' = [role EXCEPT ![i] = "FOLLOWER"]
      /\ currentTerm' = [currentTerm EXCEPT ![i] = disk[i].term]
      /\ matchIndex' = [matchIndex EXCEPT ![i] = [j \in Server |-> 0]]
      /\ snapping' = [snapping EXCEPT ![i] = 0]
      /\ reply' = [reply EXCEPT ![i] = [j \in Server |-> Nil]]
  BY DEF Restart
<1>2. PICK n \in 0..lastApplied[i] :
        /\ lastApplied' = [lastApplied EXCEPT ![i] = n]
        /\ commitIndex' = [commitIndex EXCEPT ![i] = Max({snap[i].idx, n})]
  BY DEF Restart
<1>3. NoneElected
  <2>1. \A c \in Server : c # i => role'[c] = role[c] /\ currentTerm'[c] = currentTerm[c]
    BY <1>1 DEF IInv, NodeType, VoteType
  <2>2. role'[i] = "FOLLOWER"
    BY <1>1 DEF IInv, NodeType, VoteType
  <2>. QED
    BY <1>1, <2>1, <2>2, RolesKept
<1>4. NoAnswer
  BY <1>1 DEF NoAnswer, IInv, NetType
<1>5. ASSUME NEW j \in Server
      PROVE  ViewOk(G, j)' /\ BoundOk(j)' /\ commitIndex'[j] <= commitIndex[j]
  <2>1. ViewOk(G, j) /\ BoundOk(j)
    BY DEF Core, Nodes
  <2>2. ViewOk(G, j)' /\ LastIndex(j)' = LastIndex(j)
    BY <1>1, <2>1 DEF ViewOk, LastIndex
  <2>3. /\ commitIndex[j] \in Nat /\ lastApplied[j] \in Nat /\ snapping[j] \in Nat
        /\ snap[j].idx \in Nat /\ LastIndex(j) \in Nat
    BY NodeFields
  <2>4. CASE j # i
    <3>1. /\ lastApplied'[j] = lastApplied[j] /\ snapping'[j] = snapping[j]
          /\ commitIndex'[j] = commitIndex[j]
      BY <1>1, <1>2, <2>4 DEF IInv, NodeType, LogType
    <3>. QED
      BY <1>1, <2>1, <2>2, <2>3, <3>1 DEF BoundOk
  <2>5. CASE j = i
    <3>1. lastApplied'[i] = n /\ snapping'[i] = 0 /\ commitIndex'[i] = Max({snap[i].idx, n})
      BY <1>1, <1>2 DEF IInv, NodeType, LogType
    <3>2. n \in Nat /\ n <= lastApplied[i]
      BY <2>3, <2>5
    <3>3. commitIndex'[i] = IF snap[i].idx >= n THEN snap[i].idx ELSE n
      <4>. DEFINE a == snap[i].idx
      <4>1. a \in Int /\ n \in Int
        BY <2>3, <2>5, <3>2
      <4>. HIDE DEF a
      <4>2. Max({a, n}) = IF a >= n THEN a ELSE n
        BY <4>1, MaxPair
      <4>. QED
        BY <3>1, <4>2 DEF a
    <3>. QED
      BY <1>1, <2>1, <2>2, <2>3, <2>5, <3>1, <3>2, <3>3 DEF BoundOk
  <2>. QED
    BY <2>4, <2>5
<1>. QED
  BY <1>1, <1>3, <1>4, <1>5, QuietResult

\* Snapshot s and log l are the two parts of x.
Parts(x, s, l) == /\ Len(x) = s.idx + Len(l)
                  /\ \A n \in 1..Len(l) : l[n] = x[s.idx + n]

\* What i and match know to be stored of trunk w.
Copies(H, R, i, w, match) ==
    /\ \A k \in 1..Len(H[w]) : Has(H[w], k, w) => <<i, k, w>> \in R
    /\ \A j \in Server, m \in Nat : m = match[j] /\ m > 0 =>
          \A k \in 1..m : Has(H[w], k, w) => <<j, k, w>> \in R

\* Sending a request.
LEMMA SendQuiet ==
    ASSUME IInv, IInv', NEW H, NEW G, NEW R, Ghosts(H, G, R), Core(H, G, R), TermsGrow,
           NEW i \in Server, NEW j \in Server,
           \/ SendPreVote(i, j) \/ SendVote(i, j) \/ SendAppend(i, j) \/ SendSnapshot(i, j)
    PROVE  Result(H, G, R)
<1>1. /\ UNCHANGED <<durable, role, log, snap, commitIndex, machine, progress, reply, history>>
  BY DEF SendPreVote, SendVote, SendAppend, SendSnapshot, Send
<1>2. NoneElected /\ NoAnswer
  BY <1>1, RolesKept, Hushed DEF durable, progress
<1>. QED
  BY <1>1, <1>2, QuietSame

\* Giving up a call, or an answer that makes the caller step down or try an earlier entry.
LEMMA AnswerQuiet ==
    ASSUME IInv, IInv', NEW H, NEW G, NEW R, Ghosts(H, G, R), Core(H, G, R), TermsGrow,
           NEW i \in Server, NEW j \in Server,
           AbandonCall(i, j) \/ ReceiveHigherTerm(i, j) \/ ReceiveAppendConflict(i, j)
    PROVE  Result(H, G, R)
<1>1. /\ UNCHANGED <<log, snap, commitIndex, machine, matchIndex, history>>
      /\ HangUp(i, j)
  BY DEF AbandonCall, ReceiveHigherTerm, ReceiveAppendConflict, progress
<1>2. NoneElected
  <2>1. CASE AbandonCall(i, j) \/ ReceiveAppendConflict(i, j)
    <3>1. UNCHANGED <<durable, ballot>>
      BY <2>1 DEF AbandonCall, ReceiveAppendConflict
    <3>. QED
      BY <1>1, <3>1, RolesKept DEF durable, ballot
  <2>2. CASE ReceiveHigherTerm(i, j)
    <3>1. StepDown(i, reply[i][j].term)
      BY <2>2 DEF ReceiveHigherTerm
    <3>. QED
      BY <1>1, <3>1, StepDownRole, RolesKept
  <2>. QED
    BY <2>1, <2>2
<1>. QED
  BY <1>1, <1>2, Hushed, QuietSame

\* Removing a learner.
LEMMA LearnerQuiet ==
    ASSUME IInv, IInv', NEW H, NEW G, NEW R, Ghosts(H, G, R), Core(H, G, R), TermsGrow,
           NEW i \in Server, NEW j \in Server, RemoveLearner(i, j)
    PROVE  Result(H, G, R)
<1>1. /\ UNCHANGED <<durable, ballot, log, snap, commitIndex, machine, progress, net, history>>
  BY DEF RemoveLearner
<1>2. NoneElected /\ NoAnswer
  BY <1>1, RolesKept, Hushed DEF durable, ballot, progress
<1>. QED
  BY <1>1, <1>2, QuietSame

\* A campaign that elects nobody: a probe, a timer that finds no room, a lost vote.
LEMMA CampaignQuiet ==
    ASSUME IInv, IInv', NEW H, NEW G, NEW R, Ghosts(H, G, R), Core(H, G, R), TermsGrow,
           NEW i \in Server,
           UNCHANGED <<log, snap, commitIndex, machine, history>>, NoAnswer,
           \/ UNCHANGED <<durable, role, progress>>
           \/ StartElection(i) /\ role'[i] # "LEADER"
           \/ UNCHANGED durable /\ BecomeLeader(i, currentTerm[i]) /\ role'[i] # "LEADER"
    PROVE  Result(H, G, R)
<1>1. CASE UNCHANGED <<durable, role, progress>>
  BY <1>1, RolesKept, QuietSame DEF durable, progress
<1>2. CASE StartElection(i) /\ role'[i] # "LEADER"
  BY <1>2, StartQuiet, QuietSame
<1>3. CASE UNCHANGED durable /\ BecomeLeader(i, currentTerm[i]) /\ role'[i] # "LEADER"
  <2>1. \A c \in Server : c # i => role'[c] = role[c] /\ currentTerm'[c] = currentTerm[c]
    BY <1>3, ElectRole, NodeFields DEF durable
  <2>2. matchIndex' = [matchIndex EXCEPT ![i] = [j \in Server |-> 0]]
    BY <1>3 DEF BecomeLeader
  <2>. QED
    BY <1>3, <2>1, <2>2, RolesKept, QuietSame
<1>. QED
  BY <1>1, <1>2, <1>3

-----------------------------------------------------------------------------
\* What a leader commits.
LEMMA StaticMajority ==
    ASSUME NEW s, NEW l \in Seq(LogEntry), NoConfig(l), s.cfg \in {InitConfig, {}},
           NEW S, Quorum(ConfigOf(s, l), S)
    PROVE  Quorum(InitConfig, S)
<1>1. ConfigOf(s, l) \in {InitConfig, {}}
  BY StaticConfigOf
<1>2. ~Quorum({}, S)
  <2>1. {m \in {} : m[1] \in S} = {}
    OBVIOUS
  <2>2. Cardinality({}) = 0
    BY FS_EmptySet
  <2>. QED
    BY <2>1, <2>2 DEF Quorum
<1>. QED
  BY <1>1, <1>2

\* What a node knows to be committed a later leader knows as well.
LEMMA SafeVia ==
    ASSUME NEW H, Trunks(H), NEW R, Trees(H, R), NEW x \in Seq(LogEntry), NEW l \in Seq(LogEntry),
           NEW n \in Nat, NEW c \in Nat, c <= n, NEW u \in Nat, NEW w \in Nat, u <= w,
           SafeTo(H, R, x, n, u), Elected(w), Agree(l, H[w], c)
    PROVE  SafeTo(H, R, l, c, w)
<1>1. CASE n = 0
  BY <1>1 DEF SafeTo
<1>2. CASE n # 0
  <2>1. PICK k \in Nat, t \in Nat :
          k >= n /\ t <= u /\ Mark(H, R, k, t) /\ Agree(x, H[t], n)
    BY <1>2 DEF SafeTo
  <2>2. k >= c /\ t <= w
    <3>1. k >= n /\ t <= u
      BY <2>1
    <3>. QED
      BY <3>1
  <2>3. Agree(H[w], H[t], k)
    BY <2>1, <2>2, LeadersHoldMarked DEF Trees
  <2>4. Agree(H[w], H[t], c)
    BY <2>2, <2>3, AgreeLess, TrunkType
  <2>5. Agree(l, H[t], c)
    BY <2>4, AgreeTrans
  <2>. QED
    BY <2>1, <2>2, <2>5 DEF SafeTo
<1>. QED
  BY <1>1, <1>2

\* Leader completeness in the state after a step.
LEMMA LeadersHoldMarkedNext ==
    ASSUME NEW H, Trunks(H), NEW R, Trees(H, R)',
           NEW k \in Nat, NEW t \in Nat, Mark(H, R, k, t), NEW w \in Nat, Elected(w)', t <= w
    PROVE  Has(H[w], k, t) /\ Agree(H[w], H[t], k)
<1>1. Has(H[t], k, t) /\ TrunkOk(H, w)' /\ BranchOk(H, R, w)'
  BY DEF Mark, Trees
<1>2. ~Blocked(R, k, t)'
  <2>1. SUFFICES ASSUME NEW Q \in SUBSET Server, Quorum(InitConfig, Q),
                        \A v \in Q : <<v, k, t>> \notin R
                 PROVE  FALSE
    BY DEF Blocked
  <2>2. PICK A \in SUBSET Server : Quorum(InitConfig, A) /\ \A v \in A : <<v, k, t>> \in R
    BY DEF Mark
  <2>3. PICK v \in Q : v \in A
    BY <2>1, <2>2, QuorumsIntersect
  <2>. QED
    BY <2>1, <2>2, <2>3
<1>3. Has(H[w], k, t)
  <2>1. CASE t = w
    BY <1>1, <2>1
  <2>2. CASE t < w
    BY <1>1, <1>2, <2>2 DEF BranchOk
  <2>. QED
    BY <2>1, <2>2
<1>4. Valid(H, H[w])
  BY <1>1 DEF TrunkOk
<1>. QED
  BY <1>3, <1>4, HasAgrees

\* The new commit index of a leader of term w, if it moves.
LEMMA AdvanceMarks ==
    ASSUME IInv, NEW H, Trunks(H), NEW R, NEW i \in Server, NEW w \in Nat,
           NEW l \in Seq(LogEntry), NEW match \in [Server -> Nat], NoConfig(l),
           snap[i].cfg \in {InitConfig, {}}, snap[i].idx <= commitIndex[i],
           Parts(H[w], snap[i], l), Copies(H, R, i, w, match),
           NEW c \in Committable(i, w, l, match)
    PROVE  Mark(H, R, c, w) /\ c \in Nat /\ c > commitIndex[i] /\ c <= Len(H[w])
<1>. DEFINE Q == {i} \cup {j \in Server : match[j] >= c}
<1>1. PICK s \in Nat, d \in Nat, len \in Nat :
        s = snap[i].idx /\ d = commitIndex[i] /\ len = Len(l) /\ s <= d
  BY NodeFields
<1>2. /\ c \in (d + 1)..(s + len)
      /\ \A m \in c..(s + len) : TermIn(snap[i], l, m) = w
      /\ Quorum(ConfigOf(snap[i], l), Q)
  BY <1>1 DEF Committable
<1>3. c \in Nat /\ c > d /\ c <= s + len /\ c \in c..(s + len) /\ c - s \in 1..len /\ c > s
      /\ s + (c - s) = c
  <2>1. c \in (d + 1)..(s + len) /\ s <= d
    BY <1>1, <1>2
  <2>. QED
    BY <2>1
<1>4. TermIn(snap[i], l, c) = l[c - s].term
  BY <1>1, <1>3 DEF TermIn
<1>5. H[w][c].term = w /\ c <= Len(H[w]) /\ c >= 1
  <2>1. l[c - s] = H[w][s + (c - s)]
    BY <1>1, <1>3 DEF Parts
  <2>2. l[c - s].term = w
    BY <1>2, <1>3, <1>4
  <2>3. s + len = Len(H[w])
    BY <1>1 DEF Parts
  <2>. QED
    BY <1>3, <2>1, <2>2, <2>3
<1>6. Has(H[w], c, w)
  <2>1. Len(H[w]) \in Nat
    BY TrunkType
  <2>. QED
    BY <1>3, <1>5, <2>1 DEF Has
<1>7. Quorum(InitConfig, Q)
  BY <1>2, StaticMajority
<1>8. ASSUME NEW v \in Q PROVE v \in Server /\ <<v, c, w>> \in R
  <2>1. CASE v = i
    BY <1>6, <2>1 DEF Has, Copies
  <2>2. CASE v \in Server /\ match[v] >= c
    <3>1. PICK m \in Nat : m = match[v]
      BY <2>2
    <3>2. m > 0 /\ c \in 1..m
      BY <1>3, <2>2, <3>1
    <3>. QED
      BY <1>6, <2>2, <3>1, <3>2 DEF Copies
  <2>. QED
    BY <2>1, <2>2
<1>9. Q \in SUBSET Server
  BY <1>8
<1>10. Mark(H, R, c, w)
  BY <1>6, <1>7, <1>8, <1>9 DEF Mark
<1>. QED
  BY <1>1, <1>3, <1>5, <1>10

\* The elements of a concatenation.
LEMMA ConcatParts ==
    ASSUME NEW S, NEW s \in Seq(S), NEW t \in Seq(S)
    PROVE  /\ DOMAIN (s \o t) = 1..(Len(s) + Len(t))
           /\ \A n \in 1..Len(s) : (s \o t)[n] = s[n]
           /\ \A n \in 1..Len(t) : (s \o t)[Len(s) + n] = t[n]
<1>1. /\ s \o t \in Seq(S) /\ Len(s \o t) = Len(s) + Len(t)
      /\ \A n \in 1..(Len(s) + Len(t)) :
           (s \o t)[n] = IF n <= Len(s) THEN s[n] ELSE t[n - Len(s)]
  BY ConcatProperties
<1>2. PICK a \in Nat, b \in Nat : a = Len(s) /\ b = Len(t)
  OBVIOUS
<1>8. PICK u : u = s \o t
  OBVIOUS
<1>3. /\ DOMAIN u = 1..(a + b)
      /\ \A n \in 1..(a + b) : u[n] = IF n <= a THEN s[n] ELSE t[n - a]
  BY <1>1, <1>2, <1>8
<1>4. \A n \in 1..a : n \in 1..(a + b) /\ n <= a
  OBVIOUS
<1>5. \A n \in 1..b : a + n \in 1..(a + b) /\ ~(a + n <= a) /\ (a + n) - a = n
  OBVIOUS
<1>6. \A n \in 1..a : u[n] = s[n]
  BY <1>3, <1>4
<1>7. \A n \in 1..b : u[a + n] = t[n]
  BY <1>3, <1>5
<1>. QED
  BY <1>2, <1>3, <1>6, <1>7, <1>8

\* A function on 1..n as a sequence.
LEMMA FunctionSeq ==
    ASSUME NEW S, NEW n \in Nat, NEW f \in [1..n -> S]
    PROVE  f \in Seq(S) /\ Len(f) = n
  OBVIOUS

\* The committed sequence after new entries were committed.
LEMMA DecidedGrows ==
    ASSUME IInv, NEW old \in Nat, old = Len(decided), NEW more \in Nat,
           NEW tail \in [1..more -> [entry: LogEntry, at: Nat]], decided' = decided \o tail
    PROVE  /\ DOMAIN decided' = 1..(old + more)
           /\ \A n \in 1..old : decided'[n] = decided[n]
           /\ \A n \in 1..more : decided'[old + n] = tail[n]
<1>1. PICK S : S = [entry: LogEntry, at: Nat]
  OBVIOUS
<1>2. PICK D, u : D = decided /\ u = decided'
  OBVIOUS
<1>3. D \in Seq(S) /\ Len(D) = old
  BY <1>1, <1>2 DEF IInv, NodeType, LogType
<1>4. tail \in [1..more -> S]
  BY <1>1
<1>5. tail \in Seq(S) /\ Len(tail) = more
  BY <1>4, FunctionSeq
<1>6. u = D \o tail
  BY <1>2
<1>7. /\ DOMAIN (D \o tail) = 1..(Len(D) + Len(tail))
      /\ \A n \in 1..Len(D) : (D \o tail)[n] = D[n]
      /\ \A n \in 1..Len(tail) : (D \o tail)[Len(D) + n] = tail[n]
  <2>1. D \in Seq(S) /\ tail \in Seq(S)
    BY <1>3, <1>5
  <2>. QED
    BY <2>1, ConcatParts
<1>8. /\ DOMAIN u = 1..(old + more)
      /\ \A n \in 1..old : u[n] = D[n]
      /\ \A n \in 1..more : u[old + n] = tail[n]
  BY <1>3, <1>5, <1>6, <1>7
<1>. QED
  BY <1>2, <1>8

\* Where the new committed entries are in a log that has a snapshot.
LEMMA TailPlace ==
    ASSUME NEW a \in Nat, NEW b \in Nat, NEW d \in Nat, NEW e \in Nat, NEW f \in Nat,
           \/ b <= a /\ f = 0
           \/ b > a /\ a + f = b,
           b <= e + d, e <= a, NEW n \in 1..f
    PROVE  a + n - e \in 1..d /\ e + (a + n - e) = a + n
  OBVIOUS

\* The leader whose log the committed sequence up to n is.
LEMMA SafeDecided ==
    ASSUME IInv, NEW H, Trunks(H), NEW R, NEW n \in DOMAIN decided, DecidedOk(H, R, n)
    PROVE  \E k, t \in Nat : /\ n \in Nat /\ n >= 1 /\ k >= n /\ Mark(H, R, k, t)
                             /\ t = decided[n].at
                             /\ \A m \in 1..n : decided[m].entry = H[t][m]
<1>1. decided \in Seq([entry: LogEntry, at: Nat])
  BY DEF IInv, NodeType, LogType
<1>2. decided[n] \in [entry: LogEntry, at: Nat] /\ n \in Nat /\ n >= 1
  BY <1>1, SeqElement
<1>3. PICK t \in Nat : t = decided[n].at
  BY <1>2
<1>. QED
  BY <1>2, <1>3 DEF DecidedOk

\* Two marks are on one line.
LEMMA MarksAgree ==
    ASSUME NEW H, Trunks(H), NEW R, Trees(H, R)', NEW k \in Nat, NEW t \in Nat, Mark(H, R, k, t),
           NEW c \in Nat, NEW w \in Nat, Mark(H, R, c, w), NEW d \in Nat, d <= k, d <= c
    PROVE  Agree(H[w], H[t], d)
<1>1. Elected(t)' /\ Elected(w)'
  <2>1. H[t] # << >> /\ H[w] # << >>
    BY DEF Mark, Has
  <2>. QED
    BY <2>1 DEF Trees, TrunkOk
<1>2. CASE t <= w
  <2>1. Agree(H[w], H[t], k)
    BY <1>1, <1>2, LeadersHoldMarkedNext
  <2>. QED
    BY <2>1, AgreeLess, TrunkType
<1>3. CASE w <= t
  <2>1. Agree(H[t], H[w], c)
    BY <1>1, <1>3, LeadersHoldMarkedNext
  <2>2. Agree(H[t], H[w], d)
    BY <2>1, AgreeLess, TrunkType
  <2>. QED
    BY <2>2, AgreeSym
<1>. QED
  BY <1>2, <1>3

\* What _advance_commit of leader i of term w makes of the commit index and of
\* the committed sequence.
LEMMA AdvanceSafe ==
    ASSUME IInv, NEW H, Trunks(H), NEW R, Trees(H, R)', NEW i \in Server, NEW w \in Nat,
           NEW l \in Seq(LogEntry), NEW match \in [Server -> Nat], AdvanceCommit(i, w, l, match),
           NoConfig(l), snap[i].cfg \in {InitConfig, {}}, snap[i].idx <= commitIndex[i],
           commitIndex[i] <= Len(H[w]), Parts(H[w], snap[i], l), Copies(H, R, i, w, match),
           \A n \in DOMAIN decided : DecidedOk(H, R, n),
           SafeTo(H, R, H[w], commitIndex[i], w)
    PROVE  /\ SafeTo(H, R, H[w], commitIndex'[i], w)
           /\ commitIndex'[i] >= commitIndex[i] /\ commitIndex'[i] <= Len(H[w])
           /\ \A n \in DOMAIN decided' : DecidedOk(H, R, n)'
<1>1. PICK s \in Nat, d \in Nat, len \in Nat, old \in Nat :
        /\ s = snap[i].idx /\ d = commitIndex[i] /\ len = Len(l) /\ old = Len(decided)
        /\ s <= d /\ s + len = Len(H[w]) /\ d <= s + len /\ s <= old /\ d <= old
  <2>1. decided \in Seq([entry: LogEntry, at: Nat])
    BY DEF IInv, NodeType, LogType
  <2>2. Len(decided) \in Nat
    BY <2>1
  <2>3. snap[i].idx <= Len(decided) /\ commitIndex[i] <= Len(decided)
    BY DEF IInv, NodeBound, Decided
  <2>4. snap[i].idx + Len(l) = Len(H[w])
    BY DEF Parts
  <2>. QED
    BY <2>2, <2>3, <2>4, NodeFields
<1>2. PICK new : new = Committable(i, w, l, match)
  OBVIOUS
<1>3. PICK c : /\ c = IF new = {} THEN d ELSE Max(new)
               /\ commitIndex' = [commitIndex EXCEPT ![i] = c]
               /\ decided' = decided \o [n \in 1..Max({0, c - old}) |->
                     [entry |-> l[old + n - s], at |-> w]]
  BY <1>1, <1>2 DEF AdvanceCommit
<1>4. commitIndex'[i] = c
  BY <1>3 DEF IInv, NodeType, LogType
<1>5. c = d \/ (c \in Nat /\ c > d /\ c <= s + len /\ Mark(H, R, c, w))
  <2>1. CASE new = {}
    BY <1>3, <2>1
  <2>2. CASE new # {}
    <3>1. new \subseteq 0..(s + len)
      BY <1>1, <1>2 DEF Committable
    <3>2. Max(new) \in new
      <4>1. PICK b \in Nat : b = s + len
        BY <1>1
      <4>2. new \in SUBSET (0..b)
        BY <3>1, <4>1
      <4>. QED
        BY <2>2, <4>1, <4>2, MaxExists
    <3>3. c \in Committable(i, w, l, match)
      BY <1>2, <1>3, <2>2, <3>2
    <3>4. Mark(H, R, c, w) /\ c \in Nat /\ c > commitIndex[i] /\ c <= Len(H[w])
      BY <3>3, AdvanceMarks
    <3>. QED
      BY <1>1, <3>4
  <2>. QED
    BY <2>1, <2>2
<1>6. c \in Nat /\ c >= d /\ c <= s + len
  BY <1>1, <1>5
<1>7. SafeTo(H, R, H[w], c, w)
  <2>1. CASE c = d
    BY <1>1, <2>1
  <2>2. CASE Mark(H, R, c, w)
    <3>1. Agree(H[w], H[w], c)
      BY <1>1, <1>6, TrunkType, AgreeSelf
    <3>. QED
      BY <1>6, <2>2, <3>1 DEF SafeTo
  <2>. QED
    BY <1>5, <2>1, <2>2
<1>20. PICK more \in Nat : /\ more = Max({0, c - old})
                           /\ ((c <= old /\ more = 0) \/ (c > old /\ old + more = c))
  <2>1. Max({0, c - old}) = IF 0 >= c - old THEN 0 ELSE c - old
    BY <1>1, <1>6, MaxPair
  <2>2. CASE c <= old
    <3>1. Max({0, c - old}) = 0
      BY <1>1, <1>6, <2>1, <2>2
    <3>. QED
      BY <2>2, <3>1
  <2>3. CASE c > old
    <3>1. c - old \in Nat /\ ~(0 >= c - old) /\ old + (c - old) = c
      BY <1>1, <1>6, <2>3
    <3>2. Max({0, c - old}) = c - old
      BY <2>1, <3>1
    <3>. QED
      BY <2>3, <3>1, <3>2
  <2>4. c <= old \/ c > old
    BY <1>1, <1>6
  <2>. QED
    BY <2>2, <2>3, <2>4
<1>8. more \in Nat /\ ((c <= old /\ more = 0) \/ (c > old /\ old + more = c))
  BY <1>20
<1>9. \A n \in 1..more : old + n - s \in 1..len /\ s + (old + n - s) = old + n
  <2>1. /\ old \in Nat /\ c \in Nat /\ len \in Nat /\ s \in Nat /\ more \in Nat
        /\ c <= s + len /\ s <= old
    BY <1>1, <1>6, <1>8
  <2>. QED
    BY <1>8, <2>1, TailPlace
<1>10. /\ DOMAIN decided' = 1..(old + more)
       /\ \A n \in 1..old : decided'[n] = decided[n]
       /\ \A n \in 1..more : decided'[old + n].entry = l[old + n - s] /\ decided'[old + n].at = w
  <2>1. PICK tail : tail = [n \in 1..more |-> [entry |-> l[old + n - s], at |-> w]]
    OBVIOUS
  <2>2. decided' = decided \o tail
    BY <1>3, <1>20, <2>1
  <2>5. ASSUME NEW n \in 1..more
        PROVE  /\ tail[n] \in [entry: LogEntry, at: Nat]
               /\ tail[n].entry = l[old + n - s] /\ tail[n].at = w
    <3>1. l[old + n - s] \in LogEntry
      <4>1. old + n - s \in 1..len
        BY <1>9, <2>5
      <4>. QED
        BY <1>1, <4>1
    <3>2. tail[n] = [entry |-> l[old + n - s], at |-> w]
      BY <2>1
    <3>. QED
      BY <3>1, <3>2
  <2>6. tail \in [1..more -> [entry: LogEntry, at: Nat]]
    <3>1. DOMAIN tail = 1..more /\ tail = [n \in 1..more |-> tail[n]]
      BY <2>1
    <3>. QED
      BY <2>5, <3>1
  <2>7. /\ DOMAIN decided' = 1..(old + more)
        /\ \A n \in 1..old : decided'[n] = decided[n]
        /\ \A n \in 1..more : decided'[old + n] = tail[n]
    BY ZenonT(60), <1>1, <1>8, <2>2, <2>6, DecidedGrows
  <2>. QED
    BY <2>5, <2>7
<1>11. ASSUME NEW n \in DOMAIN decided', n <= old
       PROVE  DecidedOk(H, R, n)'
  <2>1. n \in 1..old
    BY <1>1, <1>8, <1>10, <1>11
  <2>2. n \in DOMAIN decided /\ \A m \in 1..n : m \in 1..old
    <3>1. decided \in Seq([entry: LogEntry, at: Nat])
      BY DEF IInv, NodeType, LogType
    <3>. QED
      BY <1>1, <2>1, <3>1
  <2>3. Ext(H, H) /\ \A m \in 1..n : decided'[m] = decided[m]
    BY <1>10, <2>2, TrunkType, AgreeSelf DEF Ext
  <2>. QED
    BY <2>2, <2>3, DecidedStays
<1>12. ASSUME NEW n \in DOMAIN decided', n > old
       PROVE  DecidedOk(H, R, n)'
  <2>1. PICK x \in 1..more : n = old + x
    <3>1. n \in 1..(old + more)
      BY <1>10, <1>12
    <3>2. n - old \in 1..more /\ n = old + (n - old)
      BY SMTT(30), <1>1, <1>8, <1>12, <3>1
    <3>. QED
      BY <3>2
  <2>2. n \in Nat /\ n <= c /\ c > old /\ old <= c
    BY <1>1, <1>6, <1>8, <2>1
  <2>3. Mark(H, R, c, w)
    BY <1>1, <1>5, <2>2
  <2>4. decided'[n].at = w
    BY <1>10, <2>1
  <2>5. ASSUME NEW y \in 1..more PROVE decided'[old + y].entry = H[w][old + y]
    <3>1. old + y - s \in 1..len /\ s + (old + y - s) = old + y
      BY <1>1, <1>9, <2>5
    <3>2. l[old + y - s] = H[w][s + (old + y - s)]
      BY <1>1, <3>1 DEF Parts
    <3>. QED
      BY <1>10, <2>5, <3>1, <3>2
  <2>6. ASSUME NEW m \in 1..old PROVE decided'[m].entry = H[w][m]
    <3>1. old \in DOMAIN decided
      <4>1. decided \in Seq([entry: LogEntry, at: Nat])
        BY DEF IInv, NodeType, LogType
      <4>. QED
        BY <1>1, <2>6, <4>1
    <3>2. PICK k \in Nat, t \in Nat : /\ k >= old /\ Mark(H, R, k, t)
                                      /\ \A p \in 1..old : decided[p].entry = H[t][p]
      BY <3>1, SafeDecided
    <3>3. Agree(H[w], H[t], old)
      BY <1>1, <1>6, <2>2, <2>3, <3>2, MarksAgree
    <3>. QED
      BY <1>10, <2>6, <3>2, <3>3 DEF Agree
  <2>7. ASSUME NEW m \in 1..n PROVE decided'[m].entry = H[w][m]
    <3>1. CASE m <= old
      <4>1. m \in 1..old
        BY <1>1, <2>7, <3>1
      <4>. QED
        BY <2>6, <4>1
    <3>2. CASE m > old
      <4>1. m - old \in 1..more /\ m = old + (m - old)
        BY <1>1, <1>8, <2>1, <2>7, <3>2
      <4>. QED
        BY <2>5, <4>1
    <3>. QED
      BY <1>1, <2>7, <3>1, <3>2
  <2>. QED
    BY <1>6, <2>2, <2>3, <2>4, <2>7 DEF DecidedOk
<1>13. \A n \in DOMAIN decided' : DecidedOk(H, R, n)'
  <2>1. \A n \in DOMAIN decided' : n <= old \/ n > old
    BY <1>1, <1>8, <1>10
  <2>. QED
    BY <1>11, <1>12, <2>1
<1>. QED
  BY <1>1, <1>4, <1>6, <1>7, <1>13

\* What Core says of a leader of term w.
Leading(H, G, R, i, w) ==
    /\ <<w, i>> \in elected /\ Elected(w) /\ G[i] = H[w]
    /\ ViewOk(G, i) /\ BoundOk(i) /\ NodeOk(H, G, R, i)
    /\ Parts(H[w], snap[i], log[i]) /\ commitIndex[i] <= Len(H[w])
    /\ Copies(H, R, i, w, matchIndex[i])
    /\ \A j \in Server, m \in Nat :
         m = matchIndex[i][j] /\ m > 0 => Acked(H, G, R, j, m, w)
    /\ SafeTo(H, R, H[w], commitIndex[i], w)

\* What the invariant says of a leader.
LEMMA LeaderView ==
    ASSUME IInv, NEW H, Trunks(H), NEW G, Branches(G), NEW R, Core(H, G, R),
           NEW i \in Server, role[i] = "LEADER", NEW w \in Nat, w = currentTerm[i]
    PROVE  Leading(H, G, R, i, w)
<1>1. LeaderOk(H, G, R, i) /\ ViewOk(G, i) /\ BoundOk(i) /\ NodeOk(H, G, R, i)
  BY DEF Core, Nodes
<1>2. /\ <<w, i>> \in elected /\ G[i] = H[w]
      /\ \A j \in Server, m \in Nat :
           m = matchIndex[i][j] /\ m > 0 => Acked(H, G, R, j, m, w)
  BY <1>1 DEF LeaderOk
<1>3. Elected(w)
  BY <1>2 DEF Elected
<1>4. /\ LastIndex(i) = snap[i].idx + Len(log[i]) /\ Len(H[w]) = LastIndex(i)
      /\ \A n \in 1..Len(log[i]) : log[i][n] = H[w][snap[i].idx + n]
  BY <1>1, <1>2, NodeFields DEF ViewOk
<1>5. commitIndex[i] <= Len(H[w]) /\ Parts(H[w], snap[i], log[i])
  BY <1>1, <1>4 DEF BoundOk, Parts
<1>6. Copies(H, R, i, w, matchIndex[i])
  <2>1. \A k \in 1..Len(H[w]) : Has(H[w], k, w) => <<i, k, w>> \in R
    BY <1>1, <1>2 DEF NodeOk, Has
  <2>. QED
    BY <1>2, <2>1 DEF Copies, Acked
<1>7. SafeTo(H, R, H[w], commitIndex[i], w)
  BY <1>1, <1>2 DEF NodeOk
<1>. QED
  BY <1>1, <1>2, <1>3, <1>5, <1>6, <1>7 DEF Leading

\* The term of a leader bounds that of no later state.
LEMMA ElectedBound ==
    ASSUME IInv, IInv', TermsGrow, \A p \in elected : p[1] <= currentTerm[p[2]],
           NEW p \in elected
    PROVE  p[1] <= currentTerm'[p[2]]
<1>1. p[1] \in Nat /\ p[2] \in Server
  BY DEF IInv, NodeType, RestType
<1>2. currentTerm[p[2]] \in Nat /\ currentTerm'[p[2]] \in Nat
  BY <1>1, NodeFields, NodeFieldsNext
<1>. QED
  BY <1>1, <1>2 DEF TermsGrow

\* A leader learns that j holds everything up to m, which j acknowledged.
LEMMA AcknowledgeMoves ==
    ASSUME IInv, IInv', StaticNode, NEW H, NEW G, NEW R, Ghosts(H, G, R), Core(H, G, R),
           NEW i \in Server, NEW j \in Server, NEW m \in Nat, Acknowledge(i, j, m),
           HangUp(i, j), UNCHANGED <<durable, snap, machine>>,
           role[i] = "LEADER", NEW w \in Nat, w = currentTerm[i], Acked(H, G, R, j, m, w)
    PROVE  Result(H, G, R)
<1>1. Trunks(H) /\ Branches(G)
  BY DEF Ghosts
<1>2. Leading(H, G, R, i, w)
  BY <1>1, LeaderView
<1>3. /\ currentTerm' = currentTerm /\ elected' = elected /\ log' = log /\ snap' = snap
      /\ UNCHANGED machine
  BY DEF durable, Acknowledge
<1>4. PICK match : /\ match = [matchIndex[i] EXCEPT ![j] = Max({matchIndex[i][j], m})]
                   /\ matchIndex' = [matchIndex EXCEPT ![i] = match]
                   /\ AdvanceCommit(i, w, log[i], match)
  BY DEF Acknowledge
<1>5. matchIndex \in [Server -> [Server -> Nat]]
  BY DEF IInv, NodeType, LogType
<1>6. /\ match \in [Server -> Nat] /\ matchIndex'[i] = match
      /\ \A v \in Server : match[v] = matchIndex[i][v] \/ (v = j /\ match[v] = m)
      /\ \A c \in Server : c # i => matchIndex'[c] = matchIndex[c]
  <2>1. Max({matchIndex[i][j], m}) \in {matchIndex[i][j], m}
    <3>1. matchIndex[i][j] \in Int /\ m \in Int
      BY <1>5
    <3>2. Max({matchIndex[i][j], m}) = IF matchIndex[i][j] >= m THEN matchIndex[i][j] ELSE m
      BY <3>1, MaxPair
    <3>. QED
      BY <3>2
  <2>. QED
    BY <1>4, <1>5, <2>1
<1>7. \A v \in Server, n \in Nat : n = match[v] /\ n > 0 => Acked(H, G, R, v, n, w)
  BY <1>2, <1>6 DEF Leading
<1>8. Ext(H, H)
  BY <1>1, TrunkType, AgreeSelf DEF Ext
<1>9. Grows(H, R, H, R)
  <2>1. \A v \in Server : currentTerm'[v] >= currentTerm[v]
    BY <1>3, NodeFields
  <2>. QED
    BY <1>3, <1>8, <2>1 DEF Grows
<1>10. Move(H, G, R, H, G, R)
  BY <1>9 DEF Move
<1>11. Trees(H, R)'
  BY <1>1, <1>3, <1>9, TreesSame DEF Core
<1>12. /\ SafeTo(H, R, H[w], commitIndex'[i], w)
       /\ commitIndex'[i] >= commitIndex[i] /\ commitIndex'[i] <= Len(H[w])
       /\ \A n \in DOMAIN decided' : DecidedOk(H, R, n)'
  <2>1. log[i] \in Seq(LogEntry) /\ NoConfig(log[i]) /\ snap[i].cfg \in {InitConfig, {}}
    BY NodeFields DEF StaticNode
  <2>2. /\ snap[i].idx <= commitIndex[i] /\ commitIndex[i] <= Len(H[w])
        /\ Parts(H[w], snap[i], log[i]) /\ SafeTo(H, R, H[w], commitIndex[i], w)
    BY <1>2 DEF BoundOk, Leading
  <2>3. Copies(H, R, i, w, match)
    BY <1>2, <1>7 DEF Acked, Copies, Leading
  <2>4. \A n \in DOMAIN decided : DecidedOk(H, R, n)
    BY DEF Core
  <2>. QED
    <3>1. PICK l \in Seq(LogEntry) : l = log[i]
      BY <2>1
    <3>2. /\ AdvanceCommit(i, w, l, match) /\ NoConfig(l) /\ Parts(H[w], snap[i], l)
          /\ match \in [Server -> Nat] /\ Trunks(H) /\ Trees(H, R)'
      BY <1>1, <1>4, <1>6, <1>11, <2>1, <2>2, <3>1
    <3>. QED
      BY <2>1, <2>2, <2>3, <2>4, <3>2, AdvanceSafe
<1>13. /\ \A c \in Server : role'[c] = "CANDIDATE" => role[c] = "CANDIDATE" /\ c # i
       /\ \A c \in Server : c # i => role'[c] = role[c] /\ commitIndex'[c] = commitIndex[c]
       /\ role'[i] \in {"FOLLOWER", "LEADER"}
  BY <1>4, AdvanceRole
<1>14. ASSUME NEW c \in Server
       PROVE  ViewOk(G, c)' /\ BoundOk(c)' /\ NodeOk(H, G, R, c)'
  <2>1. ViewOk(G, c) /\ BoundOk(c) /\ NodeOk(H, G, R, c)
    BY DEF Core, Nodes
  <2>2. ViewOk(G, c)' /\ LastIndex(c)' = LastIndex(c)
    BY <1>3, <2>1 DEF ViewOk, LastIndex
  <2>3. CASE c # i
    <3>1. commitIndex'[c] = commitIndex[c] /\ commitIndex[c] \in Nat
      BY <1>13, <2>3, NodeFields
    <3>2. BoundOk(c)'
      BY <1>3, <2>1, <2>2, <3>1 DEF BoundOk, machine
    <3>3. NodeOk(H, G, R, c)'
      BY <1>1, <1>9, <2>1, <3>1, NodeSame
    <3>. QED
      BY <2>2, <3>2, <3>3
  <2>4. CASE c = i
    <3>1. /\ commitIndex[i] \in Nat /\ commitIndex'[i] \in Nat /\ lastApplied[i] \in Nat
          /\ snapping[i] \in Nat /\ snap[i].idx \in Nat /\ LastIndex(i) \in Nat
          /\ LastIndex(i) = Len(H[w])
      BY <1>2, NodeFields, NodeFieldsNext DEF Leading, ViewOk
    <3>2. BoundOk(i)'
      BY <1>3, <1>12, <2>1, <2>2, <2>4, <3>1 DEF BoundOk, machine
    <3>3. NodeOk(H, G, R, i)'
      <4>1. G[i] = H[w] /\ NodeOk(H, G, R, i)
        BY <1>2 DEF Leading
      <4>2. /\ Valid(H, G[i])
            /\ \A n \in 1..Len(G[i]) :
                 /\ G[i][n].term <= currentTerm'[i]
                 /\ G[i][n].term = currentTerm'[i] => <<i, n, currentTerm'[i]>> \in R
        BY <1>3, <4>1 DEF NodeOk
      <4>3. SafeTo(H, R, G[i], commitIndex'[i], currentTerm'[i])
        BY <1>3, <1>12, <4>1
      <4>. QED
        BY <1>1, <1>9, <4>1, <4>2, <4>3, NodeStays
    <3>. QED
      BY <2>2, <2>4, <3>2, <3>3
  <2>. QED
    BY <2>3, <2>4
<1>15. ASSUME NEW c \in Server PROVE LeaderOk(H, G, R, c)'
  <2>1. CASE c # i
    BY <1>1, <1>3, <1>6, <1>10, <1>13, <2>1, LeaderStays DEF Core
  <2>2. CASE c = i
    <3>1. ASSUME NEW v \in Server, NEW n \in Nat, n = matchIndex'[i][v], n > 0
          PROVE  Acked(H, G, R, v, n, w)'
      <4>1. Acked(H, G, R, v, n, w)
        BY <1>6, <1>7, <3>1
      <4>. QED
        BY <1>1, <1>9, <4>1, AckedStays
    <3>. QED
      BY <1>2, <1>3, <2>2, <3>1 DEF LeaderOk, Leading
  <2>. QED
    BY <2>1, <2>2
<1>16. \A p \in elected' : p[1] <= currentTerm'[p[2]]
  BY <1>3 DEF Core
<1>17. Core(H, G, R)'
  BY <1>11, <1>12, <1>14, <1>15, <1>16 DEF Core, Nodes
<1>18. Answers(H, G, R)
  BY Hushed DEF Answers, NoAnswer
<1>. QED
  BY <1>10, <1>17, <1>18 DEF Result

\* The acknowledgements of AppendEntries and InstallSnapshot.
LEMMA AckMoves ==
    ASSUME ElectionInv, IInv', NEW H, NEW G, NEW R, Ghosts(H, G, R), Core(H, G, R), Net(H, G, R),
           NEW i \in Server, NEW j \in Server, ReceiveAppendOk(i, j) \/ ReceiveSnapshotOk(i, j)
    PROVE  Result(H, G, R)
<1>1. IInv /\ StaticNode
  BY DEF ElectionInv, MetaInv, StaticInv
<1>2. PICK q \in Request, r \in Reply :
        /\ call[i][j] = q /\ q # Nil /\ reply[i][j] = r /\ r # Nil /\ r.ok
        /\ role[i] = "LEADER" /\ currentTerm[i] = q.term
        /\ \/ q.type = "append" /\ Acknowledge(i, j, q.prev + Len(q.entries))
           \/ q.type = "snapshot" /\ Acknowledge(i, j, q.snap.idx)
  <2>1. /\ call[i][j] # Nil /\ reply[i][j] # Nil
        /\ call[i][j] \in Request \cup {Nil} /\ reply[i][j] \in Reply \cup {Nil}
    BY <1>1 DEF ReceiveAppendOk, ReceiveSnapshotOk, Answered, IInv, NetType
  <2>. QED
    BY <2>1 DEF ReceiveAppendOk, ReceiveSnapshotOk, Answered, StillLeads
<1>3. ReplyOk(H, G, R, j, q, r)
  BY <1>2 DEF Net, CallOk
<1>4. q.term \in Nat
  BY RequestFields
<1>5. HangUp(i, j) /\ UNCHANGED <<durable, snap, machine>>
  BY DEF ReceiveAppendOk, ReceiveSnapshotOk
<1>6. CASE q.type = "append" /\ Acknowledge(i, j, q.prev + Len(q.entries))
  <2>1. q.prev + Len(q.entries) \in Nat
    BY <1>6, RequestFields
  <2>2. Acked(H, G, R, j, q.prev + Len(q.entries), q.term)
    BY <1>2, <1>3, <1>6 DEF ReplyOk
  <2>. QED
    BY <1>1, <1>2, <1>4, <1>5, <1>6, <2>1, <2>2, AcknowledgeMoves
<1>7. CASE q.type = "snapshot" /\ Acknowledge(i, j, q.snap.idx)
  <2>1. q.snap.idx \in Nat
    BY <1>7, RequestFields DEF Snapshot
  <2>2. Acked(H, G, R, j, q.snap.idx, q.term)
    BY <1>2, <1>3, <1>7 DEF ReplyOk
  <2>. QED
    BY <1>1, <1>2, <1>4, <1>5, <1>7, <2>1, <2>2, AcknowledgeMoves
<1>. QED
  BY <1>2, <1>6, <1>7
=============================================================================
