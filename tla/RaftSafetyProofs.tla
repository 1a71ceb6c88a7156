-------------------------- MODULE RaftSafetyProofs --------------------------
(***************************************************************************)
(* The remaining steps: a leader appends, a candidate wins, a follower     *)
(* takes over what AppendEntries or InstallSnapshot brings. With them the  *)
(* invariant of RaftLogProofs is inductive, and the safety properties of   *)
(* RaftSafety follow. The theorems assume a fixed membership (MaxChanges = *)
(* 0), and that no node forgets the term it is in (NoTermLost). _step_down *)
(* goes on in memory when raft_meta cannot be written, so a crash after    *)
(* that takes the node back to an older term, where an older leader can    *)
(* make it drop an entry it acknowledged in the newer one. Without failing *)
(* writes, or without restarts, NoTermLost is a theorem too                *)
(* (TermsNeverLost).                                                       *)
(***************************************************************************)
EXTENDS RaftLogProofs

\* A leader of term w appends e: what is required.
Extends(H, G, R, i, w, e, match) ==
    /\ e.term = w /\ e.op # "CONFIG" /\ match = matchIndex'[i]
    /\ log' = [log EXCEPT ![i] = Append(log[i], e)] /\ UNCHANGED <<snap, machine>>
    /\ AdvanceCommit(i, w, Append(log[i], e), match)
    /\ currentTerm'[i] = w /\ elected' = elected \cup {<<w, i>>}
    /\ \A c \in Server : c # i => /\ currentTerm'[c] = currentTerm[c]
                                  /\ matchIndex'[c] = matchIndex[c]
    /\ Agree(H[w], G[i], Len(H[w]))
    /\ \A t, k \in Nat : t < w /\ Has(H[t], k, t) => Has(G[i], k, t) \/ Blocked(R, k, t)'
    /\ \A j \in Server, m \in Nat : m = match[j] /\ m > 0 => Acked(H, G, R, j, m, w)

\* What becomes of the ghosts then; n is the length of the log before.
Extended(H, G, R, H2, G2, R2, i, w, e, n) ==
    /\ H2[w] = G2[i] /\ \A u \in Nat : u # w => H2[u] = H[u]
    /\ \A c \in Server : c # i => G2[c] = G[c]
    /\ Len(G[i]) = n /\ Len(G2[i]) = n + 1 /\ G2[i][n + 1] = e
    /\ \A k \in 1..n : G2[i][k] = G[i][k]
    /\ R2 = R \cup {<<i, n + 1, w>>}

\* The three after an append exist.
LEMMA ExtendGhosts ==
    ASSUME NEW H, NEW G, NEW R, Ghosts(H, G, R), NEW i \in Server, NEW w \in Nat,
           NEW e \in LogEntry, NEW n \in Nat, Len(G[i]) = n
    PROVE  \E H2, G2, R2 : Ghosts(H2, G2, R2) /\ Extended(H, G, R, H2, G2, R2, i, w, e, n)
<1>1. PICK x \in Seq(LogEntry) : /\ Len(x) = n + 1 /\ x[n + 1] = e
                                 /\ \A k \in 1..n : x[k] = G[i][k]
  <2>1. G[i] \in Seq(LogEntry)
    BY DEF Ghosts, Branches
  <2>2. PICK l \in Seq(LogEntry) : l = G[i]
    BY <2>1
  <2>3. /\ Append(l, e) \in Seq(LogEntry) /\ Len(Append(l, e)) = n + 1
        /\ Append(l, e)[n + 1] = e /\ \A k \in 1..n : Append(l, e)[k] = l[k]
    BY <2>2
  <2>. QED
    BY <2>2, <2>3
<1>2. PICK H2 : Trunks(H2) /\ H2[w] = x /\ \A u \in Nat : u # w => H2[u] = H[u]
  <2>. DEFINE K == [H EXCEPT ![w] = x]
  <2>1. Trunks(K) /\ K[w] = x /\ \A u \in Nat : u # w => K[u] = H[u]
    BY DEF Ghosts, Trunks
  <2>. QED
    BY <2>1
<1>3. PICK G2 : Branches(G2) /\ G2[i] = x /\ \A c \in Server : c # i => G2[c] = G[c]
  <2>. DEFINE K == [G EXCEPT ![i] = x]
  <2>1. Branches(K) /\ K[i] = x /\ \A c \in Server : c # i => K[c] = G[c]
    BY DEF Ghosts, Branches
  <2>. QED
    BY <2>1
<1>4. PICK R2 : Records(R2) /\ R2 = R \cup {<<i, n + 1, w>>}
  <2>1. <<i, n + 1, w>> \in Server \X Nat \X Nat
    OBVIOUS
  <2>2. Records(R \cup {<<i, n + 1, w>>})
    BY <2>1 DEF Ghosts, Records
  <2>. QED
    BY <2>2
<1>5. Ghosts(H2, G2, R2)
  BY <1>2, <1>3, <1>4 DEF Ghosts
<1>6. Extended(H, G, R, H2, G2, R2, i, w, e, n)
  BY <1>1, <1>2, <1>3, <1>4 DEF Extended
<1>. QED
  BY <1>5, <1>6

\* m is l, of n entries, and one more, of term w.
Longer(l, m, n, w) ==
    /\ Agree(l, m, n) /\ Agree(m, l, n) /\ Has(m, n + 1, w)
    /\ \A k, t : Has(m, k, t) => (k = n + 1 /\ t = w) \/ Has(l, k, t)
    /\ \A k, t : Has(l, k, t) => Has(m, k, t)

\* The appended log has one entry more.
LEMMA ExtendedHas ==
    ASSUME NEW H, NEW G, NEW R, NEW H2, NEW G2, NEW R2, NEW i \in Server, NEW w \in Nat,
           NEW e \in LogEntry, NEW n \in Nat, e.term = w, Extended(H, G, R, H2, G2, R2, i, w, e, n),
           Branches(G), Branches(G2)
    PROVE  Longer(G[i], G2[i], n, w)
<1>1. G[i] \in Seq(LogEntry) /\ G2[i] \in Seq(LogEntry)
  BY DEF Branches
<1>2. PICK x \in Seq(LogEntry), y \in Seq(LogEntry) : x = G[i] /\ y = G2[i]
  BY <1>1
<1>3. /\ Len(x) = n /\ Len(y) = n + 1 /\ y[n + 1] = e /\ \A k \in 1..n : y[k] = x[k]
  BY <1>2 DEF Extended
<1>4. Agree(x, y, n) /\ Agree(y, x, n)
  BY <1>3 DEF Agree
<1>5. Has(y, n + 1, w)
  BY <1>3 DEF Has
<1>6. ASSUME NEW k, NEW t, Has(y, k, t)
      PROVE  (k = n + 1 /\ t = w) \/ Has(x, k, t)
  BY <1>3, <1>6 DEF Has
<1>7. ASSUME NEW k, NEW t, Has(x, k, t)
      PROVE  Has(y, k, t)
  BY <1>3, <1>7 DEF Has
<1>. QED
  BY <1>2, <1>4, <1>5, <1>6, <1>7 DEF Longer

\* Nothing is taken back.
LEMMA ExtendGrows ==
    ASSUME NEW H, NEW G, NEW R, Ghosts(H, G, R), NEW H2, NEW G2, NEW R2, Ghosts(H2, G2, R2),
           NEW i \in Server, NEW w \in Nat, NEW e \in LogEntry, NEW n \in Nat, NEW match,
           Extends(H, G, R, i, w, e, match), Extended(H, G, R, H2, G2, R2, i, w, e, n), TermsGrow
    PROVE  Grows(H, R, H2, R2)
<1>1. Trunks(H) /\ Trunks(H2) /\ Branches(G) /\ Branches(G2)
  BY DEF Ghosts
<1>2. Agree(G[i], G2[i], n) /\ e.term = w /\ Len(G[i]) = n
  <2>1. e.term = w
    BY DEF Extends
  <2>2. Len(G[i]) = n
    BY DEF Extended
  <2>. QED
    BY <1>1, <2>1, <2>2, ExtendedHas DEF Longer
<1>3. ASSUME NEW u \in Nat PROVE Agree(H[u], H2[u], Len(H[u]))
  <2>1. CASE u = w
    <3>1. Agree(H[w], G[i], Len(H[w])) /\ Len(H[w]) <= n
      BY <1>2 DEF Extends, Agree
    <3>2. PICK m \in Nat : m = Len(H[w])
      BY <1>1, TrunkType
    <3>3. G[i] \in Seq(LogEntry) /\ G2[i] \in Seq(LogEntry)
      BY <1>1 DEF Branches
    <3>4. Agree(G[i], G2[i], m)
      BY <1>2, <3>1, <3>2, <3>3, AgreeLess
    <3>5. Agree(H[w], G2[i], m)
      BY <3>1, <3>2, <3>4, AgreeTrans
    <3>. QED
      BY <2>1, <3>2, <3>5 DEF Extended
  <2>2. CASE u # w
    <3>1. H2[u] = H[u]
      BY <2>2 DEF Extended
    <3>. QED
      BY <1>1, <3>1, TrunkType, AgreeSelf
  <2>. QED
    BY <2>1, <2>2
<1>4. ASSUME NEW v \in Server, NEW k \in Nat, NEW t \in Nat, <<v, k, t>> \in R2
      PROVE  <<v, k, t>> \in R \/ t = currentTerm'[v]
  <2>1. <<v, k, t>> \in R \/ (v = i /\ t = w)
    BY <1>4 DEF Extended
  <2>. QED
    BY <2>1 DEF Extends
<1>5. elected \subseteq elected' /\ R \subseteq R2
  BY DEF Extends, Extended
<1>. QED
  BY <1>3, <1>4, <1>5 DEF Grows, Ext, TermsGrow

\* The log of the leader of w after the step.
LEMMA ExtendTrunk ==
    ASSUME IInv, IInv', NEW H, NEW G, NEW R, Ghosts(H, G, R), Core(H, G, R),
           NEW H2, NEW G2, NEW R2, Ghosts(H2, G2, R2),
           NEW i \in Server, NEW w \in Nat, NEW e \in LogEntry, NEW n \in Nat, NEW match,
           Extends(H, G, R, i, w, e, match), Extended(H, G, R, H2, G2, R2, i, w, e, n),
           Grows(H, R, H2, R2)
    PROVE  TrunkOk(H2, w)'
<1>1. Trunks(H) /\ Trunks(H2) /\ Branches(G) /\ Branches(G2) /\ Ext(H, H2)
  BY DEF Ghosts, Grows
<1>2. /\ e.term = w /\ e.op # "CONFIG" /\ currentTerm'[i] = w /\ <<w, i>> \in elected'
  BY DEF Extends
<1>3. PICK x \in Seq(LogEntry), y \in Seq(LogEntry) : x = G[i] /\ y = G2[i] /\ y = H2[w]
  BY <1>1 DEF Branches, Extended
<1>4. /\ Len(x) = n /\ Len(y) = n + 1 /\ y[n + 1] = e /\ \A k \in 1..n : y[k] = x[k]
  BY <1>3 DEF Extended
<1>5. Agree(y, x, n)
  BY <1>4 DEF Agree
<1>6. Valid(H, x) /\ Valid(H2, x)
  BY <1>1, <1>3, ExtValid DEF Core, Nodes, NodeOk
<1>7. ASSUME NEW k \in 1..Len(y)
      PROVE  Agree(y, H2[y[k].term], k)
  <2>1. CASE k = n + 1
    BY <1>2, <1>3, <1>4, <2>1, AgreeSelf
  <2>2. CASE k # n + 1
    <3>1. k \in 1..n /\ k \in Int /\ k \in 1..Len(x)
      BY <1>4, <2>2
    <3>2. Agree(x, H2[x[k].term], k)
      BY <1>6, <3>1 DEF Valid
    <3>3. Agree(y, x, k)
      BY <1>4, <1>5, <3>1, AgreeLess
    <3>. QED
      BY <1>4, <3>1, <3>2, <3>3, AgreeTrans
  <2>. QED
    BY <2>1, <2>2
<1>8. ASSUME NEW k \in 1..n
      PROVE  x[k].op # "CONFIG" /\ x[k].term \in Nat /\ x[k].term <= w
  <2>1. k \in 1..Len(x) /\ x[k].term \in Nat
    BY <1>4, EntryTerm
  <2>2. Agree(x, H[x[k].term], k)
    BY <1>6, <2>1 DEF Valid
  <2>3. k \in 1..Len(H[x[k].term]) /\ x[k] = H[x[k].term][k]
    BY <1>1, <2>1, <2>2, TrunkType DEF Agree
  <2>4. NoConfig(H[x[k].term])
    BY <2>1 DEF Core, Trees, TrunkOk
  <2>5. x[k].op # "CONFIG"
    BY <2>3, <2>4 DEF NoConfig
  <2>6. x[k].term <= currentTerm[i]
    BY <1>3, <2>1 DEF Core, Nodes, NodeOk
  <2>7. currentTerm[i] <= w /\ currentTerm[i] \in Nat
    BY <1>2, NodeFields, NodeFieldsNext DEF Grows
  <2>. QED
    BY <2>1, <2>5, <2>6, <2>7
<1>9. ASSUME NEW a \in 1..n, NEW b \in 1..n, a <= b
      PROVE  x[a].term <= x[b].term
  <2>1. PICK u : u = x[n].term
    OBVIOUS
  <2>2. n > 0 /\ Trees(H, R) /\ n = Len(x)
    BY <1>4, <1>9 DEF Core
  <2>3. u \in Nat /\ Agree(x, H[u], n)
    BY <1>1, <1>6, <2>1, <2>2, LastOfLog
  <2>4. \A k, m \in 1..Len(H[u]) : k <= m => H[u][k].term <= H[u][m].term
    BY <2>2, <2>3 DEF Trees, TrunkOk
  <2>5. a \in 1..Len(H[u]) /\ b \in 1..Len(H[u]) /\ x[a] = H[u][a] /\ x[b] = H[u][b]
    <3>1. Len(H[u]) \in Nat /\ n <= Len(H[u])
      BY <1>1, <2>3, TrunkType DEF Agree
    <3>. QED
      BY <1>9, <2>3, <3>1 DEF Agree
  <2>. QED
    BY <1>9, <2>4, <2>5
<1>10. NoConfig(y) /\ \A k \in 1..Len(y) : y[k].term <= w
  <2>1. ASSUME NEW k \in 1..Len(y) PROVE y[k].op # "CONFIG" /\ y[k].term <= w
    <3>1. CASE k = n + 1
      BY <1>2, <1>4, <3>1
    <3>2. CASE k # n + 1
      <4>1. k \in 1..n
        BY <1>4, <3>2
      <4>. QED
        BY <1>4, <1>8, <4>1
    <3>. QED
      BY <3>1, <3>2
  <2>. QED
    BY <2>1 DEF NoConfig
<1>11. ASSUME NEW a \in 1..Len(y), NEW b \in 1..Len(y), a <= b
       PROVE  y[a].term <= y[b].term
  <2>1. CASE b = n + 1
    BY <1>2, <1>4, <1>10, <2>1
  <2>2. CASE b # n + 1
    <3>1. a \in 1..n /\ b \in 1..n
      BY <1>4, <1>11, <2>2
    <3>. QED
      BY <1>4, <1>9, <1>11, <3>1
  <2>. QED
    BY <2>1, <2>2
<1>12. Valid(H2, y)
  BY <1>7 DEF Valid
<1>13. Elected(w)'
  BY <1>2 DEF Elected
<1>. QED
  BY <1>3, <1>10, <1>11, <1>12, <1>13 DEF TrunkOk

\* An entry that no node has stored, of a term a later leader was elected after,
\* comes too late.
LEMMA LateBlocked ==
    ASSUME ElectionInv, TermsGrow, IInv', NEW R, NEW R2, NEW k \in Nat, NEW w \in Nat,
           NEW i \in Server, currentTerm'[i] = w, R2 = R \cup {<<i, k, w>>},
           \A v \in Server : <<v, k, w>> \notin R,
           NEW u \in Nat, Elected(u), w < u
    PROVE  Blocked(R2, k, w)'
<1>1. IInv /\ AllWon /\ \A v \in Server : Persisted(v)
  BY DEF ElectionInv, MetaInv
<1>2. PICK p \in elected : p[1] = u
  BY DEF Elected
<1>3. PICK Q \in SUBSET Server :
        Quorum(InitConfig, Q) /\ \A v \in Q : Voted(v, p[2], u)
  BY <1>1, <1>2 DEF AllWon, Won
<1>4. ASSUME NEW v \in Q PROVE currentTerm'[v] > w /\ <<v, k, w>> \notin R2
  <2>1. /\ disk[v].term \in Nat /\ currentTerm[v] \in Nat /\ currentTerm'[v] \in Nat
        /\ currentTerm'[v] >= currentTerm[v]
    <3>1. disk[v] \in Meta
      BY <1>1 DEF IInv, NodeType, VoteType
    <3>. QED
      BY <1>1, <3>1, NodeFields, NodeFieldsNext DEF Meta, TermsGrow
  <2>2. disk[v].term >= u /\ disk[v].term <= currentTerm[v]
    BY <1>1, <1>3, <2>1 DEF Voted, Persisted
  <2>3. currentTerm'[v] > w
    BY <2>1, <2>2
  <2>4. v # i
    BY <2>3
  <2>. QED
    BY <2>3, <2>4
<1>. QED
  BY <1>3, <1>4 DEF Blocked

\* All leaders' logs after the step.
LEMMA ExtendTrees ==
    ASSUME ElectionInv, IInv', TermsGrow, NEW H, NEW G, NEW R, Ghosts(H, G, R), Core(H, G, R),
           NEW H2, NEW G2, NEW R2, Ghosts(H2, G2, R2),
           NEW i \in Server, NEW w \in Nat, NEW e \in LogEntry, NEW n \in Nat, NEW match,
           Extends(H, G, R, i, w, e, match), Extended(H, G, R, H2, G2, R2, i, w, e, n),
           Grows(H, R, H2, R2)
    PROVE  Trees(H2, R2)'
<1>1. /\ Trunks(H) /\ Trunks(H2) /\ Branches(G) /\ Branches(G2) /\ Ext(H, H2) /\ IInv
      /\ elected \subseteq elected'
  BY DEF Ghosts, Grows, ElectionInv, MetaInv
<1>2. e.term = w /\ currentTerm'[i] = w /\ elected' = elected \cup {<<w, i>>}
  BY DEF Extends
<1>3. H2[w] = G2[i] /\ \A u \in Nat : u # w => H2[u] = H[u]
  BY DEF Extended
<1>4. R2 = R \cup {<<i, n + 1, w>>} /\ Len(G[i]) = n
  BY DEF Extended
<1>5. /\ \A k, t : Has(G2[i], k, t) => (k = n + 1 /\ t = w) \/ Has(G[i], k, t)
      /\ \A k, t : Has(G[i], k, t) => Has(G2[i], k, t)
  <2>1. Branches(G) /\ Branches(G2) /\ e.term = w
    BY <1>1, <1>2
  <2>2. Longer(G[i], G2[i], n, w)
    BY <2>1, ExtendedHas
  <2>. QED
    BY <2>2 DEF Longer
<1>6. ASSUME NEW k \in Nat, Has(H2[w], k, w), ~Has(H[w], k, w)
      PROVE  k = n + 1 /\ \A v \in Server : <<v, k, w>> \notin R
  <2>1. k = n + 1
    <3>1. CASE Has(G[i], k, w)
      <4>1. Agree(G[i], H[w], k)
        BY <3>1, HasAgrees DEF Core, Nodes, NodeOk
      <4>2. G[i] \in Seq(LogEntry) /\ H[w] \in Seq(LogEntry)
        BY <1>1, TrunkType DEF Branches
      <4>3. Has(H[w], k, w)
        BY <3>1, <4>1, <4>2, AgreeHas
      <4>. QED
        BY <1>6, <4>3
    <3>. QED
      BY <1>3, <1>5, <1>6, <3>1
  <2>. QED
    BY <1>6, <2>1 DEF Core, Nodes, NodeOk
<1>7. ASSUME NEW u \in Nat PROVE TrunkOk(H2, u)'
  <2>1. CASE u = w
    BY <1>1, <2>1, ExtendTrunk
  <2>2. CASE u # w
    <3>1. TrunkOk(H, u) /\ H2[u] = H[u]
      BY <1>3, <2>2 DEF Core, Trees
    <3>. QED
      BY <1>1, <3>1, TrunkStays
  <2>. QED
    BY <2>1, <2>2
<1>8. ASSUME NEW u \in Nat, Elected(u), u # w PROVE BranchOk(H2, R2, u)'
  <2>1. ASSUME NEW t \in Nat, NEW k \in Nat, t < u, Has(H2[t], k, t), ~Has(H[t], k, t)
        PROVE  Blocked(R2, k, t)'
    <3>1. t = w
      BY <1>3, <2>1
    <3>2. k = n + 1 /\ \A v \in Server : <<v, k, w>> \notin R
      BY <1>6, <2>1, <3>1
    <3>. QED
      BY <1>1, <1>2, <1>4, <1>8, <2>1, <3>1, <3>2, LateBlocked
  <2>2. BranchOk(H, R, u)
    BY DEF Core, Trees
  <2>. QED
    BY <1>1, <1>8, <2>1, <2>2, BranchStays
<1>9. BranchOk(H2, R2, w)'
  <2>1. ASSUME NEW t \in Nat, NEW k \in Nat, t < w, Has(H2[t], k, t)
        PROVE  Has(H2[w], k, t) \/ Blocked(R2, k, t)'
    <3>1. Has(H[t], k, t)
      BY <1>3, <2>1
    <3>2. Has(G[i], k, t) \/ Blocked(R, k, t)'
      BY <2>1, <3>1 DEF Extends
    <3>3. ASSUME Blocked(R, k, t)' PROVE Blocked(R2, k, t)'
      <4>1. \A v \in Server : <<v, k, t>> \in R2 => <<v, k, t>> \in R
        BY <1>4, <2>1
      <4>. QED
        BY <3>3, <4>1 DEF Blocked
    <3>. QED
      BY <1>3, <1>5, <3>2, <3>3
  <2>. QED
    BY <2>1 DEF BranchOk
<1>10. ASSUME NEW u \in Nat PROVE BranchOk(H2, R2, u)'
  <2>1. CASE ~Elected(u)'
    BY <2>1 DEF BranchOk
  <2>2. CASE Elected(u)'
    <3>1. Elected(u) \/ u = w
      BY <1>2, <2>2 DEF Elected
    <3>. QED
      BY <1>8, <1>9, <3>1
  <2>. QED
    BY <2>1, <2>2
<1>. QED
  BY <1>7, <1>10 DEF Trees

\* What was committed stays so.
LEMMA DecidedExt ==
    ASSUME IInv, NEW H, Trunks(H), NEW H2, Trunks(H2), NEW R, NEW R2, Ext(H, H2), R \subseteq R2,
           NEW n \in DOMAIN decided, DecidedOk(H, R, n)
    PROVE  DecidedOk(H2, R2, n)
<1>1. n \in Nat /\ decided[n].at \in Nat
  <2>1. decided \in Seq([entry: LogEntry, at: Nat])
    BY DEF IInv, NodeType, LogType
  <2>2. decided[n] \in [entry: LogEntry, at: Nat] /\ n \in Nat /\ n >= 1
    BY <2>1, SeqElement
  <2>. QED
    BY <2>2
<1>2. PICK t \in Nat : t = decided[n].at
  BY <1>1
<1>3. PICK k \in Nat : /\ k >= n /\ Mark(H, R, k, t)
                       /\ \A m \in 1..n : decided[m].entry = H[t][m]
  BY <1>2 DEF DecidedOk
<1>4. Mark(H2, R2, k, t)
  BY <1>3, MarkStays
<1>5. \A m \in 1..n : H2[t][m] = H[t][m]
  <2>1. k <= Len(H[t]) /\ Len(H[t]) \in Nat
    BY <1>3, TrunkType DEF Mark, Has
  <2>2. Agree(H[t], H2[t], Len(H[t]))
    BY DEF Ext
  <2>3. \A m \in 1..n : m \in 1..Len(H[t])
    BY <1>1, <1>3, <2>1
  <2>. QED
    BY <2>2, <2>3 DEF Agree
<1>. QED
  BY <1>2, <1>3, <1>4, <1>5 DEF DecidedOk

\* What the leader and its match_index know to be stored.
LEMMA ExtendCopies ==
    ASSUME IInv, IInv', NEW H, NEW G, NEW R, Ghosts(H, G, R), Core(H, G, R),
           NEW H2, NEW G2, NEW R2, Ghosts(H2, G2, R2),
           NEW i \in Server, NEW w \in Nat, NEW e \in LogEntry, NEW n \in Nat, NEW match,
           Extends(H, G, R, i, w, e, match), Extended(H, G, R, H2, G2, R2, i, w, e, n),
           Grows(H, R, H2, R2)
    PROVE  Copies(H2, R2, i, w, match)
<1>1. /\ Trunks(H) /\ Trunks(H2) /\ Branches(G) /\ Branches(G2) /\ Ext(H, H2)
      /\ R \subseteq R2
  BY DEF Ghosts, Grows
<1>2. e.term = w /\ currentTerm'[i] = w
  BY DEF Extends
<1>3. H2[w] = G2[i] /\ R2 = R \cup {<<i, n + 1, w>>}
  BY DEF Extended
<1>4. Longer(G[i], G2[i], n, w)
  BY <1>1, <1>2, ExtendedHas
<1>5. ASSUME NEW k \in 1..Len(H2[w]), Has(H2[w], k, w)
      PROVE  <<i, k, w>> \in R2
  <2>1. k = n + 1 \/ Has(G[i], k, w)
    BY <1>3, <1>4, <1>5 DEF Longer
  <2>2. CASE Has(G[i], k, w)
    <3>1. k \in 1..Len(G[i]) /\ G[i][k].term = w
      BY <2>2 DEF Has
    <3>2. /\ w <= currentTerm[i]
          /\ w = currentTerm[i] => <<i, k, currentTerm[i]>> \in R
      BY <3>1 DEF Core, Nodes, NodeOk
    <3>3. currentTerm[i] <= w /\ currentTerm[i] \in Nat
      BY <1>2, NodeFields, NodeFieldsNext DEF Grows
    <3>. QED
      BY <1>3, <3>2, <3>3
  <2>. QED
    BY <1>3, <2>1, <2>2
<1>6. ASSUME NEW j \in Server, NEW m \in Nat, m = match[j], m > 0,
             NEW k \in 1..m, Has(H2[w], k, w)
      PROVE  <<j, k, w>> \in R2
  <2>1. Acked(H, G, R, j, m, w)
    BY <1>6 DEF Extends
  <2>2. /\ m <= Len(H[w]) /\ Len(H[w]) \in Int
        /\ H[w] \in Seq(LogEntry) /\ H2[w] \in Seq(LogEntry)
    BY <1>1, <2>1, TrunkType DEF Acked
  <2>3. Agree(H2[w], H[w], Len(H[w]))
    BY <1>1, AgreeSym DEF Ext
  <2>4. Has(H[w], k, w)
    <3>1. k <= Len(H[w])
      BY <2>2
    <3>. QED
      BY <1>6, <2>2, <2>3, <3>1, AgreeHas
  <2>. QED
    BY <1>1, <2>1, <2>4 DEF Acked
<1>. QED
  BY <1>5, <1>6 DEF Copies

\* What the leader commits in the step, a single voter at once.
LEMMA ExtendCommit ==
    ASSUME IInv, IInv', StaticNode, StaticNode', NEW H, NEW G, NEW R, Ghosts(H, G, R), Core(H, G, R),
           NEW H2, NEW G2, NEW R2, Ghosts(H2, G2, R2),
           NEW i \in Server, NEW w \in Nat, NEW e \in LogEntry, NEW n \in Nat,
           NEW match \in [Server -> Nat],
           Extends(H, G, R, i, w, e, match), Extended(H, G, R, H2, G2, R2, i, w, e, n),
           Grows(H, R, H2, R2), Trees(H2, R2)'
    PROVE  /\ SafeTo(H2, R2, H2[w], commitIndex'[i], w)
           /\ commitIndex'[i] >= commitIndex[i] /\ commitIndex'[i] <= n + 1
           /\ \A d \in DOMAIN decided' : DecidedOk(H2, R2, d)'
           /\ ViewOk(G2, i)' /\ LastIndex(i)' = n + 1
<1>1. /\ Trunks(H) /\ Trunks(H2) /\ Branches(G) /\ Branches(G2) /\ Ext(H, H2)
      /\ R \subseteq R2
  BY DEF Ghosts, Grows
<1>2. /\ e.term = w /\ currentTerm'[i] = w
      /\ log' = [log EXCEPT ![i] = Append(log[i], e)] /\ snap' = snap
      /\ AdvanceCommit(i, w, Append(log[i], e), match)
  BY DEF Extends
<1>3. H2[w] = G2[i] /\ Len(G[i]) = n /\ Len(G2[i]) = n + 1 /\ G2[i][n + 1] = e
      /\ \A k \in 1..n : G2[i][k] = G[i][k]
  BY DEF Extended
<1>4. Longer(G[i], G2[i], n, w)
  BY <1>1, <1>2, ExtendedHas
<1>5. ViewOk(G, i) /\ BoundOk(i) /\ NodeOk(H, G, R, i)
  BY DEF Core, Nodes
<1>6. PICK l \in Seq(LogEntry) : /\ l = log'[i] /\ l = Append(log[i], e) /\ NoConfig(l)
  <2>1. log'[i] = Append(log[i], e)
    BY <1>2 DEF IInv, NodeType, LogType
  <2>. QED
    BY <2>1, NodeFieldsNext DEF StaticNode
<1>7. PICK s \in Nat, len \in Nat :
        /\ s = snap[i].idx /\ len = Len(log[i]) /\ n = s + len /\ s + (len + 1) = n + 1
        /\ Len(l) = len + 1 /\ l[len + 1] = e /\ \A k \in 1..len : l[k] = log[i][k]
  <2>1. n = snap[i].idx + Len(log[i]) /\ log[i] \in Seq(LogEntry) /\ Len(log[i]) \in Nat
    BY <1>3, <1>5, NodeFields DEF ViewOk
  <2>2. PICK a \in Seq(LogEntry) : a = log[i]
    BY <2>1
  <2>3. /\ Len(Append(a, e)) = Len(a) + 1 /\ Append(a, e)[Len(a) + 1] = e
        /\ \A k \in 1..Len(a) : Append(a, e)[k] = a[k]
    BY <2>2
  <2>4. PICK s \in Nat, len \in Nat : s = snap[i].idx /\ len = Len(log[i])
    BY NodeFields
  <2>5. n = s + len
    BY <2>1, <2>4
  <2>6. s + (len + 1) = n + 1
    BY <2>5
  <2>. QED
    BY SMTT(30), <1>6, <2>2, <2>3, <2>4, <2>5, <2>6
<1>8. Parts(H2[w], snap[i], l)
  <2>1. Len(H2[w]) = s + Len(l)
    BY <1>3, <1>7
  <2>2. ASSUME NEW k \in 1..Len(l) PROVE l[k] = H2[w][s + k]
    <3>1. CASE k = len + 1
      <4>1. s + k = n + 1
        BY <1>7, <3>1
      <4>. QED
        BY <1>3, <1>7, <3>1, <4>1
    <3>2. CASE k # len + 1
      <4>1. k \in 1..len /\ s + k \in 1..n
        <5>1. Len(l) = len + 1 /\ n = s + len
          BY <1>7
        <5>2. k \in 1..(len + 1)
          BY <2>2, <5>1
        <5>. QED
          BY <3>2, <5>1, <5>2
      <4>2. log[i][k] = G[i][s + k]
        BY <1>5, <1>7, <4>1 DEF ViewOk
      <4>. QED
        BY <1>3, <1>7, <4>1, <4>2
    <3>. QED
      BY <3>1, <3>2
  <2>. QED
    BY <1>7, <2>1, <2>2 DEF Parts
<1>9. Copies(H2, R2, i, w, match)
  BY ExtendCopies
<1>10. \A d \in DOMAIN decided : DecidedOk(H2, R2, d)
  BY <1>1, DecidedExt DEF Core
<1>11. PICK c \in Nat : c = commitIndex[i] /\ c <= n /\ s <= c
  <2>1. commitIndex[i] <= LastIndex(i) /\ Len(G[i]) = LastIndex(i) /\ snap[i].idx <= commitIndex[i]
    BY <1>5 DEF BoundOk, ViewOk
  <2>. QED
    BY <1>3, <1>7, <2>1, NodeFields
<1>12. SafeTo(H2, R2, H2[w], c, w)
  <2>1. SafeTo(H, R, G[i], c, currentTerm[i])
    BY <1>5, <1>11 DEF NodeOk
  <2>2. currentTerm[i] \in Nat /\ currentTerm[i] <= w
    BY <1>2, NodeFields, NodeFieldsNext DEF Grows
  <2>3. G[i] \in Seq(LogEntry) /\ H2[w] \in Seq(LogEntry)
    BY <1>1, TrunkType DEF Branches
  <2>4. c <= Len(G[i]) => Agree(H2[w], G[i], c)
    <3>1. Agree(H2[w], G[i], n) /\ n \in Int /\ c \in Int /\ c <= n
      BY <1>3, <1>4, <1>11 DEF Longer
    <3>2. Len(G[i]) \in Nat /\ Len(H2[w]) \in Nat
      BY <2>3
    <3>. QED
      BY <3>1, <3>2, AgreeLess
  <2>. QED
    BY <1>1, <1>11, <2>1, <2>2, <2>3, <2>4, SafeStays
<1>13. /\ SafeTo(H2, R2, H2[w], commitIndex'[i], w)
       /\ commitIndex'[i] >= commitIndex[i] /\ commitIndex'[i] <= Len(H2[w])
       /\ \A d \in DOMAIN decided' : DecidedOk(H2, R2, d)'
  <2>1. /\ AdvanceCommit(i, w, l, match) /\ snap[i].cfg \in {InitConfig, {}}
        /\ snap[i].idx <= commitIndex[i] /\ commitIndex[i] <= Len(H2[w])
        /\ SafeTo(H2, R2, H2[w], commitIndex[i], w)
    BY <1>2, <1>3, <1>6, <1>7, <1>11, <1>12 DEF StaticNode
  <2>. QED
    BY <1>1, <1>6, <1>8, <1>9, <1>10, <2>1, AdvanceSafe
<1>14. LastIndex(i)' = n + 1
  BY <1>2, <1>6, <1>7 DEF LastIndex
<1>15. ViewOk(G2, i)'
  <2>1. snap[i].term = TermOf(G[i], s) /\ TermOf(G[i], s) = TermOf(G2[i], s)
    <3>1. Agree(G[i], G2[i], n) /\ s <= n
      BY <1>4, <1>7 DEF Longer
    <3>. QED
      BY <1>5, <1>7, <3>1, AgreeTerm DEF ViewOk
  <2>2. \A k \in 1..Len(l) : l[k] = G2[i][snap[i].idx + k]
    BY <1>3, <1>8 DEF Parts
  <2>. QED
    BY <1>2, <1>3, <1>6, <1>7, <1>14, <2>1, <2>2 DEF ViewOk
<1>. QED
  BY <1>3, <1>13, <1>14, <1>15

\* A candidate's log and what nodes share with their leader stay.
LEMMA ExtendMove ==
    ASSUME IInv, IInv', NEW H, NEW G, NEW R, Ghosts(H, G, R),
           NEW H2, NEW G2, NEW R2, Ghosts(H2, G2, R2),
           NEW i \in Server, NEW w \in Nat, NEW e \in LogEntry, NEW n \in Nat, NEW match,
           Extends(H, G, R, i, w, e, match), Extended(H, G, R, H2, G2, R2, i, w, e, n),
           Grows(H, R, H2, R2)
    PROVE  Move(H, G, R, H2, G2, R2)
<1>1. /\ Trunks(H) /\ Trunks(H2) /\ Branches(G) /\ Branches(G2) /\ Ext(H, H2)
  BY DEF Ghosts, Grows
<1>2. e.term = w /\ \E l : AdvanceCommit(i, w, l, match)
  BY DEF Extends
<1>3. Len(G[i]) = n /\ \A c \in Server : c # i => G2[c] = G[c]
  BY DEF Extended
<1>4. Longer(G[i], G2[i], n, w)
  BY <1>1, <1>2, ExtendedHas
<1>5. \A c \in Server : role'[c] = "CANDIDATE" => G2[c] = G[c]
  BY <1>2, <1>3, AdvanceRole
<1>6. ASSUME NEW c \in Server, NEW t \in Nat, NEW m \in Nat, Agree(G[c], H[t], m)
      PROVE  Agree(G2[c], H2[t], m)
  <2>1. Agree(G[c], H2[t], m)
    <3>1. m \in Int
      OBVIOUS
    <3>. QED
      BY <1>1, <1>6, <3>1, ExtAgree
  <2>2. CASE c = i
    <3>1. m <= n /\ Agree(G2[i], G[i], n)
      BY <1>3, <1>4, <1>6, <2>2 DEF Agree, Longer
    <3>2. G[i] \in Seq(LogEntry) /\ G2[i] \in Seq(LogEntry) /\ m \in Int /\ n \in Int
      BY <1>1 DEF Branches
    <3>3. Agree(G2[i], G[i], m)
      BY <3>1, <3>2, AgreeLess
    <3>. QED
      BY <2>1, <2>2, <3>3, AgreeTrans
  <2>. QED
    BY <1>3, <2>1, <2>2
<1>. QED
  BY <1>5, <1>6 DEF Move

\* All nodes after the step.
LEMMA ExtendNodes ==
    ASSUME IInv, IInv', StaticNode, StaticNode', NEW H, NEW G, NEW R, Ghosts(H, G, R), Core(H, G, R),
           NEW H2, NEW G2, NEW R2, Ghosts(H2, G2, R2),
           NEW i \in Server, NEW w \in Nat, NEW e \in LogEntry, NEW n \in Nat,
           NEW match \in [Server -> Nat],
           Extends(H, G, R, i, w, e, match), Extended(H, G, R, H2, G2, R2, i, w, e, n),
           Grows(H, R, H2, R2), Trees(H2, R2)'
    PROVE  Nodes(H2, G2, R2)'
<1>1. /\ Trunks(H) /\ Trunks(H2) /\ Branches(G) /\ Branches(G2) /\ Ext(H, H2)
      /\ R \subseteq R2
  BY DEF Ghosts, Grows
<1>2. /\ e.term = w /\ currentTerm'[i] = w
      /\ log' = [log EXCEPT ![i] = Append(log[i], e)] /\ snap' = snap /\ UNCHANGED machine
      /\ \E l : AdvanceCommit(i, w, l, match)
  BY DEF Extends
<1>3. /\ H2[w] = G2[i] /\ Len(G[i]) = n /\ \A c \in Server : c # i => G2[c] = G[c]
      /\ R2 = R \cup {<<i, n + 1, w>>}
  BY DEF Extended
<1>4. Longer(G[i], G2[i], n, w)
  BY <1>1, <1>2, ExtendedHas
<1>5. /\ SafeTo(H2, R2, H2[w], commitIndex'[i], w)
      /\ commitIndex'[i] >= commitIndex[i] /\ commitIndex'[i] <= n + 1
      /\ ViewOk(G2, i)' /\ LastIndex(i)' = n + 1
  BY ExtendCommit
<1>6. ASSUME NEW c \in Server, c # i
      PROVE  ViewOk(G2, c)' /\ BoundOk(c)' /\ NodeOk(H2, G2, R2, c)'
  <2>1. /\ ViewOk(G, c) /\ BoundOk(c) /\ NodeOk(H, G, R, c)
    BY DEF Core, Nodes
  <2>2. /\ log'[c] = log[c] /\ snap'[c] = snap[c] /\ commitIndex'[c] = commitIndex[c]
        /\ lastApplied'[c] = lastApplied[c] /\ snapping'[c] = snapping[c]
    BY <1>2, <1>6, AdvanceRole DEF machine, IInv, NodeType, LogType
  <2>3. ViewOk(G2, c)' /\ BoundOk(c)'
    BY <1>3, <1>6, <2>1, <2>2 DEF ViewOk, BoundOk, LastIndex
  <2>4. commitIndex'[c] <= commitIndex[c]
    BY <2>2, NodeFields
  <2>5. \A k, t \in Nat : <<c, k, t>> \in R2 => <<c, k, t>> \in R
    BY <1>3, <1>6
  <2>. QED
    BY <1>1, <1>3, <1>6, <2>1, <2>3, <2>4, <2>5, NodeSame
<1>7. BoundOk(i)'
  <2>1. BoundOk(i)
    BY DEF Core, Nodes
  <2>2. /\ commitIndex[i] \in Nat /\ commitIndex'[i] \in Nat /\ lastApplied[i] \in Nat
        /\ snap[i].idx \in Nat
    BY NodeFields, NodeFieldsNext
  <2>. QED
    BY <1>2, <1>5, <2>1, <2>2 DEF BoundOk, machine
<1>8. NodeOk(H2, G2, R2, i)'
  <2>1. NodeOk(H, G, R, i)
    BY DEF Core, Nodes
  <2>2. TrunkOk(H2, w)' /\ Copies(H2, R2, i, w, match)
    BY ExtendTrunk, ExtendCopies
  <2>3. Valid(H2, G2[i]) /\ \A k \in 1..Len(G2[i]) : G2[i][k].term <= currentTerm'[i]
    BY <1>2, <1>3, <2>2 DEF TrunkOk
  <2>4. \A k \in 1..Len(G2[i]) : G2[i][k].term = currentTerm'[i] => <<i, k, currentTerm'[i]>> \in R2
    BY <1>2, <1>3, <2>2 DEF Copies, Has
  <2>5. SafeTo(H2, R2, G2[i], commitIndex'[i], currentTerm'[i])
    BY <1>2, <1>3, <1>5
  <2>6. \A k, t \in Nat : <<i, k, t>> \in R /\ Has(G[i], k, t) =>
             Has(G2[i], k, t) \/ Blocked(R, k, t)
    BY <1>4 DEF Longer
  <2>7. ASSUME NEW k \in Nat, NEW t \in Nat, <<i, k, t>> \in R2
        PROVE  \/ <<i, k, t>> \in R
               \/ t = currentTerm'[i] /\ Has(G2[i], k, t) /\ Has(H2[t], k, t)
    <3>1. <<i, k, t>> \in R \/ (k = n + 1 /\ t = w)
      BY <1>3, <2>7
    <3>. QED
      BY <1>2, <1>3, <1>4, <3>1 DEF Longer
  <2>. QED
    BY <1>1, <2>1, <2>3, <2>4, <2>5, <2>6, <2>7, NodeStays
<1>. QED
  BY <1>5, <1>6, <1>7, <1>8 DEF Nodes

\* A leader's append keeps the invariant.
LEMMA AppendMoves ==
    ASSUME ElectionInv, ElectionInv', TermsGrow, NoAnswer,
           NEW H, NEW G, NEW R, Ghosts(H, G, R), Core(H, G, R),
           NEW i \in Server, NEW w \in Nat, NEW e \in LogEntry, NEW match \in [Server -> Nat],
           Extends(H, G, R, i, w, e, match)
    PROVE  Result(H, G, R)
<1>1. IInv /\ IInv' /\ StaticNode /\ StaticNode' /\ ElectionSafety'
  BY DEF ElectionInv, MetaInv, StaticInv
<1>2. PICK n \in Nat : Len(G[i]) = n
  <2>1. G[i] \in Seq(LogEntry)
    BY DEF Ghosts, Branches
  <2>. QED
    BY <2>1
<1>3. PICK H2, G2, R2 : Ghosts(H2, G2, R2) /\ Extended(H, G, R, H2, G2, R2, i, w, e, n)
  BY <1>2, ExtendGhosts
<1>4. Grows(H, R, H2, R2)
  BY <1>3, ExtendGrows
<1>5. Move(H, G, R, H2, G2, R2)
  BY <1>1, <1>3, <1>4, ExtendMove
<1>6. Trees(H2, R2)'
  BY <1>1, <1>3, <1>4, ExtendTrees
<1>7. Nodes(H2, G2, R2)'
  BY <1>1, <1>3, <1>4, <1>6, ExtendNodes
<1>8. \A d \in DOMAIN decided' : DecidedOk(H2, R2, d)'
  BY <1>1, <1>3, <1>4, <1>6, ExtendCommit
<1>9. Trunks(H) /\ Trunks(H2) /\ Branches(G) /\ Branches(G2)
  BY <1>3 DEF Ghosts
<1>10. /\ match = matchIndex'[i] /\ currentTerm'[i] = w /\ elected' = elected \cup {<<w, i>>}
       /\ \A c \in Server : c # i => /\ currentTerm'[c] = currentTerm[c]
                                     /\ matchIndex'[c] = matchIndex[c]
       /\ \E l : AdvanceCommit(i, w, l, match)
  BY DEF Extends
<1>11. /\ H2[w] = G2[i] /\ \A u \in Nat : u # w => H2[u] = H[u]
       /\ \A c \in Server : c # i => G2[c] = G[c]
  BY <1>3 DEF Extended
<1>12. ASSUME NEW c \in Server, c # i PROVE LeaderOk(H2, G2, R2, c)'
  <2>1. LeaderOk(H, G, R, c) /\ role'[c] = role[c] /\ currentTerm'[c] = currentTerm[c]
    BY <1>1, <1>10, <1>12, AdvanceRole DEF Core
  <2>2. CASE role'[c] # "LEADER"
    BY <2>2 DEF LeaderOk
  <2>3. CASE role'[c] = "LEADER"
    <3>1. PICK t \in Nat : t = currentTerm[c]
      BY <1>1, NodeFields
    <3>2. <<t, c>> \in elected' /\ <<w, i>> \in elected'
      BY <1>10, <2>1, <2>3, <3>1 DEF LeaderOk
    <3>3. t # w
      <4>1. ASSUME t = w PROVE FALSE
        <5>1. PICK p \in elected', q \in elected' : p = <<t, c>> /\ q = <<w, i>>
          BY <3>2
        <5>2. p[1] = q[1] /\ p[2] = c /\ q[2] = i
          BY <4>1, <5>1
        <5>. QED
          BY <1>1, <1>12, <5>1, <5>2 DEF ElectionSafety
      <4>. QED
        BY <4>1
    <3>4. H2[currentTerm[c]] = H[currentTerm[c]]
      BY <1>11, <3>1, <3>3
    <3>. QED
      BY <1>1, <1>5, <1>9, <1>10, <1>11, <1>12, <2>1, <3>4, LeaderStays
  <2>. QED
    BY <2>2, <2>3
<1>13. LeaderOk(H2, G2, R2, i)'
  <2>1. ASSUME NEW j \in Server, NEW m \in Nat, m = match[j], m > 0
        PROVE  Acked(H2, G2, R2, j, m, w)'
    <3>1. Acked(H, G, R, j, m, w)
      BY <2>1 DEF Extends
    <3>2. currentTerm[j] = w /\ currentTerm'[j] = w /\ Agree(G[j], H[w], m) =>
             Agree(G2[j], H2[w], m)
      BY <1>5 DEF Move
    <3>. QED
      BY <1>1, <1>4, <1>9, <3>1, <3>2, AckedStays
  <2>2. /\ <<w, i>> \in elected' /\ G2[i] = H2[w] /\ currentTerm'[i] = w
        /\ matchIndex'[i] = match
    BY <1>10, <1>11
  <2>. QED
    BY <2>1, <2>2 DEF LeaderOk
<1>14. ASSUME NEW p \in elected' PROVE p[1] <= currentTerm'[p[2]]
  <2>1. CASE p \in elected
    BY <1>1, <2>1, ElectedBound DEF Core
  <2>2. CASE p = <<w, i>>
    <3>1. p[1] = w /\ p[2] = i
      BY <2>2
    <3>. QED
      BY <1>10, <3>1
  <2>. QED
    BY <1>10, <2>1, <2>2
<1>15. \A c \in Server : LeaderOk(H2, G2, R2, c)'
  BY <1>12, <1>13
<1>16. Core(H2, G2, R2)'
  BY <1>6, <1>7, <1>8, <1>14, <1>15 DEF Core
<1>17. Answers(H2, G2, R2)
  BY DEF Answers, NoAnswer
<1>. QED
  BY <1>3, <1>5, <1>16, <1>17 DEF Result

\* submit() is such an append.
LEMMA SubmitMoves ==
    ASSUME ElectionInv, ElectionInv', TermsGrow, NEW H, NEW G, NEW R,
           Ghosts(H, G, R), Core(H, G, R), NEW i \in Server, Submit(i)
    PROVE  Result(H, G, R)
<1>1. IInv /\ IInv' /\ StaticNode /\ StaticNode'
  BY DEF ElectionInv, MetaInv, StaticInv
<1>2. PICK w \in Nat : w = currentTerm[i]
  BY <1>1, NodeFields
<1>3. PICK e \in LogEntry : e = Entry(w, "CMD", {}) /\ e.term = w /\ e.op # "CONFIG"
  <2>1. Entry(w, "CMD", {}) \in LogEntry
    BY EntryIsTyped DEF Op, Membership
  <2>. QED
    BY <2>1 DEF Entry
<1>4. /\ role[i] = "LEADER" /\ UNCHANGED <<durable, snap, machine, matchIndex, net, elected>>
      /\ log' = [log EXCEPT ![i] = Append(log[i], e)]
      /\ AdvanceCommit(i, w, Append(log[i], e), matchIndex[i])
  BY <1>2, <1>3 DEF Submit, AppendLocal
<1>5. PICK match \in [Server -> Nat] : match = matchIndex[i] /\ match = matchIndex'[i]
  BY <1>1, <1>4 DEF IInv, NodeType, LogType
<1>6. Leading(H, G, R, i, w)
  BY <1>1, <1>2, <1>4, LeaderView DEF Ghosts
<1>7. Agree(H[w], G[i], Len(H[w]))
  <2>1. H[w] \in Seq(LogEntry) /\ G[i] = H[w]
    BY <1>6, TrunkType DEF Leading, Ghosts
  <2>. QED
    BY <2>1, AgreeSelf
<1>8. ASSUME NEW t \in Nat, NEW k \in Nat, t < w, Has(H[t], k, t)
      PROVE  Has(G[i], k, t) \/ Blocked(R, k, t)'
  <2>1. BranchOk(H, R, w) /\ Elected(w) /\ G[i] = H[w]
    BY <1>6 DEF Core, Trees, Leading
  <2>2. Has(H[w], k, t) \/ Blocked(R, k, t)
    BY <1>8, <2>1 DEF BranchOk
  <2>3. ASSUME Blocked(R, k, t) PROVE Blocked(R, k, t)'
    <3>1. PICK Q \in SUBSET Server :
            /\ Quorum(InitConfig, Q)
            /\ \A v \in Q : currentTerm[v] > t /\ <<v, k, t>> \notin R
      BY <2>3 DEF Blocked
    <3>2. currentTerm' = currentTerm
      BY <1>4 DEF durable
    <3>. QED
      BY <3>1, <3>2 DEF Blocked
  <2>. QED
    BY <2>1, <2>2, <2>3
<1>9. \A j \in Server, m \in Nat : m = match[j] /\ m > 0 => Acked(H, G, R, j, m, w)
  BY <1>5, <1>6 DEF Leading
<1>10. /\ currentTerm'[i] = w /\ elected' = elected \cup {<<w, i>>}
       /\ \A c \in Server : c # i => /\ currentTerm'[c] = currentTerm[c]
                                     /\ matchIndex'[c] = matchIndex[c]
       /\ UNCHANGED <<snap, machine>>
  BY <1>2, <1>4, <1>6 DEF durable, Leading
<1>11. Extends(H, G, R, i, w, e, match)
  BY <1>3, <1>4, <1>5, <1>7, <1>8, <1>9, <1>10 DEF Extends
<1>12. NoAnswer
  BY <1>1, <1>4, Hushed
<1>. QED
  BY <1>11, <1>12, AppendMoves

\* What can no longer be committed stays so when the terms grow.
LEMMA BlockedLater ==
    ASSUME IInv, IInv', TermsGrow, NEW R, NEW k \in Nat, NEW t \in Nat, Blocked(R, k, t)
    PROVE  Blocked(R, k, t)'
<1>1. PICK Q \in SUBSET Server :
        Quorum(InitConfig, Q) /\ \A v \in Q : currentTerm[v] > t /\ <<v, k, t>> \notin R
  BY DEF Blocked
<1>2. ASSUME NEW v \in Q PROVE currentTerm'[v] > t
  <2>1. /\ currentTerm[v] > t /\ currentTerm[v] \in Nat /\ currentTerm'[v] \in Nat
        /\ currentTerm'[v] >= currentTerm[v]
    BY <1>1, NodeFields, NodeFieldsNext DEF TermsGrow
  <2>. QED
    BY <2>1
<1>. QED
  BY <1>1, <1>2 DEF Blocked

\* The quorum Q elects i in term w: nothing its voters stored is missing from the
\* log of i, unless it can no longer be committed.
Elects(G, R, Q, i, w) ==
    /\ Quorum(InitConfig, Q)
    /\ \A v \in Q : currentTerm'[v] >= w
    /\ \A v \in Q, k, t \in Nat : t < w /\ <<v, k, t>> \in R =>
          Has(G[i], k, t) \/ Blocked(R, k, t)'

\* A winner's log has what may still be committed: two quorums meet.
LEMMA ElectedHas ==
    ASSUME IInv', NEW G, NEW R, NEW Q \in SUBSET Server, NEW i \in Server, NEW w \in Nat,
           Elects(G, R, Q, i, w), NEW k \in Nat, NEW t \in Nat, t < w
    PROVE  Has(G[i], k, t) \/ Blocked(R, k, t)'
<1>1. CASE \E v \in Q : <<v, k, t>> \in R
  BY <1>1 DEF Elects
<1>2. CASE \A v \in Q : <<v, k, t>> \notin R
  <2>1. ASSUME NEW v \in Q PROVE currentTerm'[v] > t
    <3>1. currentTerm'[v] \in Nat /\ currentTerm'[v] >= w
      BY NodeFieldsNext DEF Elects
    <3>. QED
      BY <3>1
  <2>. QED
    BY <1>2, <2>1 DEF Blocked, Elects
<1>. QED
  BY <1>1, <1>2

\* A node that wins appends its NO_OP, the first entry of its term.
LEMMA WinMoves ==
    ASSUME ElectionInv, ElectionInv', TermsGrow, NoAnswer,
           NEW H, NEW G, NEW R, Ghosts(H, G, R), Core(H, G, R),
           NEW i \in Server, NEW w \in Nat, w = currentTerm'[i], BecomeLeader(i, w), ~diskFull[i],
           \A c \in Server : c # i => currentTerm'[c] = currentTerm[c],
           UNCHANGED <<snap, machine>>, <<w, i>> \notin elected,
           NEW Q \in SUBSET Server, Elects(G, R, Q, i, w)
    PROVE  Result(H, G, R)
<1>1. IInv /\ IInv' /\ ElectionSafety'
  BY DEF ElectionInv, MetaInv
<1>2. PICK e \in LogEntry : e = Entry(w, "NOOP", {}) /\ e.term = w /\ e.op # "CONFIG"
  <2>1. Entry(w, "NOOP", {}) \in LogEntry
    BY EntryIsTyped DEF Op, Membership
  <2>. QED
    BY <2>1 DEF Entry
<1>3. PICK match \in [Server -> Nat] : match = [j \in Server |-> 0]
  OBVIOUS
<1>4. /\ matchIndex' = [matchIndex EXCEPT ![i] = match]
      /\ log' = [log EXCEPT ![i] = Append(log[i], e)]
      /\ AdvanceCommit(i, w, Append(log[i], e), match)
      /\ elected' = elected \cup {<<w, i>>}
  BY <1>2, <1>3 DEF BecomeLeader
<1>5. match = matchIndex'[i] /\ \A c \in Server : c # i => matchIndex'[c] = matchIndex[c]
  BY <1>1, <1>4 DEF IInv, NodeType, LogType
<1>6. H[w] = << >>
  <2>1. ~Elected(w)
    <3>1. ASSUME NEW c \in Server, <<w, c>> \in elected PROVE FALSE
      <4>1. PICK p \in elected', q \in elected' : p = <<w, c>> /\ q = <<w, i>>
        BY <1>4, <3>1
      <4>2. c = i
        <5>1. p[1] = q[1] /\ p[2] = c /\ q[2] = i
          BY <4>1
        <5>. QED
          BY <1>1, <4>1, <5>1 DEF ElectionSafety
      <4>. QED
        BY <3>1, <4>2
    <3>. QED
      BY <3>1 DEF Elected
  <2>. QED
    BY <2>1 DEF Core, Trees, TrunkOk
<1>7. Agree(H[w], G[i], Len(H[w]))
  <2>1. G[i] \in Seq(LogEntry) /\ Len(H[w]) = 0
    BY <1>6 DEF Ghosts, Branches
  <2>2. Len(G[i]) \in Nat
    BY <2>1
  <2>. QED
    BY <2>1, <2>2 DEF Agree
<1>8. \A t, k \in Nat : t < w => Has(G[i], k, t) \/ Blocked(R, k, t)'
  BY <1>1, ElectedHas
<1>9. \A j \in Server, m \in Nat : m = match[j] /\ m > 0 => Acked(H, G, R, j, m, w)
  BY <1>3
<1>10. Extends(H, G, R, i, w, e, match)
  BY <1>2, <1>4, <1>5, <1>7, <1>8, <1>9 DEF Extends
<1>. QED
  BY <1>10, AppendMoves

\* A campaign that wins at once: the cluster has a single voter.
LEMMA StartWins ==
    ASSUME ElectionInv, ElectionInv', TermsGrow, NoAnswer,
           NEW H, NEW G, NEW R, Ghosts(H, G, R), Core(H, G, R),
           NEW i \in Server, StartElection(i), CanStartElection(i),
           UNCHANGED <<snap, machine>>
    PROVE  Result(H, G, R)
<1>1. IInv /\ IInv' /\ StaticNode
  BY DEF ElectionInv, MetaInv, StaticInv
<1>2. PICK w \in Nat : w = currentTerm[i] + 1 /\ w = currentTerm'[i] /\ currentTerm[i] < w
  <2>1. currentTerm'[i] = currentTerm[i] + 1 /\ currentTerm[i] \in Nat
    BY <1>1 DEF StartElection, IInv, NodeType, VoteType
  <2>. QED
    BY <2>1
<1>3. \A c \in Server : c # i => currentTerm'[c] = currentTerm[c]
  BY <1>1, StartRole
<1>4. CASE Quorum(Config(i), {i})
  <2>1. BecomeLeader(i, w) /\ ~diskFull[i]
    BY <1>2, <1>4 DEF StartElection, CanStartElection
  <2>2. <<w, i>> \notin elected
    <3>1. ASSUME <<w, i>> \in elected PROVE FALSE
      <4>1. PICK p \in elected : p = <<w, i>>
        BY <3>1
      <4>2. p[1] = w /\ p[2] = i
        BY <4>1
      <4>3. w <= currentTerm[i]
        BY <4>1, <4>2 DEF Core
      <4>. QED
        BY <1>1, <1>2, <4>3, NodeFields
    <3>. QED
      BY <3>1
  <2>3. Elects(G, R, {i}, i, w)
    <3>1. Quorum(InitConfig, {i})
      BY <1>1, <1>4, StaticQuorum
    <3>2. ASSUME NEW k \in Nat, NEW t \in Nat, <<i, k, t>> \in R
          PROVE  Has(G[i], k, t) \/ Blocked(R, k, t)'
      <4>1. Has(G[i], k, t) \/ Blocked(R, k, t)
        BY <3>2 DEF Core, Nodes, NodeOk
      <4>. QED
        BY <1>1, <4>1, BlockedLater
    <3>. QED
      BY <1>2, <3>1, <3>2 DEF Elects
  <2>4. PICK Q \in SUBSET Server : Q = {i}
    OBVIOUS
  <2>. QED
    BY <1>2, <1>3, <2>1, <2>2, <2>3, <2>4, WinMoves
<1>5. CASE ~Quorum(Config(i), {i})
  <2>1. UNCHANGED <<log, commitIndex, history>> /\ role' = [role EXCEPT ![i] = "CANDIDATE"]
    BY <1>5 DEF StartElection
  <2>2. role'[i] # "LEADER"
    BY <1>1, <2>1 DEF IInv, NodeType, VoteType
  <2>. QED
    BY <1>1, <2>1, <2>2, CampaignQuiet
<1>. QED
  BY <1>4, <1>5

\* A campaign after a timeout or after a pre-vote.
LEMMA CampaignMoves ==
    ASSUME ElectionInv, ElectionInv', TermsGrow,
           NEW H, NEW G, NEW R, Ghosts(H, G, R), Core(H, G, R),
           NEW i \in Server, Timeout(i) \/ \E j \in Server : ReceivePreVote(i, j)
    PROVE  Result(H, G, R)
<1>1. IInv /\ IInv'
  BY DEF ElectionInv, MetaInv
<1>2. UNCHANGED <<snap, machine>> /\ NoAnswer
  BY <1>1, Hushed DEF Timeout, ReceivePreVote
<1>3. \/ StartElection(i) /\ CanStartElection(i)
      \/ UNCHANGED <<durable, role, log, commitIndex, progress, history>>
  BY DEF Timeout, ReceivePreVote, ballot
<1>4. CASE StartElection(i) /\ CanStartElection(i)
  BY <1>2, <1>4, StartWins
<1>5. CASE UNCHANGED <<durable, role, log, commitIndex, progress, history>>
  BY <1>1, <1>2, <1>5, CampaignQuiet
<1>. QED
  BY <1>3, <1>4, <1>5

\* A vote that is received.
LEMMA VoteMoves ==
    ASSUME ElectionInv, ElectionInv', TermsGrow,
           NEW H, NEW G, NEW R, Ghosts(H, G, R), Core(H, G, R), Net(H, G, R),
           NEW i \in Server, NEW j \in Server, ReceiveVote(i, j)
    PROVE  Result(H, G, R)
<1>1. IInv /\ IInv' /\ StaticNode /\ MetaInv /\ BackedByDisk /\ \A v \in Server : Persisted(v)
  BY DEF ElectionInv, MetaInv, StaticInv
<1>2. UNCHANGED <<snap, machine, durable>> /\ HangUp(i, j) /\ role[i] = "CANDIDATE"
  BY DEF ReceiveVote
<1>3. NoAnswer
  BY <1>1, <1>2, Hushed
<1>4. PICK w \in Nat : w = currentTerm[i] /\ w = currentTerm'[i] /\ currentTerm' = currentTerm
  BY <1>1, <1>2, NodeFields DEF durable
<1>5. CASE ~Quorum(Config(i), votes[i] \cup {j})
  <2>1. UNCHANGED <<role, log, commitIndex, progress, history>>
    BY <1>5 DEF ReceiveVote
  <2>. QED
    BY <1>1, <1>2, <1>3, <2>1, CampaignQuiet
<1>6. CASE Quorum(Config(i), votes[i] \cup {j}) /\ diskFull[i]
  <2>1. BecomeLeader(i, currentTerm[i])
    BY <1>6 DEF ReceiveVote
  <2>2. UNCHANGED <<log, commitIndex, history>> /\ role' = [role EXCEPT ![i] = "FOLLOWER"]
    BY <1>6, <2>1 DEF BecomeLeader
  <2>3. role'[i] # "LEADER"
    BY <1>1, <2>2 DEF IInv, NodeType, VoteType
  <2>. QED
    BY <1>1, <1>2, <1>3, <2>1, <2>2, <2>3, CampaignQuiet
<1>7. CASE Quorum(Config(i), votes[i] \cup {j}) /\ ~diskFull[i]
  <2>1. BecomeLeader(i, w)
    BY <1>4, <1>7 DEF ReceiveVote
  <2>2. \A v \in votes[i] \cup {j} : v \in Server /\ Backs(v, i, w)
    BY <1>1, <1>4, CountedVotes
  <2>3. PICK Q \in SUBSET Server : Q = votes[i] \cup {j}
    BY <2>2
  <2>4. CandidateOk(G, R, i)
    BY DEF Net
  <2>5. /\ <<w, i>> \notin elected
        /\ \A v \in Server, k, t \in Nat :
             Backs(v, i, w) /\ <<v, k, t>> \in R /\ t < w =>
               Has(G[i], k, t) \/ Blocked(R, k, t)
    BY <1>2, <1>4, <2>4 DEF CandidateOk
  <2>6. ASSUME NEW v \in Q PROVE currentTerm'[v] >= w
    <3>1. Voted(v, i, w)
      BY <1>1, <2>2, <2>3 DEF BackedByDisk
    <3>2. disk[v].term \in Nat /\ currentTerm[v] \in Nat
      <4>1. disk[v] \in Meta
        BY <1>1 DEF IInv, NodeType, VoteType
      <4>. QED
        BY <1>1, <4>1, NodeFields DEF Meta
    <3>3. disk[v].term >= w /\ disk[v].term <= currentTerm[v]
      BY <1>1, <3>1, <3>2 DEF Voted, Persisted
    <3>. QED
      BY <1>4, <3>2, <3>3
  <2>7. Elects(G, R, Q, i, w)
    <3>1. Quorum(InitConfig, Q)
      BY <1>1, <1>7, <2>3, StaticQuorum
    <3>2. ASSUME NEW v \in Q, NEW k \in Nat, NEW t \in Nat, t < w, <<v, k, t>> \in R
          PROVE  Has(G[i], k, t) \/ Blocked(R, k, t)'
      <4>1. Has(G[i], k, t) \/ Blocked(R, k, t)
        BY <2>2, <2>3, <2>5, <3>2
      <4>. QED
        BY <1>1, <4>1, BlockedLater
    <3>. QED
      BY <2>6, <3>1, <3>2 DEF Elects
  <2>. QED
    BY <1>2, <1>3, <1>4, <1>7, <2>1, <2>5, <2>7, WinMoves
<1>. QED
  BY <1>5, <1>6, <1>7

\* Node j follows the leader of w in a step and its whole log becomes l.
Takes(H, G, R, j, w, l) ==
    /\ Elected(w) /\ currentTerm'[j] = w /\ role'[j] = "FOLLOWER"
    /\ UNCHANGED <<history, matchIndex>>
    /\ \A c \in Server : c # j =>
         /\ role'[c] = role[c] /\ currentTerm'[c] = currentTerm[c]
         /\ log'[c] = log[c] /\ snap'[c] = snap[c] /\ commitIndex'[c] = commitIndex[c]
         /\ lastApplied'[c] = lastApplied[c] /\ snapping'[c] = snapping[c]
    /\ Valid(H, l) /\ \A n \in 1..Len(l) : l[n].term <= w
    /\ \A m \in Nat : Agree(G[j], H[w], m) => Agree(l, H[w], m)
    /\ SafeTo(H, R, l, commitIndex'[j], w)
    /\ Parts(l, snap'[j], log'[j]) /\ snap'[j].term = TermOf(l, snap'[j].idx)
    /\ BoundOk(j)'

\* What becomes of the whole logs and the records then.
Taken(G, R, G2, R2, j, w, l) ==
    /\ G2[j] = l /\ \A c \in Server : c # j => G2[c] = G[c]
    /\ R \subseteq R2
    /\ \A v, k, t : <<v, k, t>> \in R2 <=>
         <<v, k, t>> \in R \/ (v = j /\ t = w /\ k \in Nat /\ Has(l, k, w))

\* They exist.
LEMMA TakeGhosts ==
    ASSUME NEW H, NEW G, NEW R, Ghosts(H, G, R), NEW j \in Server, NEW w \in Nat,
           NEW l \in Seq(LogEntry)
    PROVE  \E G2, R2 : Ghosts(H, G2, R2) /\ Taken(G, R, G2, R2, j, w, l)
<1>1. PICK G2 : G2 = [G EXCEPT ![j] = l]
  OBVIOUS
<1>2. PICK K : K = {k \in Nat : Has(l, k, w)}
  OBVIOUS
<1>3. PICK N : N = {<<j, k, w>> : k \in K}
  OBVIOUS
<1>4. PICK R2 : R2 = R \cup N
  OBVIOUS
<1>5. Branches(G2) /\ G2[j] = l /\ \A c \in Server : c # j => G2[c] = G[c]
  BY <1>1 DEF Ghosts, Branches
<1>6. N \subseteq Server \X Nat \X Nat
  BY <1>2, <1>3
<1>7. Records(R2)
  BY <1>4, <1>6 DEF Ghosts, Records
<1>8. ASSUME NEW v, NEW k, NEW t
      PROVE  <<v, k, t>> \in N <=> v = j /\ t = w /\ k \in Nat /\ Has(l, k, w)
  BY <1>2, <1>3
<1>9. Taken(G, R, G2, R2, j, w, l)
  BY <1>4, <1>5, <1>8 DEF Taken
<1>. QED
  BY <1>5, <1>7, <1>9 DEF Ghosts

\* A record of what the log held is true of the new log as well.
LEMMA TakeOld ==
    ASSUME IInv, IInv', TermsGrow, NEW H, NEW G, NEW R, Ghosts(H, G, R), Core(H, G, R),
           NEW j \in Server, NEW w \in Nat, NEW l \in Seq(LogEntry), Takes(H, G, R, j, w, l),
           NEW k \in Nat, NEW t \in Nat, <<j, k, t>> \in R, Has(G[j], k, t)
    PROVE  Has(l, k, t) \/ Blocked(R, k, t)
<1>1. NodeOk(H, G, R, j) /\ Trees(H, R)
  BY DEF Core, Nodes
<1>2. t <= currentTerm[j] /\ Has(H[t], k, t) /\ Valid(H, G[j])
  BY <1>1 DEF NodeOk
<1>3. t <= w
  <2>1. currentTerm[j] \in Nat /\ currentTerm'[j] = w /\ currentTerm'[j] >= currentTerm[j]
    BY NodeFields DEF Takes, TermsGrow
  <2>. QED
    BY <1>2, <2>1
<1>4. Has(H[w], k, t) \/ Blocked(R, k, t)
  <2>1. BranchOk(H, R, w) /\ Elected(w)
    BY <1>1 DEF Trees, Takes
  <2>2. CASE t = w
    BY <1>2, <2>2
  <2>3. CASE t < w
    BY <1>2, <2>1, <2>3 DEF BranchOk
  <2>. QED
    BY <1>3, <2>2, <2>3
<1>5. ASSUME Has(H[w], k, t) PROVE Has(l, k, t)
  <2>1. Valid(H, H[w])
    BY <1>1 DEF Trees, TrunkOk
  <2>2. Agree(G[j], H[w], k)
    BY <1>2, <1>5, <2>1, BothHave
  <2>3. Agree(l, H[w], k) /\ k \in Int
    BY <2>2 DEF Takes
  <2>4. Agree(H[w], l, k)
    BY <2>3, AgreeSym
  <2>5. H[w] \in Seq(LogEntry)
    BY TrunkType DEF Ghosts
  <2>. QED
    BY <1>5, <2>3, <2>4, <2>5, AgreeHas
<1>. QED
  BY <1>4, <1>5

\* The follower after the step.
LEMMA TakeNode ==
    ASSUME IInv, IInv', TermsGrow, NEW H, NEW G, NEW R, Ghosts(H, G, R), Core(H, G, R),
           NEW G2, NEW R2, Ghosts(H, G2, R2),
           NEW j \in Server, NEW w \in Nat, NEW l \in Seq(LogEntry), Takes(H, G, R, j, w, l),
           Taken(G, R, G2, R2, j, w, l), Grows(H, R, H, R2)
    PROVE  ViewOk(G2, j)' /\ NodeOk(H, G2, R2, j)'
<1>1. NodeOk(H, G, R, j) /\ Trunks(H) /\ R \subseteq R2 /\ Ext(H, H)
  BY DEF Core, Nodes, Ghosts, Taken, Grows
<1>2. G2[j] = l /\ currentTerm'[j] = w
  BY DEF Taken, Takes
<1>3. Valid(H, G2[j])
  BY <1>2 DEF Takes
<1>4. ASSUME NEW n \in 1..Len(l)
      PROVE  /\ l[n].term <= w
             /\ l[n].term = w => <<j, n, w>> \in R2
  <2>1. l[n].term <= w
    BY DEF Takes
  <2>2. l[n].term = w => Has(l, n, w) /\ n \in Nat
    BY DEF Has
  <2>3. Has(l, n, w) /\ n \in Nat => <<j, n, w>> \in R2
    BY DEF Taken
  <2>. QED
    BY <2>1, <2>2, <2>3
<1>5. SafeTo(H, R2, l, commitIndex'[j], w)
  <2>1. SafeTo(H, R, l, commitIndex'[j], w)
    BY DEF Takes
  <2>2. commitIndex'[j] \in Nat /\ Len(l) \in Nat
    BY NodeFieldsNext
  <2>3. commitIndex'[j] <= Len(l) => Agree(l, l, commitIndex'[j])
    BY <2>2, AgreeSelf
  <2>. QED
    BY <1>1, <2>1, <2>2, <2>3, SafeStays
<1>6. ASSUME NEW k \in Nat, NEW t \in Nat, <<j, k, t>> \in R, Has(G[j], k, t)
      PROVE  Has(l, k, t) \/ Blocked(R, k, t)
  BY <1>6, TakeOld
<1>7. ASSUME NEW k \in Nat, NEW t \in Nat, <<j, k, t>> \in R2
      PROVE  <<j, k, t>> \in R \/ (t = w /\ Has(l, k, t) /\ Has(H[t], k, t))
  <2>1. <<j, k, t>> \in R \/ (t = w /\ Has(l, k, w))
    BY <1>7 DEF Taken
  <2>2. Has(l, k, w) => Has(H[w], k, w)
    <3>1. ASSUME Has(l, k, w) PROVE Has(H[w], k, w)
      <4>1. Agree(l, H[w], k)
        BY <1>2, <1>3, <3>1, HasAgrees
      <4>2. H[w] \in Seq(LogEntry) /\ k \in Int
        BY TrunkType DEF Ghosts
      <4>. QED
        BY <3>1, <4>1, <4>2, AgreeHas
    <3>. QED
      BY <3>1
  <2>. QED
    BY <2>1, <2>2
<1>8. NodeOk(H, G2, R2, j)'
  BY <1>1, <1>2, <1>3, <1>4, <1>5, <1>6, <1>7, NodeStays
<1>9. ViewOk(G2, j)'
  <2>1. LastIndex(j)' = snap'[j].idx + Len(log'[j])
    BY NodeFieldsNext
  <2>2. Parts(l, snap'[j], log'[j]) /\ snap'[j].term = TermOf(l, snap'[j].idx)
    BY DEF Takes
  <2>3. Len(l) = LastIndex(j)'
    BY <2>1, <2>2 DEF Parts
  <2>4. \A n \in 1..Len(log'[j]) : log'[j][n] = l[snap'[j].idx + n]
    BY <2>2 DEF Parts
  <2>. QED
    BY <1>2, <2>2, <2>3, <2>4 DEF ViewOk
<1>. QED
  BY <1>8, <1>9

\* The invariant after the step, and what the follower may acknowledge.
LEMMA TakeMoves ==
    ASSUME IInv, IInv', TermsGrow, NEW H, NEW G, NEW R, Ghosts(H, G, R), Core(H, G, R),
           NEW j \in Server, NEW w \in Nat, NEW l \in Seq(LogEntry), Takes(H, G, R, j, w, l)
    PROVE  \E G2, R2 :
             /\ Ghosts(H, G2, R2) /\ Move(H, G, R, H, G2, R2) /\ Core(H, G2, R2)'
             /\ \A m \in Nat : Agree(l, H[w], m) => Acked(H, G2, R2, j, m, w)'
<1>1. PICK G2, R2 : Ghosts(H, G2, R2) /\ Taken(G, R, G2, R2, j, w, l)
  BY TakeGhosts
<1>2. /\ Trunks(H) /\ Branches(G) /\ Branches(G2) /\ R \subseteq R2
      /\ G2[j] = l /\ \A c \in Server : c # j => G2[c] = G[c]
  BY <1>1 DEF Ghosts, Taken
<1>3. /\ currentTerm'[j] = w /\ role'[j] = "FOLLOWER" /\ elected' = elected
      /\ decided' = decided /\ matchIndex' = matchIndex
  BY DEF Takes, history
<1>4. ASSUME NEW c \in Server, c # j
      PROVE  /\ role'[c] = role[c] /\ currentTerm'[c] = currentTerm[c]
             /\ log'[c] = log[c] /\ snap'[c] = snap[c] /\ commitIndex'[c] = commitIndex[c]
             /\ lastApplied'[c] = lastApplied[c] /\ snapping'[c] = snapping[c]
  BY <1>4 DEF Takes
<1>5. Ext(H, H)
  <2>1. ASSUME NEW u \in Nat PROVE Agree(H[u], H[u], Len(H[u]))
    <3>1. H[u] \in Seq(LogEntry) /\ Len(H[u]) \in Int
      BY <1>2, TrunkType
    <3>. QED
      BY <3>1, AgreeSelf
  <2>. QED
    BY <2>1 DEF Ext
<1>6. Grows(H, R, H, R2)
  <2>1. ASSUME NEW v \in Server, NEW k \in Nat, NEW t \in Nat, <<v, k, t>> \in R2
        PROVE  <<v, k, t>> \in R \/ t = currentTerm'[v]
    BY <1>1, <1>3, <2>1 DEF Taken
  <2>. QED
    BY <1>2, <1>3, <1>5, <2>1 DEF Grows, TermsGrow
<1>7. Move(H, G, R, H, G2, R2)
  <2>1. ASSUME NEW c \in Server, role'[c] = "CANDIDATE" PROVE G2[c] = G[c]
    BY <1>2, <1>3, <2>1
  <2>2. ASSUME NEW c \in Server, NEW t \in Nat, NEW m \in Nat,
               currentTerm[c] = t, currentTerm'[c] = t, Agree(G[c], H[t], m)
        PROVE  Agree(G2[c], H[t], m)
    <3>1. CASE c # j
      BY <1>2, <2>2, <3>1
    <3>2. CASE c = j
      BY <1>2, <1>3, <2>2, <3>2 DEF Takes
    <3>. QED
      BY <3>1, <3>2
  <2>. QED
    BY <1>6, <2>1, <2>2 DEF Move
<1>8. Trees(H, R2)'
  BY <1>2, <1>3, <1>6, TreesSame DEF Core
<1>9. ASSUME NEW c \in Server PROVE ViewOk(G2, c)' /\ BoundOk(c)' /\ NodeOk(H, G2, R2, c)'
  <2>1. CASE c = j
    BY <1>1, <1>6, <2>1, TakeNode DEF Takes
  <2>2. CASE c # j
    <3>1. ViewOk(G, c) /\ BoundOk(c) /\ NodeOk(H, G, R, c)
      BY DEF Core, Nodes
    <3>2. G2[c] = G[c] /\ log'[c] = log[c] /\ snap'[c] = snap[c] /\ LastIndex(c)' = LastIndex(c)
      BY <1>2, <1>4, <2>2 DEF LastIndex
    <3>3. ViewOk(G2, c)'
      BY <3>1, <3>2 DEF ViewOk
    <3>4. BoundOk(c)'
      BY <1>4, <2>2, <3>1, <3>2 DEF BoundOk
    <3>5. commitIndex'[c] <= commitIndex[c]
      BY <1>4, <2>2, NodeFields
    <3>6. \A k, t \in Nat : <<c, k, t>> \in R2 => <<c, k, t>> \in R
      BY <1>1, <2>2 DEF Taken
    <3>7. NodeOk(H, G2, R2, c)'
      BY <1>2, <1>6, <3>1, <3>2, <3>5, <3>6, NodeSame
    <3>. QED
      BY <3>3, <3>4, <3>7
  <2>. QED
    BY <2>1, <2>2
<1>10. ASSUME NEW c \in Server PROVE LeaderOk(H, G2, R2, c)'
  <2>1. CASE c = j
    BY <1>3, <2>1 DEF LeaderOk
  <2>2. CASE c # j
    <3>1. LeaderOk(H, G, R, c) /\ G2[c] = G[c]
      BY <1>2, <2>2 DEF Core
    <3>2. role'[c] = "LEADER" => role[c] = "LEADER" /\ currentTerm'[c] = currentTerm[c]
      BY <1>4, <2>2
    <3>3. \A d \in Server : matchIndex'[c][d] \in {matchIndex[c][d], 0}
      BY <1>3
    <3>. QED
      BY <1>2, <1>7, <3>1, <3>2, <3>3, LeaderStays
  <2>. QED
    BY <2>1, <2>2
<1>11. \A p \in elected' : p[1] <= currentTerm'[p[2]]
  BY <1>3, ElectedBound DEF Core
<1>12. ASSUME NEW n \in DOMAIN decided' PROVE DecidedOk(H, R2, n)'
  <2>1. n \in DOMAIN decided /\ DecidedOk(H, R, n) /\ \A m \in 1..n : decided'[m] = decided[m]
    BY <1>3 DEF Core
  <2>. QED
    BY <1>2, <1>5, <2>1, DecidedStays
<1>13. Core(H, G2, R2)'
  <2>1. Nodes(H, G2, R2)'
    BY <1>9 DEF Nodes
  <2>. QED
    BY <1>8, <1>10, <1>11, <1>12, <2>1 DEF Core
<1>14. ASSUME NEW m \in Nat, Agree(l, H[w], m) PROVE Acked(H, G2, R2, j, m, w)'
  <2>1. m <= Len(H[w])
    BY <1>14 DEF Agree
  <2>2. ASSUME NEW k \in 1..m, Has(H[w], k, w) PROVE <<j, k, w>> \in R2
    <3>1. Agree(H[w], l, m)
      BY <1>14, AgreeSym
    <3>2. H[w] \in Seq(LogEntry) /\ m \in Int /\ k <= m /\ k \in Nat
      BY <1>2, TrunkType
    <3>3. Has(l, k, w)
      BY <2>2, <3>1, <3>2, AgreeHas
    <3>. QED
      BY <1>1, <3>2, <3>3 DEF Taken
  <2>. QED
    BY <1>2, <1>3, <1>14, <2>1, <2>2 DEF Acked
<1>. QED
  BY <1>1, <1>7, <1>13, <1>14

\* Up to where a follower's log has the terms of an AppendEntries request.
LEMMA KeepToMatches ==
    ASSUME LogType, NEW j \in Server, NEW q \in Request, q.type = "append",
           q.prev <= LastIndex(j), NEW keep \in Nat, keep = KeepTo(j, q),
           NEW end \in Nat, end = q.prev + Len(q.entries)
    PROVE  /\ \A n \in Nat : n > q.prev /\ n > snap[j].idx /\ n <= keep /\ n <= end =>
                TermAt(j, n) = q.entries[n - q.prev].term
           /\ keep >= end => keep = LastIndex(j)
           /\ \/ keep = LastIndex(j)
              \/ TermAt(j, keep + 1) # q.entries[(keep + 1) - q.prev].term
<1>1. PICK p \in Nat, s \in Nat, L \in Nat :
        p = q.prev /\ s = snap[j].idx /\ L = LastIndex(j) /\ s <= L /\ p <= L /\ p <= end
  <2>1. /\ LastIndex(j) \in Nat /\ snap[j].idx \in Nat /\ snap[j].idx <= LastIndex(j)
        /\ q.prev \in Nat
    BY TermType, RequestFields
  <2>2. Len(q.entries) \in Nat
    <3>1. q.entries \in Seq(LogEntry)
      BY RequestFields
    <3>. QED
      BY <3>1
  <2>. QED
    BY <2>1, <2>2
<1>2. PICK first \in Nat : first = Max({q.prev, snap[j].idx}) + 1 /\ first > p /\ first > s
                           /\ \A n \in Nat : n > p /\ n > s => n >= first
  <2>1. Max({p, s}) = IF p >= s THEN p ELSE s
    BY MaxPair
  <2>. QED
    BY <1>1, <2>1
<1>3. PICK last \in Nat : last = Min({LastIndex(j), q.prev + Len(q.entries)}) /\ last <= L
                          /\ last <= end /\ \A n \in Nat : n <= L /\ n <= end => n <= last
  <2>1. Min({L, end}) = IF L <= end THEN L ELSE end
    BY MinPair
  <2>. QED
    BY <1>1, <2>1
<1>4. PICK clash : clash = {n \in first..last : TermAt(j, n) # q.entries[n - q.prev].term}
  OBVIOUS
<1>5. keep = IF clash = {} THEN L ELSE Min(clash) - 1
  BY <1>1, <1>2, <1>3, <1>4 DEF KeepTo
<1>6. clash \in SUBSET Nat
  BY <1>4
<1>7. CASE clash = {}
  <2>1. keep = L
    BY <1>5, <1>7
  <2>2. ASSUME NEW n \in Nat, n > q.prev, n > snap[j].idx, n <= keep, n <= end
        PROVE  TermAt(j, n) = q.entries[n - q.prev].term
    <3>1. n > p /\ n > s /\ n <= L
      BY <1>1, <2>1, <2>2
    <3>2. n >= first /\ n <= last
      BY <1>2, <1>3, <2>2, <3>1
    <3>3. n \in first..last
      BY <3>2
    <3>. QED
      BY <1>4, <1>7, <3>3
  <2>. QED
    BY <1>1, <2>1, <2>2
<1>8. CASE clash # {}
  <2>1. PICK c \in Nat : c = Min(clash) /\ c \in clash /\ \A n \in clash : c <= n
    BY <1>6, <1>8, MinExists
  <2>2. keep + 1 = c
    BY <1>5, <1>8, <2>1
  <2>3. c \in first..last /\ TermAt(j, c) # q.entries[c - q.prev].term
    BY <1>4, <2>1
  <2>4. ASSUME NEW n \in Nat, n > q.prev, n > snap[j].idx, n <= keep, n <= end
        PROVE  TermAt(j, n) = q.entries[n - q.prev].term
    <3>3. n > p /\ n > s
      BY <1>1, <2>4
    <3>7. n >= first
      BY <1>2, <3>3
    <3>8. n <= keep /\ keep + 1 = c
      BY <2>2, <2>4
    <3>9. ~(c <= n)
      BY <3>8
    <3>4. n >= first /\ ~(c <= n)
      BY <3>7, <3>9
    <3>5. c <= last
      BY <2>3
    <3>6. n <= last
      BY <3>4, <3>5
    <3>1. n \in first..last /\ ~(c <= n)
      BY <3>4, <3>6
    <3>2. n \notin clash
      BY <2>1, <3>1
    <3>. QED
      BY <1>4, <3>1, <3>2
  <2>5. c <= last
    BY <2>3
  <2>6. ~(keep >= end)
    BY <1>3, <2>2, <2>5
  <2>7. TermAt(j, keep + 1) # q.entries[(keep + 1) - q.prev].term
    BY <2>2, <2>3
  <2>. QED
    BY <2>4, <2>6, <2>7
<1>. QED
  BY <1>7, <1>8

\* Node j accepts a request of the leader of w, and no other node changes.
Heard(j, w) ==
    /\ HearLeader(j, w) /\ Elected(w) /\ w >= currentTerm[j]
    /\ UNCHANGED <<machine, matchIndex, history>>
    /\ \A c \in Server : c # j =>
         log'[c] = log[c] /\ snap'[c] = snap[c] /\ commitIndex'[c] = commitIndex[c]

\* What the log l it then has must be.
NewLog(H, G, R, j, w, l) ==
    /\ Valid(H, l) /\ \A n \in 1..Len(l) : l[n].term <= w
    /\ \A m \in Nat : Agree(G[j], H[w], m) => Agree(l, H[w], m)
    /\ SafeTo(H, R, l, commitIndex'[j], w)
    /\ Parts(l, snap'[j], log'[j]) /\ snap'[j].term = TermOf(l, snap'[j].idx)
    /\ BoundOk(j)'

\* That is all it takes.
LEMMA HeardTakes ==
    ASSUME IInv, IInv', NEW H, NEW G, NEW R, NEW j \in Server, NEW w \in Nat,
           Heard(j, w), NEW l, NewLog(H, G, R, j, w, l)
    PROVE  Takes(H, G, R, j, w, l)
<1>1. StepDown(j, w) /\ Elected(w) /\ w >= currentTerm[j]
  BY DEF Heard, HearLeader
<1>2. role'[j] = "FOLLOWER" /\ \A c \in Server : c # j =>
        role'[c] = role[c] /\ currentTerm'[c] = currentTerm[c]
  BY <1>1, StepDownRole
<1>3. currentTerm'[j] = w
  <2>1. currentTerm[j] \in Nat /\ currentTerm \in [Server -> Nat]
    BY NodeFields DEF IInv, NodeType, VoteType
  <2>2. CASE w > currentTerm[j]
    BY <1>1, <2>1, <2>2 DEF StepDown
  <2>3. CASE w = currentTerm[j]
    BY <1>1, <2>1, <2>3 DEF StepDown, durable
  <2>. QED
    BY <1>1, <2>1, <2>2, <2>3
<1>4. /\ lastApplied' = lastApplied /\ snapping' = snapping /\ matchIndex' = matchIndex
      /\ UNCHANGED history
      /\ \A c \in Server : c # j =>
           log'[c] = log[c] /\ snap'[c] = snap[c] /\ commitIndex'[c] = commitIndex[c]
  BY DEF Heard, machine
<1>5. /\ UNCHANGED <<history, matchIndex>>
      /\ \A c \in Server : c # j =>
           /\ role'[c] = role[c] /\ currentTerm'[c] = currentTerm[c]
           /\ log'[c] = log[c] /\ snap'[c] = snap[c] /\ commitIndex'[c] = commitIndex[c]
           /\ lastApplied'[c] = lastApplied[c] /\ snapping'[c] = snapping[c]
  BY <1>2, <1>4
<1>. QED
  BY <1>1, <1>2, <1>3, <1>5 DEF Takes, NewLog

\* What the invariant says of a node and the leader it hears.
LEMMA NodeKnows ==
    ASSUME IInv, NEW H, NEW G, NEW R, Ghosts(H, G, R), Core(H, G, R),
           NEW j \in Server, NEW w \in Nat, Elected(w), w >= currentTerm[j]
    PROVE  /\ Agree(G[j], H[w], commitIndex[j])
           /\ SafeTo(H, R, G[j], commitIndex[j], currentTerm[j])
           /\ Valid(H, G[j]) /\ Valid(H, H[w]) /\ ViewOk(G, j) /\ BoundOk(j)
           /\ \A n \in 1..Len(G[j]) : G[j][n].term <= currentTerm[j]
           /\ \A n \in 1..Len(H[w]) : H[w][n].term <= w
           /\ Trunks(H) /\ Branches(G) /\ Trees(H, R)
           /\ G[j] \in Seq(LogEntry) /\ H[w] \in Seq(LogEntry)
           /\ Len(G[j]) = LastIndex(j)
<1>1. ViewOk(G, j) /\ BoundOk(j) /\ NodeOk(H, G, R, j) /\ Trees(H, R)
  BY DEF Core, Nodes
<1>2. Trunks(H) /\ Branches(G) /\ G[j] \in Seq(LogEntry) /\ H[w] \in Seq(LogEntry)
  <2>1. Trunks(H) /\ Branches(G)
    BY DEF Ghosts
  <2>. QED
    BY <2>1, TrunkType DEF Branches
<1>3. /\ SafeTo(H, R, G[j], commitIndex[j], currentTerm[j]) /\ Valid(H, G[j])
      /\ \A n \in 1..Len(G[j]) : G[j][n].term <= currentTerm[j]
  BY <1>1 DEF NodeOk
<1>4. Valid(H, H[w]) /\ \A n \in 1..Len(H[w]) : H[w][n].term <= w
  BY <1>1 DEF Trees, TrunkOk
<1>5. Agree(G[j], H[w], commitIndex[j])
  <2>1. commitIndex[j] \in Nat /\ currentTerm[j] \in Nat /\ currentTerm[j] <= w
    BY NodeFields
  <2>. QED
    BY <1>1, <1>2, <1>3, <2>1, NodeAgrees DEF Trees
<1>. QED
  BY <1>1, <1>2, <1>3, <1>4, <1>5 DEF ViewOk

\* The commit index is known, or what the leader's request makes of it.
LEMMA CommitSafe ==
    ASSUME IInv, NEW H, NEW G, NEW R, Ghosts(H, G, R), Core(H, G, R),
           NEW j \in Server, NEW w \in Nat, Elected(w), w >= currentTerm[j],
           NEW l \in Seq(LogEntry), \A m \in Nat : Agree(G[j], H[w], m) => Agree(l, H[w], m),
           NEW c \in Nat,
           \/ c = commitIndex[j]
           \/ \E n \in Nat : c <= n /\ SafeTo(H, R, H[w], n, w) /\ Agree(l, H[w], c)
    PROVE  SafeTo(H, R, l, c, w) /\ c <= Len(l)
<1>1. /\ Agree(G[j], H[w], commitIndex[j]) /\ SafeTo(H, R, G[j], commitIndex[j], currentTerm[j])
      /\ Trunks(H) /\ Trees(H, R) /\ G[j] \in Seq(LogEntry) /\ H[w] \in Seq(LogEntry)
  BY NodeKnows
<1>2. commitIndex[j] \in Nat /\ currentTerm[j] \in Nat /\ currentTerm[j] <= w
  BY NodeFields
<1>3. CASE c = commitIndex[j]
  <2>1. Agree(l, H[w], c)
    BY <1>1, <1>2, <1>3
  <2>2. c <= commitIndex[j]
    BY <1>2, <1>3
  <2>3. SafeTo(H, R, l, c, w)
    BY <1>1, <1>2, <2>1, <2>2, SafeVia
  <2>. QED
    BY <2>1, <2>3 DEF Agree
<1>4. CASE \E n \in Nat : c <= n /\ SafeTo(H, R, H[w], n, w) /\ Agree(l, H[w], c)
  <2>1. PICK n \in Nat : c <= n /\ SafeTo(H, R, H[w], n, w) /\ Agree(l, H[w], c)
    BY <1>4
  <2>2. w <= w
    OBVIOUS
  <2>3. SafeTo(H, R, l, c, w)
    BY <1>1, <2>1, <2>2, SafeVia
  <2>. QED
    BY <2>1, <2>3 DEF Agree
<1>. QED
  BY <1>3, <1>4

\* A request that changes neither log nor commit index.
LEMMA HeardSame ==
    ASSUME IInv, IInv', NEW H, NEW G, NEW R, Ghosts(H, G, R), Core(H, G, R),
           NEW j \in Server, NEW w \in Nat, Heard(j, w),
           log'[j] = log[j], snap'[j] = snap[j], commitIndex'[j] = commitIndex[j]
    PROVE  Takes(H, G, R, j, w, G[j])
<1>1. Elected(w) /\ w >= currentTerm[j] /\ lastApplied' = lastApplied /\ snapping' = snapping
  BY DEF Heard, machine
<1>2. /\ Valid(H, G[j]) /\ ViewOk(G, j) /\ BoundOk(j) /\ G[j] \in Seq(LogEntry)
      /\ Len(G[j]) = LastIndex(j)
      /\ \A n \in 1..Len(G[j]) : G[j][n].term <= currentTerm[j]
  BY <1>1, NodeKnows
<1>3. /\ currentTerm[j] \in Nat /\ commitIndex[j] \in Nat /\ Len(G[j]) \in Nat
      /\ LastIndex(j) = snap[j].idx + Len(log[j])
  BY <1>2, NodeFields
<1>4. SafeTo(H, R, G[j], commitIndex'[j], w)
  BY <1>1, <1>2, <1>3, CommitSafe
<1>5. \A n \in 1..Len(G[j]) : G[j][n].term <= w
  <2>1. ASSUME NEW n \in 1..Len(G[j]) PROVE G[j][n].term <= w
    <3>1. G[j][n].term <= currentTerm[j] /\ G[j][n].term \in Nat
      BY <1>2, EntryTerm
    <3>. QED
      BY <1>1, <1>3, <3>1
  <2>. QED
    BY <2>1
<1>6. Parts(G[j], snap'[j], log'[j])
  <2>1. \A n \in 1..Len(log[j]) : log[j][n] = G[j][snap[j].idx + n]
    BY <1>2 DEF ViewOk
  <2>. QED
    BY <1>2, <1>3, <2>1 DEF Parts
<1>7. snap'[j].term = TermOf(G[j], snap'[j].idx)
  BY <1>2 DEF ViewOk
<1>8. BoundOk(j)'
  <2>1. LastIndex(j)' = LastIndex(j)
    BY DEF LastIndex
  <2>. QED
    BY <1>1, <1>2, <2>1 DEF BoundOk
<1>9. NewLog(H, G, R, j, w, G[j])
  BY <1>2, <1>4, <1>5, <1>6, <1>7, <1>8 DEF NewLog
<1>. QED
  BY <1>9, HeardTakes

\* Valid logs with the same term at the same index begin alike.
LEMMA TermsAgree ==
    ASSUME NEW H, NEW l, NEW m, Valid(H, l), Valid(H, m), NEW n \in Nat, n > 0,
           n <= Len(l), n <= Len(m), Len(l) \in Nat, Len(m) \in Nat, TermOf(l, n) = TermOf(m, n)
    PROVE  Agree(l, m, n)
<1>1. PICK t : t = l[n].term
  OBVIOUS
<1>2. Has(l, n, t) /\ Has(m, n, t)
  BY <1>1 DEF Has, TermOf
<1>. QED
  BY <1>2, BothHave

\* An AppendEntries request q, true of its leader's log, whose prev entry matches: j keeps
\* the entries up to keep, and end is the last entry of q.
Merging(H, R, j, q, w, keep, end) ==
    /\ q.type = "append" /\ RequestOk(H, R, q) /\ w = q.term /\ w >= currentTerm[j]
    /\ keep = KeepTo(j, q) /\ end = q.prev + Len(q.entries)
    /\ q.prev <= LastIndex(j) /\ PrevMatches(j, q)
    /\ ~(q.prev < snap[j].idx /\ end <= snap[j].idx)

\* The numbers of such a request: p its prev index, s the snapshot's, L the last one.
Merged(H, j, q, w, keep, end, p, s, L) ==
    /\ p = q.prev /\ s = snap[j].idx /\ L = LastIndex(j)
    /\ s <= L /\ p <= L /\ p <= end /\ s <= end
    /\ keep \in Nat /\ end \in Nat /\ p <= keep /\ s <= keep /\ keep <= L
    /\ Elected(w) /\ end <= Len(H[w]) /\ q.entries \in Seq(LogEntry)
    /\ Len(q.entries) = end - p
    /\ \A n \in Nat : n > p /\ n <= end => q.entries[n - p] = H[w][n]

\* They are in this order.
LEMMA MergeFields ==
    ASSUME IInv, NEW H, Trunks(H), NEW R, NEW j \in Server, NEW q \in Request, NEW w \in Nat,
           NEW keep, NEW end, Merging(H, R, j, q, w, keep, end)
    PROVE  \E p \in Nat, s \in Nat, L \in Nat : Merged(H, j, q, w, keep, end, p, s, L)
<1>1. /\ q.type = "append" /\ q.term = w /\ keep = KeepTo(j, q) /\ end = q.prev + Len(q.entries)
      /\ q.prev <= LastIndex(j) /\ ~(q.prev < snap[j].idx /\ end <= snap[j].idx)
      /\ RequestOk(H, R, q)
  BY DEF Merging
<1>2. PICK p \in Nat, s \in Nat, L \in Nat : p = q.prev /\ s = snap[j].idx /\ L = LastIndex(j)
  BY <1>1, RequestFields, NodeFields
<1>3. q.entries \in Seq(LogEntry) /\ Len(q.entries) \in Nat
  <2>1. q.entries \in Seq(LogEntry)
    BY <1>1, RequestFields
  <2>. QED
    BY <2>1
<1>4. keep \in Nat /\ p <= keep /\ s <= keep /\ keep <= L
  BY <1>1, <1>2, KeepToBound DEF IInv, NodeType
<1>5. s <= L
  BY <1>2, <1>4
<1>6. end \in Nat /\ p <= end /\ Len(q.entries) = end - p
  BY <1>1, <1>2, <1>3
<1>7. p <= L /\ s <= end
  BY <1>1, <1>2, <1>6
<1>8. /\ Elected(w) /\ end <= Len(H[w])
      /\ \A n \in 1..Len(q.entries) : q.entries[n] = H[w][q.prev + n]
  BY <1>1 DEF RequestOk
<1>9. ASSUME NEW n \in Nat, n > p, n <= end PROVE q.entries[n - p] = H[w][n]
  <2>1. PICK d \in Nat : d = n - p
    BY <1>9
  <2>2. d \in 1..Len(q.entries) /\ p + d = n
    BY <1>6, <1>9, <2>1
  <2>3. q.entries[d] = H[w][p + d]
    BY <1>2, <1>8, <2>2
  <2>. QED
    BY <2>1, <2>2, <2>3
<1>. QED
  BY <1>2, <1>3, <1>4, <1>5, <1>6, <1>7, <1>8, <1>9 DEF Merged

\* The log and the leader's agree on what the follower keeps.
LEMMA MergeAgrees ==
    ASSUME IInv, NEW H, NEW G, NEW R, Ghosts(H, G, R), Core(H, G, R),
           NEW j \in Server, NEW q \in Request, NEW w \in Nat,
           NEW keep \in Nat, NEW end \in Nat, Merging(H, R, j, q, w, keep, end)
    PROVE  /\ \A m \in Nat : m <= keep /\ m <= end => Agree(G[j], H[w], m)
           /\ keep < end => \A m \in Nat : Agree(G[j], H[w], m) => m <= keep
           /\ Agree(G[j], H[w], commitIndex[j])
<1>0. Trunks(H)
  BY DEF Ghosts
<1>20. PICK p \in Nat, s \in Nat, L \in Nat : Merged(H, j, q, w, keep, end, p, s, L)
  BY <1>0, MergeFields
<1>1. /\ p = q.prev /\ s = snap[j].idx /\ L = LastIndex(j)
      /\ s <= L /\ p <= L /\ p <= end /\ s <= end
      /\ keep \in Nat /\ end \in Nat /\ p <= keep /\ s <= keep /\ keep <= L
      /\ Elected(w) /\ end <= Len(H[w]) /\ q.entries \in Seq(LogEntry)
      /\ Len(q.entries) = end - p
      /\ \A n \in Nat : n > p /\ n <= end => q.entries[n - p] = H[w][n]
  BY <1>20 DEF Merged
<1>2. /\ q.type = "append" /\ q.term = w /\ keep = KeepTo(j, q) /\ end = q.prev + Len(q.entries)
      /\ q.prev <= LastIndex(j) /\ PrevMatches(j, q) /\ w >= currentTerm[j]
      /\ q.prevTerm = TermOf(H[w], q.prev)
  BY DEF Merging, RequestOk
<1>3. /\ Agree(G[j], H[w], commitIndex[j]) /\ Valid(H, G[j]) /\ Valid(H, H[w])
      /\ ViewOk(G, j) /\ BoundOk(j) /\ Len(G[j]) = L
      /\ G[j] \in Seq(LogEntry) /\ H[w] \in Seq(LogEntry)
  BY SMTT(30), <1>1, <1>2, NodeKnows
<1>4. PICK g \in Nat, h \in Nat : g = Len(G[j]) /\ h = Len(H[w]) /\ g = L /\ end <= h
  BY <1>1, <1>3
<1>5. ASSUME NEW n \in Nat, s <= n, n <= L PROVE TermAt(j, n) = TermOf(G[j], n)
  BY <1>1, <1>3, <1>5, ViewTerm
<1>6. ASSUME NEW n \in Nat, n > 0, n <= L, n <= end, TermOf(G[j], n) = TermOf(H[w], n)
      PROVE  Agree(G[j], H[w], n)
  <2>1. n <= Len(G[j]) /\ n <= Len(H[w]) /\ Len(G[j]) \in Nat /\ Len(H[w]) \in Nat
    BY <1>4, <1>6
  <2>. QED
    BY <1>3, <1>6, <2>1, TermsAgree
<1>7. PICK b \in Nat : /\ Agree(G[j], H[w], b) /\ b >= p /\ b >= s
                       /\ b = p \/ b = s
  <2>1. CASE p < s
    <3>1. s <= commitIndex[j] /\ commitIndex[j] \in Nat
      BY <1>1, <1>3, NodeFields DEF BoundOk
    <3>2. Agree(G[j], H[w], s)
      BY <1>3, <1>4, <3>1, AgreeLess
    <3>. QED
      BY <2>1, <3>2
  <2>2. CASE p >= s
    <3>1. CASE p = 0
      <4>1. Agree(G[j], H[w], p)
        BY <1>4, <3>1 DEF Agree
      <4>. QED
        BY <2>2, <4>1
    <3>2. CASE p > 0
      <4>1. TermAt(j, p) = TermOf(H[w], p)
        BY <1>1, <1>2, <2>2 DEF PrevMatches
      <4>2. TermOf(G[j], p) = TermOf(H[w], p)
        BY <1>1, <1>5, <2>2, <4>1
      <4>3. Agree(G[j], H[w], p)
        BY <1>1, <1>6, <3>2, <4>2
      <4>. QED
        BY <2>2, <4>3
    <3>. QED
      BY <3>1, <3>2
  <2>. QED
    BY <2>1, <2>2
<1>8. ASSUME NEW n \in Nat, n > b, n <= keep, n <= end PROVE Agree(G[j], H[w], n)
  <2>1. n > p /\ n > s /\ n <= L /\ n > 0
    BY SMTT(30), <1>1, <1>7, <1>8
  <2>2. TermAt(j, n) = q.entries[n - p].term
    BY SMTT(30), <1>1, <1>2, <1>8, <2>1, KeepToMatches DEF IInv, NodeType
  <2>3. q.entries[n - p] = H[w][n]
    BY <1>1, <1>8, <2>1
  <2>4. TermAt(j, n) = TermOf(G[j], n)
    BY <1>5, <2>1
  <2>5. TermOf(G[j], n) = TermOf(H[w], n)
    BY <2>1, <2>2, <2>3, <2>4 DEF TermOf
  <2>. QED
    BY <1>6, <1>8, <2>1, <2>5
<1>9. ASSUME NEW m \in Nat, m <= keep, m <= end PROVE Agree(G[j], H[w], m)
  <2>1. CASE m <= b
    BY <1>4, <1>7, <2>1, AgreeLess
  <2>2. CASE m > b
    BY <1>8, <1>9, <2>2
  <2>. QED
    BY <2>1, <2>2
<1>10. ASSUME keep < end, NEW m \in Nat, Agree(G[j], H[w], m), m > keep PROVE FALSE
  <2>1. PICK n \in Nat : n = keep + 1
    OBVIOUS
  <2>2. m <= L
    BY <1>4, <1>10 DEF Agree
  <2>3. keep # L
    BY <1>10, <2>2
  <2>4. TermAt(j, n) # q.entries[n - p].term
    BY <1>1, <1>2, <2>1, <2>3, KeepToMatches DEF IInv, NodeType
  <2>5. n > p /\ n <= end /\ n >= s /\ n <= L /\ n > 0 /\ n <= m
    BY <1>1, <1>10, <2>1, <2>2
  <2>6. q.entries[n - p] = H[w][n]
    BY <1>1, <2>5
  <2>7. TermAt(j, n) = TermOf(G[j], n)
    BY <1>5, <2>5
  <2>8. TermOf(G[j], n) = TermOf(H[w], n)
    BY <1>10, <2>5, AgreeTerm
  <2>9. TermOf(H[w], n) = H[w][n].term
    BY <2>5 DEF TermOf
  <2>. QED
    BY <2>4, <2>6, <2>7, <2>8, <2>9
<1>. QED
  BY <1>3, <1>9, <1>10

\* The beginning of a sequence.
LEMMA FrontOf ==
    ASSUME NEW S, NEW x \in Seq(S), NEW n \in Nat, n <= Len(x)
    PROVE  /\ SubSeq(x, 1, n) \in Seq(S) /\ Len(SubSeq(x, 1, n)) = n
           /\ \A k \in 1..n : SubSeq(x, 1, n)[k] = x[k]
<1>1. \A k \in 1..n : x[k] \in S
  OBVIOUS
<1>2. PICK one \in Int : one = 1
  OBVIOUS
<1>3. \A k \in one..n : x[k] \in S
  BY <1>1, <1>2
<1>4. /\ SubSeq(x, one, n) \in Seq(S)
      /\ Len(SubSeq(x, one, n)) = IF one <= n THEN n - one + 1 ELSE 0
      /\ \A k \in 1..(n - one + 1) : SubSeq(x, one, n)[k] = x[one + k - 1]
  BY <1>3, SubSeqProperties
<1>5. /\ n - one + 1 = n /\ (IF one <= n THEN n - one + 1 ELSE 0) = n
      /\ \A k \in 1..n : one + k - 1 = k
  BY <1>2
<1>6. \A k \in 1..n : SubSeq(x, one, n)[k] = x[k]
  BY <1>4, <1>5
<1>. QED
  BY <1>2, <1>4, <1>5, <1>6

\* The elements of the merged log.
LEMMA MergedLog ==
    ASSUME NEW S, NEW x \in Seq(S), NEW e \in Seq(S), NEW s \in Nat, NEW p \in Nat,
           NEW keep \in Nat, NEW end \in Nat, s <= keep, p <= keep, keep <= s + Len(x),
           p <= end, Len(e) = end - p,
           NEW m, m = SubSeq(x, 1, keep - s) \o SubSeq(e, (keep - p) + 1, Len(e))
    PROVE  /\ keep >= end => Len(m) = keep - s
           /\ keep < end => Len(m) = end - s
           /\ \A n \in 1..(keep - s) : m[n] = x[n]
           /\ \A n \in Nat : n > keep /\ n <= end => m[n - s] = e[n - p]
<1>1. Len(x) \in Nat /\ Len(e) \in Nat
  OBVIOUS
<1>2. PICK u \in Nat : u = keep - s
  OBVIOUS
<1>3. PICK v \in Nat : v = (keep - p) + 1 /\ v >= 1
  OBVIOUS
<1>4. PICK d \in Nat : d = Len(e)
  BY <1>1
<1>5. PICK a : a = SubSeq(x, 1, u)
  OBVIOUS
<1>6. PICK b : b = SubSeq(e, v, d)
  OBVIOUS
<1>7. m = a \o b
  BY <1>2, <1>3, <1>4, <1>5, <1>6
<1>8. a \in Seq(S) /\ Len(a) = u /\ \A n \in 1..u : a[n] = x[n]
  <2>1. u <= Len(x)
    BY <1>1, <1>2
  <2>. QED
    BY <1>5, <2>1, FrontOf
<1>9. /\ b \in Seq(S) /\ Len(b) = IF v <= d THEN (d - v) + 1 ELSE 0
      /\ \A n \in 1..((d - v) + 1) : b[n] = e[(v + n) - 1]
  <2>1. \A n \in v..d : e[n] \in S
    BY <1>3, <1>4
  <2>. QED
    BY <1>6, <2>1, SubSeqProperties
<1>10. /\ DOMAIN m = 1..(Len(a) + Len(b))
       /\ \A n \in 1..Len(a) : m[n] = a[n]
       /\ \A n \in 1..Len(b) : m[Len(a) + n] = b[n]
  <2>1. a \in Seq(S) /\ b \in Seq(S)
    BY <1>8, <1>9
  <2>2. /\ DOMAIN (a \o b) = 1..(Len(a) + Len(b))
        /\ \A n \in 1..Len(a) : (a \o b)[n] = a[n]
        /\ \A n \in 1..Len(b) : (a \o b)[Len(a) + n] = b[n]
    BY <2>1, ConcatParts
  <2>. QED
    BY <1>7, <2>2
<1>11. Len(m) = Len(a) + Len(b)
  <2>1. m \in Seq(S) /\ Len(b) \in Nat
    BY SMTT(30), <1>7, <1>8, <1>9
  <2>. QED
    BY <1>8, <1>10, <2>1
<1>12. keep >= end => Len(m) = keep - s
  <2>1. ASSUME keep >= end PROVE ~(v <= d)
    BY <1>3, <1>4, <2>1
  <2>. QED
    BY <1>2, <1>8, <1>9, <1>11, <2>1
<1>13. keep < end => Len(m) = end - s
  <2>1. ASSUME keep < end PROVE v <= d /\ u + ((d - v) + 1) = end - s
    BY <1>2, <1>3, <1>4, <2>1
  <2>. QED
    BY <1>8, <1>9, <1>11, <2>1
<1>14. \A n \in 1..(keep - s) : m[n] = x[n]
  BY <1>2, <1>8, <1>10
<1>15. ASSUME NEW n \in Nat, n > keep, n <= end PROVE m[n - s] = e[n - p]
  <2>1. PICK k \in Nat : k = n - keep
    BY <1>15
  <2>2. v <= d /\ k \in 1..((d - v) + 1) /\ u + k = n - s /\ (v + k) - 1 = n - p
    BY <1>2, <1>3, <1>4, <1>15, <2>1
  <2>3. k \in 1..Len(b)
    BY <1>9, <2>2
  <2>4. m[u + k] = b[k] /\ b[k] = e[(v + k) - 1]
    BY <1>8, <1>9, <1>10, <2>2, <2>3
  <2>. QED
    BY <2>2, <2>4
<1>. QED
  BY <1>12, <1>13, <1>14, <1>15

\* A prefix as a sequence.
LEMMA PrefixOf ==
    ASSUME NEW h \in Seq(LogEntry), NEW n \in Nat, n <= Len(h)
    PROVE  \E l \in Seq(LogEntry) : /\ Len(l) = n /\ \A k \in 1..n : l[k] = h[k]
                                    /\ Agree(l, h, n)
<1>1. PICK l : l = SubSeq(h, 1, n)
  OBVIOUS
<1>2. \A k \in 1..n : h[k] \in LogEntry
  OBVIOUS
<1>3. l \in Seq(LogEntry) /\ Len(l) = n /\ \A k \in 1..n : l[k] = h[k]
  <2>1. /\ SubSeq(h, 1, n) \in Seq(LogEntry)
        /\ Len(SubSeq(h, 1, n)) = IF 1 <= n THEN n - 1 + 1 ELSE 0
        /\ \A k \in 1..(n - 1 + 1) : SubSeq(h, 1, n)[k] = h[1 + k - 1]
    BY <1>2, SubSeqProperties
  <2>. QED
    BY <1>1, <2>1
<1>4. Agree(l, h, n)
  BY <1>3 DEF Agree
<1>. QED
  BY <1>3, <1>4

\* A leader's log cut at n: what the follower had of it up to n it still has.
CutAt(H, g, w, n, l) ==
    /\ Len(l) = n /\ \A k \in 1..n : l[k] = H[w][k]
    /\ Agree(l, H[w], n) /\ Valid(H, l)
    /\ \A k \in 1..Len(l) : l[k].term <= w
    /\ \A m \in Nat : Agree(g, H[w], m) => Agree(l, H[w], m)

\* It exists, when the follower had nothing of it after n.
LEMMA LeaderPrefix ==
    ASSUME NEW H, NEW R, Trunks(H), Trees(H, R), NEW w \in Nat, NEW n \in Nat, n <= Len(H[w]), NEW g,
           \A m \in Nat : Agree(g, H[w], m) => m <= n
    PROVE  \E l \in Seq(LogEntry) : CutAt(H, g, w, n, l)
<1>1. H[w] \in Seq(LogEntry) /\ Valid(H, H[w]) /\ \A k \in 1..Len(H[w]) : H[w][k].term <= w
  BY TrunkType DEF Trees, TrunkOk
<1>2. PICK l \in Seq(LogEntry) : /\ Len(l) = n /\ \A k \in 1..n : l[k] = H[w][k]
                                 /\ Agree(l, H[w], n)
  BY <1>1, PrefixOf
<1>3. Valid(H, l)
  BY <1>1, <1>2, PrefixValid
<1>4. \A k \in 1..Len(l) : l[k].term <= w
  <2>1. Len(H[w]) \in Nat
    BY <1>1
  <2>2. \A k \in 1..n : k \in 1..Len(H[w])
    BY <2>1
  <2>. QED
    BY <1>1, <1>2, <2>2
<1>5. ASSUME NEW m \in Nat, Agree(g, H[w], m) PROVE Agree(l, H[w], m)
  <2>1. m <= n /\ Len(l) \in Nat /\ Len(H[w]) \in Nat
    BY <1>1, <1>5
  <2>. QED
    BY <1>2, <2>1, AgreeLess
<1>. QED
  BY <1>2, <1>3, <1>4, <1>5 DEF CutAt

\* What handle_append_entries makes of the log.
Merges(j, q, keep) ==
    /\ snap'[j] = snap[j]
    /\ log'[j] = SubSeq(log[j], 1, keep - snap[j].idx)
                    \o SubSeq(q.entries, (keep - q.prev) + 1, Len(q.entries))

\* The whole log after the request: its own, when it already had all entries, or the
\* leader's up to the last entry of the request.
LEMMA MergePlace ==
    ASSUME IInv, IInv', NEW H, NEW G, NEW R, Ghosts(H, G, R), Core(H, G, R),
           NEW j \in Server, NEW q \in Request, NEW w \in Nat, NEW keep \in Nat, NEW end \in Nat,
           Merging(H, R, j, q, w, keep, end), Merges(j, q, keep)
    PROVE  \E l \in Seq(LogEntry) :
             /\ Valid(H, l) /\ \A n \in 1..Len(l) : l[n].term <= w
             /\ \A m \in Nat : Agree(G[j], H[w], m) => Agree(l, H[w], m)
             /\ Parts(l, snap'[j], log'[j]) /\ snap'[j].term = TermOf(l, snap'[j].idx)
             /\ Agree(l, H[w], end)
<1>0. Trunks(H)
  BY DEF Ghosts
<1>1. PICK p \in Nat, s \in Nat, L \in Nat : Merged(H, j, q, w, keep, end, p, s, L)
  BY <1>0, MergeFields
<1>2. /\ p = q.prev /\ s = snap[j].idx /\ L = LastIndex(j) /\ snap'[j] = snap[j]
      /\ Elected(w) /\ end <= Len(H[w]) /\ q.entries \in Seq(LogEntry)
      /\ Len(q.entries) = end - p
  BY <1>1 DEF Merged, Merges
<1>20. s <= L /\ p <= L /\ p <= end /\ s <= end /\ p <= keep /\ s <= keep /\ keep <= L
  BY <1>1 DEF Merged
<1>3. \A n \in Nat : n > p /\ n <= end => q.entries[n - p] = H[w][n]
  BY <1>1 DEF Merged
<1>4. w >= currentTerm[j] /\ keep = KeepTo(j, q) /\ q.type = "append" /\ q.prev <= LastIndex(j)
      /\ end = q.prev + Len(q.entries)
  BY DEF Merging
<1>5. /\ Valid(H, G[j]) /\ ViewOk(G, j) /\ Trees(H, R)
      /\ G[j] \in Seq(LogEntry) /\ H[w] \in Seq(LogEntry) /\ Len(G[j]) = L
      /\ \A n \in 1..Len(G[j]) : G[j][n].term <= currentTerm[j]
  BY <1>2, <1>4, NodeKnows
<1>6. /\ \A m \in Nat : m <= keep /\ m <= end => Agree(G[j], H[w], m)
      /\ keep < end => \A m \in Nat : Agree(G[j], H[w], m) => m <= keep
  BY MergeAgrees
<1>7. PICK x \in Seq(LogEntry) : x = log[j] /\ L = s + Len(x)
  BY <1>2, NodeFields
<1>8. PICK y : y = log'[j]
  OBVIOUS
<1>9. PICK e \in Seq(LogEntry) : e = q.entries /\ Len(e) = end - p
  BY <1>2
<1>10. y = SubSeq(x, 1, keep - s) \o SubSeq(e, (keep - p) + 1, Len(e))
  BY <1>2, <1>7, <1>8, <1>9 DEF Merges
<1>11. /\ keep >= end => Len(y) = keep - s
       /\ keep < end => Len(y) = end - s
       /\ \A n \in 1..(keep - s) : y[n] = x[n]
       /\ \A n \in Nat : n > keep /\ n <= end => y[n - s] = e[n - p]
  <2>1. keep <= s + Len(x)
    BY <1>20, <1>7
  <2>2. s <= keep /\ p <= keep /\ p <= end /\ Len(e) = end - p /\ e \in Seq(LogEntry)
    BY <1>20, <1>9
  <2>. QED
    BY <1>10, <2>1, <2>2, MergedLog
<1>12. \A n \in 1..Len(x) : x[n] = G[j][s + n]
  BY <1>2, <1>5, <1>7 DEF ViewOk
<1>13. snap[j].term = TermOf(G[j], s)
  BY <1>2, <1>5 DEF ViewOk
<1>14. CASE keep >= end
  <2>1. keep = L
    BY <1>4, <1>2, <1>14, KeepToMatches DEF IInv, NodeType
  <2>2. Len(y) = L - s /\ \A n \in 1..(L - s) : y[n] = x[n]
    BY <1>11, <1>14, <2>1
  <2>3. Len(x) = L - s /\ Len(x) \in Nat
    BY <1>20, <1>7
  <2>4. \A n \in 1..Len(y) : y[n] = G[j][s + n]
    BY <1>12, <2>2, <2>3
  <2>5. Len(G[j]) = s + Len(y)
    BY <1>20, <1>5, <2>2
  <2>6. Parts(G[j], snap'[j], log'[j])
    BY <1>2, <1>8, <2>4, <2>5 DEF Parts
  <2>7. Agree(G[j], H[w], end)
    BY <1>6, <1>14
  <2>8. \A n \in 1..Len(G[j]) : G[j][n].term <= w
    <3>1. ASSUME NEW n \in 1..Len(G[j]) PROVE G[j][n].term <= w
      <4>1. G[j][n].term \in Nat /\ currentTerm[j] \in Nat /\ G[j][n].term <= currentTerm[j]
        BY <1>5, EntryTerm, NodeFields
      <4>. QED
        BY <1>4, <4>1
    <3>. QED
      BY <3>1
  <2>9. snap'[j].term = TermOf(G[j], snap'[j].idx)
    BY <1>2, <1>13
  <2>. QED
    BY <1>5, <2>6, <2>7, <2>8, <2>9
<1>15. CASE keep < end
  <2>1. \A m \in Nat : Agree(G[j], H[w], m) => m <= end
    BY <1>6, <1>15
  <2>20. PICK l \in Seq(LogEntry) : CutAt(H, G[j], w, end, l)
    BY <1>0, <1>2, <1>5, <2>1, LeaderPrefix
  <2>2. /\ Len(l) = end /\ \A k \in 1..end : l[k] = H[w][k]
        /\ Agree(l, H[w], end) /\ Valid(H, l)
        /\ \A k \in 1..Len(l) : l[k].term <= w
        /\ \A m \in Nat : Agree(G[j], H[w], m) => Agree(l, H[w], m)
    BY <2>20 DEF CutAt
  <2>3. Agree(G[j], H[w], keep)
    BY <1>6, <1>15
  <2>21. \A m \in 1..keep : G[j][m] = H[w][m]
    BY <2>3 DEF Agree
  <2>4. ASSUME NEW n \in 1..Len(y) PROVE y[n] = l[s + n]
    <3>1. PICK k \in Nat : k = s + n /\ k <= end /\ k >= 1 /\ n = k - s
      <4>1. Len(y) = end - s
        BY <1>11, <1>15
      <4>2. n \in Nat /\ n >= 1 /\ n <= end - s
        BY <1>20, <4>1
      <4>3. s + n \in Nat /\ s + n <= end /\ s + n >= 1 /\ n = (s + n) - s
        BY <1>20, <4>2
      <4>. QED
        BY <4>3
    <3>2. l[k] = H[w][k]
      BY <2>2, <3>1
    <3>3. CASE k <= keep
      <4>1. n \in 1..(keep - s) /\ n \in 1..Len(x)
        BY <1>20, <1>7, <3>1, <3>3
      <4>2. y[n] = x[n] /\ x[n] = G[j][s + n]
        BY <1>11, <1>12, <4>1
      <4>3. G[j][k] = H[w][k]
        <5>1. k \in 1..keep
          BY <3>1, <3>3
        <5>. QED
          BY <2>21, <5>1
      <4>. QED
        BY <3>1, <3>2, <4>2, <4>3
    <3>4. CASE k > keep
      <4>1. y[k - s] = e[k - p]
        BY <1>11, <3>1, <3>4
      <4>2. k > p
        BY <1>20, <3>4
      <4>3. e[k - p] = H[w][k]
        BY <1>3, <1>9, <3>1, <4>2
      <4>. QED
        BY <3>1, <3>2, <4>1, <4>3
    <3>. QED
      BY <3>3, <3>4
  <2>5. Len(l) = s + Len(y)
    BY <1>20, <1>11, <1>15, <2>2
  <2>6. Parts(l, snap'[j], log'[j])
    BY <1>2, <1>8, <2>4, <2>5 DEF Parts
  <2>7. snap'[j].term = TermOf(l, snap'[j].idx)
    <3>1. TermOf(G[j], s) = TermOf(H[w], s)
      BY <1>20, <2>3, AgreeTerm
    <3>2. TermOf(l, s) = TermOf(H[w], s)
      BY <1>20, <2>2, AgreeTerm
    <3>. QED
      BY <1>2, <1>13, <3>1, <3>2
  <2>. QED
    BY <2>2, <2>6, <2>7
<1>. QED
  BY <1>14, <1>15

\* The commit index after the request.
LEMMA CommitUpToCases ==
    ASSUME NEW c \in Nat, NEW m \in Nat, NEW end \in Nat, NEW d, d = Max({c, Min({m, end})})
    PROVE  d \in Nat /\ d >= c /\ (d = c \/ (d <= m /\ d <= end))
<1>1. PICK n \in Nat : n = Min({m, end}) /\ n <= m /\ n <= end
  BY MinPair
<1>2. Max({c, n}) = IF c >= n THEN c ELSE n
  BY MaxPair
<1>. QED
  BY <1>1, <1>2

\* The request as a step of a follower.
LEMMA MergeTakes ==
    ASSUME IInv, IInv', NEW H, NEW G, NEW R, Ghosts(H, G, R), Core(H, G, R),
           NEW j \in Server, NEW q \in Request, NEW w \in Nat, NEW keep \in Nat, NEW end \in Nat,
           Merging(H, R, j, q, w, keep, end), Heard(j, w),
           Merges(j, q, keep), commitIndex'[j] = CommitUpTo(j, q)
    PROVE  \E l \in Seq(LogEntry) : Takes(H, G, R, j, w, l) /\ Agree(l, H[w], end)
<1>1. PICK l \in Seq(LogEntry) :
             /\ Valid(H, l) /\ \A n \in 1..Len(l) : l[n].term <= w
             /\ \A m \in Nat : Agree(G[j], H[w], m) => Agree(l, H[w], m)
             /\ Parts(l, snap'[j], log'[j]) /\ snap'[j].term = TermOf(l, snap'[j].idx)
             /\ Agree(l, H[w], end)
  BY MergePlace
<1>2. /\ w = q.term /\ end = q.prev + Len(q.entries) /\ q.type = "append"
      /\ SafeTo(H, R, H[w], q.commit, w)
  BY DEF Merging, RequestOk
<1>3. Elected(w) /\ w >= currentTerm[j] /\ lastApplied' = lastApplied /\ snapping' = snapping
  BY DEF Heard, machine
<1>4. PICK c \in Nat, d \in Nat, m \in Nat :
        /\ c = commitIndex[j] /\ d = commitIndex'[j] /\ m = q.commit
        /\ d >= c /\ (d = c \/ (d <= m /\ d <= end))
  <2>1. q.commit \in Nat /\ commitIndex[j] \in Nat
    BY <1>2, RequestFields, NodeFields
  <2>2. commitIndex'[j] = Max({commitIndex[j], Min({q.commit, end})})
    BY <1>2 DEF CommitUpTo
  <2>. QED
    BY <2>1, <2>2, CommitUpToCases
<1>5. SafeTo(H, R, l, d, w) /\ d <= Len(l)
  <2>1. CASE d = c
    BY <1>1, <1>3, <1>4, <2>1, CommitSafe
  <2>2. CASE d <= m /\ d <= end
    <3>1. Len(l) \in Nat /\ Len(H[w]) \in Nat
      BY TrunkType DEF Ghosts
    <3>2. Agree(l, H[w], d)
      BY <1>1, <2>2, <3>1, AgreeLess
    <3>3. \E n \in Nat : d <= n /\ SafeTo(H, R, H[w], n, w) /\ Agree(l, H[w], d)
      BY <1>2, <1>4, <2>2, <3>2
    <3>. QED
      BY <1>1, <1>3, <3>3, CommitSafe
  <2>. QED
    BY <1>4, <2>1, <2>2
<1>6. BoundOk(j)'
  <2>1. LastIndex(j)' = Len(l)
    BY <1>1, NodeFieldsNext DEF Parts
  <2>2. BoundOk(j)
    BY DEF Core, Nodes
  <2>3. /\ snap[j].idx \in Nat /\ lastApplied[j] \in Nat /\ snapping[j] \in Nat
    BY NodeFields
  <2>4. /\ snap[j].idx <= c /\ lastApplied[j] <= c /\ snapping[j] <= lastApplied[j]
    BY <1>4, <2>2 DEF BoundOk
  <2>5. snap[j].idx <= d /\ lastApplied[j] <= d
    BY <1>4, <2>3, <2>4
  <2>6. snap'[j] = snap[j]
    BY DEF Merges
  <2>. QED
    BY <1>3, <1>4, <1>5, <2>1, <2>4, <2>5, <2>6 DEF BoundOk
<1>7. NewLog(H, G, R, j, w, l)
  BY <1>1, <1>4, <1>5, <1>6 DEF NewLog
<1>. QED
  BY <1>1, <1>7, HeardTakes

\* The request is served: the invariant holds after it and the answer is true.
Served(H, G, R, j, q, r) ==
    \E H2, G2, R2 : /\ Ghosts(H2, G2, R2) /\ Move(H, G, R, H2, G2, R2)
                    /\ Core(H2, G2, R2)' /\ ReplyOk(H2, G2, R2, j, q, r)'

\* A request whose entries the new log has may be acknowledged.
LEMMA TakeServes ==
    ASSUME IInv, IInv', TermsGrow, NEW H, NEW G, NEW R, Ghosts(H, G, R), Core(H, G, R),
           NEW j \in Server, NEW q \in Request, NEW w \in Nat, w = q.term,
           NEW l \in Seq(LogEntry), Takes(H, G, R, j, w, l), NEW r,
           r.ok /\ q.type = "append" => Agree(l, H[w], q.prev + Len(q.entries)),
           r.ok /\ q.type = "snapshot" => Agree(l, H[w], q.snap.idx)
    PROVE  Served(H, G, R, j, q, r)
<1>1. PICK G2, R2 :
             /\ Ghosts(H, G2, R2) /\ Move(H, G, R, H, G2, R2) /\ Core(H, G2, R2)'
             /\ \A m \in Nat : Agree(l, H[w], m) => Acked(H, G2, R2, j, m, w)'
  BY TakeMoves
<1>2. ASSUME r.ok, q.type = "append"
      PROVE  Acked(H, G2, R2, j, q.prev + Len(q.entries), q.term)'
  <2>1. q.prev + Len(q.entries) \in Nat
    <3>1. q.prev \in Nat /\ q.entries \in Seq(LogEntry)
      BY <1>2, RequestFields
    <3>. QED
      BY <3>1
  <2>. QED
    BY <1>1, <1>2, <2>1
<1>3. ASSUME r.ok, q.type = "snapshot"
      PROVE  Acked(H, G2, R2, j, q.snap.idx, q.term)'
  <2>1. q.snap.idx \in Nat
    BY <1>3, RequestFields DEF Snapshot
  <2>. QED
    BY <1>1, <1>3, <2>1
<1>4. ReplyOk(H, G2, R2, j, q, r)'
  BY <1>2, <1>3 DEF ReplyOk
<1>. QED
  BY <1>1, <1>4 DEF Served

\* A request that changes no log and is not answered with an acknowledgement.
LEMMA QuietServes ==
    ASSUME IInv, IInv', TermsGrow, NEW H, NEW G, NEW R, Ghosts(H, G, R), Core(H, G, R),
           NEW i \in Server, NEW j \in Server, NEW q \in Request, Handle(i, j, q),
           UNCHANGED <<log, snap, commitIndex>>, NEW r,
           r.ok => q.type \notin {"append", "snapshot"}
    PROVE  Served(H, G, R, j, q, r)
<1>1. /\ lastApplied' = lastApplied /\ snapping' = snapping /\ matchIndex' = matchIndex
      /\ UNCHANGED history
  BY DEF Handle, machine
<1>2. NoneElected
  <2>1. /\ \A c \in Server : c # j => role'[c] = role[c] /\ currentTerm'[c] = currentTerm[c]
        /\ \/ role'[j] = "FOLLOWER"
           \/ role'[j] = role[j] /\ currentTerm'[j] = currentTerm[j]
    BY HandleRole
  <2>2. \/ role'[j] # "LEADER"
        \/ role'[j] = role[j] /\ currentTerm'[j] = currentTerm[j]
    BY <2>1
  <2>. QED
    BY <1>1, <2>1, <2>2, RolesKept
<1>3. ASSUME NEW c \in Server
      PROVE  ViewOk(G, c)' /\ BoundOk(c)' /\ commitIndex'[c] <= commitIndex[c]
  <2>1. ViewOk(G, c) /\ BoundOk(c) /\ commitIndex[c] \in Nat
    BY NodeFields DEF Core, Nodes
  <2>2. LastIndex(c)' = LastIndex(c)
    BY DEF LastIndex
  <2>3. ViewOk(G, c)'
    BY <2>1, <2>2 DEF ViewOk
  <2>4. BoundOk(c)'
    BY <1>1, <2>1, <2>2 DEF BoundOk
  <2>. QED
    BY <2>1, <2>3, <2>4
<1>4. \A c \in Server : currentTerm'[c] >= currentTerm[c]
  BY DEF TermsGrow
<1>5. \A c \in Server : /\ role'[c] = "LEADER" =>
                              role[c] = "LEADER" /\ currentTerm'[c] = currentTerm[c]
                        /\ \A d \in Server : matchIndex'[c][d] \in {matchIndex[c][d], 0}
                        /\ ViewOk(G, c)' /\ BoundOk(c)' /\ commitIndex'[c] <= commitIndex[c]
  BY <1>2, <1>3 DEF NoneElected
<1>6. Move(H, G, R, H, G, R) /\ Core(H, G, R)'
  BY <1>1, <1>4, <1>5, QuietCore
<1>7. ReplyOk(H, G, R, j, q, r)'
  BY DEF ReplyOk
<1>. QED
  BY <1>6, <1>7 DEF Served

\* The step of a node that accepts a leader's request.
LEMMA HearsLeader ==
    ASSUME IInv, NEW H, NEW R, NEW j \in Server, NEW w \in Nat, HearLeader(j, w), Elected(w),
           w >= currentTerm[j], UNCHANGED <<machine, matchIndex, history>>,
           \/ UNCHANGED <<log, snap, commitIndex>>
           \/ \E l, s, c : /\ log' = [log EXCEPT ![j] = l] /\ snap' = [snap EXCEPT ![j] = s]
                           /\ commitIndex' = [commitIndex EXCEPT ![j] = c]
    PROVE  Heard(j, w)
<1>1. \A c \in Server : c # j =>
         log'[c] = log[c] /\ snap'[c] = snap[c] /\ commitIndex'[c] = commitIndex[c]
  BY DEF IInv, NodeType, LogType
<1>. QED
  BY <1>1 DEF Heard

\* AppendEntries is served.
LEMMA AppendServed ==
    ASSUME IInv, IInv', TermsGrow, NEW H, NEW G, NEW R, Ghosts(H, G, R), Core(H, G, R),
           NEW i \in Server, NEW j \in Server, NEW q \in Request, RequestOk(H, R, q),
           Handle(i, j, q), HandleAppend(j, q), NEW r, r = AppendReply(j, q)
    PROVE  Served(H, G, R, j, q, r)
<1>1. q.type = "append" /\ UNCHANGED snap /\ UNCHANGED <<machine, matchIndex, history>>
  BY DEF HandleAppend, Handle
<1>2. PICK v : v = AppendVerdict(j, q)
  OBVIOUS
<1>3. r.ok <=> v \in {"covered", "accepted"}
  BY <1>2 DEF AppendReply, Acknowledges
<1>4. PICK w \in Nat : w = q.term
  BY RequestFields
<1>5. Elected(w) /\ currentTerm[j] \in Nat
  BY <1>1, <1>4, NodeFields DEF RequestOk
<1>6. CASE v = "old term"
  <2>1. UNCHANGED <<log, snap, commitIndex>>
    BY <1>1, <1>2, <1>6 DEF HandleAppend
  <2>2. ~r.ok
    BY <1>3, <1>6
  <2>. QED
    BY <2>1, <2>2, QuietServes
<1>7. CASE v \notin {"old term", "accepted"}
  <2>1. HearLeader(j, w) /\ UNCHANGED <<log, snap, commitIndex>>
    BY <1>1, <1>2, <1>4, <1>7 DEF HandleAppend
  <2>2. w >= currentTerm[j]
    <3>1. ~(q.term < currentTerm[j])
      BY <1>2, <1>7 DEF AppendVerdict
    <3>. QED
      BY <1>4, <1>5, <3>1
  <2>3. Heard(j, w)
    BY <1>1, <1>5, <2>1, <2>2, HearsLeader
  <2>4. Takes(H, G, R, j, w, G[j])
    <3>1. log'[j] = log[j] /\ snap'[j] = snap[j] /\ commitIndex'[j] = commitIndex[j]
      BY <2>1
    <3>. QED
      BY <2>3, <3>1, HeardSame
  <2>5. /\ G[j] \in Seq(LogEntry) /\ H[w] \in Seq(LogEntry) /\ Agree(G[j], H[w], commitIndex[j])
        /\ BoundOk(j)
    BY <1>5, <2>2, NodeKnows
  <2>6. ASSUME r.ok PROVE Agree(G[j], H[w], q.prev + Len(q.entries))
    <3>1. v = "covered"
      BY <1>3, <1>7, <2>6
    <3>2. q.prev + Len(q.entries) <= snap[j].idx
      BY <1>2, <3>1 DEF AppendVerdict
    <3>3. q.prev \in Nat /\ q.entries \in Seq(LogEntry)
      BY <1>1, RequestFields
    <3>4. PICK end \in Nat : end = q.prev + Len(q.entries)
      BY <3>3
    <3>5. end <= commitIndex[j] /\ commitIndex[j] \in Nat
      BY <2>5, <3>2, <3>4, NodeFields DEF BoundOk
    <3>6. Len(G[j]) \in Nat /\ Len(H[w]) \in Nat
      BY <2>5
    <3>7. Agree(G[j], H[w], end)
      BY <2>5, <3>5, <3>6, AgreeLess
    <3>. QED
      BY <3>4, <3>7
  <2>. QED
    BY <1>1, <1>4, <2>4, <2>5, <2>6, TakeServes
<1>8. CASE v = "accepted"
  <2>1. PICK keep : keep = KeepTo(j, q)
    OBVIOUS
  <2>2. PICK end : end = q.prev + Len(q.entries)
    OBVIOUS
  <2>3. /\ ~(q.term < currentTerm[j]) /\ ~(q.prev < snap[j].idx /\ end <= snap[j].idx)
        /\ ~(q.prev > LastIndex(j)) /\ PrevMatches(j, q) /\ ~(keep < commitIndex[j])
    BY <1>2, <1>8, <2>1, <2>2 DEF AppendVerdict
  <2>4. w >= currentTerm[j] /\ q.prev <= LastIndex(j)
    <3>1. q.prev \in Nat /\ LastIndex(j) \in Nat
      BY <1>1, RequestFields, NodeFields
    <3>. QED
      BY <1>4, <1>5, <2>3, <3>1
  <2>5. Merging(H, R, j, q, w, keep, end)
    BY <1>1, <1>4, <2>1, <2>2, <2>3, <2>4 DEF Merging
  <2>6. keep \in Nat /\ end \in Nat
    <3>1. PICK p \in Nat, s \in Nat, L \in Nat : Merged(H, j, q, w, keep, end, p, s, L)
      BY <2>5, MergeFields DEF Ghosts
    <3>. QED
      BY <3>1 DEF Merged
  <2>7. /\ HearLeader(j, w)
        /\ log' = [log EXCEPT ![j] = SubSeq(log[j], 1, keep - snap[j].idx)
                     \o SubSeq(q.entries, (keep - q.prev) + 1, Len(q.entries))]
        /\ commitIndex' = [commitIndex EXCEPT ![j] = CommitUpTo(j, q)]
    BY <1>2, <1>4, <1>8, <2>1 DEF HandleAppend
  <2>8. snap' = [snap EXCEPT ![j] = snap[j]]
    BY <1>1 DEF IInv, NodeType, LogType
  <2>9. Heard(j, w)
    BY <1>1, <1>5, <2>4, <2>7, <2>8, HearsLeader
  <2>10. Merges(j, q, keep) /\ commitIndex'[j] = CommitUpTo(j, q)
    <3>1. log \in [Server -> Seq(LogEntry)] /\ commitIndex \in [Server -> Nat]
      BY DEF IInv, NodeType, LogType
    <3>2. log'[j] = SubSeq(log[j], 1, keep - snap[j].idx)
                     \o SubSeq(q.entries, (keep - q.prev) + 1, Len(q.entries))
      BY <2>7, <3>1
    <3>. QED
      BY <1>1, <2>7, <3>1, <3>2 DEF Merges
  <2>11. PICK l \in Seq(LogEntry) : Takes(H, G, R, j, w, l) /\ Agree(l, H[w], end)
    BY <2>5, <2>6, <2>9, <2>10, MergeTakes
  <2>. QED
    BY <1>1, <1>4, <2>2, <2>11, TakeServes
<1>. QED
  BY <1>6, <1>7, <1>8

\* What handle_install_snapshot makes of the log and the snapshot.
Installs(H, R, j, q, w, n) ==
    /\ q.type = "snapshot" /\ RequestOk(H, R, q) /\ w = q.term /\ n = q.snap.idx
    /\ n > snap[j].idx /\ n > lastApplied[j]
    /\ snap'[j] = q.snap
    /\ log'[j] = IF KeepsSuffix(j, q)
                 THEN SubSeq(log[j], n - snap[j].idx + 1, Len(log[j])) ELSE << >>
    /\ commitIndex'[j] = Max({commitIndex[j], n})

\* The suffix of a log.
LEMMA SuffixAt ==
    ASSUME NEW S, NEW x \in Seq(S), NEW a \in Nat, a >= 1
    PROVE  /\ Len(SubSeq(x, a, Len(x))) = IF a <= Len(x) THEN (Len(x) - a) + 1 ELSE 0
           /\ \A k \in 1..((Len(x) - a) + 1) : SubSeq(x, a, Len(x))[k] = x[(a + k) - 1]
<1>1. \A k \in a..Len(x) : x[k] \in S
  OBVIOUS
<1>2. Len(x) \in Int
  OBVIOUS
<1>. QED
  BY <1>1, <1>2, SubSeqProperties

\* y is what g has after n.
From(y, g, n) == \A k \in 1..Len(y) : y[k] = g[n + k]

\* y is the end of x from position a, where x is what g has after s.
Shifted(x, y, g, s, n, d, a) ==
    /\ s <= n /\ n <= s + d /\ a = n - s + 1
    /\ Len(y) = IF a <= d THEN (d - a) + 1 ELSE 0
    /\ \A k \in 1..((d - a) + 1) : y[k] = x[(a + k) - 1]
    /\ \A k \in 1..d : x[k] = g[s + k]

\* So y is what g has after n.
LEMMA SuffixShift ==
    ASSUME NEW x, NEW y, NEW g, NEW s \in Nat, NEW n \in Nat, NEW d \in Nat, NEW a \in Nat,
           Shifted(x, y, g, s, n, d, a)
    PROVE  n + Len(y) = s + d /\ From(y, g, n)
<1>0. /\ s <= n /\ n <= s + d /\ a = n - s + 1
      /\ Len(y) = IF a <= d THEN (d - a) + 1 ELSE 0
      /\ \A k \in 1..((d - a) + 1) : y[k] = x[(a + k) - 1]
      /\ \A k \in 1..d : x[k] = g[s + k]
  BY DEF Shifted
<1>1. Len(y) = (s + d) - n
  BY <1>0
<1>2. ASSUME NEW k \in 1..Len(y) PROVE y[k] = g[n + k]
  <2>1. k \in Nat /\ k >= 1 /\ k <= (s + d) - n
    BY <1>1
  <2>2. k \in 1..((d - a) + 1) /\ (a + k) - 1 \in 1..d /\ s + ((a + k) - 1) = n + k
    BY <1>0, <2>1
  <2>3. y[k] = x[(a + k) - 1]
    BY <1>0, <2>2
  <2>4. x[(a + k) - 1] = g[s + ((a + k) - 1)]
    BY <1>0, <2>2
  <2>. QED
    BY <2>2, <2>3, <2>4
<1>. QED
  BY <1>1, <1>2 DEF From

\* The whole log after the request: its own, when it has the snapshot's last entry, or
\* the leader's up to the snapshot.
LEMMA InstallPlace ==
    ASSUME IInv, IInv', NEW H, NEW G, NEW R, Ghosts(H, G, R), Core(H, G, R),
           NEW j \in Server, NEW q \in Request, NEW w \in Nat, NEW n \in Nat,
           Installs(H, R, j, q, w, n), w >= currentTerm[j]
    PROVE  \E l \in Seq(LogEntry) :
             /\ Valid(H, l) /\ \A k \in 1..Len(l) : l[k].term <= w
             /\ \A m \in Nat : Agree(G[j], H[w], m) => Agree(l, H[w], m)
             /\ Parts(l, snap'[j], log'[j]) /\ snap'[j].term = TermOf(l, snap'[j].idx)
             /\ Agree(l, H[w], n)
<1>1. /\ Elected(w) /\ n <= Len(H[w]) /\ q.snap.term = TermOf(H[w], n) /\ q.snap.idx = n
      /\ snap'[j] = q.snap
  BY DEF Installs, RequestOk
<1>2. PICK s \in Nat, L \in Nat : s = snap[j].idx /\ L = LastIndex(j) /\ s < n
  <2>1. snap[j].idx < n
    BY NodeFields DEF Installs
  <2>. QED
    BY <2>1, NodeFields
<1>3. /\ Valid(H, G[j]) /\ Valid(H, H[w]) /\ ViewOk(G, j) /\ Trees(H, R) /\ Trunks(H)
      /\ G[j] \in Seq(LogEntry) /\ H[w] \in Seq(LogEntry) /\ Len(G[j]) = L
      /\ \A k \in 1..Len(G[j]) : G[j][k].term <= currentTerm[j]
  BY <1>1, <1>2, NodeKnows
<1>4. PICK x \in Seq(LogEntry) : x = log[j] /\ L = s + Len(x)
  BY <1>2, NodeFields
<1>5. PICK y : y = log'[j] /\ y = IF KeepsSuffix(j, q) THEN SubSeq(x, n - s + 1, Len(x))
                                                      ELSE << >>
  BY <1>2, <1>4 DEF Installs
<1>6. ASSUME NEW m \in Nat, s <= m, m <= L PROVE TermAt(j, m) = TermOf(G[j], m)
  BY <1>2, <1>3, <1>6, ViewTerm
<1>7. Len(H[w]) \in Nat /\ Len(G[j]) \in Nat
  BY <1>3
<1>8. CASE KeepsSuffix(j, q)
  <2>1. n <= L /\ TermAt(j, n) = q.snap.term
    BY <1>1, <1>2, <1>8 DEF KeepsSuffix
  <2>2. TermOf(G[j], n) = TermOf(H[w], n)
    BY <1>1, <1>2, <1>6, <2>1
  <2>3. Agree(G[j], H[w], n)
    <3>1. n > 0 /\ n <= Len(G[j])
      BY <1>2, <1>3, <2>1
    <3>. QED
      BY <1>1, <1>3, <1>7, <2>2, <3>1, TermsAgree
  <2>4. y = SubSeq(x, n - s + 1, Len(x))
    BY <1>5, <1>8
  <2>5. \A k \in 1..Len(x) : x[k] = G[j][s + k]
    BY <1>2, <1>3, <1>4 DEF ViewOk
  <2>6. Len(G[j]) = n + Len(y) /\ \A k \in 1..Len(y) : y[k] = G[j][n + k]
    <3>1. s <= n /\ n <= s + Len(x) /\ Len(G[j]) = s + Len(x)
      BY <1>2, <1>3, <1>4, <2>1
    <3>2. PICK a \in Nat : a = n - s + 1 /\ a >= 1
      BY <3>1
    <3>3. PICK d \in Nat : d = Len(x)
      BY <1>4
    <3>4. /\ Len(y) = IF a <= d THEN (d - a) + 1 ELSE 0
          /\ \A k \in 1..((d - a) + 1) : y[k] = x[(a + k) - 1]
      BY SMTT(30), <2>4, <3>2, <3>3, SuffixAt
    <3>5. n <= s + d /\ \A k \in 1..d : x[k] = G[j][s + k]
      BY <2>5, <3>1, <3>3
    <3>7. Shifted(x, y, G[j], s, n, d, a)
      BY <3>1, <3>2, <3>4, <3>5 DEF Shifted
    <3>6. n + Len(y) = s + d /\ From(y, G[j], n)
      BY <1>2, <3>2, <3>3, <3>7, SuffixShift
    <3>. QED
      BY <3>1, <3>3, <3>6 DEF From
  <2>7. Parts(G[j], snap'[j], log'[j])
    BY <1>1, <1>5, <2>6 DEF Parts
  <2>8. snap'[j].term = TermOf(G[j], snap'[j].idx)
    BY <1>1, <2>2
  <2>9. \A k \in 1..Len(G[j]) : G[j][k].term <= w
    <3>1. ASSUME NEW k \in 1..Len(G[j]) PROVE G[j][k].term <= w
      <4>1. G[j][k].term \in Nat /\ currentTerm[j] \in Nat /\ G[j][k].term <= currentTerm[j]
        BY <1>3, EntryTerm, NodeFields
      <4>. QED
        BY <4>1
    <3>. QED
      BY <3>1
  <2>. QED
    BY <1>3, <2>3, <2>7, <2>8, <2>9
<1>9. CASE ~KeepsSuffix(j, q)
  <2>1. ASSUME NEW m \in Nat, Agree(G[j], H[w], m), m > n PROVE FALSE
    <3>1. n <= L /\ n <= m
      BY <1>3, <1>7, <2>1 DEF Agree
    <3>2. TermOf(G[j], n) = TermOf(H[w], n)
      BY <2>1, <3>1, AgreeTerm
    <3>3. TermAt(j, n) = q.snap.term
      BY <1>1, <1>2, <1>6, <3>1, <3>2
    <3>. QED
      BY <1>1, <1>2, <1>9, <3>1, <3>3 DEF KeepsSuffix
  <2>2. \A m \in Nat : Agree(G[j], H[w], m) => m <= n
    BY <2>1
  <2>20. PICK l \in Seq(LogEntry) : CutAt(H, G[j], w, n, l)
    BY <1>1, <1>3, <2>2, LeaderPrefix
  <2>3. /\ Len(l) = n /\ \A k \in 1..n : l[k] = H[w][k]
        /\ Agree(l, H[w], n) /\ Valid(H, l)
        /\ \A k \in 1..Len(l) : l[k].term <= w
        /\ \A m \in Nat : Agree(G[j], H[w], m) => Agree(l, H[w], m)
    BY <2>20 DEF CutAt
  <2>4. y = << >>
    BY <1>5, <1>9
  <2>5. Parts(l, snap'[j], log'[j])
    <3>1. Len(y) = 0 /\ Len(l) = n + 0
      BY <2>3, <2>4
    <3>2. Len(l) = n + Len(y) /\ \A k \in 1..Len(y) : y[k] = l[n + k]
      BY <3>1
    <3>. QED
      BY <1>1, <1>5, <3>2 DEF Parts
  <2>6. snap'[j].term = TermOf(l, snap'[j].idx)
    <3>1. TermOf(l, n) = TermOf(H[w], n)
      BY <2>3, AgreeTerm
    <3>. QED
      BY <1>1, <3>1
  <2>. QED
    BY <2>3, <2>5, <2>6
<1>. QED
  BY <1>8, <1>9

\* The request as a step of a follower.
LEMMA InstallTakes ==
    ASSUME IInv, IInv', NEW H, NEW G, NEW R, Ghosts(H, G, R), Core(H, G, R),
           NEW j \in Server, NEW q \in Request, NEW w \in Nat, NEW n \in Nat,
           Installs(H, R, j, q, w, n), Heard(j, w)
    PROVE  \E l \in Seq(LogEntry) : Takes(H, G, R, j, w, l) /\ Agree(l, H[w], n)
<1>1. Elected(w) /\ w >= currentTerm[j] /\ lastApplied' = lastApplied /\ snapping' = snapping
  BY DEF Heard, machine
<1>2. PICK l \in Seq(LogEntry) :
             /\ Valid(H, l) /\ \A k \in 1..Len(l) : l[k].term <= w
             /\ \A m \in Nat : Agree(G[j], H[w], m) => Agree(l, H[w], m)
             /\ Parts(l, snap'[j], log'[j]) /\ snap'[j].term = TermOf(l, snap'[j].idx)
             /\ Agree(l, H[w], n)
  BY <1>1, InstallPlace
<1>3. snap'[j].idx = n /\ SafeTo(H, R, H[w], n, w) /\ commitIndex'[j] = Max({commitIndex[j], n})
  BY DEF Installs, RequestOk
<1>4. PICK c \in Nat, d \in Nat : /\ c = commitIndex[j] /\ d = commitIndex'[j]
                                  /\ d >= c /\ d >= n /\ (d = c \/ d = n)
  <2>1. commitIndex[j] \in Nat
    BY NodeFields
  <2>2. commitIndex'[j] = IF commitIndex[j] >= n THEN commitIndex[j] ELSE n
    BY <1>3, <2>1, MaxPair
  <2>. QED
    BY <2>1, <2>2
<1>5. SafeTo(H, R, l, d, w) /\ d <= Len(l)
  <2>1. CASE d = c
    BY <1>1, <1>2, <1>4, <2>1, CommitSafe
  <2>2. CASE d = n
    <3>1. \E k \in Nat : d <= k /\ SafeTo(H, R, H[w], k, w) /\ Agree(l, H[w], d)
      BY <1>2, <1>3, <2>2
    <3>. QED
      BY <1>1, <1>2, <3>1, CommitSafe
  <2>. QED
    BY <1>4, <2>1, <2>2
<1>6. BoundOk(j)'
  <2>1. LastIndex(j)' = Len(l)
    BY <1>2, NodeFieldsNext DEF Parts
  <2>2. lastApplied[j] <= c /\ snapping[j] <= lastApplied[j]
    BY <1>4 DEF Core, Nodes, BoundOk
  <2>3. lastApplied[j] \in Nat
    BY NodeFields
  <2>4. lastApplied[j] <= d
    BY <1>4, <2>2, <2>3
  <2>. QED
    BY <1>1, <1>3, <1>4, <1>5, <2>1, <2>2, <2>4 DEF BoundOk
<1>7. NewLog(H, G, R, j, w, l)
  BY <1>2, <1>4, <1>5, <1>6 DEF NewLog
<1>. QED
  BY <1>2, <1>7, HeardTakes

\* InstallSnapshot is served.
LEMMA SnapshotServed ==
    ASSUME IInv, IInv', TermsGrow, NEW H, NEW G, NEW R, Ghosts(H, G, R), Core(H, G, R),
           NEW i \in Server, NEW j \in Server, NEW q \in Request, RequestOk(H, R, q),
           Handle(i, j, q), HandleSnapshot(j, q), NEW r, r = SnapshotReply(j, q)
    PROVE  Served(H, G, R, j, q, r)
<1>1. q.type = "snapshot" /\ UNCHANGED <<machine, matchIndex, history>>
  BY DEF HandleSnapshot, Handle
<1>2. PICK v : v = SnapshotVerdict(j, q)
  OBVIOUS
<1>3. r.ok <=> v \in {"covered", "installed"}
  BY <1>2 DEF SnapshotReply, Answer
<1>4. PICK w \in Nat : w = q.term
  BY RequestFields
<1>5. PICK n \in Nat : n = q.snap.idx
  BY <1>1, RequestFields DEF Snapshot
<1>6. Elected(w) /\ currentTerm[j] \in Nat
  BY <1>1, <1>4, NodeFields DEF RequestOk
<1>7. PICK s \in Nat, a \in Nat, x \in Nat :
        /\ s = snap[j].idx /\ a = lastApplied[j] /\ x = Max({snap[j].idx, lastApplied[j]})
        /\ x >= s /\ x >= a /\ (x = s \/ x = a)
  <2>1. snap[j].idx \in Nat /\ lastApplied[j] \in Nat
    BY NodeFields
  <2>2. Max({snap[j].idx, lastApplied[j]}) =
          IF snap[j].idx >= lastApplied[j] THEN snap[j].idx ELSE lastApplied[j]
    BY <2>1, MaxPair
  <2>. QED
    BY <2>1, <2>2
<1>8. CASE v = "old term"
  <2>1. UNCHANGED <<log, snap, commitIndex>>
    BY <1>1, <1>2, <1>8 DEF HandleSnapshot
  <2>2. ~r.ok
    BY <1>3, <1>8
  <2>. QED
    BY <2>1, <2>2, QuietServes
<1>9. ASSUME v # "old term" PROVE HearLeader(j, w) /\ w >= currentTerm[j]
  <2>1. ~(q.term < currentTerm[j])
    BY <1>2, <1>9 DEF SnapshotVerdict
  <2>2. HearLeader(j, w)
    BY <1>2, <1>4, <1>9 DEF HandleSnapshot
  <2>. QED
    BY <1>4, <1>6, <2>1, <2>2
<1>10. CASE v \notin {"old term", "installed"}
  <2>1. UNCHANGED <<log, snap, commitIndex>>
    BY <1>1, <1>2, <1>10 DEF HandleSnapshot
  <2>2. HearLeader(j, w) /\ w >= currentTerm[j]
    BY <1>9, <1>10
  <2>3. Heard(j, w)
    BY <1>1, <1>6, <2>1, <2>2, HearsLeader
  <2>4. Takes(H, G, R, j, w, G[j])
    <3>1. log'[j] = log[j] /\ snap'[j] = snap[j] /\ commitIndex'[j] = commitIndex[j]
      BY <2>1
    <3>. QED
      BY <2>3, <3>1, HeardSame
  <2>5. /\ G[j] \in Seq(LogEntry) /\ H[w] \in Seq(LogEntry) /\ Agree(G[j], H[w], commitIndex[j])
        /\ BoundOk(j)
    BY <1>6, <2>2, NodeKnows
  <2>6. ASSUME r.ok PROVE Agree(G[j], H[w], q.snap.idx)
    <3>1. v = "covered"
      BY <1>3, <1>10, <2>6
    <3>2. n <= x
      BY <1>2, <1>5, <1>7, <3>1 DEF SnapshotVerdict
    <3>3. s <= commitIndex[j] /\ a <= commitIndex[j] /\ commitIndex[j] \in Nat
      BY <1>7, <2>5, NodeFields DEF BoundOk
    <3>4. n <= commitIndex[j]
      BY <1>7, <3>2, <3>3
    <3>5. Len(G[j]) \in Nat /\ Len(H[w]) \in Nat
      BY <2>5
    <3>. QED
      BY <1>5, <2>5, <3>3, <3>4, <3>5, AgreeLess
  <2>. QED
    BY <1>1, <1>4, <2>4, <2>5, <2>6, TakeServes
<1>11. CASE v = "installed"
  <2>1. ~(n <= x)
    BY <1>2, <1>5, <1>7, <1>11 DEF SnapshotVerdict
  <2>2. n > s /\ n > a
    BY <1>7, <2>1
  <2>3. HearLeader(j, w) /\ w >= currentTerm[j]
    BY <1>9, <1>11
  <2>4. PICK l : l = IF KeepsSuffix(j, q)
                     THEN SubSeq(log[j], n - snap[j].idx + 1, Len(log[j])) ELSE << >>
    OBVIOUS
  <2>5. /\ snap' = [snap EXCEPT ![j] = q.snap] /\ log' = [log EXCEPT ![j] = l]
        /\ commitIndex' = [commitIndex EXCEPT ![j] = Max({commitIndex[j], n})]
    BY <1>2, <1>5, <1>11, <2>4 DEF HandleSnapshot
  <2>6. Heard(j, w)
    BY <1>1, <1>6, <2>3, <2>5, HearsLeader
  <2>7. /\ snap'[j] = q.snap /\ log'[j] = l /\ commitIndex'[j] = Max({commitIndex[j], n})
    BY <2>5 DEF IInv, NodeType, LogType
  <2>8. Installs(H, R, j, q, w, n)
    BY <1>1, <1>4, <1>5, <1>7, <2>2, <2>4, <2>7 DEF Installs
  <2>9. PICK m \in Seq(LogEntry) : Takes(H, G, R, j, w, m) /\ Agree(m, H[w], n)
    BY <2>6, <2>8, InstallTakes
  <2>. QED
    BY <1>1, <1>4, <1>5, <2>9, TakeServes
<1>. QED
  BY <1>8, <1>10, <1>11

\* Every request is served.
LEMMA HandleServed ==
    ASSUME IInv, IInv', TermsGrow, NEW H, NEW G, NEW R, Ghosts(H, G, R), Core(H, G, R),
           NEW i \in Server, NEW j \in Server, NEW q \in Request, RequestOk(H, R, q),
           Handle(i, j, q), NEW r, r = ReplyTo(i, j, q)
    PROVE  Served(H, G, R, j, q, r)
<1>1. CASE HandleAppend(j, q)
  <2>1. r = AppendReply(j, q)
    BY <1>1 DEF ReplyTo, HandleAppend
  <2>. QED
    BY <1>1, <2>1, AppendServed
<1>2. CASE HandleSnapshot(j, q)
  <2>1. r = SnapshotReply(j, q)
    BY <1>2 DEF ReplyTo, HandleSnapshot
  <2>. QED
    BY <1>2, <2>1, SnapshotServed
<1>3. CASE HandlePreVote(j, q) \/ HandleVote(i, j, q)
  <2>1. UNCHANGED <<log, snap, commitIndex>> /\ q.type \notin {"append", "snapshot"}
    BY <1>3 DEF HandlePreVote, HandleVote
  <2>. QED
    BY <2>1, QuietServes
<1>. QED
  BY <1>1, <1>2, <1>3 DEF Handle

\* The delivery of a request on its way.
LEMMA DeliverMoves ==
    ASSUME IInv, IInv', TermsGrow, NEW H, NEW G, NEW R, Ghosts(H, G, R), Core(H, G, R),
           Net(H, G, R), NEW i \in Server, NEW j \in Server, Deliver(i, j)
    PROVE  Result(H, G, R)
<1>1. PICK q \in Request : call[i][j] = q /\ q # Nil
  <2>1. call[i][j] \in Request \cup {Nil}
    BY DEF IInv, NetType
  <2>. QED
    BY <2>1 DEF Deliver
<1>2. PICK r : r = ReplyTo(i, j, q)
  OBVIOUS
<1>3. RequestOk(H, R, q)
  <2>1. CallOk(H, G, R, i, j)
    BY DEF Net
  <2>. QED
    BY <1>1, <2>1 DEF CallOk
<1>4. Handle(i, j, q) /\ reply' = [reply EXCEPT ![i][j] = r] /\ call' = call
  BY <1>1, <1>2 DEF Deliver
<1>5. Served(H, G, R, j, q, r)
  BY <1>2, <1>3, <1>4, HandleServed
<1>6. PICK H2, G2, R2 : /\ Ghosts(H2, G2, R2) /\ Move(H, G, R, H2, G2, R2)
                        /\ Core(H2, G2, R2)' /\ ReplyOk(H2, G2, R2, j, q, r)'
  BY <1>5 DEF Served
<1>7. ASSUME NEW a \in Server, NEW b \in Server, NEW p \in Request, NEW s \in Reply,
             call[a][b] = p, call'[a][b] = p, p # Nil,
             reply[a][b] = Nil, reply'[a][b] = s, s # Nil
      PROVE  ReplyOk(H2, G2, R2, b, p, s)'
  <2>1. reply \in [Server -> [Server -> Reply \cup {Nil}]]
    BY DEF IInv, NetType
  <2>2. a = i /\ b = j /\ s = r
    BY <1>4, <1>7, <2>1
  <2>. QED
    BY <1>1, <1>6, <1>7, <2>2
<1>8. Answers(H2, G2, R2)
  BY <1>7 DEF Answers
<1>. QED
  BY <1>6, <1>8 DEF Result

\* The late delivery of a request whose call has ended.
LEMMA StaleMoves ==
    ASSUME IInv, IInv', TermsGrow, NEW H, NEW G, NEW R, Ghosts(H, G, R), Core(H, G, R),
           Net(H, G, R), DeliverStale
    PROVE  Result(H, G, R)
<1>1. PICK m \in stale : Handle(m.from, m.to, m.req)
  BY DEF DeliverStale
<1>2. PICK i \in Server, j \in Server, q \in Request : i = m.from /\ j = m.to /\ q = m.req
  BY DEF IInv, NetType
<1>3. Handle(i, j, q) /\ RequestOk(H, R, q)
  BY <1>1, <1>2 DEF Net
<1>4. PICK r : r = ReplyTo(i, j, q)
  OBVIOUS
<1>5. Served(H, G, R, j, q, r)
  BY <1>3, <1>4, HandleServed
<1>6. PICK H2, G2, R2 : /\ Ghosts(H2, G2, R2) /\ Move(H, G, R, H2, G2, R2)
                        /\ Core(H2, G2, R2)'
  BY <1>5 DEF Served
<1>7. reply' = reply
  BY DEF DeliverStale
<1>8. Answers(H2, G2, R2)
  BY <1>7 DEF Answers
<1>. QED
  BY <1>6, <1>8 DEF Result

\* With a fixed membership nothing of add_server and remove_server happens.
LEMMA NoChange ==
    ASSUME MaxChanges = 0, IInv, StaticNode
    PROVE  /\ \A i, j \in Server : /\ ~AddServerBegin(i, j)
                                   /\ ~AddServerAtOnce(i, j)
                                   /\ ~RemoveServer(i, j)
           /\ \A i \in Server : \A a \in adds[i] :
                ~AddServerFinish(i, a) /\ ~AddServerAbandon(i, a)
<1>1. changes \in Nat
  BY DEF IInv, NodeType, RestType
<1>2. ~(changes < MaxChanges)
  BY <1>1
<1>3. \A i \in Server : adds[i] = {}
  BY DEF StaticNode
<1>. QED
  BY <1>2, <1>3 DEF AddServerBegin, AddServerAtOnce, RemoveServer

\* Every step has its next values.
LEMMA StepMoves ==
    ASSUME MaxChanges = 0, ElectionInv, ElectionInv', TermsGrow, Next,
           NEW H, NEW G, NEW R, Ghosts(H, G, R), Core(H, G, R), Net(H, G, R)
    PROVE  Result(H, G, R)
<1>1. IInv /\ IInv' /\ StaticNode
  BY DEF ElectionInv, MetaInv, StaticInv
<1>2. ASSUME NEW i \in Server, Step(i) PROVE Result(H, G, R)
  <2>1. CASE Timeout(i)
    BY <2>1, CampaignMoves
  <2>2. CASE \/ ContactExpires(i) \/ CheckQuorumFails(i) \/ SubmitFails(i)
             \/ DiskFills(i) \/ DiskDrains(i)
    BY <1>1, <2>2, StepQuiet
  <2>3. CASE Submit(i)
    BY <2>3, SubmitMoves
  <2>4. CASE Apply(i)
    BY <1>1, <2>4, ApplyQuiet
  <2>5. CASE FinishSnapshot(i)
    BY <1>1, <2>5, CompactQuiet
  <2>6. CASE Restart(i)
    BY <1>1, <2>6, RestartQuiet
  <2>7. CASE \E a \in adds[i] : AddServerFinish(i, a) \/ AddServerAbandon(i, a)
    BY <1>1, <2>7, NoChange
  <2>. QED
    BY <1>2, <2>1, <2>2, <2>3, <2>4, <2>5, <2>6, <2>7 DEF Step
<1>3. ASSUME NEW i \in Server, NEW j \in Server, PairStep(i, j) PROVE Result(H, G, R)
  <2>1. CASE SendPreVote(i, j) \/ SendVote(i, j) \/ SendAppend(i, j) \/ SendSnapshot(i, j)
    BY <1>1, <2>1, SendQuiet
  <2>2. CASE Deliver(i, j)
    BY <1>1, <2>2, DeliverMoves
  <2>3. CASE AbandonCall(i, j) \/ ReceiveHigherTerm(i, j) \/ ReceiveAppendConflict(i, j)
    BY <1>1, <2>3, AnswerQuiet
  <2>4. CASE ReceivePreVote(i, j)
    BY <2>4, CampaignMoves
  <2>5. CASE ReceiveVote(i, j)
    BY <2>5, VoteMoves
  <2>6. CASE ReceiveAppendOk(i, j) \/ ReceiveSnapshotOk(i, j)
    BY <1>1, <2>6, AckMoves
  <2>7. CASE AddServerBegin(i, j) \/ AddServerAtOnce(i, j) \/ RemoveServer(i, j)
    BY <1>1, <2>7, NoChange
  <2>8. CASE RemoveLearner(i, j)
    BY <1>1, <2>8, LearnerQuiet
  <2>. QED
    BY <1>3, <2>1, <2>2, <2>3, <2>4, <2>5, <2>6, <2>7, <2>8 DEF PairStep
<1>4. CASE DeliverStale
  BY <1>1, <1>4, StaleMoves
<1>. QED
  BY <1>2, <1>3, <1>4 DEF Next

\* The invariant is kept.
LEMMA LogSafeNext ==
    ASSUME MaxChanges = 0, ElectionInv, ElectionInv', TermsGrow, Next, LogSafe
    PROVE  LogSafe'
<1>1. PICK H, G, R : Ghosts(H, G, R) /\ Core(H, G, R) /\ Net(H, G, R)
  BY DEF LogSafe
<1>2. IInv /\ IInv' /\ CallReply
  BY DEF ElectionInv, MetaInv
<1>3. Result(H, G, R)
  BY <1>1, StepMoves
<1>4. PICK H2, G2, R2 : /\ Ghosts(H2, G2, R2) /\ Move(H, G, R, H2, G2, R2)
                        /\ Core(H2, G2, R2)' /\ Answers(H2, G2, R2)
  BY <1>3 DEF Result
<1>5. Trunks(H) /\ Branches(G) /\ Trunks(H2) /\ Branches(G2)
  BY <1>1, <1>4 DEF Ghosts
<1>6. /\ \A i, j \in Server : CallOk(H2, G2, R2, i, j)'
      /\ \A m \in stale' : RequestOk(H2, R2, m.req)'
  BY <1>1, <1>2, <1>4, <1>5, NetStep
<1>7. \A c \in Server : CandidateOk(G2, R2, c)'
  BY <1>1, <1>4, <1>5, CandidateStep
<1>8. Net(H2, G2, R2)'
  BY <1>6, <1>7 DEF Net
<1>. QED
  BY <1>4, <1>8 DEF LogSafe, Ghosts, Trunks, Branches, Records

\* It does not depend on anything else.
LEMMA Stutters ==
    ASSUME UNCHANGED vars, NEW H, NEW G, NEW R, Core(H, G, R), Net(H, G, R)
    PROVE  Core(H, G, R)' /\ Net(H, G, R)'
<1>1. /\ currentTerm' = currentTerm /\ log' = log /\ snap' = snap /\ commitIndex' = commitIndex
      /\ role' = role /\ votes' = votes /\ lastApplied' = lastApplied /\ snapping' = snapping
      /\ matchIndex' = matchIndex /\ call' = call /\ reply' = reply /\ stale' = stale
      /\ elected' = elected /\ decided' = decided
  BY DEF vars, durable, ballot, machine, progress, net, history
<1>2. \A w : Elected(w)' <=> Elected(w)
  BY <1>1 DEF Elected
<1>3. \A k, t : Blocked(R, k, t)' <=> Blocked(R, k, t)
  BY <1>1 DEF Blocked
<1>4. Trees(H, R)'
  BY <1>2, <1>3 DEF Core, Trees, TrunkOk, BranchOk
<1>5. ASSUME NEW i \in Server PROVE ViewOk(G, i)' /\ BoundOk(i)' /\ NodeOk(H, G, R, i)'
  <2>1. ViewOk(G, i) /\ BoundOk(i) /\ NodeOk(H, G, R, i)
    BY DEF Core, Nodes
  <2>2. LastIndex(i)' = LastIndex(i)
    BY <1>1 DEF LastIndex
  <2>3. ViewOk(G, i)'
    BY <1>1, <2>1, <2>2 DEF ViewOk
  <2>4. BoundOk(i)'
    BY <1>1, <2>1, <2>2 DEF BoundOk
  <2>5. NodeOk(H, G, R, i)'
    BY <1>1, <1>3, <2>1 DEF NodeOk
  <2>. QED
    BY <2>3, <2>4, <2>5
<1>6. \A j \in Server : \A m, t : Acked(H, G, R, j, m, t)' <=> Acked(H, G, R, j, m, t)
  BY <1>1 DEF Acked
<1>7. \A i \in Server : LeaderOk(H, G, R, i)'
  BY <1>1, <1>6 DEF Core, LeaderOk
<1>8. \A n \in DOMAIN decided' : DecidedOk(H, R, n)'
  BY <1>1 DEF Core, DecidedOk
<1>9. \A p \in elected' : p[1] <= currentTerm'[p[2]]
  BY <1>1 DEF Core
<1>10. Core(H, G, R)'
  BY <1>4, <1>5, <1>7, <1>8, <1>9 DEF Core, Nodes
<1>11. \A c \in Server : CandidateOk(G, R, c)'
  <2>1. \A v, c, t : Backs(v, c, t)' <=> Backs(v, c, t)
    BY <1>1 DEF Backs, Cast
  <2>. QED
    BY <1>1, <1>3, <2>1 DEF Net, CandidateOk
<1>12. \A q : RequestOk(H, R, q)' <=> RequestOk(H, R, q)
  BY <1>2 DEF RequestOk
<1>13. ASSUME NEW i \in Server, NEW j \in Server PROVE CallOk(H, G, R, i, j)'
  <2>1. \A q : BallotOk(G, i, q)' <=> BallotOk(G, i, q)
    BY <1>1 DEF BallotOk
  <2>2. \A q, r : ReplyOk(H, G, R, j, q, r)' <=> ReplyOk(H, G, R, j, q, r)
    BY <1>6 DEF ReplyOk
  <2>3. CallOk(H, G, R, i, j)
    BY DEF Net
  <2>. QED
    BY <1>1, <1>12, <2>1, <2>2, <2>3 DEF CallOk
<1>14. \A m \in stale' : RequestOk(H, R, m.req)'
  BY <1>1, <1>12 DEF Net
<1>. QED
  BY <1>10, <1>11, <1>13, <1>14 DEF Net

\* The inductive step.
LEMMA LogSafeStep ==
    MaxChanges = 0 /\ ElectionInv /\ ElectionInv' /\ [TermsGrow]_vars /\ [Next]_vars /\ LogSafe
      => LogSafe'
<1>1. ASSUME UNCHANGED vars, LogSafe PROVE LogSafe'
  <2>1. PICK H, G, R : Ghosts(H, G, R) /\ Core(H, G, R) /\ Net(H, G, R)
    BY <1>1 DEF LogSafe
  <2>2. Core(H, G, R)' /\ Net(H, G, R)'
    BY <1>1, <2>1, Stutters
  <2>. QED
    BY <2>1, <2>2 DEF LogSafe
<1>. QED
  BY <1>1, LogSafeNext

\* The invariant holds initially, with nothing stored.
LEMMA LogSafeInit == Init => LogSafe
<1>. SUFFICES ASSUME Init PROVE LogSafe
  OBVIOUS
<1>1. PICK H : H = [w \in Nat |-> << >>]
  OBVIOUS
<1>2. PICK G : G = [i \in Server |-> << >>]
  OBVIOUS
<1>3. PICK R \in SUBSET (Server \X Nat \X Nat) : R = {}
  OBVIOUS
<1>4. Ghosts(H, G, R)
  <2>1. Trunks(H)
    BY <1>1 DEF Trunks
  <2>2. Branches(G)
    BY <1>2 DEF Branches
  <2>. QED
    BY <2>1, <2>2 DEF Ghosts, Records
<1>5. /\ \A w \in Nat : H[w] = << >>
      /\ \A i \in Server : G[i] = << >>
  BY <1>1, <1>2
<1>6. /\ \A i \in Server : /\ currentTerm[i] = 0 /\ role[i] = "FOLLOWER" /\ log[i] = << >>
                           /\ snap[i].idx = 0 /\ snap[i].term = 0 /\ commitIndex[i] = 0
                           /\ lastApplied[i] = 0 /\ snapping[i] = 0
      /\ elected = {} /\ decided = << >> /\ stale = {}
      /\ \A i, j \in Server : call[i][j] = Nil
  BY DEF Init
<1>7. \A k, t : ~Has(<< >>, k, t)
  BY DEF Has
<1>8. Trees(H, R)
  <2>1. \A w : ~Elected(w)
    BY <1>6 DEF Elected
  <2>2. ASSUME NEW w \in Nat PROVE TrunkOk(H, w)
    BY <1>5 DEF TrunkOk, Valid, NoConfig
  <2>3. ASSUME NEW w \in Nat PROVE BranchOk(H, R, w)
    BY <2>1 DEF BranchOk
  <2>. QED
    BY <2>2, <2>3 DEF Trees
<1>9. ASSUME NEW i \in Server PROVE ViewOk(G, i) /\ BoundOk(i) /\ NodeOk(H, G, R, i)
  <2>1. G[i] = << >> /\ Len(<< >>) = 0
    BY <1>5
  <2>2. LastIndex(i) = 0
    BY <1>6 DEF LastIndex
  <2>3. ViewOk(G, i)
    BY <1>6, <2>1, <2>2 DEF ViewOk, TermOf
  <2>4. BoundOk(i)
    BY <1>6, <2>2 DEF BoundOk
  <2>5. NodeOk(H, G, R, i)
    BY <1>3, <1>6, <2>1 DEF NodeOk, Valid, SafeTo
  <2>. QED
    BY <2>3, <2>4, <2>5
<1>10. Core(H, G, R)
  <2>1. \A i \in Server : LeaderOk(H, G, R, i)
    BY <1>6 DEF LeaderOk
  <2>2. \A n \in DOMAIN decided : DecidedOk(H, R, n)
    BY <1>6
  <2>3. \A p \in elected : p[1] <= currentTerm[p[2]]
    BY <1>6
  <2>. QED
    BY <1>8, <1>9, <2>1, <2>2, <2>3 DEF Core, Nodes
<1>11. Net(H, G, R)
  <2>1. \A c \in Server : CandidateOk(G, R, c)
    BY <1>6 DEF CandidateOk
  <2>2. \A i, j \in Server : CallOk(H, G, R, i, j)
    BY <1>6 DEF CallOk
  <2>. QED
    BY <1>6, <2>1, <2>2 DEF Net
<1>. QED
  BY <1>4, <1>10, <1>11 DEF LogSafe

\* The invariant holds in every behaviour with a fixed membership in which no term goes
\* back.
LEMMA LogAlwaysSafe ==
    ASSUME MaxChanges = 0
    PROVE  Spec /\ NoTermLost => [](ElectionInv /\ LogSafe)
<1>1. ElectionInv /\ [Next]_vars => ElectionInv'
  BY ElectionStep
<1>2. ElectionInv /\ ElectionInv' /\ [TermsGrow]_vars /\ [Next]_vars /\ LogSafe => LogSafe'
  BY LogSafeStep
<1>. QED
  BY <1>1, <1>2, ElectionInit, LogSafeInit, PTL DEF Spec, NoTermLost

\* Without failing writes raft_meta is never behind memory.
TermClean ==
    MaxFaults = 0 => \A i \in Server : ~diskFull[i] /\ disk[i].term = currentTerm[i]

\* A disk fills or drains in steps of their own.
LEMMA DiskSteps ==
    ASSUME Next
    PROVE  \/ UNCHANGED diskFull
           \/ \E i \in Server : DiskFills(i) \/ DiskDrains(i)
<1>1. CASE \E i \in Server : Step(i)
  <2>1. PICK i \in Server : Step(i)
    BY <1>1
  <2>2. CASE DiskFills(i) \/ DiskDrains(i)
    BY <2>2
  <2>3. CASE ~(DiskFills(i) \/ DiskDrains(i))
    BY <2>1, <2>3 DEF Step, Timeout, ContactExpires, CheckQuorumFails, Submit, SubmitFails,
       Apply, FinishSnapshot, Restart, AddServerFinish, AddServerAbandon, env
  <2>. QED
    BY <2>2, <2>3
<1>2. CASE \E i, j \in Server : PairStep(i, j)
  <2>1. PICK i \in Server, j \in Server : PairStep(i, j)
    BY <1>2
  <2>. QED
    BY <2>1 DEF PairStep, SendPreVote, SendVote, SendAppend, SendSnapshot, Send, Deliver, Handle,
       AbandonCall, ReceiveHigherTerm, ReceivePreVote, ReceiveVote, ReceiveAppendOk,
       ReceiveAppendConflict, ReceiveSnapshotOk, AddServerBegin, AddServerAtOnce,
       RemoveServer, RemoveLearner, env
<1>3. CASE DeliverStale
  BY <1>3 DEF DeliverStale, Handle, env
<1>. QED
  BY <1>1, <1>2, <1>3 DEF Next

\* Without failing writes no disk is full.
LEMMA CleanDisk ==
    ASSUME MaxFaults = 0, IInv, TermClean, Next
    PROVE  \A i \in Server : ~diskFull'[i]
<1>1. diskFull \in [Server -> BOOLEAN] /\ faults \in Nat
  BY DEF IInv, NodeType, RestType
<1>2. \A i \in Server : ~diskFull[i]
  BY DEF TermClean
<1>3. ~(\E i \in Server : DiskFills(i) \/ DiskDrains(i))
  BY <1>1, <1>2 DEF DiskFills, DiskDrains
<1>. QED
  BY <1>2, <1>3, DiskSteps

\* What the steps do to memory and raft_meta.
LEMMA TermMoves ==
    ASSUME IInv, Next, NEW k \in Server, ~diskFull[k], disk[k].term = currentTerm[k]
    PROVE  disk'[k].term = currentTerm'[k]
<1>1. /\ currentTerm \in [Server -> Nat] /\ disk \in [Server -> Meta]
      /\ votedFor \in [Server -> Server \cup {Nil}]
  BY DEF IInv, NodeType, VoteType
<1>2. ASSUME NEW i \in Server, NEW t, NEW v,
             currentTerm' = [currentTerm EXCEPT ![i] = t],
             disk' = [disk EXCEPT ![i] = [term |-> t, vote |-> v]]
      PROVE  disk'[k].term = currentTerm'[k]
  BY <1>1, <1>2
<1>3. CASE UNCHANGED durable
  BY <1>3 DEF durable
<1>4. ASSUME NEW i \in Server, StartElection(i) PROVE disk'[k].term = currentTerm'[k]
  <2>1. /\ currentTerm' = [currentTerm EXCEPT ![i] = currentTerm[i] + 1]
        /\ disk' = [disk EXCEPT ![i] = [term |-> currentTerm[i] + 1, vote |-> i]]
    BY <1>4 DEF StartElection
  <2>. QED
    BY <1>2, <2>1
<1>5. ASSUME NEW i \in Server, NEW t \in Nat, StepDown(i, t)
      PROVE  disk'[k].term = currentTerm'[k]
  <2>1. CASE t > currentTerm[i]
    <3>1. /\ currentTerm' = [currentTerm EXCEPT ![i] = t]
          /\ disk' = IF diskFull[i] THEN disk
                     ELSE [disk EXCEPT ![i] = [term |-> t, vote |-> Nil]]
      BY <1>5, <2>1 DEF StepDown
    <3>2. CASE i = k
      BY <1>2, <3>1, <3>2
    <3>3. CASE i # k
      BY <1>1, <3>1, <3>3
    <3>. QED
      BY <3>2, <3>3
  <2>2. CASE ~(t > currentTerm[i])
    BY <1>3, <1>5, <2>2 DEF StepDown
  <2>. QED
    BY <2>1, <2>2
<1>6. ASSUME NEW i \in Server, NEW j \in Server, NEW q \in Request, HandleVote(i, j, q)
      PROVE  disk'[k].term = currentTerm'[k]
  <2>. DEFINE vote == IF Grants(i, j, q) THEN i ELSE VoteIn(j, q.term)
              new  == q.term > currentTerm[j]
  <2>1. CASE IgnoresVote(j, q)
    BY <1>3, <1>6, <2>1 DEF HandleVote
  <2>2. CASE ~IgnoresVote(j, q)
    <3>1. /\ currentTerm' = [currentTerm EXCEPT ![j] = q.term]
          /\ disk' = IF ~diskFull[j] /\ (new \/ vote # votedFor[j])
                     THEN [disk EXCEPT ![j] = [term |-> q.term, vote |-> vote]]
                     ELSE disk
      BY <1>6, <2>2 DEF HandleVote
    <3>2. q.term \in Nat /\ currentTerm[j] \in Nat /\ ~(q.term < currentTerm[j])
      BY <1>1, <2>2, RequestFields DEF IgnoresVote
    <3>3. new \/ q.term = currentTerm[j]
      BY <3>2
    <3>. HIDE DEF vote, new
    <3>4. CASE j # k
      BY <1>1, <3>1, <3>4
    <3>5. CASE j = k /\ (new \/ vote # votedFor[j])
      BY <1>2, <3>1, <3>5
    <3>6. CASE j = k /\ ~(new \/ vote # votedFor[j])
      <4>1. q.term = currentTerm[k] /\ disk' = disk
        BY <3>1, <3>3, <3>6
      <4>2. currentTerm'[k] = q.term
        BY <1>1, <3>1, <3>6
      <4>. QED
        BY <4>1, <4>2
    <3>. QED
      BY <3>4, <3>5, <3>6
  <2>. QED
    BY <2>1, <2>2
<1>7. ASSUME NEW i \in Server, Restart(i) PROVE disk'[k].term = currentTerm'[k]
  <2>1. disk' = disk /\ currentTerm' = [currentTerm EXCEPT ![i] = disk[i].term]
    BY <1>7 DEF Restart
  <2>. QED
    BY <1>1, <2>1
<1>. QED
  BY <1>3, <1>4, <1>5, <1>6, <1>7, DurableSteps

\* No term goes back then, nor when no node restarts.
LEMMA CleanGrows ==
    ASSUME MaxFaults = 0 \/ MaxRestarts = 0, IInv, TermClean, Next
    PROVE  TermsGrow
<1>1. /\ currentTerm \in [Server -> Nat] /\ restarts \in Nat
  BY DEF IInv, NodeType, VoteType, RestType
<1>2. CASE UNCHANGED durable
  BY <1>1, <1>2 DEF durable, TermsGrow
<1>3. ASSUME NEW i \in Server, NEW t \in Nat, t >= currentTerm[i],
             currentTerm' = [currentTerm EXCEPT ![i] = t]
      PROVE  TermsGrow
  BY <1>1, <1>3 DEF TermsGrow
<1>4. ASSUME NEW i \in Server, StartElection(i) PROVE TermsGrow
  <2>1. currentTerm' = [currentTerm EXCEPT ![i] = currentTerm[i] + 1]
    BY <1>4 DEF StartElection
  <2>2. currentTerm[i] + 1 \in Nat /\ currentTerm[i] + 1 >= currentTerm[i]
    BY <1>1
  <2>. QED
    BY <1>3, <2>1, <2>2
<1>5. ASSUME NEW i \in Server, NEW t \in Nat, StepDown(i, t) PROVE TermsGrow
  <2>1. CASE t > currentTerm[i]
    <3>1. currentTerm' = [currentTerm EXCEPT ![i] = t]
      BY <1>5, <2>1 DEF StepDown
    <3>2. t >= currentTerm[i]
      BY <1>1, <2>1
    <3>. QED
      BY <1>3, <3>1, <3>2
  <2>2. CASE ~(t > currentTerm[i])
    BY <1>2, <1>5, <2>2 DEF StepDown
  <2>. QED
    BY <2>1, <2>2
<1>6. ASSUME NEW i \in Server, NEW j \in Server, NEW q \in Request, HandleVote(i, j, q)
      PROVE  TermsGrow
  <2>1. CASE IgnoresVote(j, q)
    BY <1>2, <1>6, <2>1 DEF HandleVote
  <2>2. CASE ~IgnoresVote(j, q)
    <3>1. currentTerm' = [currentTerm EXCEPT ![j] = q.term]
      BY <1>6, <2>2 DEF HandleVote
    <3>2. q.term \in Nat /\ q.term >= currentTerm[j]
      BY <1>1, <2>2, RequestFields DEF IgnoresVote
    <3>. QED
      BY <1>3, <3>1, <3>2
  <2>. QED
    BY <2>1, <2>2
<1>7. ASSUME NEW i \in Server, Restart(i) PROVE TermsGrow
  <2>1. restarts < MaxRestarts /\ currentTerm' = [currentTerm EXCEPT ![i] = disk[i].term]
    BY <1>7 DEF Restart
  <2>2. MaxFaults = 0
    BY <1>1, <2>1
  <2>3. disk[i].term = currentTerm[i]
    BY <2>2 DEF TermClean
  <2>4. disk[i].term \in Nat /\ disk[i].term >= currentTerm[i]
    BY <1>1, <2>3
  <2>. QED
    BY <1>3, <2>1, <2>4
<1>. QED
  BY <1>2, <1>4, <1>5, <1>6, <1>7, DurableSteps

\* raft_meta stays level with memory.
LEMMA CleanSteps ==
    ASSUME IInv, TermClean, [Next]_vars
    PROVE  TermClean'
<1>1. CASE UNCHANGED vars
  BY <1>1 DEF TermClean, vars, durable, env
<1>2. CASE Next
  <2>1. ASSUME MaxFaults = 0, NEW i \in Server
        PROVE  ~diskFull'[i] /\ disk'[i].term = currentTerm'[i]
    <3>1. ~diskFull[i] /\ disk[i].term = currentTerm[i]
      BY <2>1 DEF TermClean
    <3>. QED
      BY <1>2, <2>1, <3>1, CleanDisk, TermMoves
  <2>. QED
    BY <2>1 DEF TermClean
<1>. QED
  BY <1>1, <1>2

\* Terms never go back (_persist_meta before the term is adopted) where writes do not
\* fail, or where nodes do not restart.
THEOREM TermsNeverLost ==
    ASSUME MaxFaults = 0 \/ MaxRestarts = 0
    PROVE  Spec => NoTermLost
<1>1. Init => IInv /\ TermClean
  BY InitTyped DEF Init, TermClean
<1>2. IInv /\ TermClean /\ [Next]_vars => (IInv /\ TermClean)'
  BY NextTyped, CleanSteps
<1>3. IInv /\ TermClean /\ [Next]_vars => [TermsGrow]_vars
  BY CleanGrows
<1>. QED
  BY <1>1, <1>2, <1>3, PTL DEF Spec, NoTermLost

\* The whole logs hold what the nodes still hold.
LEMMA ViewEntry ==
    ASSUME IInv, NEW G, Branches(G), NEW i \in Server, ViewOk(G, i), NEW n \in Indexes(i)
    PROVE  /\ n \in Nat /\ n > 0 /\ n <= Len(G[i]) /\ Len(G[i]) \in Nat /\ n > snap[i].idx
           /\ EntryAt(i, n) = G[i][n] /\ TermAt(i, n) = TermOf(G[i], n)
<1>1. /\ snap[i].idx \in Nat /\ Len(log[i]) \in Nat /\ LastIndex(i) = snap[i].idx + Len(log[i])
  BY NodeFields
<1>2. /\ n \in Nat /\ n > snap[i].idx /\ snap[i].idx <= n /\ n <= LastIndex(i) /\ n > 0
      /\ n - snap[i].idx \in 1..Len(log[i]) /\ snap[i].idx + (n - snap[i].idx) = n
  BY <1>1 DEF Indexes
<1>3. EntryAt(i, n) = G[i][n]
  BY <1>2 DEF EntryAt, ViewOk
<1>4. Len(G[i]) = LastIndex(i)
  BY DEF ViewOk
<1>5. TermAt(i, n) = TermOf(G[i], n)
  BY <1>2, ViewTerm
<1>. QED
  BY <1>1, <1>2, <1>3, <1>4, <1>5

\* Two marks are on one line.
LEMMA MarksMeet ==
    ASSUME NEW H, Trunks(H), NEW R, Trees(H, R), NEW k \in Nat, NEW t \in Nat, Mark(H, R, k, t),
           NEW c \in Nat, NEW w \in Nat, Mark(H, R, c, w), NEW d \in Nat, d <= k, d <= c
    PROVE  Agree(H[w], H[t], d)
<1>1. Elected(t) /\ Elected(w)
  <2>1. H[t] # << >> /\ H[w] # << >>
    BY DEF Mark, Has
  <2>. QED
    BY <2>1 DEF Trees, TrunkOk
<1>2. CASE t <= w
  <2>1. Agree(H[w], H[t], k)
    BY <1>1, <1>2, LeadersHoldMarked DEF Trees
  <2>. QED
    BY <2>1, AgreeLess, TrunkType
<1>3. CASE w <= t
  <2>1. Agree(H[t], H[w], c)
    BY <1>1, <1>3, LeadersHoldMarked DEF Trees
  <2>2. Agree(H[t], H[w], d)
    BY <2>1, AgreeLess, TrunkType
  <2>. QED
    BY <2>2, AgreeSym
<1>. QED
  BY <1>2, <1>3

\* What a node knows to be committed is the committed sequence.
LEMMA KnownIsDecided ==
    ASSUME IInv, NEW H, NEW G, NEW R, Ghosts(H, G, R), Core(H, G, R), NEW i \in Server,
           NEW n \in 1..commitIndex[i]
    PROVE  /\ n \in DOMAIN decided /\ n <= LastIndex(i) /\ n \in Nat
           /\ decided[n].entry = G[i][n]
<1>1. /\ commitIndex[i] \in Nat /\ LastIndex(i) \in Nat
  BY NodeFields
<1>2. n \in Nat /\ n >= 1 /\ n <= commitIndex[i] /\ commitIndex[i] # 0
  BY <1>1
<1>3. decided \in Seq([entry: LogEntry, at: Nat])
  BY DEF IInv, NodeType, LogType
<1>4. n \in DOMAIN decided
  <2>1. commitIndex[i] <= Len(decided) /\ Len(decided) \in Nat
    BY <1>3 DEF IInv, NodeBound
  <2>. QED
    BY <1>1, <1>2, <1>3, <2>1
<1>5. n <= LastIndex(i)
  <2>1. commitIndex[i] <= LastIndex(i)
    BY DEF Core, Nodes, BoundOk
  <2>. QED
    BY <1>1, <1>2, <2>1
<1>6. Trunks(H) /\ Trees(H, R)
  BY DEF Ghosts, Core
<1>7. PICK k \in Nat, t \in Nat : k >= commitIndex[i] /\ Mark(H, R, k, t)
                                  /\ Agree(G[i], H[t], commitIndex[i])
  BY <1>2 DEF Core, Nodes, NodeOk, SafeTo
<1>8. PICK c \in Nat, w \in Nat : /\ c >= n /\ Mark(H, R, c, w)
                                  /\ \A m \in 1..n : decided[m].entry = H[w][m]
  <2>1. DecidedOk(H, R, n)
    BY <1>4 DEF Core
  <2>. QED
    BY <1>4, <1>6, <2>1, SafeDecided
<1>9. n <= k
  BY <1>1, <1>2, <1>7
<1>10. Agree(H[w], H[t], n)
  BY <1>2, <1>6, <1>7, <1>8, <1>9, MarksMeet
<1>11. n \in 1..n
  BY <1>2
<1>12. H[w][n] = H[t][n]
  BY <1>10, <1>11 DEF Agree
<1>13. G[i][n] = H[t][n]
  BY <1>7 DEF Agree
<1>. QED
  BY <1>2, <1>4, <1>5, <1>8, <1>11, <1>12, <1>13

\* A node that has the entry in its whole log still holds it, or its snapshot does.
LEMMA HoldsEntry ==
    ASSUME IInv, NEW G, Branches(G), NEW i \in Server, ViewOk(G, i), NEW n \in Nat, n > 0,
           n <= LastIndex(i), G[i][n] = decided[n].entry
    PROVE  Holds(i, n)
<1>1. ASSUME n > snap[i].idx PROVE EntryAt(i, n) = decided[n].entry
  <2>1. snap[i].idx \in Nat /\ LastIndex(i) \in Nat
    BY NodeFields
  <2>2. n \in Indexes(i)
    BY <1>1, <2>1 DEF Indexes
  <2>. QED
    BY <2>2, ViewEntry
<1>. QED
  BY <1>1 DEF Holds

\* CommittedAgree follows from the invariant.
LEMMA CommittedIsHeld == ElectionInv /\ LogSafe => CommittedAgree
<1>. SUFFICES ASSUME ElectionInv, LogSafe PROVE CommittedAgree
  OBVIOUS
<1>1. IInv
  BY DEF ElectionInv, MetaInv
<1>2. PICK H, G, R : Ghosts(H, G, R) /\ Core(H, G, R)
  BY DEF LogSafe
<1>3. ASSUME NEW i \in Server, NEW n \in 1..commitIndex[i] PROVE Decided(n) /\ Holds(i, n)
  <2>1. n \in DOMAIN decided /\ n <= LastIndex(i) /\ n \in Nat /\ decided[n].entry = G[i][n]
    BY <1>1, <1>2, <1>3, KnownIsDecided
  <2>2. Decided(n)
    <3>1. decided \in Seq([entry: LogEntry, at: Nat])
      BY <1>1 DEF IInv, NodeType, LogType
    <3>. QED
      BY <2>1, <3>1 DEF Decided
  <2>3. Branches(G) /\ ViewOk(G, i)
    BY <1>2 DEF Ghosts, Core, Nodes
  <2>4. n > 0
    <3>1. commitIndex[i] \in Nat
      BY <1>1, NodeFields
    <3>. QED
      BY <3>1
  <2>. QED
    BY <1>1, <2>1, <2>2, <2>3, <2>4, HoldsEntry
<1>4. \A i \in Server : lastApplied[i] <= commitIndex[i]
  BY <1>2 DEF Core, Nodes, BoundOk
<1>. QED
  BY <1>3, <1>4 DEF CommittedAgree

\* LogMatching follows: two valid logs with the same entry begin alike.
LEMMA LogsMatch == ElectionInv /\ LogSafe => LogMatching
<1>. SUFFICES ASSUME ElectionInv, LogSafe,
                     NEW i \in Server, NEW j \in Server, NEW n \in Indexes(i) \cap Indexes(j),
                     TermAt(i, n) = TermAt(j, n),
                     NEW m \in Indexes(i) \cap Indexes(j), m <= n
              PROVE  EntryAt(i, m) = EntryAt(j, m)
  BY DEF LogMatching
<1>1. IInv
  BY DEF ElectionInv, MetaInv
<1>2. PICK H, G, R : Ghosts(H, G, R) /\ Core(H, G, R)
  BY DEF LogSafe
<1>3. /\ Branches(G) /\ ViewOk(G, i) /\ ViewOk(G, j)
      /\ Valid(H, G[i]) /\ Valid(H, G[j])
  BY <1>2 DEF Ghosts, Core, Nodes, NodeOk
<1>4. /\ n \in Nat /\ n > 0 /\ n <= Len(G[i]) /\ Len(G[i]) \in Nat
      /\ TermAt(i, n) = TermOf(G[i], n)
  BY <1>1, <1>3, ViewEntry
<1>5. /\ n <= Len(G[j]) /\ Len(G[j]) \in Nat /\ TermAt(j, n) = TermOf(G[j], n)
  BY <1>1, <1>3, ViewEntry
<1>6. Agree(G[i], G[j], n)
  BY <1>3, <1>4, <1>5, TermsAgree
<1>7. m \in Nat /\ m > 0 /\ EntryAt(i, m) = G[i][m]
  BY <1>1, <1>3, ViewEntry
<1>8. EntryAt(j, m) = G[j][m]
  BY <1>1, <1>3, ViewEntry
<1>. QED
  BY <1>4, <1>6, <1>7, <1>8 DEF Agree

\* LeaderCompleteness follows: a leader has what was committed before.
LEMMA LeadersComplete == ElectionInv /\ LogSafe => LeaderCompleteness
<1>. SUFFICES ASSUME ElectionInv, LogSafe, NEW i \in Server, role[i] = "LEADER",
                     NEW n \in DOMAIN decided, decided[n].at <= currentTerm[i]
              PROVE  Holds(i, n)
  BY DEF LeaderCompleteness
<1>1. IInv
  BY DEF ElectionInv, MetaInv
<1>2. PICK H, G, R : Ghosts(H, G, R) /\ Core(H, G, R)
  BY DEF LogSafe
<1>3. PICK w \in Nat : w = currentTerm[i]
  BY <1>1, NodeFields
<1>4. /\ Trunks(H) /\ Branches(G) /\ Trees(H, R) /\ ViewOk(G, i) /\ DecidedOk(H, R, n)
      /\ <<w, i>> \in elected /\ G[i] = H[w]
  BY <1>2, <1>3 DEF Ghosts, Core, Nodes, LeaderOk
<1>5. PICK k \in Nat, t \in Nat : /\ n \in Nat /\ n >= 1 /\ k >= n /\ Mark(H, R, k, t)
                                  /\ t = decided[n].at
                                  /\ \A m \in 1..n : decided[m].entry = H[t][m]
  BY <1>1, <1>4, SafeDecided
<1>6. Elected(w) /\ t <= w
  BY <1>3, <1>4, <1>5 DEF Elected
<1>7. Has(H[w], k, t) /\ Agree(H[w], H[t], k)
  BY <1>4, <1>5, <1>6, LeadersHoldMarked DEF Trees
<1>8. n \in 1..n /\ n \in 1..k
  BY <1>5
<1>9. decided[n].entry = G[i][n]
  BY <1>4, <1>5, <1>7, <1>8 DEF Agree
<1>10. n <= LastIndex(i)
  <2>1. Len(G[i]) = LastIndex(i)
    BY <1>4 DEF ViewOk
  <2>2. k <= Len(G[i])
    BY <1>4, <1>7 DEF Has
  <2>3. LastIndex(i) \in Nat
    BY <1>1, NodeFields
  <2>. QED
    BY <1>5, <2>1, <2>2, <2>3
<1>. QED
  BY <1>1, <1>4, <1>5, <1>9, <1>10, HoldsEntry

\* More than a quorum is a quorum.
LEMMA QuorumMonotone ==
    ASSUME NEW S, NEW T, S \subseteq T, Quorum(InitConfig, S)
    PROVE  Quorum(InitConfig, T)
<1>. DEFINE A == {m \in InitConfig : m[1] \in S}
            B == {m \in InitConfig : m[1] \in T}
<1>1. IsFiniteSet(InitConfig)
  <2>1. IsFiniteSet(InitMembers)
    BY MembersAssumption, FS_Subset
  <2>2. IsFiniteSet({0})
    BY FS_Singleton
  <2>. QED
    BY <2>1, <2>2, FS_Product DEF InitConfig
<1>2. A \subseteq B /\ B \subseteq InitConfig
  OBVIOUS
<1>3. IsFiniteSet(B) /\ Cardinality(InitConfig) \in Nat
  BY <1>1, <1>2, FS_Subset, FS_CardinalityType
<1>4. Cardinality(A) <= Cardinality(B) /\ Cardinality(A) \in Nat /\ Cardinality(B) \in Nat
  <2>. HIDE DEF A, B
  <2>1. IsFiniteSet(A) /\ Cardinality(A) <= Cardinality(B)
    BY <1>2, <1>3, FS_Subset
  <2>. QED
    BY <1>3, <2>1, FS_CardinalityType
<1>5. 2 * Cardinality(A) > Cardinality(InitConfig)
  BY DEF Quorum
<1>6. 2 * Cardinality(B) > Cardinality(InitConfig)
  <2>. HIDE DEF A, B
  <2>. QED
    BY <1>3, <1>4, <1>5
<1>. QED
  BY <1>6 DEF Quorum

\* CommittedOnMajority follows: the quorum that stored an entry cannot lose it.
LEMMA MajorityHolds == ElectionInv /\ LogSafe => CommittedOnMajority
<1>. SUFFICES ASSUME ElectionInv, LogSafe, NEW n \in DOMAIN decided
              PROVE  Quorum(InitConfig, {i \in Server : Holds(i, n)})
  BY DEF CommittedOnMajority
<1>1. IInv
  BY DEF ElectionInv, MetaInv
<1>2. PICK H, G, R : Ghosts(H, G, R) /\ Core(H, G, R)
  BY DEF LogSafe
<1>3. Trunks(H) /\ Branches(G) /\ DecidedOk(H, R, n)
  BY <1>2 DEF Ghosts, Core
<1>4. PICK k \in Nat, t \in Nat : /\ n \in Nat /\ n >= 1 /\ k >= n /\ Mark(H, R, k, t)
                                  /\ \A m \in 1..n : decided[m].entry = H[t][m]
  BY <1>1, <1>3, SafeDecided
<1>5. PICK Q \in SUBSET Server : Quorum(InitConfig, Q) /\ \A v \in Q : <<v, k, t>> \in R
  BY <1>4 DEF Mark
<1>6. ASSUME NEW v \in Q PROVE Holds(v, n)
  <2>1. v \in Server /\ <<v, k, t>> \in R
    BY <1>5
  <2>2. ViewOk(G, v) /\ NodeOk(H, G, R, v)
    BY <1>2, <2>1 DEF Core, Nodes
  <2>3. ~Blocked(R, k, t)
    BY <1>4, MarkedNotBlocked
  <2>4. Valid(H, G[v]) /\ Has(G[v], k, t)
    BY <2>1, <2>2, <2>3 DEF NodeOk
  <2>5. Agree(G[v], H[t], k)
    BY <2>4, HasAgrees
  <2>6. n \in 1..n /\ n \in 1..k
    BY <1>4
  <2>7. G[v][n] = decided[n].entry
    BY <1>4, <2>5, <2>6 DEF Agree
  <2>8. n <= LastIndex(v)
    <3>1. k <= LastIndex(v) /\ LastIndex(v) \in Nat
      BY <1>1, <2>1, <2>2, <2>5, NodeFields DEF Agree, ViewOk
    <3>. QED
      BY <1>4, <3>1
  <2>. QED
    BY <1>1, <1>3, <1>4, <2>1, <2>2, <2>7, <2>8, HoldsEntry
<1>7. Q \subseteq {i \in Server : Holds(i, n)}
  BY <1>6
<1>. QED
  BY <1>5, <1>7, QuorumMonotone

\* MatchInLog follows from what was acknowledged.
LEMMA MatchIsStored == ElectionInv /\ LogSafe => MatchInLog
<1>. SUFFICES ASSUME ElectionInv, LogSafe, NEW i \in Server, NEW j \in Server,
                     role[i] = "LEADER", currentTerm[j] = currentTerm[i]
              PROVE  /\ matchIndex[i][j] <= LastIndex(j)
                     /\ \A n \in (snap[i].idx + 1)..matchIndex[i][j] :
                           n > snap[j].idx => EntryAt(j, n) = EntryAt(i, n)
  BY DEF MatchInLog
<1>1. IInv
  BY DEF ElectionInv, MetaInv
<1>2. PICK H, G, R : Ghosts(H, G, R) /\ Core(H, G, R)
  BY DEF LogSafe
<1>3. PICK m \in Nat, w \in Nat : m = matchIndex[i][j] /\ w = currentTerm[i]
  <2>1. matchIndex[i][j] \in Nat
    BY <1>1 DEF IInv, NodeType, LogType
  <2>. QED
    BY <1>1, <2>1, NodeFields
<1>4. /\ snap[i].idx \in Nat /\ snap[j].idx \in Nat
      /\ LastIndex(i) \in Nat /\ LastIndex(j) \in Nat
  BY <1>1, NodeFields
<1>5. CASE m = 0
  BY <1>3, <1>4, <1>5
<1>6. CASE m > 0
  <2>1. Acked(H, G, R, j, m, w) /\ G[i] = H[w] /\ ViewOk(G, i) /\ ViewOk(G, j) /\ Branches(G)
    BY <1>2, <1>3, <1>6 DEF Ghosts, Core, Nodes, LeaderOk
  <2>2. Agree(G[j], G[i], m)
    BY <1>3, <2>1 DEF Acked
  <2>3. m <= LastIndex(i) /\ m <= LastIndex(j)
    BY <2>1, <2>2 DEF Agree, ViewOk
  <2>4. ASSUME NEW n \in (snap[i].idx + 1)..m, n > snap[j].idx
        PROVE  EntryAt(j, n) = EntryAt(i, n)
    <3>1. n \in Indexes(i) /\ n \in Indexes(j) /\ n \in 1..m
      BY <1>4, <2>3, <2>4 DEF Indexes
    <3>2. EntryAt(i, n) = G[i][n] /\ EntryAt(j, n) = G[j][n]
      BY <1>1, <2>1, <3>1, ViewEntry
    <3>. QED
      BY <2>2, <3>1, <3>2 DEF Agree
  <2>. QED
    BY <1>3, <2>3, <2>4
<1>. QED
  BY <1>5, <1>6

\* SnapshotFaithful follows: a snapshot is made of committed entries.
LEMMA SnapshotsFaithful == ElectionInv /\ LogSafe => SnapshotFaithful
<1>. SUFFICES ASSUME ElectionInv, LogSafe, NEW i \in Server, snap[i].idx > 0
              PROVE  /\ snap[i].idx <= Len(decided)
                     /\ snap[i].term = decided[snap[i].idx].entry.term
                     /\ \/ snap[i].cfg = ConfigAt(snap[i].idx)
                        \/ snap[i].cfg = {} /\ ConfigAt(snap[i].idx) = InitConfig
  BY DEF SnapshotFaithful
<1>1. IInv
  BY DEF ElectionInv, MetaInv
<1>2. PICK H, G, R : Ghosts(H, G, R) /\ Core(H, G, R)
  BY DEF LogSafe
<1>3. PICK n \in Nat : n = snap[i].idx
  BY <1>1, NodeFields
<1>4. n \in 1..commitIndex[i]
  <2>1. commitIndex[i] \in Nat /\ snap[i].idx <= commitIndex[i]
    BY <1>1, <1>2, NodeFields DEF Core, Nodes, BoundOk
  <2>. QED
    BY <1>3, <2>1
<1>5. n \in DOMAIN decided /\ decided[n].entry = G[i][n]
  BY <1>1, <1>2, <1>4, KnownIsDecided
<1>6. snap[i].term = decided[n].entry.term
  <2>1. snap[i].term = TermOf(G[i], n)
    BY <1>2, <1>3 DEF Core, Nodes, ViewOk
  <2>2. n # 0
    BY <1>3
  <2>. QED
    BY <1>5, <2>1, <2>2 DEF TermOf
<1>7. ConfigAt(n) = InitConfig
  <2>1. Trunks(H) /\ Trees(H, R) /\ DecidedOk(H, R, n)
    BY <1>2, <1>5 DEF Ghosts, Core
  <2>2. PICK k \in Nat, t \in Nat : /\ k >= n /\ Mark(H, R, k, t)
                                    /\ \A m \in 1..n : decided[m].entry = H[t][m]
    BY <1>1, <1>5, <2>1, SafeDecided
  <2>3. NoConfig(H[t]) /\ k <= Len(H[t]) /\ Len(H[t]) \in Nat
    BY <2>1, <2>2, TrunkType DEF Trees, TrunkOk, Mark, Has
  <2>4. ASSUME NEW m \in 1..n PROVE decided[m].entry.op # "CONFIG"
    <3>1. m \in 1..Len(H[t])
      BY <2>2, <2>3
    <3>. QED
      BY <2>2, <2>3, <3>1 DEF NoConfig
  <2>5. {m \in 1..n : decided[m].entry.op = "CONFIG"} = {}
    BY <2>4
  <2>. QED
    BY <2>5 DEF ConfigAt
<1>8. snap[i].cfg \in {InitConfig, {}}
  BY DEF ElectionInv, StaticInv, StaticNode
<1>9. n <= Len(decided)
  <2>1. decided \in Seq([entry: LogEntry, at: Nat])
    BY <1>1 DEF IInv, NodeType, LogType
  <2>. QED
    BY <1>5, <2>1
<1>. QED
  BY <1>3, <1>6, <1>7, <1>8, <1>9

\* The Log Matching property (raft.hpp's consistency check in handle_append_entries): two
\* logs that have an entry of the same index and term are the same up to it.
THEOREM LogMatchingHolds ==
    ASSUME MaxChanges = 0
    PROVE  Spec /\ NoTermLost => []LogMatching
BY LogAlwaysSafe, LogsMatch, PTL

\* Leader completeness (the COMMIT RULE): every leader's log holds what was committed in
\* an earlier term.
THEOREM LeadersAreComplete ==
    ASSUME MaxChanges = 0
    PROVE  Spec /\ NoTermLost => []LeaderCompleteness
BY LogAlwaysSafe, LeadersComplete, PTL

\* State machine safety: no two nodes ever regard different entries as committed at an
\* index, and what a node regards as committed is the committed sequence.
THEOREM CommittedEntriesAgree ==
    ASSUME MaxChanges = 0
    PROVE  Spec /\ NoTermLost => []CommittedAgree
BY LogAlwaysSafe, CommittedIsHeld, PTL

\* A committed entry is, at every later moment, in the log or the snapshot of a quorum,
\* whatever the leaders after it truncate.
THEOREM CommittedStaysOnMajority ==
    ASSUME MaxChanges = 0
    PROVE  Spec /\ NoTermLost => []CommittedOnMajority
BY LogAlwaysSafe, MajorityHolds, PTL

\* match_index never claims more than the follower has stored.
THEOREM MatchIndexIsStored ==
    ASSUME MaxChanges = 0
    PROVE  Spec /\ NoTermLost => []MatchInLog
BY LogAlwaysSafe, MatchIsStored, PTL

\* A snapshot covers committed entries only, and its last term is that of its last entry.
THEOREM SnapshotsStayFaithful ==
    ASSUME MaxChanges = 0
    PROVE  Spec /\ NoTermLost => []SnapshotFaithful
BY LogAlwaysSafe, SnapshotsFaithful, PTL
=============================================================================
