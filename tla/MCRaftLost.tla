----------------------------- MODULE MCRaftLost -----------------------------
(***************************************************************************)
(* Raft with a full disk at a follower, which then crashes. A vote and a   *)
(* commit need a majority without the other leader, so five nodes: n1 and  *)
(* n2 lead, one after the other, n3 loses its term, n4 and n5 vote.        *)
(***************************************************************************)
EXTENDS RaftSafety, TLC

CONSTANTS n1, n2, n3, n4, n5

SameRole == Permutations({n4, n5})

\* One node at a time does anything, as far as that matters for the outcome:
\* the search is confined to states in which n1 leads the first term and n2 the
\* second, n3 has the full disk and every node has one call under way, at most.
TwoLeaders ==
    /\ \A i \in {n3, n4, n5} : role[i] = "FOLLOWER"
    /\ currentTerm[n1] <= 1
    /\ role[n2] # "FOLLOWER" => currentTerm[n2] = 2 /\ role[n1] # "CANDIDATE"
    /\ \A i \in Server \ {n3} : ~diskFull[i]
    /\ call[n2][n1] = Nil
    /\ call[n1][n2] # Nil => call[n1][n2].type = "vote"
    /\ \A i \in Server : Cardinality({j \in Server : call[i][j] # Nil}) <= 1

\* The only restart of interest is that of a node whose term is not on disk.
LosesTerm ==
    restarts' > restarts => \E i \in Server : currentTerm'[i] < currentTerm[i]
=============================================================================
