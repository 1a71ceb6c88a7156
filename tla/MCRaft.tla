------------------------------- MODULE MCRaft -------------------------------
(***************************************************************************)
(* Instances of Raft for TLC. Nodes are interchangeable, except that only  *)
(* some are initial members.                                               *)
(***************************************************************************)
EXTENDS RaftSafety, TLC

Symmetry == Permutations(InitMembers) \cup Permutations(Server \ InitMembers)

\* Bounds for the run with the most terms: one election after the other, and no
\* further once two entries are committed. (The second is still checked.)
OneCandidate == Cardinality({i \in Server : role[i] = "CANDIDATE"}) <= 1
FewDecided   == Len(decided) <= 1
=============================================================================
