------------------------------- MODULE Places -------------------------------
(***************************************************************************)
(* Places of a container, one after the other.                             *)
(***************************************************************************)
EXTENDS Naturals, FiniteSets, Functions

\* The places in ascending order.
InOrder(places) ==
    CHOOSE p \in [1..Cardinality(places) -> places] :
        /\ Range(p) = places
        /\ \A j, k \in DOMAIN p : j < k => p[j] < p[k]
=============================================================================
