----------------------------- MODULE MCServices ------------------------------
(***************************************************************************)
(* What stands between the clients and the data: writes that wait for Raft,*)
(* reads that do not go through its log, the registry of collections, the  *)
(* migration to another embedding, the router of several groups and the    *)
(* collection that applies on every node. They are checked side by side,   *)
(* one in each behaviour; the others stay as they begin.                   *)
(***************************************************************************)
EXTENDS RaftClients, RaftReads, CollectionRegistry, DriftBridge, ShardRouter, UltraDurable, TLC

CONSTANTS a, b, p1, p2, x, y, s1

MCHash == (a :> 1) @@ (b :> 2)
MCBatches == {{a, b}}

\* Threads, and names or nodes.
Symmetry == Permutations({p1, p2}) \cup Permutations({x, y})

VARIABLE part   \* the component that runs

servicesVars == <<part, clientVars, readVars, registryVars, driftVars, routerVars, ultraVars>>

ServicesInit ==
    /\ part \in {"clients", "reads", "registry", "drift", "router", "ultra"}
    /\ ClientsInit /\ ReadsInit /\ RegistryInit /\ DriftInit /\ RouterInit /\ UltraInit
    \* One group, two with equal shares, or two ranges that overlap.
    /\ IF part = "router" THEN Wraps \/ placement \in {uniform(1), uniform(2)}
                          ELSE placement = uniform(1)

ServicesNext ==
    /\ UNCHANGED part
    /\ \/ /\ part = "clients" /\ ClientsNext
          /\ UNCHANGED <<readVars, registryVars, driftVars, routerVars, ultraVars>>
       \/ /\ part = "reads" /\ ReadsNext
          /\ UNCHANGED <<clientVars, registryVars, driftVars, routerVars, ultraVars>>
       \/ /\ part = "registry" /\ RegistryNext
          /\ UNCHANGED <<clientVars, readVars, driftVars, routerVars, ultraVars>>
       \/ /\ part = "drift" /\ DriftNext
          /\ UNCHANGED <<clientVars, readVars, registryVars, routerVars, ultraVars>>
       \/ /\ part = "router" /\ RouterNext
          /\ UNCHANGED <<clientVars, readVars, registryVars, driftVars, ultraVars>>
       \/ /\ part = "ultra" /\ UltraNext
          /\ UNCHANGED <<clientVars, readVars, registryVars, driftVars, routerVars>>

ServicesSpec == ServicesInit /\ [][ServicesNext]_servicesVars
=============================================================================
