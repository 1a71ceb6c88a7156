------------------------------ MODULE MCStorage ------------------------------
(***************************************************************************)
(* What a node keeps on its disk and in its memory: the replica set over   *)
(* its write-ahead logs, the durable collection and its segment store, the *)
(* log of Raft, and the collections that are fed from it. They are checked *)
(* side by side, one in each behaviour; the others stay as they begin.     *)
(***************************************************************************)
EXTENDS ReplicaSet, DurableCollection, SegmentStore, RaftStore, ClusterState

CONSTANTS v1, v2, v3, t1, t2, n1, n2

MCHome == (v1 :> 0) @@ (v2 :> 1) @@ (v3 :> 1)

MCCutTo == (v1 :> v1) @@ (v2 :> v1) @@ (v3 :> v3)

\* Nodes are alike, and so are the threads; only ClusterState has the ones, only SegmentStore the others.
Symmetry == Permutations({n1, n2}) \cup Permutations({t1, t2})

VARIABLE part   \* the component that runs

storageVars == <<part, rsVars, dcVars, ssVars, storeVars, csVars>>

StorageInit ==
    /\ part \in {"replicas", "collection", "segments", "raft", "cluster"}
    /\ RSInit /\ DCInit /\ SSInit /\ StoreInit /\ CSInit
    /\ part # "replicas" => quorum = 1 /\ segmentSize = 1
    /\ part # "cluster" => ~config.dedup

StorageNext ==
    /\ UNCHANGED part
    /\ \/ /\ part = "replicas" /\ RSNext
          /\ UNCHANGED <<dcVars, ssVars, storeVars, csVars>>
       \/ /\ part = "collection" /\ DCNext
          /\ UNCHANGED <<rsVars, ssVars, storeVars, csVars>>
       \/ /\ part = "segments" /\ SSNext
          /\ UNCHANGED <<rsVars, dcVars, storeVars, csVars>>
       \/ /\ part = "raft" /\ StoreNext
          /\ UNCHANGED <<rsVars, dcVars, ssVars, csVars>>
       \/ /\ part = "cluster" /\ CSNext
          /\ UNCHANGED <<rsVars, dcVars, ssVars, storeVars>>

StorageSpec == StorageInit /\ [][StorageNext]_storageVars
=============================================================================
