----------------------------- MODULE MCBackground -----------------------------
(***************************************************************************)
(* The threads that work behind the writers and have to come to an end:    *)
(* the compaction of a vector index and the flusher of the group commit.   *)
(* One of them runs in each behaviour; the other stays as it begins.       *)
(***************************************************************************)
EXTENDS TVIndex, GroupCommit

CONSTANTS a, b, e, f, keep, old, w1, w2, w3

VARIABLE part   \* the component that runs

backgroundVars == <<part, vars, gcVars>>

BackgroundInit == part \in {"index", "commits"} /\ Init /\ GCInit

BackgroundNext ==
    /\ UNCHANGED part
    /\ \/ part = "index" /\ Next /\ UNCHANGED gcVars
       \/ part = "commits" /\ GCNext /\ UNCHANGED vars

BackgroundSpec ==
    BackgroundInit /\ [][BackgroundNext]_backgroundVars /\ Fairness /\ WF_gcVars(FlusherStep)
=============================================================================
