---------------------------- MODULE RaftLiveness ----------------------------
(***************************************************************************)
(* Raft (consensus/raft.hpp) on a network that works: calls are answered,  *)
(* and before the caller's election timer runs out again. Nothing crashes; *)
(* disks may be full.                                                      *)
(***************************************************************************)
EXTENDS RaftSafety

\* The peers the running round of pre-votes or votes has still to be sent to.
Unasked(i) ==
    IF prevotes[i] = {} /\ role[i] # "CANDIDATE" THEN {}
    ELSE Members(Config(i)) \ (asked[i] \cup {i})

\* The election timer outlasts a round of RPCs.
PatientTimeout(i) ==
    /\ Timeout(i)
    /\ Unasked(i) = {} /\ \A j \in Server : call[i][j] = Nil

Receive(i, j) ==
    \/ ReceiveHigherTerm(i, j)
    \/ ReceivePreVote(i, j)
    \/ ReceiveVote(i, j)
    \/ ReceiveAppendOk(i, j)
    \/ ReceiveAppendConflict(i, j)
    \/ ReceiveSnapshotOk(i, j)

\* An answer the replicator has no use for.
Discard(i, j) == reply[i][j] # Nil /\ ~ENABLED Receive(i, j) /\ AbandonCall(i, j)

Call(i, j) == SendPreVote(i, j) \/ SendVote(i, j) \/ SendAppend(i, j)

Answering(i, j) == Deliver(i, j) \/ Receive(i, j) \/ Discard(i, j)

LiveNext ==
    \/ \E i \in Server :
         \/ PatientTimeout(i) \/ ContactExpires(i) \/ CheckQuorumFails(i)
         \/ SubmitFails(i) \/ DiskFills(i) \/ DiskDrains(i)
    \/ \E i, j \in Server : Call(i, j) \/ Answering(i, j)

\* The threads of a node are scheduled, timers expire, the network delivers, and
\* a full disk is cleared in the end. Whether a leader is deposed is left open.
Fairness ==
    \A i \in Server :
        /\ WF_vars(PatientTimeout(i))
        /\ WF_vars(ContactExpires(i))
        /\ WF_vars(DiskDrains(i))
        /\ \A j \in Server : WF_vars(Call(i, j)) /\ WF_vars(Answering(i, j))

LiveSpec == Init /\ [][LiveNext]_vars /\ Fairness

-----------------------------------------------------------------------------
\* A group without a leader gets one, or keeps trying in new terms: no round of
\* pre-votes or votes leaves every node waiting for another.
\* (MaxTerm ends the trying.)
NeverStuck ==
    []<>(\E i \in Server : role[i] = "LEADER" \/ currentTerm[i] = MaxTerm)
=============================================================================
