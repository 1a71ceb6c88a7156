\* Two membership changes, by two leaders; a third node may join.
\* One member with nothing to do has nothing to do: no deadlock check.
CONSTANTS
    n1 = n1  n2 = n2  n3 = n3
    Server = {n1, n2, n3}
    InitMembers = {n1, n2}
    Nil = Nil
    PreVote = FALSE
    CheckQuorum = FALSE
    SnapshotThreshold = 0
    MaxEntriesPerRpc = 1
    MaxTerm = 2
    MaxLog = 2
    MaxApplied = 0
    MaxRestarts = 0
    MaxFaults = 0
    MaxCalls = 1
    MaxStale = 0
    MaxChanges = 2
CHECK_DEADLOCK FALSE
SPECIFICATION Spec
SYMMETRY Symmetry
INVARIANTS OneChangePending ElectionSafety LeaderCompleteness
