\* A node joins a single node that compacts its log; crashes; a request that is late.
\* One member with nothing to do has nothing to do: no deadlock check.
CONSTANTS
    n1 = n1  n2 = n2
    Server = {n1, n2}
    InitMembers = {n1}
    Nil = Nil
    PreVote = FALSE
    CheckQuorum = FALSE
    SnapshotThreshold = 1
    MaxEntriesPerRpc = 1
    MaxTerm = 2
    MaxLog = 2
    MaxApplied = 2
    MaxRestarts = 1
    MaxFaults = 0
    MaxCalls = 1
    MaxStale = 1
    MaxChanges = 1
CHECK_DEADLOCK FALSE
SPECIFICATION Spec
SYMMETRY Symmetry
INVARIANTS CommitBound MatchInLog
PROPERTIES ImplementsReplicatedLog
