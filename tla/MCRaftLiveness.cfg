\* Two nodes of which each needs the other, a disk that may fill up.
CONSTANTS
    n1 = n1  n2 = n2
    Server = {n1, n2}
    InitMembers = {n1, n2}
    Nil = Nil
    PreVote = TRUE
    CheckQuorum = TRUE
    SnapshotThreshold = 0
    MaxEntriesPerRpc = 1
    MaxTerm = 3
    MaxLog = 0
    MaxApplied = 0
    MaxRestarts = 0
    MaxFaults = 1
    MaxCalls = 2
    MaxStale = 0
    MaxChanges = 0
SPECIFICATION LiveSpec
PROPERTIES NeverStuck
