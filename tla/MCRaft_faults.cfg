\* Three nodes, a full disk and a crash.
CONSTANTS
    n1 = n1  n2 = n2  n3 = n3
    Server = {n1, n2, n3}
    InitMembers = {n1, n2, n3}
    Nil = Nil
    PreVote = FALSE
    CheckQuorum = FALSE
    SnapshotThreshold = 0
    MaxEntriesPerRpc = 1
    MaxTerm = 2
    MaxLog = 1
    MaxApplied = 0
    MaxRestarts = 1
    MaxFaults = 1
    MaxCalls = 1
    MaxStale = 0
    MaxChanges = 0
SPECIFICATION Spec
SYMMETRY Symmetry
INVARIANTS TypeOK CommittedAgree CommittedOnMajority
PROPERTIES VoteIsFinal
