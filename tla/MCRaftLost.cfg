\* A follower adopts a term it cannot write, acknowledges entries of it, and crashes.
CONSTANTS
    n1 = n1  n2 = n2  n3 = n3  n4 = n4  n5 = n5
    Server = {n1, n2, n3, n4, n5}
    InitMembers = {n1, n2, n3, n4, n5}
    Nil = Nil
    PreVote = FALSE
    CheckQuorum = FALSE
    SnapshotThreshold = 0
    MaxEntriesPerRpc = 1
    MaxTerm = 2
    MaxLog = 1
    MaxApplied = 0
    MaxRestarts = 1
    MaxFaults = 1
    MaxCalls = 2
    MaxStale = 0
    MaxChanges = 0
SPECIFICATION Spec
CONSTRAINT TwoLeaders
ACTION_CONSTRAINT LosesTerm
SYMMETRY SameRole
INVARIANTS CommittedOnMajority
