\* Three nodes that compact their logs; a node left behind installs a snapshot.
CONSTANTS
    n1 = n1  n2 = n2  n3 = n3
    Server = {n1, n2, n3}
    InitMembers = {n1, n2, n3}
    Nil = Nil
    PreVote = FALSE
    CheckQuorum = FALSE
    SnapshotThreshold = 1
    MaxEntriesPerRpc = 2
    MaxTerm = 2
    MaxLog = 1
    MaxApplied = 2
    MaxRestarts = 0
    MaxFaults = 0
    MaxCalls = 1
    MaxStale = 0
    MaxChanges = 0
SPECIFICATION Spec
SYMMETRY Symmetry
INVARIANTS SnapshotFaithful
PROPERTIES ImplementsReplicatedLog
