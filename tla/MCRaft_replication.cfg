\* Four leaders in turn replicate their NOOP to three nodes.
CONSTANTS
    n1 = n1  n2 = n2  n3 = n3
    Server = {n1, n2, n3}
    InitMembers = {n1, n2, n3}
    Nil = Nil
    PreVote = FALSE
    CheckQuorum = FALSE
    SnapshotThreshold = 0
    MaxEntriesPerRpc = 1
    MaxTerm = 4
    MaxLog = 0
    MaxApplied = 0
    MaxRestarts = 0
    MaxFaults = 0
    MaxCalls = 1
    MaxStale = 0
    MaxChanges = 0
SPECIFICATION Spec
SYMMETRY Symmetry
INVARIANTS LogMatching LeaderCompleteness
CONSTRAINTS OneCandidate FewDecided
