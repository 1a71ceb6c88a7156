\* Each component with the instance it needs. Calls and crashes are bounded: no deadlock check.
CONSTANTS
    v1 = v1  v2 = v2  v3 = v3
    t1 = t1  t2 = t2
    n1 = n1  n2 = n2
    \* Three collections with their logs; one vector; numbers of one or two digits; one restart.
    Torn = Torn
    Radix = 3
    DocId = {v1}
    Replicas = 2
    Quorums = {1, 2}
    SegmentSizes = {1, 4}
    MaxWrites = 3
    MaxRestarts = 1
    MaxFailovers = 1
    MaxRefusals = 1
    MaxFull = 1
    \* Two shards, two threads; the home of v2 and v3 is the second shard, and a search finds one of them.
    Shard = {0, 1}
    Caller = {1, 2}
    Time = {1, 2}
    Candidates = 1
    MaxCalls = 3
    Vertex = {v1, v2, v3}
    Home <- MCHome
    \* Three vectors, two threads, buffers of two; the first 63 bytes of v2 are v1.
    VecId = {v1, v2, v3}
    CutTo <- MCCutTo
    Thread = {t1, t2}
    BufferSize = 2
    MaxVer = 3
    MaxRemoves = 1
    MaxReloads = 1
    \* A log of three entries of two terms; one error of each kind and a crash.
    Garbage = Garbage
    MaxIndex = 3
    MaxTermS = 2
    MaxDies = 1
    MaxAppendErrors = 1
    MaxRewriteErrors = 1
    MaxReopenErrors = 1
    \* Two nodes, two vectors stamped 1 to 3 that live for one tick from then on, three commands, one replay.
    Peer = {n1, n2}
    Fact = {v1, v2}
    Ttl = 1
    MaxTick = 3
    MaxCommands = 3
    MaxReplays = 1
CHECK_DEADLOCK FALSE
SPECIFICATION StorageSpec
SYMMETRY Symmetry
INVARIANTS RecoversAcknowledged QuorumHasAcknowledged NoGhostOnReplica VersionsLinked SupersededByNewer GraphsConsistent StoreCoversShards  RestartLoadsLog NodesAgree
