\* Each component with the instance it needs. Calls and crashes are bounded: no deadlock check.
CONSTANTS
    a = a  b = b  p1 = p1  p2 = p2  x = x  y = y  s1 = s1
    \* Two threads with a request each, or one with both; one node of the group.
    Writer = {p1, p2}
    MaxRequests = 2
    MaxTerm = 3
    MaxLog = 3
    MaxCrashes = 1
    MaxFailures = 1
    \* Three nodes; the clock runs for two election timeouts.
    Server = {s1, x, y}
    FirstLeader = s1
    TimeoutMin = 2
    TimeoutMax = 4
    MaxNow = 4
    MaxTermR = 2
    MaxEntries = 2
    MaxRounds = 1
    MaxForgets = 1
    MaxSends = 2
    \* Two names, three collections in turn.
    Name = {x, y}
    Request = {p1, p2}
    MaxMade = 3
    MaxOpened = 3
    \* Two vectors, two clients.
    Doc = {x, y}
    Client = {p1, p2}
    MaxWrites_ = 4
    \* Three hashes, one or two groups, writes to both of two vectors.
    HashMax = 2
    MaxGroups = 2
    Vec = {a, b}
    HashOf <- MCHash
    Caller = {p1, p2}
    Batches <- MCBatches
    MaxOps = 3
    MaxLost = 1
    \* Two nodes, two threads.
    Member = {x, y}
    User = {p1, p2}
    MaxLeaders = 2
    MaxWritten = 3
    MaxThrows = 1
CHECK_DEADLOCK FALSE
SPECIFICATION ServicesSpec
SYMMETRY Symmetry
INVARIANTS OutcomesMatched ContentsMatchLog OnlyOwnWrites NamesLeadToData MigrationSound RoutedAndStored AppliedOnceAndSeen ReadsFresh
