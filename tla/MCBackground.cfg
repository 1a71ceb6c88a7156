\* The index: two ids, two embeddings, one payload that expires and one that does not.
\* Group commit: three writers, batches of two. It may be stopped: no deadlock check.
CONSTANTS
    a = a  b = b  e = e  f = f  keep = keep  old = old
    w1 = w1  w2 = w2  w3 = w3
    Id = {a, b}
    Emb = {e, f}
    NoEmb = NoEmb
    Meta = {keep, old}
    Expiring = {old}
    None = None
    Background = TRUE
    MinTombstones = 2
    Ratio = 1
    CatchUpRounds = 1
    FinalReplay = 1
    MaxNodes = 3
    MaxJournal = 2
    Submitter = {w1, w2, w3}
    MaxBatch = 2
    MaxSubmits = 5
    MaxStops = 1
CHECK_DEADLOCK FALSE
SPECIFICATION BackgroundSpec
INVARIANTS NoWriteLost SlotsSound TextIndexExact LoggedAndSynced
PROPERTIES CompactionEnds WritersReturn
