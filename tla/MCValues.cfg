CONSTANTS
    Keys = {1, 2, 3}
    Values = {"a"}
    nil = nil
    NotCached = NotCached
    NoIterator = NoIterator
    Parts = {"cache", "bonds", "ranks", "rewards", "units", "decimals", "coins", "items", "texts", "messages", "layers"}
    DecBound = 75
    MaxAmount = 3
    MaxItems = 3
    MaxBytes = 4
    MaxText = 7
    MaxKeys = 3
    MaxList = 6
    MaxCached = 2
SPECIFICATION ValuesSpec
INVARIANTS SnapshotIteration AmountsExact TextsReadBack ActsForSigners RecordsFound
PROPERTIES PlainSpec
CHECK_DEADLOCK FALSE
