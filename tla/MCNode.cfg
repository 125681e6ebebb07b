CONSTANTS
    Parts = {"tx", "app", "store", "upgrade", "keys", "feed", "gossip"}
    MaxHeight = 2
    MaxDeliver = 3
    AppHeight = 3
    MaxExports = 1
    StoreHeight = 4
    MaxCrashes = 2
    UpgradeNodes = {"n", "m"}
    UpgradeNames = {"a"}
    UpgradeHeight = 4
    MaxSwaps = 1
    MaxCalls = 3
    FeedSubs = {"a", "b", "c"}
    MaxSends = 2
    MaxWrong = 1
    MaxReceives = 1
    MaxPosts = 2
SPECIFICATION Spec
INVARIANTS NodesAgree DoneInItsBlock
PROPERTIES AllOrNothing KeysKept GivenOnce
CHECK_DEADLOCK FALSE
