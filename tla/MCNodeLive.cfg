CONSTANTS
    Parts = {"store", "upgrade", "keys", "feed", "gossip"}
    MaxHeight = 1
    MaxDeliver = 0
    AppHeight = 1
    MaxExports = 0
    StoreHeight = 3
    MaxCrashes = 2
    UpgradeNodes = {"n"}
    UpgradeNames = {"a", "b"}
    UpgradeHeight = 3
    MaxSwaps = 1
    MaxCalls = 2
    FeedSubs = {"a", "b"}
    MaxSends = 2
    MaxWrong = 0
    MaxReceives = 0
    MaxPosts = 2
SPECIFICATION FairSpec
PROPERTIES NodesCatchUp CallsReturn
CHECK_DEADLOCK FALSE
