CONSTANTS
    Parts = {"mapping", "swap", "orders", "tokens", "prices", "params"}
    MapSteps = 5
    MapTime = 2
    SwapSteps = 4
    OrderSteps = 5
    OrderTime = 4
    MaxCancels = 2
    PriceHeight = 2
    MaxTokens = 4
SPECIFICATION Spec
INVARIANTS CoinsAccounted NothingLeftToMatch AcceptedExecutes
PROPERTIES SharesNeverDiluted PriceSupported
CHECK_DEADLOCK FALSE
