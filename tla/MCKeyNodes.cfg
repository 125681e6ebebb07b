CONSTANTS
    Parts = {"votes", "behaviour", "retries", "keys"}
    NoResult = NoResult
    KeyNode = {"k1", "k2", "k3"}
    GenesisKeyNodes = {"k1", "k2"}
    MaxKeyNodes = 3
    VoteID = {1, 2}
    Vote = {yes, no}
    DelayBlock = 1
    BehaviourWindow = 3
    MaxMisbehaviourCount = 1
    MaxHeight = 4
    MaxEpochs = 2
    MaxLog = 6
    Batch = {b1}
    Accusation = {{}, {"k1"}}
    MaxRound = 1
    OrderID = {o1, o2}
    NoOrder = NoOrder
    NoKey = NoKey
    MaxWaitAssignKeyOrders = 1
SPECIFICATION KeyNodesSpec
INVARIANTS ConfirmedByThreshold CountedOnce MissesCounted RoundsSettledOnce KeysSound
PROPERTIES ConfirmationFinal
CHECK_DEADLOCK FALSE
