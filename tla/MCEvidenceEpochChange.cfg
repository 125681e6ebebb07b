CONSTANTS
    Parts = {"votes"}
    NoResult = NoResult
    KeyNode = {"k1", "k2", "k3"}
    GenesisKeyNodes = {"k1", "k2"}
    MaxKeyNodes = 3
    VoteID = {1}
    Vote = {yes, no}
    DelayBlock = 1
    BehaviourWindow = 3
    MaxMisbehaviourCount = 1
    MaxHeight = 4
    MaxEpochs = 2
    MaxLog = 6
    Batch = {b1}
    Accusation = {{}, {"k1"}}
    MaxRound = 2
    OrderID = {o1, o2}
    NoOrder = NoOrder
    NoKey = NoKey
    MaxWaitAssignKeyOrders = 1
SPECIFICATION KeyNodesSpec
PROPERTIES ConfirmedByCurrentTwoThirds
CHECK_DEADLOCK FALSE
