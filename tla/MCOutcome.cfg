CONSTANTS
    Parts = {"mixed"}
    NoResult = NoResult
    NoItem = NoItem
    NoOrder = NoOrder
    User = {u1}
    OpCU = {op1, op2}
    u1 = u1
    op1 = op1
    KeyNode = {k1, k2, k3}
    Main = main
    main = main
    tok = tok
    Symbol <- MCSymbol
    Hash = {h1, h2, h3}
    Amount = {1}
    CollectAmount = {1}
    CostFee = {1}
    PartialBatches = FALSE
    SelfTransfers = FALSE
    Depositor = {u1}
    DepositID = {}
    WithdrawalID = {1}
    SysTransferID = {}
    OpSymbol <- MCOpSymbol
    OrderID <- MCOrderID
    GasFee <- MCFee
    CollectFee <- MCCollectFee
    WithdrawalFee <- MCFee
    SysTransferAmount <- MCTransfer
    OpCUSysTransferAmount <- MCTransfer
    DepositThreshold <- MCFee
    CollectThreshold <- MCFee
    InitialCoins <- SomeCoins
    InitialAsset <- OpHasAll
    MaxEpochs = 2
SPECIFICATION OutcomeSpec
INVARIANTS OutcomeByTwoThirds
CHECK_DEADLOCK FALSE
