CONSTANTS
    Parts = {"mixed"}
    NoResult = NoResult
    NoItem = NoItem
    NoOrder = NoOrder
    User = {u1}
    OpCU = {op1, op2}
    u1 = u1
    op1 = op1
    KeyNode = {k1, k2}
    Main = main
    main = main
    tok = tok
    Symbol <- MCSymbol
    Hash = {h1, h2, h3}
    Amount = {1}
    CollectAmount = {1, 2, 3}
    CostFee = {0, 1}
    PartialBatches = FALSE
    SelfTransfers = TRUE
    Depositor = {u1}
    DepositID = {}
    WithdrawalID = {1, 2}
    SysTransferID = {3}
    OpSymbol <- MCOpSymbol
    OrderID <- MCOrderID
    GasFee <- MCFee
    CollectFee <- MCCollectFee
    WithdrawalFee <- MCFee
    SysTransferAmount <- MCTransfer
    OpCUSysTransferAmount <- MCTransfer
    DepositThreshold <- MCFee
    CollectThreshold <- MCFee
    InitialCoins <- SomeCoins
    InitialAsset <- OpsHaveGas
    MaxEpochs = 2
SPECIFICATION CustodySpec
SYMMETRY Symmetry
INVARIANTS AssetHoldIsOccupying
CHECK_DEADLOCK FALSE
