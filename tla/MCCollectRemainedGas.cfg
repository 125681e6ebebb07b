CONSTANTS
    Parts = {"mixed"}
    NoResult = NoResult
    NoItem = NoItem
    NoOrder = NoOrder
    User = {u1}
    OpCU = {op1}
    u1 = u1
    op1 = op1
    KeyNode = {k1, k2}
    Main = main
    main = main
    tok = tok
    Symbol <- MCSymbol
    Hash = {h1, h2}
    Amount = {4}
    CollectAmount = {1, 6}
    CostFee = {0}
    PartialBatches = FALSE
    SelfTransfers = FALSE
    Depositor = {u1}
    DepositID = {1, 2}
    WithdrawalID = {}
    SysTransferID = {}
    OpSymbol <- MCOpSymbol
    OrderID = {1, 2, 3}
    GasFee <- MCFee
    CollectFee <- MCCollectFee
    WithdrawalFee <- MCFee
    SysTransferAmount <- MCTransfer
    OpCUSysTransferAmount <- MCTransfer
    DepositThreshold <- MCFee
    CollectThreshold <- MCFee
    InitialCoins <- NothingYet
    InitialAsset <- OpHasGas
    MaxEpochs = 2
SPECIFICATION LiveSpec
PROPERTIES SignedTerminates
CHECK_DEADLOCK FALSE
