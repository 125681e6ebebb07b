CONSTANTS
    Parts = {"mixed", "utxo_moves", "account_moves"}
    NoResult = NoResult
    NoItem = NoItem
    NoOrder = NoOrder
    User = {u1}
    OpCU = {op1, op2}
    u1 = u1
    op1 = op1
    KeyNode = {k1, k2}
    Main = main
    main = main
    tok = tok
    Symbol <- MCSymbol
    Hash = {h1}
    Amount = {1}
    CollectAmount = {1}
    CostFee = {1}
    PartialBatches = FALSE
    SelfTransfers = FALSE
    Depositor = {u1}
    DepositID = {1}
    WithdrawalID = {2}
    SysTransferID = {3}
    OpSymbol <- MCOpSymbol
    OrderID = {1, 2, 3}
    GasFee <- MCFee
    CollectFee <- MCCollectFee
    WithdrawalFee <- MCFee
    SysTransferAmount <- MCTransfer
    OpCUSysTransferAmount <- MCTransfer
    DepositThreshold <- MCFee
    CollectThreshold <- MCFee
    InitialCoins <- SomeCoins
    InitialAsset <- OpHasAll
    MaxEpochs = 2
SPECIFICATION LiveSpec
INVARIANTS NothingLeftBehind
PROPERTIES SignedTerminates MigrationFinishes
CHECK_DEADLOCK FALSE
