-------------------------- MODULE MCAccountCustody --------------------------
(***************************************************************************)
(* Instances of the custody of external coins: the handlers of one         *)
(* account-based chain on several sets of orders and amounts, the handlers *)
(* of a UTXO coin, and the migration of operation CUs to new key nodes.  A *)
(* behaviour runs one of them, the one named by part; the others stay as   *)
(* they were at the start.                                                 *)
(***************************************************************************)
EXTENDS AccountCustody, Sequences, TLC

CONSTANTS Parts,                   \* what is run
          main, tok, u1, op1,
          MaxEpochs,               \* bound on the epochs of a migration
          NoItem, NoOrder

VARIABLES part,
          uitems, worder, txs, assets, assetsHold, ucoins, ucoinsHold, feesIn, feesOut,
          height, epochs, migration, addrs, amount, place, items, locked, orders, boxes, other, topUp, dust,
          said           \* <<order id, key node>> -> outcome it reported last

utxoVars == <<uitems, worder, txs, assets, assetsHold, ucoins, ucoinsHold, feesIn, feesOut>>
moveVars == <<height, epochs, migration, addrs, amount, place, items, locked, orders, boxes, other, topUp, dust>>
allVars == <<part, custodyVars, utxoVars, moveVars, said>>

-----------------------------------------------------------------------------
(* One account-based chain: the main token and one token, operation CU op1 *)
(* for the former and the other one for the latter.                        *)

Each(m, t) == [s \in {main, tok} |-> IF s = main THEN m ELSE t]

MCOrderID == 1 .. 4
MCSymbol == {main, tok}
MCFee == Each(1, 1)
MCCollectFee == Each(1, 3)
MCTransfer == Each(2, 2)
MCOpSymbol == [c \in OpCU |-> IF c = op1 THEN main ELSE tok]

NothingYet == [u \in User |-> NoCoins]
SomeMain == [u \in User |-> IF u = u1 THEN Each(2, 0) ELSE NoCoins]
SomeCoins == [u \in User |-> IF u = u1 THEN Each(4, 2) ELSE NoCoins]
OpHasAll == [c \in OpCU |-> IF c = op1 THEN Each(3, 0) ELSE Each(1, 2)]
OpHasGas == [c \in OpCU |-> IF c = op1 THEN Each(5, 0) ELSE NoCoins]
OpsHaveGas == [c \in OpCU |-> IF c = op1 THEN Each(3, 0) ELSE Each(4, 2)]

\* Deposits of the main token, collected in one transaction or in several.
Collects(costs, partial) == INSTANCE AccountCustody WITH
    Symbol <- {main}, Amount <- {2}, CollectAmount <- 1 .. 3, CostFee <- costs, Depositor <- {u1},
    DepositID <- {1, 2, 3}, WithdrawalID <- {}, SysTransferID <- {}, PartialBatches <- partial,
    InitialCoins <- [u \in User |-> [s \in {main} |-> 0]],
    InitialAsset <- [c \in OpCU |-> [s \in {main} |-> IF c = op1 THEN 5 ELSE 0]]

\* Deposits of the token, with a system transfer that pays for the gas of the collect.
TokenCollects == INSTANCE AccountCustody WITH
    Amount <- {2}, CollectAmount <- {2, 4}, CostFee <- {1}, Depositor <- {u1, op1},
    DepositID <- {1, 3}, WithdrawalID <- {}, SysTransferID <- {2}, PartialBatches <- FALSE,
    InitialCoins <- SomeMain, InitialAsset <- OpHasGas

\* Two withdrawals and a system transfer between the operation CUs.
Withdrawals == INSTANCE AccountCustody WITH
    Amount <- {1}, CollectAmount <- {1}, CostFee <- {0, 1}, Depositor <- {u1},
    DepositID <- {}, WithdrawalID <- {1, 2}, SysTransferID <- {3}, PartialBatches <- FALSE,
    InitialCoins <- [u \in User |-> IF u = u1 THEN Each(4, 0) ELSE NoCoins], InitialAsset <- OpsHaveGas

Scenario == {"collects", "partial", "tokens", "withdrawals", "mixed"}

AccountInit ==
    \/ part = "collects" /\ Collects({0, 1}, FALSE)!Init
    \/ part = "partial" /\ Collects({1}, TRUE)!Init
    \/ part = "tokens" /\ TokenCollects!Init
    \/ part = "withdrawals" /\ Withdrawals!Init
    \/ part \notin Scenario \ {"mixed"} /\ Init

AccountNext ==
    \/ part = "collects" /\ Collects({0, 1}, FALSE)!Next
    \/ part = "partial" /\ Collects({1}, TRUE)!Next
    \/ part = "tokens" /\ TokenCollects!Next
    \/ part = "withdrawals" /\ Withdrawals!Next
    \/ part = "mixed" /\ Next

\* Only the mixed orders come with transfers between users, of the token.
OneUser ==
    \A u \in User \ {u1} : \A s \in DOMAIN coins[u] :
        (part = "mixed" /\ s = tok) \/ coins'[u][s] = coins[u][s]

Symmetry == Permutations(KeyNode) \cup Permutations(Hash)

-----------------------------------------------------------------------------
(* One UTXO coin; items, orders and transactions are numbered as they come.*)

Utxo == INSTANCE UtxoCustody WITH
    User <- {u1}, Op <- op1, ItemID <- 1 .. 3, OrderID <- 1 .. 2, TxID <- 1 .. 3, NoTx <- NoOrder,
    Amount <- {2, 4}, CollectFee <- 1, GasFee <- 1, Fee <- {1}, CollectThreshold <- 3,
    MaxVinNum <- 2, MaxVoutNum <- 2,
    items <- uitems, coins <- ucoins, coinsHold <- ucoinsHold

InTurn(f, g, none) == \A i, j \in DOMAIN f : i < j /\ f[j] = none /\ g[j] # none => f[i] # none

UtxoInTurn ==
    InTurn(uitems, uitems', NoItem) /\ InTurn(worder, worder', NoOrder) /\ InTurn(txs, txs', NoOrder)

-----------------------------------------------------------------------------
(* Migrations, of a UTXO coin and of the coins of an account-based chain.  *)

UtxoMoves == INSTANCE Migration WITH
    KeyNode <- {"k1", "k2"}, GenesisKeyNodes <- {"k1"}, MaxKeyNodes <- 2,
    OpCU <- {"utxo"}, KindOf <- [c \in {"utxo"} |-> "Utxo"], Unaddressed <- {},
    OrderID <- 1 .. 2, ItemID <- 1 .. 3, GenesisAmount <- {1, 3}, Fee <- 1, GasLimitFee <- 1,
    SysTransferAmount <- 2, TransferThreshold <- 1, MaxVinNum <- 2, MaxGas <- 2,
    PendingTokenWithdrawals <- FALSE

AccountMoves == INSTANCE Migration WITH
    KeyNode <- {"k1", "k2"}, GenesisKeyNodes <- {"k1"}, MaxKeyNodes <- 2,
    OpCU <- {"token", "main"}, KindOf <- [c \in {"token", "main"} |-> IF c = "token" THEN "Token" ELSE "Main"],
    Unaddressed <- {"main"}, OrderID <- 1 .. 3, ItemID <- {1}, GenesisAmount <- {1, 3}, Fee <- 1, GasLimitFee <- 1,
    SysTransferAmount <- 2, TransferThreshold <- 1, MaxVinNum <- 2, MaxGas <- 3,
    PendingTokenWithdrawals <- FALSE

NoMoves == items = [i \in 1 .. 3 |-> NoItem] /\ UtxoMoves!Init

MoveInit ==
    CASE part = "utxo_moves" -> UtxoMoves!Init
      [] part = "account_moves" -> AccountMoves!Init
      [] OTHER -> NoMoves

CustodyInit == part \in Parts /\ AccountInit /\ Utxo!Init /\ NoMoves /\ said = << >>

CustodyNext ==
    /\ \/ AccountNext /\ OneUser /\ UNCHANGED utxoVars
       \/ part = "utxo" /\ Utxo!Next /\ UtxoInTurn /\ UNCHANGED custodyVars
    /\ UNCHANGED <<part, moveVars, said>>

CustodySpec == CustodyInit /\ [][CustodyNext]_allVars

LiveInit == part \in Parts /\ Init /\ Utxo!Init /\ MoveInit /\ said = << >>

LiveNext ==
    /\ \/ part = "mixed" /\ Next /\ UNCHANGED moveVars
       \/ /\ \/ part = "utxo_moves" /\ UtxoMoves!Next
             \/ part = "account_moves" /\ AccountMoves!Next
          /\ Len(epochs') =< MaxEpochs /\ InTurn(orders, orders', NoOrder)
          /\ UNCHANGED custodyVars
    /\ UNCHANGED <<part, utxoVars, said>>

(***************************************************************************)
(* Key nodes and the settlement service keep acting: keys are made, orders *)
(* of each CU are signed, voted on and finished.                           *)
(***************************************************************************)
MovesGoOn ==
    /\ WF_moveVars(part = "utxo_moves" /\ UtxoMoves!BeginKeyGen)
    /\ \A c \in {"utxo"} :
        /\ WF_moveVars(part = "utxo_moves" /\ UtxoMoves!FinishKeyGen(c) /\ migration[c] = "KeyGenBegin")
        /\ WF_moveVars(part = "utxo_moves" /\ UtxoMoves!FinishOther(c))
        /\ WF_moveVars(part = "utxo_moves" /\ \E o \in 1 .. 2 :
                        UtxoMoves!SettlementAsks(c, "main") /\ UtxoMoves!OpcuAssetTransfer(o, c, "main"))
    /\ \A o \in 1 .. 2 :
        /\ WF_moveVars(part = "utxo_moves" /\ UtxoMoves!OpcuAssetTransferWaitSign(o))
        /\ WF_moveVars(part = "utxo_moves" /\ UtxoMoves!OpcuAssetTransferSignFinish(o))
        /\ \A n \in {"k1", "k2"} :
            WF_moveVars(part = "utxo_moves" /\ UtxoMoves!OpcuAssetTransferFinish(o, n) /\ n \notin Voters(boxes[o]))
    /\ WF_moveVars(part = "account_moves" /\ AccountMoves!BeginKeyGen)
    /\ \A c \in {"token", "main"} :
        /\ WF_moveVars(part = "account_moves" /\ AccountMoves!FinishKeyGen(c) /\ migration[c] = "KeyGenBegin")
        /\ WF_moveVars(part = "account_moves" /\ AccountMoves!FinishOther(c))
        /\ WF_moveVars(part = "account_moves" /\ amount[c]["main"] < 1 /\ \E d \in {"token", "main"} : AccountMoves!StartTopUp(c, d))
        /\ WF_moveVars(part = "account_moves" /\ AccountMoves!FinishTopUp(c))
        /\ WF_moveVars(part = "account_moves" /\ \E o \in 1 .. 3, coin \in {"main", "token"} :
                        AccountMoves!SettlementAsks(c, coin) /\ AccountMoves!OpcuAssetTransfer(o, c, coin))
    /\ \A o \in 1 .. 3 :
        /\ WF_moveVars(part = "account_moves" /\ AccountMoves!OpcuAssetTransferWaitSign(o))
        /\ WF_moveVars(part = "account_moves" /\ AccountMoves!OpcuAssetTransferSignFinish(o))
        /\ \A n \in {"k1", "k2"} :
            WF_moveVars(part = "account_moves" /\ AccountMoves!OpcuAssetTransferFinish(o, n) /\ n \notin Voters(boxes[o]))

LiveSpec == LiveInit /\ [][LiveNext]_allVars /\ KeyNodesReport /\ MovesGoOn

-----------------------------------------------------------------------------
(* Withdrawals of the account-based chain, with a record of the outcome    *)
(* that each key node reported.                                            *)

SaidSo(n, id, valid) ==
    [k \in DOMAIN said \cup {<<id, n>>} |-> IF k = <<id, n>> THEN valid ELSE said[k]]

OutcomeNext ==
    /\ \/ WithdrawalBegin /\ UNCHANGED said
       \/ \E n \in KeyNode, id \in DOMAIN order, valid \in BOOLEAN : \E c \in Costs(order[id].ext) :
            WithdrawalFinish(n, id, c, valid) /\ said' = SaidSo(n, id, valid)
    /\ UNCHANGED <<part, utxoVars, moveVars>>

OutcomeSpec == CustodyInit /\ [][OutcomeNext]_allVars

-----------------------------------------------------------------------------
(***************************************************************************)
(* The books agree with the chains and cover the claims on them: what the  *)
(* ledger says of an address is what the address has, of a UTXO coin the   *)
(* outputs it has, none of them spent twice, and users never own more than *)
(* there is, but for network fees.  Where key nodes report some orders of  *)
(* a transaction only, the rest of it is not in the books yet.             *)
(***************************************************************************)
BooksMatchChain ==
    /\ part = "collects" => Collects({0, 1}, FALSE)!BooksMatch
    /\ part \in {"tokens", "withdrawals", "mixed"} => BooksMatch
    /\ part = "utxo" => Utxo!AssetsAreOutputs /\ Utxo!AssetsBalance /\ Utxo!OutputSpentOnce

(***************************************************************************)
(* What is on hold is what open orders have put there, to the coin: of a   *)
(* user what the user's withdrawals need, of a CU what the orders that     *)
(* occupy its address send.                                                *)
(***************************************************************************)
HoldsMatchOrders ==
    /\ part \in {"collects", "partial"} => Collects({0, 1}, FALSE)!HoldsMatch
    /\ part \in {"tokens", "withdrawals", "mixed"} => HoldsMatch

(***************************************************************************)
(* When the migration of an operation CU is finished nothing of value is   *)
(* left at its old address and the books still agree with the outputs; no  *)
(* other order uses the CU while its assets move, though one may have been *)
(* under way when the epoch changed.                                       *)
(***************************************************************************)
NothingLeftBehind ==
    /\ part = "utxo_moves" => UtxoMoves!NothingLeftBehind /\ UtxoMoves!TransfersAlone /\ UtxoMoves!LedgerIsOutputs
    /\ part = "account_moves" => AccountMoves!NothingLeftBehind /\ AccountMoves!TransfersAlone

(***************************************************************************)
(* Every migration comes to an end and its epoch is marked, so that key    *)
(* nodes can be changed again, or else gas is missing for ever: a token    *)
(* transfer waits and no other operation CU has gas to send, or a system   *)
(* transfer that was begun cannot be paid for and keeps both CUs busy.     *)
(***************************************************************************)
MigrationFinishes ==
    ~UtxoMoves!CurrentEpoch.migrationFinished ~>
        (UtxoMoves!CurrentEpoch.migrationFinished \/ [](part = "account_moves" /\ AccountMoves!GasMissing))

(***************************************************************************)
(* A withdrawal ends as failed, or as finished, when over two thirds of    *)
(* the key nodes reported this outcome (WithdrawalFinish and VoteBox).     *)
(***************************************************************************)
OutcomeByTwoThirds ==
    \A i \in OrdersOf("Withdrawal", {"Finish", "Failed"}) :
        Cardinality({n \in KeyNode : <<i, n>> \in DOMAIN said
                                     /\ said[<<i, n>>] = (order[i].status = "Finish")})
            >= Majority23(Cardinality(KeyNode))

=============================================================================
