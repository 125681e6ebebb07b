------------------------------ MODULE Custody ------------------------------
(***************************************************************************)
(* The handlers of x/transfer that move coins between a chain and the      *)
(* custody - deposits, collects, withdrawals and system transfers - and    *)
(* the state they share: orders (x/order), the users' balances             *)
(* (keeper/send.go), the assets and the chain address of each custodian    *)
(* unit, CU (x/ibcasset), the deposit items, and the vote boxes of the key *)
(* nodes (x/evidence).  One action is one handler.                         *)
(*                                                                         *)
(* One account-based, nonce-based chain with main token Main, in one key   *)
(* node epoch in which every operation CU has finished its migration.  A   *)
(* CU has one address on the chain.  A handler that returns an error or    *)
(* panics changes nothing, the votes cast in it included.                  *)
(***************************************************************************)
EXTENDS VoteBox, Integers, FiniteSetsExt

\* Amounts by token symbol (sdk.Coins), as functions on Symbol.  The code keeps
\* sorted lists without zero amounts (CoinLists); the list holds the same data.
CONSTANT Symbol

NoCoins == [s \in Symbol |-> 0]

\* sdk.NewCoin, which panics on a negative amount: callers guard it.
Coin(symbol, amount) == [s \in Symbol |-> IF s = symbol THEN amount ELSE 0]

Plus(c, d) == [s \in Symbol |-> c[s] + d[s]]

Minus(c, d) == [s \in Symbol |-> c[s] - d[s]]

\* Coins.Sub panics, and SubCoins fails, unless the minuend covers the rest.
Covers(c, d) == \A s \in Symbol : c[s] >= d[s]

-----------------------------------------------------------------------------
CONSTANTS
    User, OpCU,          \* the two types of CU
    KeyNode,             \* the key nodes of the epoch
    Main,                \* the chain's main token, which pays for gas
    OpSymbol,            \* the token an operation CU was created for
    OrderID,             \* order identifiers, natural numbers (store order)
    Hash,                \* transactions from outside that pay into a CU's address
    \* token parameters, by symbol
    GasFee,              \* GasPrice * GasLimit
    CollectFee, WithdrawalFee, SysTransferAmount, OpCUSysTransferAmount,
    DepositThreshold, CollectThreshold

CU == User \cup OpCU

Tariff == [Symbol -> Nat]

ASSUME CustodyAssumption ==
    /\ User \cap OpCU = {}
    /\ IsFiniteSet(KeyNode) /\ KeyNode # {}
    /\ Main \in Symbol
    /\ OpSymbol \in [OpCU -> Symbol]
    /\ OrderID \subseteq Nat
    /\ {GasFee, CollectFee, WithdrawalFee, SysTransferAmount, OpCUSysTransferAmount,
        DepositThreshold, CollectThreshold} \subseteq Tariff

VARIABLES
    order,       \* order id -> order, on the ids in use
    item,        \* <<symbol, CU, hash>> -> deposit item
    confirmBox,  \* vote boxes by order id (deposits and withdrawals)
    finishBox,   \* vote boxes by transaction hash
    coins, held, \* balance and hold balance of each user
    ast,         \* CUIBCAsset of each CU
    chain        \* external: what each CU's address holds on the chain

custodyVars == <<order, item, confirmBox, finishBox, coins, held, ast, chain>>

-----------------------------------------------------------------------------
(***************************************************************************)
(* A transaction of the chain, decoded from an order's raw data.  Its hash *)
(* determines it, so the transaction stands for its hash.  NoTx: no raw    *)
(* data, no hash yet.                                                      *)
(***************************************************************************)
Outside == "outside"    \* the receiver of a withdrawal

Tx == [from : CU, nonce : Nat, symbol : Symbol, to : CU \cup {Outside}, amount : Nat, fee : Nat]

NoTx == [nothing |-> TRUE]

\* Deposits are transactions from outside, none of those the custody sends.
ASSUME HashAssumption == \A h \in Hash : h \notin Tx

Status == {"Begin", "WaitSign", "SignFinish", "Finish", "Cancel", "Failed"}

Terminated(status) == status \in {"Finish", "Cancel", "Failed"}

\* OrderStatus.Match: votes may still come in when an order is finished.
Match(expected, status) ==
    \/ status = expected
    \/ expected = "SignFinish" /\ status \in {"Finish", "Failed"}

OrderType == {"Collect", "Withdrawal", "SysTransfer"}

(***************************************************************************)
(* An order.  cu: the user, or for a system transfer the sending operation *)
(* CU; other: the operation CU of a collect or withdrawal, the receiver of *)
(* a system transfer; checked: DepositStatus or WithdrawStatus.            *)
(***************************************************************************)
Order == [type : OrderType, cu : CU, other : CU \cup {Outside}, symbol : Symbol, amount : Nat,
          hash : Hash \cup {NoTx}, gasFee : Nat, costFee : Nat, status : Status,
          checked : {"Unconfirmed", "Valid", "Invalid"}, raw : Tx \cup {NoTx}, ext : Tx \cup {NoTx}]

\* keeper.NewOrder: a new order under an unused id, in status Begin.
NewOrder(id, type, cu, other, symbol, amount, hash, gasFee, checked) ==
    [i \in DOMAIN order \cup {id} |->
        IF i = id
        THEN [type |-> type, cu |-> cu, other |-> other, symbol |-> symbol, amount |-> amount,
              hash |-> hash, gasFee |-> gasFee, costFee |-> 0, status |-> "Begin",
              checked |-> checked, raw |-> NoTx, ext |-> NoTx]
        ELSE order[i]]

NewOrderCollect(id, cu, symbol, amount, hash) ==
    NewOrder(id, "Collect", cu, Outside, symbol, amount, hash, 0, "Unconfirmed")

NewOrderWithdrawal(id, cu, symbol, amount, gasFee) ==
    NewOrder(id, "Withdrawal", cu, Outside, symbol, amount, NoTx, gasFee, "Unconfirmed")

\* It has no deposit or withdrawal status that somebody has to confirm.
NewOrderSysTransfer(id, op, to, symbol, amount) ==
    NewOrder(id, "SysTransfer", op, to, symbol, amount, NoTx, 0, "Valid")

\* The process list: SetOrder removes an order from it when it terminates.
ProcessOrders(type) == {i \in DOMAIN order : order[i].type = type /\ ~Terminated(order[i].status)}

IsOrder(id, type) == id \in DOMAIN order /\ order[id].type = type
-----------------------------------------------------------------------------
(* Assets of a CU (CUIBCAsset): coins, coins on hold, and for its chain    *)
(* address the gas that remains there, whether it may send, its nonce.     *)

Asset == [coins : [Symbol -> Nat], hold : [Symbol -> Nat], gas : Int, sendTx : BOOLEAN, nonce : Nat]

EmptyAsset == [coins |-> NoCoins, hold |-> NoCoins, gas |-> 0, sendTx |-> TRUE, nonce |-> 0]

AddAssetCoins(a, c) == [a EXCEPT !.coins = Plus(@, c)]

SubAssetCoinsHold(a, c) == [a EXCEPT !.hold = Minus(@, c)]

\* SubAssetCoins and AddAssetCoinsHold; the callers require Covers(a.coins, c).
HoldAssetCoins(a, c) == [a EXCEPT !.coins = Minus(@, c), !.hold = Plus(@, c)]

\* A slip in IsEnabledSendTx: a locked address may send.
AlwaysEnabled(a) == TRUE

IsEnabledSendTx(a) == a.sendTx

Lock(a) == [a EXCEPT !.sendTx = FALSE]

\* A slip after a transaction: the nonce is not counted up.
UnlockOnly(a) == [a EXCEPT !.sendTx = TRUE]

\* SetNonce and SetEnableSendTx once the transaction is on the chain.
NextNonce(a) == [a EXCEPT !.nonce = @ + 1, !.sendTx = TRUE]

\* A token's address is stored with the first deposit of it, or with the keys.
HasAddress(cu, symbol) ==
    \/ symbol = Main
    \/ cu \in OpCU /\ OpSymbol[cu] = symbol
    \/ \E i \in DOMAIN order :
        order[i].type = "Collect" /\ order[i].cu = cu /\ order[i].symbol = symbol

\* The gas price is within 0.8 and 1.2 of the token's.
PriceInLimits(symbol, fee) == 8 * GasFee[symbol] =< 10 * fee /\ 10 * fee =< 12 * GasFee[symbol]

\* A slip in Finish: a fee that was spent to the last coin is refused.
CostBelow(o, costFee) == costFee < o.costFee

\* The unspent fee is refunded with sdk.NewCoin, which panics below zero.
CostAllowed(o, costFee) == costFee =< o.costFee

ItemStatus == {"UnCollected", "WaitCollect", "InProcess", "Confirmed"}

SaveDeposit(symbol, cu, hash, amount, status) ==
    [k \in DOMAIN item \cup {<<symbol, cu, hash>>} |->
        IF k = <<symbol, cu, hash>> THEN [amount |-> amount, status |-> status] ELSE item[k]]

ItemsIn(symbol, cu, status) ==
    {k \in DOMAIN item : k[1] = symbol /\ k[2] = cu /\ item[k].status = status}

SumOf(f(_), S) == MapThenSumSet(f, S)

SumOfItems(keys) == SumOf(LAMBDA k : item[k].amount, keys)

-----------------------------------------------------------------------------
(* Votes.  TxVote: the network fee of a transaction, and whether it is     *)
(* valid.                                                                  *)

TxVote(costFee, valid) == <<costFee, valid>>

BoxIn(boxes, id) ==
    IF id \in DOMAIN boxes THEN boxes[id] ELSE NewVoteBox(Majority23(Cardinality(KeyNode)))

Voted(boxes, id, voter, vote) ==
    [i \in DOMAIN boxes \cup {id} |->
        IF i = id THEN AddVote(BoxIn(boxes, id), voter, vote) ELSE boxes[i]]

\* A slip in Vote: true for every vote on a confirmed box.
ConfirmedAnyTime(boxes, id, voter, vote) == AddVote(BoxIn(boxes, id), voter, vote).confirmed

ConfirmedFirstTime(boxes, id, voter, vote) ==
    FirstConfirmed(BoxIn(boxes, id), AddVote(BoxIn(boxes, id), voter, vote))

-----------------------------------------------------------------------------
(***************************************************************************)
(* Deposits (x/transfer/keeper/deposit.go): anyone reports a transaction   *)
(* that pays to the address of a CU, and the key nodes vote on it.  The    *)
(* order that is created is the collect order of the deposit.              *)
(***************************************************************************)

\* A slip in Deposit: a transaction may be reported again while its order is in process.
NoItemYet(symbol, cu, hash) == <<symbol, cu, hash>> \notin DOMAIN item

\* The transaction is no deposit item yet and no collect order in process has it.
NotReported(symbol, cu, hash) ==
    /\ <<symbol, cu, hash>> \notin DOMAIN item
    /\ \A i \in ProcessOrders("Collect") : order[i].hash # hash

\* Deposit.  A CU that has only the chain's address gets the token's as well.
Deposit(id, cu, symbol, hash, amount) ==
    /\ id \notin DOMAIN order
    /\ amount >= DepositThreshold[symbol]
    /\ NotReported(symbol, cu, hash)
    /\ order' = NewOrderCollect(id, cu, symbol, amount, hash)
    /\ UNCHANGED <<item, confirmBox, finishBox, coins, held, ast, chain>>

-----------------------------------------------------------------------------
(* Confirmation of a deposit.                                              *)

\* The user has to pay for the transaction that collects the deposit: neither
\* gas at the address nor an item that waits for its collection pays for it.
FeeDue(o) ==
    /\ o.cu \in User
    /\ ast[o.cu].gas < GasFee[o.symbol]
    /\ ItemsIn(o.symbol, o.cu, "WaitCollect") = {}

\* A token deposit stays uncollected while the user cannot pay for it.
NewItemStatus(o) ==
    IF o.cu \in OpCU
    THEN "Confirmed"
    ELSE IF FeeDue(o) /\ o.symbol # Main /\ coins[o.cu][Main] < CollectFee[o.symbol]
         THEN "UnCollected"
         ELSE "WaitCollect"

FeeCharged(o) ==
    IF FeeDue(o) /\ NewItemStatus(o) = "WaitCollect" THEN CollectFee[o.symbol] ELSE 0

\* The user is credited when the deposit waits for its collection.
Credit(o) ==
    IF NewItemStatus(o) # "WaitCollect"
    THEN coins
    ELSE [coins EXCEPT ![o.cu] =
            Minus(Plus(@, Coin(o.symbol, o.amount)), Coin(Main, FeeCharged(o)))]

(***************************************************************************)
(* confirmDepositOrder.  sdk.NewCoin panics when a main token deposit does *)
(* not cover the collect fee, so such a deposit is never confirmed.  On    *)
(* the chain the transaction has paid once, however often it is reported.  *)
(***************************************************************************)
confirmDepositOrder(id) ==
    LET o    == order[id]
        paid == Coin(o.symbol, o.amount)
    IN  /\ o.symbol = Main => o.amount >= FeeCharged(o)
        /\ order' = [order EXCEPT
                        ![id].checked = "Valid",
                        ![id].costFee = IF FeeCharged(o) > 0 THEN FeeCharged(o) ELSE @,
                        ![id].status = IF o.cu \in OpCU THEN "Finish" ELSE @]
        /\ item' = SaveDeposit(o.symbol, o.cu, o.hash, o.amount, NewItemStatus(o))
        /\ coins' = Credit(o)
        /\ ast' = [ast EXCEPT ![o.cu] = AddAssetCoins(@, paid)]
        /\ chain' = IF <<o.symbol, o.cu, o.hash>> \in DOMAIN item
                    THEN chain ELSE [chain EXCEPT ![o.cu] = Plus(@, paid)]
        /\ UNCHANGED held

\* confirmDepositOrder for a deposit the key nodes reject.
rejectDepositOrder(id) ==
    /\ order' = [order EXCEPT ![id].checked = "Invalid", ![id].status = "Finish"]
    /\ UNCHANGED <<item, coins, held, ast, chain>>

(***************************************************************************)
(* ConfirmedDeposit by key node n, for one order of its lists: the orders  *)
(* are processed one after the other, independently.                       *)
(***************************************************************************)
ConfirmedDeposit(n, id, valid) ==
    /\ IsOrder(id, "Collect")
    /\ confirmBox' = Voted(confirmBox, id, n, TxVote(0, valid))
    /\ IF ConfirmedFirstTime(confirmBox, id, n, TxVote(0, valid))
       THEN IF valid THEN confirmDepositOrder(id) ELSE rejectDepositOrder(id)
       ELSE UNCHANGED <<order, item, coins, held, ast, chain>>
    /\ UNCHANGED finishBox

-----------------------------------------------------------------------------
(***************************************************************************)
(* Collecting deposits into an operation CU (x/transfer/keeper/collect.go) *)
(* on an account-based chain: one transaction moves the deposits of a set  *)
(* of orders of one user.  The settlement builds and signs it, and the     *)
(* key nodes report the fee it cost on the chain.                          *)
(***************************************************************************)

KeyOf(i) == <<order[i].symbol, order[i].cu, order[i].hash>>

\* checkCollectOrders for the orders of a non-empty set.
checkCollectOrders(ids, status, itemStatuses) ==
    /\ ids # {} /\ ids \subseteq DOMAIN order
    /\ \A i \in ids :
        /\ order[i].type = "Collect"
        /\ order[i].checked # "Unconfirmed"
        /\ status = order[i].status \/ status = "SignFinish"
        /\ status \in {"WaitSign", "SignFinish"} => order[i].raw # NoTx
        /\ status = "SignFinish" => order[i].ext # NoTx
        /\ order[i].cu \in User
        /\ KeyOf(i) \in DOMAIN item
        /\ item[KeyOf(i)].status \in itemStatuses
    /\ \A i, j \in ids :
        /\ order[i].cu = order[j].cu
        /\ order[i].symbol = order[j].symbol
        /\ order[i].raw = order[j].raw
        /\ order[i].ext = order[j].ext

\* totalCoins: the amounts of the orders' deposit items.
Total(ids) == SumOf(LAMBDA i : item[KeyOf(i)].amount, ids)

(***************************************************************************)
(* What the collecting transaction may move.  For a token, the deposits    *)
(* exactly, with the gas paid from the address; for the main token, the    *)
(* deposits and the remaining gas cover the amount and the fee.            *)
(***************************************************************************)
AmountAllowed(a, symbol, total, amount, fee) ==
    IF symbol # Main
    THEN /\ amount = total
         /\ a.gas >= fee
         /\ amount >= CollectThreshold[symbol]
    ELSE /\ a.gas + total >= fee + amount
         /\ fee + amount >= CollectThreshold[symbol]

ItemsSet(ids, status) ==
    [k \in DOMAIN item |->
        IF k \in {KeyOf(i) : i \in ids} THEN [item[k] EXCEPT !.status = status] ELSE item[k]]

\* The orders with the transaction that waits for the key nodes' signatures.
CollectsWaitSign(ids, op, tx) ==
    [i \in DOMAIN order |->
        IF i \in ids THEN [order[i] EXCEPT !.status = "WaitSign", !.other = op, !.raw = tx] ELSE order[i]]

(***************************************************************************)
(* CollectWaitSign: a transaction to operation CU op for the orders ids.   *)
(* It is the next one of the user's address, which is locked until it is   *)
(* on the chain.                                                           *)
(***************************************************************************)
CollectWaitSign(op, ids, amount, fee) ==
    /\ checkCollectOrders(ids, "Begin", {"WaitCollect"})
    /\ LET one    == order[CHOOSE i \in ids : TRUE]
           cu     == one.cu
           symbol == one.symbol
           total  == Total(ids)
           tx     == [from |-> cu, nonce |-> ast[cu].nonce, symbol |-> symbol,
                      to |-> op, amount |-> amount, fee |-> fee]
       IN  /\ OpSymbol[op] = symbol
           /\ IsEnabledSendTx(ast[cu])
           /\ AmountAllowed(ast[cu], symbol, total, amount, fee)
           /\ PriceInLimits(symbol, fee)
           /\ Covers(ast[cu].coins, Coin(symbol, total))
           /\ ast' = [ast EXCEPT ![cu] = Lock(HoldAssetCoins(@, Coin(symbol, total)))]
           /\ order' = CollectsWaitSign(ids, op, tx)
    /\ item' = ItemsSet(ids, "InProcess")
    /\ UNCHANGED <<confirmBox, finishBox, coins, held, chain>>

\* CollectSignFinish with the signed transaction of the orders.
CollectSignFinish(ids) ==
    /\ checkCollectOrders(ids, "WaitSign", {"InProcess"})
    /\ order' = [i \in DOMAIN order |->
        IF i \in ids
        THEN [order[i] EXCEPT !.status = "SignFinish", !.ext = order[i].raw]
        ELSE order[i]]
    /\ UNCHANGED <<item, confirmBox, finishBox, coins, held, ast, chain>>

\* The user's asset once transaction tx for deposits worth total cost costFee.
Collected(a, tx, total, costFee) ==
    NextNonce([SubAssetCoinsHold(a, Coin(tx.symbol, total)) EXCEPT
                !.gas = (IF tx.symbol = Main THEN @ + (total - tx.amount) ELSE @) - costFee])

(***************************************************************************)
(* The vote of CollectFinish that confirms the transaction.  For the main  *)
(* token Coins.Sub panics when the transaction moves more than the         *)
(* deposits.                                                               *)
(***************************************************************************)
FinishCollect(ids, tx, costFee) ==
    LET total == Total(ids)
    IN  /\ tx.symbol = Main => total >= tx.amount
        /\ Covers(ast[tx.from].hold, Coin(tx.symbol, total))
        /\ ast' = [[ast EXCEPT ![tx.from] = Collected(@, tx, total, costFee)]
                        EXCEPT ![tx.to] = AddAssetCoins(@, Coin(tx.symbol, tx.amount))]
        /\ order' = [i \in DOMAIN order |->
            IF i \in ids THEN [order[i] EXCEPT !.status = "Finish"] ELSE order[i]]
        /\ item' = [k \in DOMAIN item \cup {<<tx.symbol, tx.to, tx>>} |->
            IF k \in DOMAIN item
            THEN ItemsSet(ids, "Confirmed")[k]
            ELSE [amount |-> tx.amount, status |-> "Confirmed"]]
        /\ chain' = [chain EXCEPT
            ![tx.from] = Minus(@, Plus(Coin(tx.symbol, tx.amount), Coin(Main, costFee))),
            ![tx.to] = Plus(@, Coin(tx.symbol, tx.amount))]

\* CollectFinish: key node n reports what the orders' transaction cost.
CollectFinish(n, ids, costFee) ==
    /\ checkCollectOrders(ids, "SignFinish", {"InProcess", "Confirmed"})
    /\ LET tx   == order[CHOOSE i \in ids : TRUE].ext
           vote == TxVote(costFee, TRUE)
       IN  /\ finishBox' = Voted(finishBox, tx, n, vote)
           /\ IF ConfirmedFirstTime(finishBox, tx, n, vote)
              THEN FinishCollect(ids, tx, costFee)
              ELSE UNCHANGED <<order, item, ast, chain>>
    /\ UNCHANGED <<confirmBox, coins, held>>

-----------------------------------------------------------------------------
(***************************************************************************)
(* Withdrawals (x/transfer/keeper/withdrawal.go) on an account-based       *)
(* chain: the user's coins are locked, the key nodes check the order, an   *)
(* operation CU pays, and the key nodes report what it cost.               *)
(***************************************************************************)

\* amount and gasFee of an order, as coins.
Needed(o) == Plus(Coin(o.symbol, o.amount), Coin(Main, o.gasFee))

\* LockCoins: from the balance of user u to the hold balance.
LockCoins(u, need) ==
    /\ Covers(coins[u], need)
    /\ coins' = [coins EXCEPT ![u] = Minus(@, need)]
    /\ held' = [held EXCEPT ![u] = Plus(@, need)]

\* Withdrawal: amount and fee are locked until the order is settled.
Withdrawal(id, cu, symbol, amount, gasFee) ==
    /\ id \notin DOMAIN order
    /\ cu \in User
    /\ gasFee >= WithdrawalFee[symbol]
    /\ LockCoins(cu, Plus(Coin(symbol, amount), Coin(Main, gasFee)))
    /\ order' = NewOrderWithdrawal(id, cu, symbol, amount, gasFee)
    /\ UNCHANGED <<item, confirmBox, finishBox, ast, chain>>

\* A slip in UnlockCoins: the fee stays locked.
UnlockAmount(u, o) ==
    /\ Covers(held[u], Needed(o))
    /\ held' = [held EXCEPT ![u] = Minus(@, Coin(o.symbol, o.amount))]
    /\ coins' = [coins EXCEPT ![u] = Plus(@, Coin(o.symbol, o.amount))]

\* UnlockCoins: amount and fee of order o go back to user u.
UnlockCoins(u, o) ==
    /\ Covers(held[u], Needed(o))
    /\ held' = [held EXCEPT ![u] = Minus(@, Needed(o))]
    /\ coins' = [coins EXCEPT ![u] = Plus(@, Needed(o))]

\* WithdrawalConfirm by key node n.
WithdrawalConfirm(n, id, valid) ==
    /\ IsOrder(id, "Withdrawal")
    /\ order[id].status = "Begin"
    /\ confirmBox' = Voted(confirmBox, id, n, TxVote(0, valid))
    /\ IF ~ConfirmedFirstTime(confirmBox, id, n, TxVote(0, valid))
       THEN UNCHANGED <<order, coins, held>>
       ELSE IF valid
       THEN /\ order' = [order EXCEPT ![id].checked = "Valid"]
            /\ UNCHANGED <<coins, held>>
       ELSE /\ order' = [order EXCEPT ![id].checked = "Invalid", ![id].status = "Cancel"]
            /\ UnlockCoins(order[id].cu, order[id])
    /\ UNCHANGED <<item, finishBox, ast, chain>>

\* CancelWithdrawal by the user, once the order is confirmed.
CancelWithdrawal(id) ==
    /\ IsOrder(id, "Withdrawal")
    /\ order[id].status = "Begin"
    /\ order[id].checked = "Valid"
    /\ UnlockCoins(order[id].cu, order[id])
    /\ order' = [order EXCEPT ![id].status = "Cancel"]
    /\ UNCHANGED <<item, confirmBox, finishBox, ast, chain>>

\* checkWithdrawalOrders, for the one order an account-based chain allows.
checkWithdrawalOrder(id, status) ==
    /\ IsOrder(id, "Withdrawal")
    /\ Match(status, order[id].status)
    /\ order[id].checked = "Valid"
    /\ status \in {"WaitSign", "SignFinish"} => order[id].raw # NoTx
    /\ status = "SignFinish" => order[id].ext # NoTx
    /\ Covers(held[order[id].cu], Needed(order[id]))

\* What the transaction of a withdrawal takes from the operation CU.
Payment(o, fee) == Plus(Coin(o.symbol, o.amount), Coin(Main, fee))

WithdrawalsWaitSign(id, op, fee, tx) ==
    [order EXCEPT ![id].other = op, ![id].costFee = fee, ![id].status = "WaitSign", ![id].raw = tx]

(***************************************************************************)
(* WithdrawalWaitSign: operation CU op pays amount and fee, at most the    *)
(* fee the user has put up, with the next transaction of its address.      *)
(***************************************************************************)
WithdrawalWaitSign(op, id, fee) ==
    /\ checkWithdrawalOrder(id, "Begin")
    /\ LET o    == order[id]
           need == Payment(o, fee)
           tx   == [from |-> op, nonce |-> ast[op].nonce, symbol |-> o.symbol,
                    to |-> Outside, amount |-> o.amount, fee |-> fee]
       IN  /\ op \in OpCU
           /\ HasAddress(op, o.symbol)
           /\ IsEnabledSendTx(ast[op])
           /\ PriceInLimits(o.symbol, fee)
           /\ fee =< o.gasFee
           /\ Covers(ast[op].coins, need)
           /\ ast' = [ast EXCEPT ![op] = Lock(HoldAssetCoins(@, need))]
           /\ order' = WithdrawalsWaitSign(id, op, fee, tx)
    /\ UNCHANGED <<item, confirmBox, finishBox, coins, held, chain>>

\* WithdrawalSignFinish with the signed transaction; the address is locked.
WithdrawalSignFinish(id) ==
    /\ checkWithdrawalOrder(id, "WaitSign")
    /\ ~IsEnabledSendTx(ast[order[id].other])
    /\ order' = [order EXCEPT ![id].status = "SignFinish", ![id].ext = order[id].raw]
    /\ UNCHANGED <<item, confirmBox, finishBox, coins, held, ast, chain>>

\* The operation CU's assets: the unspent part of the fee comes back from hold.
PaidOut(a, o, costFee) ==
    NextNonce(AddAssetCoins(
        SubAssetCoinsHold(a, Payment(o, o.costFee)),
        Coin(Main, o.costFee - costFee)))

\* What the user gets back: unspent gas of a main token withdrawal, and the
\* amount when the transaction failed on the chain.
Refund(o, costFee, valid) ==
    Plus(Coin(Main, IF o.symbol = Main /\ o.gasFee > costFee THEN o.gasFee - costFee ELSE 0),
         Coin(o.symbol, IF valid THEN 0 ELSE o.amount))

\* The vote of WithdrawalFinish that confirms the transaction.
FinishWithdrawal(id, costFee, valid) ==
    LET o    == order[id]
        op   == o.other
        paid == Plus(Coin(o.symbol, IF valid THEN o.amount ELSE 0), Coin(Main, costFee))
    IN  /\ checkWithdrawalOrder(id, "SignFinish")
        /\ ~IsEnabledSendTx(ast[op])
        /\ CostAllowed(o, costFee)
        /\ Covers(ast[op].hold, Plus(Coin(o.symbol, o.amount), Coin(Main, o.costFee)))
        /\ ast' = [ast EXCEPT ![op] = PaidOut(@, o, costFee)]
        /\ held' = [held EXCEPT ![o.cu] = Minus(@, Needed(o))]
        /\ coins' = [coins EXCEPT ![o.cu] = Plus(@, Refund(o, costFee, valid))]
        /\ order' = [order EXCEPT
            ![id].costFee = costFee,
            ![id].gasFee = IF o.symbol = Main /\ @ > costFee THEN costFee ELSE @,
            ![id].status = IF valid THEN "Finish" ELSE "Failed"]
        /\ chain' = [chain EXCEPT ![op] = Minus(@, paid)]

(***************************************************************************)
(* WithdrawalFinish: key node n reports what the transaction of order id   *)
(* cost.  The vote is cast before the order is checked, on the hash the    *)
(* order has by now, possibly none; `valid' is not part of the vote.       *)
(***************************************************************************)
WithdrawalFinish(n, id, costFee, valid) ==
    /\ IsOrder(id, "Withdrawal")
    /\ LET tx   == order[id].ext
           vote == TxVote(costFee, TRUE)
       IN  /\ finishBox' = Voted(finishBox, tx, n, vote)
           /\ IF ConfirmedFirstTime(finishBox, tx, n, vote)
              THEN FinishWithdrawal(id, costFee, valid)
              ELSE UNCHANGED <<order, coins, held, ast, chain>>
    /\ UNCHANGED <<item, confirmBox>>

-----------------------------------------------------------------------------
(***************************************************************************)
(* System transfers (x/transfer/keeper/systransfer.go): an operation CU    *)
(* sends main tokens to a user's address, which needs gas to collect a     *)
(* token deposit, or to another operation CU, which needs it to pay out.   *)
(***************************************************************************)

hasProcessingSysTransfer(to) == \E i \in ProcessOrders("SysTransfer") : order[i].other = to

\* checkNeedSysTransfer: a token order that has not begun needs gas at the address.
checkNeedSysTransfer(to) ==
    \/ \E i \in ProcessOrders("Collect") :
        order[i].symbol # Main /\ order[i].status = "Begin" /\ order[i].cu = to
    \/ \E i \in ProcessOrders("Withdrawal") :
        order[i].symbol # Main /\ order[i].status = "Begin" /\ to \in OpCU

\* getWaitCollectOrderIDs, deposits that are not confirmed yet included.
WaitCollectOrderIDs(cu, symbol) ==
    {i \in ProcessOrders("Collect") :
        order[i].cu = cu /\ order[i].symbol = symbol /\ order[i].status = "Begin"}

UnCollected(cu, symbol) == IF cu \in User THEN ItemsIn(symbol, cu, "UnCollected") ELSE {}

(***************************************************************************)
(* The user's uncollected deposits are credited, the user pays the collect *)
(* fee, which is recorded in the first of the user's waiting orders, and   *)
(* the deposits wait for their collection.                                 *)
(***************************************************************************)
CreditUnCollected(orders, cu, symbol) ==
    LET items  == UnCollected(cu, symbol)
        sum    == SumOfItems(items)
        ids    == WaitCollectOrderIDs(cu, symbol)
        fee    == CollectFee[symbol]
    IN  IF sum = 0
        THEN /\ order' = orders
             /\ UNCHANGED <<coins, item>>
        ELSE /\ coins[cu][Main] >= fee
             /\ ids # {}
             /\ coins' = [coins EXCEPT ![cu] = Minus(Plus(@, Coin(symbol, sum)), Coin(Main, fee))]
             /\ order' = [orders EXCEPT ![Min(ids)].costFee = fee]
             /\ item' = [k \in DOMAIN item |->
                    IF k \in items THEN [item[k] EXCEPT !.status = "WaitCollect"] ELSE item[k]]

\* SysTransfer from operation CU op, for token symbol, to the address of CU to.
SysTransfer(id, op, to, symbol) ==
    LET amount == IF to \in OpCU THEN OpCUSysTransferAmount[symbol] ELSE SysTransferAmount[symbol]
        need   == Coin(Main, amount)
    IN  /\ id \notin DOMAIN order
        /\ op \in OpCU
        /\ symbol # Main
        /\ HasAddress(to, symbol)
        /\ ~hasProcessingSysTransfer(to)
        /\ IsEnabledSendTx(ast[op])
        /\ checkNeedSysTransfer(to)
        /\ Covers(ast[op].coins, need)
        /\ ast' = [ast EXCEPT ![op] = Lock(HoldAssetCoins(@, need))]
        /\ CreditUnCollected(NewOrderSysTransfer(id, op, to, symbol, amount),
                             to, symbol)
        /\ UNCHANGED <<confirmBox, finishBox, held, chain>>

\* checkSysTransferOrder.
checkSysTransferOrder(id, status) ==
    /\ IsOrder(id, "SysTransfer")
    /\ Match(status, order[id].status)
    /\ Terminated(order[id].status) \/ ast[order[id].cu].hold[Main] >= order[id].amount

\* SysTransferWaitSign: the fee is put on hold with the amount.
SysTransferWaitSign(id, fee) ==
    /\ checkSysTransferOrder(id, "Begin")
    /\ LET o  == order[id]
           op == o.cu
           tx == [from |-> op, nonce |-> ast[op].nonce, symbol |-> Main,
                  to |-> o.other, amount |-> o.amount, fee |-> fee]
       IN  /\ PriceInLimits(Main, fee)
           /\ Covers(ast[op].coins, Coin(Main, fee))
           /\ ast' = [ast EXCEPT ![op] = HoldAssetCoins(@, Coin(Main, fee))]
           /\ order' = [order EXCEPT ![id].costFee = fee, ![id].status = "WaitSign", ![id].raw = tx]
    /\ UNCHANGED <<item, confirmBox, finishBox, coins, held, chain>>

\* SysTransferSignFinish with the signed transaction.
SysTransferSignFinish(id) ==
    /\ checkSysTransferOrder(id, "WaitSign")
    /\ order' = [order EXCEPT ![id].status = "SignFinish", ![id].ext = order[id].raw]
    /\ UNCHANGED <<item, confirmBox, finishBox, coins, held, ast, chain>>

\* The sender's assets: the unspent part of the fee comes back from hold.
Sent(a, o, costFee) ==
    NextNonce(AddAssetCoins(SubAssetCoinsHold(a, Coin(Main, o.amount + o.costFee)),
                            Coin(Main, o.costFee - costFee)))

\* A slip in SysTransferFinish: what a user's address receives counts as assets too.
ReceivedTwice(a, o) ==
    IF o.other \in User
    THEN [AddAssetCoins(a, Coin(Main, o.amount)) EXCEPT !.gas = @ + o.amount]
    ELSE AddAssetCoins(a, Coin(Main, o.amount))

\* At a user's address the amount is gas, at an operation CU's it is an asset.
Received(a, o) ==
    IF o.other \in User
    THEN [a EXCEPT !.gas = @ + o.amount]
    ELSE AddAssetCoins(a, Coin(Main, o.amount))

(***************************************************************************)
(* The part of the collect fee that sender and receiver did not use goes   *)
(* back to the user, from the first of the user's waiting orders.          *)
(***************************************************************************)
RefundCollectFee(finished, o, costFee) ==
    LET ids   == IF o.other \in User THEN WaitCollectOrderIDs(o.other, o.symbol) ELSE {}
        first == Min(ids)
        used  == costFee + o.amount
    IN  IF ids # {} /\ order[first].costFee > used
        THEN /\ coins' = [coins EXCEPT ![o.other] = Plus(@, Coin(Main, order[first].costFee - used))]
             /\ order' = [finished EXCEPT ![first].costFee = used]
        ELSE /\ order' = finished
             /\ UNCHANGED coins

(***************************************************************************)
(* The vote of SysTransferFinish that confirms the transaction.  Sender    *)
(* and receiver are read before either is stored, and the receiver is      *)
(* stored last.                                                            *)
(***************************************************************************)
FinishSysTransfer(id, costFee) ==
    LET o    == order[id]
        op   == o.cu
        to   == o.other
        sent == Coin(Main, o.amount + costFee)
    IN  /\ CostAllowed(o, costFee)
        /\ Covers(ast[op].hold, Coin(Main, o.amount + o.costFee))
        /\ ast' = [c \in CU |->
            IF c = to THEN Received(ast[to], o)
            ELSE IF c = op THEN Sent(ast[op], o, costFee)
            ELSE ast[c]]
        /\ RefundCollectFee([order EXCEPT ![id].costFee = costFee, ![id].status = "Finish"],
                            o, costFee)
        /\ item' = SaveDeposit(Main, to, o.ext, o.amount, "Confirmed")
        /\ chain' = [c \in CU |->
            LET rest == IF c = op THEN Minus(chain[c], sent) ELSE chain[c]
            IN  IF c = to THEN Plus(rest, Coin(Main, o.amount)) ELSE rest]

\* SysTransferFinish: key node n reports what the transaction cost.
SysTransferFinish(n, id, costFee) ==
    /\ checkSysTransferOrder(id, "SignFinish")
    /\ LET tx   == order[id].ext
           vote == TxVote(costFee, TRUE)
       IN  /\ finishBox' = Voted(finishBox, tx, n, vote)
           /\ IF ConfirmedFirstTime(finishBox, tx, n, vote)
              THEN FinishSysTransfer(id, costFee)
              ELSE UNCHANGED <<order, item, coins, ast, chain>>
    /\ UNCHANGED <<confirmBox, held>>

=============================================================================
