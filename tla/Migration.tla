------------------------------ MODULE Migration ------------------------------
(***************************************************************************)
(* Migration of the operation CUs after a change of key nodes              *)
(* (x/ibcasset hooks, x/transfer/keeper/opcuasset_transfer.go): each gets  *)
(* an address made by the new key nodes, then its assets are moved there   *)
(* by transfer orders that key nodes confirm, while orders begun before    *)
(* the change still finish at the old address.  The epoch's migration is   *)
(* finished when no operation CU is left.                                  *)
(*                                                                         *)
(* An operation CU serves a UTXO coin ("Utxo"), the main token of an       *)
(* account-based chain ("Main"), or a token of such a chain ("Token",      *)
(* whose gas is paid in the main token).  Addresses are known by their     *)
(* epoch.  Key generation is KeyGen's; here it is two steps.               *)
(***************************************************************************)
EXTENDS Epochs, VoteBox, FiniteSetsExt

\* The token parameters have Fee =< TransferThreshold and GasLimitFee < SysTransferAmount.
CONSTANTS OpCU, KindOf,         \* operation CUs and their kinds
          Unaddressed,          \* operation CUs that may have no address at genesis
          OrderID, ItemID, NoOrder, NoItem,
          GenesisAmount,        \* assets of a CU at genesis
          Fee, GasLimitFee,     \* fee of a UTXO transfer; gas limit times price
          SysTransferAmount,    \* less than this of a main token is left behind
          TransferThreshold,    \* outputs worth this or less are not worth a transfer
          MaxVinNum,
          MaxGas,               \* bound on the gas an operation CU has when it gets more
          PendingTokenWithdrawals \* a withdrawal of a token waits to be signed

VARIABLES migration,  \* MigrationStatus by operation CU
          addrs,      \* epochs of its addresses
          amount,     \* its AssetCoins, by coin
          place,      \* epoch of the address where an account's coin is, 0 while it moves
          items,      \* deposit items of UTXO CUs
          locked,     \* epochs of its addresses that may not send
          orders,     \* asset transfer orders
          boxes,      \* votes on their transactions
          other,      \* withdrawal or collect order of the CU under way
          topUp,      \* system transfer of gas to the CU under way, with its sender
          dust        \* history: amounts written off as used gas

migrationVars == <<epochVars, migration, addrs, amount, place, items, locked, orders, boxes, other, topUp, dust>>

Coin == {"main", "token"}
Status == {"Begin", "KeyGenBegin", "KeyGenFinish", "AssetBegin", "MainTokenFinish", "Finish"}
Item == [cu : OpCU, epoch : Nat, amount : Nat, status : {"Confirmed", "InProcess"}]
Order == [cu : OpCU, coin : Coin, items : SUBSET ItemID, amount : Nat,
          status : {"Begin", "WaitSign", "SignFinish", "Finish"}]
OtherOrder == [epoch : Nat, vins : SUBSET ItemID, out : Nat]
TopUpOrder == [from : OpCU, epoch : Nat]

Old == CurrentIndex - 1
OwnCoin(c) == IF KindOf[c] = "Token" THEN "token" ELSE "main"

\* Deposit items of CU c at its address of epoch e.
ItemsAt(c, e) == {i \in ItemID : items[i] # NoItem /\ items[i].cu = c /\ items[i].epoch = e}
ConfirmedAt(c, e) == {i \in ItemsAt(c, e) : items[i].status = "Confirmed"}
FreeItems == {i \in ItemID : items[i] = NoItem}
SumOfItems(ids) == MapThenSumSet(LAMBDA i : items[i].amount, ids)

Init ==
    /\ EpochsInit
    /\ migration = [c \in OpCU |-> "Finish"]
    /\ addrs \in {[c \in OpCU |-> IF c \in none THEN {} ELSE {1}] : none \in SUBSET Unaddressed}
    /\ items \in {f \in [ItemID -> [cu : {c \in OpCU : KindOf[c] = "Utxo" /\ addrs[c] # {}}, epoch : {1},
                                    amount : GenesisAmount, status : {"Confirmed"}] \cup {NoItem}] :
                     \E i \in ItemID : f[i] = NoItem}
    /\ \E main, token \in [OpCU -> GenesisAmount \cup {0}] :
        amount = [c \in OpCU |->
            [k \in Coin |-> IF KindOf[c] = "Utxo" /\ k = "main" THEN SumOfItems(ItemsAt(c, 1))
                           ELSE IF addrs[c] = {} \/ (k = "token" /\ KindOf[c] # "Token") THEN 0
                           ELSE IF k = "main" THEN main[c] ELSE token[c]]]
    /\ place = [c \in OpCU |-> [k \in Coin |-> 1]]
    /\ locked = [c \in OpCU |-> {}]
    /\ orders = [o \in OrderID |-> NoOrder]
    /\ boxes = [o \in OrderID |-> NewVoteBox(Majority23(Cardinality(GenesisKeyNodes)))]
    /\ other = [c \in OpCU |-> NoOrder]
    /\ topUp = [c \in OpCU |-> NoOrder]
    /\ dust = [c \in OpCU |-> 0]

-----------------------------------------------------------------------------
(***************************************************************************)
(* A passed proposal starts an epoch; startMigrationForAllOpcus.           *)
(***************************************************************************)
NewEpochBlock(remove, add) ==
    /\ UpdateKeyNodes(remove, add)
    /\ migration' = [c \in OpCU |-> "Begin"]
    /\ height' = height + 1
    /\ UNCHANGED <<addrs, amount, place, items, locked, orders, boxes, other, topUp, dust>>

\* MsgOpcuMigrationKeyGen: all operation CUs have to be at the beginning.
BeginKeyGen ==
    /\ ~CurrentEpoch.migrationFinished
    /\ \A c \in OpCU : migration[c] = "Begin"
    /\ migration' = [c \in OpCU |-> "KeyGenBegin"]
    /\ UNCHANGED <<epochVars, addrs, amount, place, items, locked, orders, boxes, other, topUp, dust>>

\* MsgKeyGenFinish for an operation CU.
FinishKeyGen(c) ==
    /\ migration[c] \in {"KeyGenBegin", "Finish"}
    /\ CurrentIndex \notin addrs[c]
    /\ addrs' = [addrs EXCEPT ![c] = {e \in @ : CurrentIndex < 3 \/ CurrentIndex - e < 2} \cup {CurrentIndex}]
    /\ migration' = [migration EXCEPT ![c] = IF @ = "KeyGenBegin" THEN "KeyGenFinish" ELSE @]
    /\ UNCHANGED <<epochVars, amount, place, items, locked, orders, boxes, other, topUp, dust>>

-----------------------------------------------------------------------------
\* hasUnfinishedOrder: an order that uses the operation CU is under way, or a system
\* transfer to it or from it.
hasUnfinishedOrder(c) ==
    \/ other[c] # NoOrder
    \/ \E d \in OpCU : topUp[d] # NoOrder /\ c \in {d, topUp[d].from}

\* A slip in checkOpcusMigrationStatus: the epoch is never marked.
NeverMarked(st) == UNCHANGED epochs

\* checkOpcusMigrationStatus, for the statuses st.
checkOpcusMigrationStatus(st) ==
    IF \A c \in OpCU : st[c] = "Finish" THEN SetMigrationFinished ELSE UNCHANGED epochs

SetStatus(c, st) ==
    LET new == [migration EXCEPT ![c] = st]
    IN  migration' = new /\ checkOpcusMigrationStatus(new) /\ UNCHANGED height

\* OpcuAssetTransfer up to the branches by token type.
TransferAllowed(o, c) ==
    /\ ~CurrentEpoch.migrationFinished
    /\ orders[o] = NoOrder
    /\ ~hasUnfinishedOrder(c)

\* There is no old address.
NothingToMigrate(c) ==
    /\ Old \notin addrs[c]
    /\ SetStatus(c, "Finish")
    /\ UNCHANGED <<addrs, amount, place, items, locked, orders, boxes, other, topUp, dust>>

BothAddresses(c) ==
    /\ Old \in addrs[c]
    /\ Old \notin locked[c]
    /\ CurrentIndex \in addrs[c]

\* A slip in checkUtxoOpcuAstTransferFinish: items in a transfer do not count.
NoConfirmedLeft(c, e, gone) == ConfirmedAt(c, e) \ gone = {}

\* checkUtxoOpcuAstTransferFinish once the items gone are deleted.
checkUtxoOpcuAstTransferFinish(c, e, gone) == ItemsAt(c, e) \ gone = {}

\* A request with amount zero only finishes the migration of the CU.
FinishEmptyUtxo(c) ==
    /\ checkUtxoOpcuAstTransferFinish(c, Old, {})
    /\ SetStatus(c, "Finish")
    /\ UNCHANGED <<addrs, amount, place, items, locked, orders, boxes, other, topUp, dust>>

\* All confirmed items of the old address, or as many as a transaction takes.
UtxoBatch(c, ids) ==
    /\ ids # {}
    /\ ids \subseteq ConfirmedAt(c, Old)
    /\ Cardinality(ids) =< MaxVinNum
    /\ Cardinality(ids) = MaxVinNum \/ ids = ConfirmedAt(c, Old)

\* Items not worth a transaction are dropped and counted as used gas; AssetCoins stay.
WriteOffUtxo(c, ids) ==
    /\ UtxoBatch(c, ids)
    /\ SumOfItems(ids) =< TransferThreshold
    /\ items' = [i \in ItemID |-> IF i \in ids THEN NoItem ELSE items[i]]
    /\ dust' = [dust EXCEPT ![c] = @ + SumOfItems(ids)]
    /\ IF checkUtxoOpcuAstTransferFinish(c, Old, ids)
       THEN SetStatus(c, "Finish") ELSE UNCHANGED <<epochVars, migration>>
    /\ UNCHANGED <<addrs, amount, place, locked, orders, boxes, other, topUp>>

NewOrder(o, c, coin, ids, amt) ==
    orders' = [orders EXCEPT ![o] = [cu |-> c, coin |-> coin, items |-> ids, amount |-> amt, status |-> "Begin"]]

OrderUtxo(o, c, ids) ==
    /\ UtxoBatch(c, ids)
    /\ SumOfItems(ids) > TransferThreshold
    /\ items' = [i \in ItemID |-> IF i \in ids THEN [items[i] EXCEPT !.status = "InProcess"] ELSE items[i]]
    /\ NewOrder(o, c, "main", ids, SumOfItems(ids))
    /\ migration' = [migration EXCEPT ![c] = "AssetBegin"]
    /\ UNCHANGED <<epochVars, addrs, amount, place, locked, boxes, other, topUp, dust>>

\* The main token of a token's CU is needed for gas until the token has moved.
CoinAllowed(c, coin) ==
    /\ coin = "token" => KindOf[c] = "Token"
    /\ coin = "main" /\ KindOf[c] = "Token" => migration[c] # "KeyGenFinish"

\* The account branch: the whole balance moves, or too little is left to move.
TransferAccount(o, c, coin) ==
    /\ CoinAllowed(c, coin)
    /\ \/ /\ coin = "main"
          /\ amount[c][coin] < SysTransferAmount
          /\ dust' = [dust EXCEPT ![c] = @ + amount[c][coin]]
          /\ SetStatus(c, "Finish")
          /\ UNCHANGED <<locked, orders>>
       \/ /\ coin = "token"
          /\ amount[c][coin] = 0
          /\ migration' = [migration EXCEPT ![c] = "MainTokenFinish"]
          /\ UNCHANGED <<epochVars, dust, locked, orders>>
       \/ /\ amount[c][coin] >= IF coin = "main" THEN SysTransferAmount ELSE 1
          /\ locked' = [locked EXCEPT ![c] = @ \cup {Old}]
          /\ NewOrder(o, c, coin, {}, amount[c][coin])
          /\ migration' = [migration EXCEPT ![c] = "AssetBegin"]
          /\ UNCHANGED <<epochVars, dust>>
    /\ UNCHANGED <<addrs, amount, place, items, boxes, other, topUp>>

\* The coin is one of the CU's chain.
OpcuAssetTransfer(o, c, coin) ==
    /\ TransferAllowed(o, c)
    /\ \/ NothingToMigrate(c)
       \/ /\ BothAddresses(c)
          /\ \/ KindOf[c] = "Utxo" /\ FinishEmptyUtxo(c)
             \/ KindOf[c] = "Utxo" /\ \E ids \in SUBSET ItemID : WriteOffUtxo(c, ids) \/ OrderUtxo(o, c, ids)
             \/ KindOf[c] # "Utxo" /\ TransferAccount(o, c, coin)

(***************************************************************************)
(* The settlement service, which is not in the repository, asks for the    *)
(* transfers of a CU after the key generation of the epoch has begun, for  *)
(* a token before the main token, and not again for what has been moved.   *)
(* OpcuAssetTransfer does not check any of this.                           *)
(***************************************************************************)
SettlementAsks(c, coin) ==
    /\ migration[c] \notin {"Begin", "Finish"}
    /\ coin = "token" => migration[c] # "MainTokenFinish"
    /\ KindOf[c] # "Token" => coin = "main"

\* What the raw transaction may be: the items that the order holds, or the
\* amount from the old address; a token only when the main token covers the gas.
RawAllowed(r) ==
    IF KindOf[r.cu] = "Utxo"
    THEN \A i \in r.items : items[i] # NoItem /\ items[i].status = "InProcess"
    ELSE /\ Old \in addrs[r.cu]
         /\ amount[r.cu][r.coin] >= r.amount
         /\ r.coin = "token" => amount[r.cu]["main"] >= GasLimitFee

(***************************************************************************)
(* OpcuAssetTransferWaitSign: the raw transaction spends just the items,   *)
(* or the whole balance less the gas, and the assets leave the ledger.     *)
(***************************************************************************)
OpcuAssetTransferWaitSign(o) ==
    LET r == orders[o]
        c == r.cu
    IN  /\ r # NoOrder
        /\ r.status = "Begin"
        /\ RawAllowed(r)
        /\ orders' = [orders EXCEPT ![o].status = "WaitSign"]
        /\ amount' = [amount EXCEPT ![c][r.coin] = @ - r.amount]
        /\ place' = [place EXCEPT ![c][r.coin] = 0]
        /\ UNCHANGED <<epochVars, migration, addrs, items, locked, boxes, other, topUp, dust>>

\* OpcuAssetTransferSignFinish: signed with the old key.
OpcuAssetTransferSignFinish(o) ==
    LET r == orders[o] IN
    /\ r # NoOrder
    /\ r.status = "WaitSign"
    /\ Old \in addrs[r.cu]
    /\ orders' = [orders EXCEPT ![o].status = "SignFinish"]
    /\ UNCHANGED <<epochVars, migration, addrs, amount, place, items, locked, boxes, other, topUp, dust>>

\* The single output becomes an item at the new address.  A new item takes the name
\* of an item that was spent for it, or a free one.
UtxoMoved(o) ==
    LET r   == orders[o]
        c   == r.cu
        new == CHOOSE i \in r.items : TRUE
    IN  /\ KindOf[c] = "Utxo"
        /\ items' = [i \in ItemID |->
             IF i = new THEN [cu |-> c, epoch |-> CurrentIndex, amount |-> r.amount - Fee, status |-> "Confirmed"]
             ELSE IF i \in r.items THEN NoItem ELSE items[i]]
        /\ amount' = [amount EXCEPT ![c]["main"] = @ + r.amount - Fee]
        /\ IF checkUtxoOpcuAstTransferFinish(c, Old, r.items)
           THEN SetStatus(c, "Finish") ELSE UNCHANGED <<epochVars, migration>>
        /\ UNCHANGED <<place, locked>>

\* The balance, less gas, arrives at the new address; the old one is unlocked.
AccountMoved(o) ==
    LET r == orders[o]
        c == r.cu
    IN  /\ KindOf[c] # "Utxo"
        /\ amount' = [amount EXCEPT ![c] =
             IF r.coin = "main" THEN [@ EXCEPT !["main"] = @ + r.amount - GasLimitFee]
             ELSE [main |-> @["main"] - GasLimitFee, token |-> @["token"] + r.amount]]
        /\ place' = [place EXCEPT ![c][r.coin] = CurrentIndex]
        /\ SetStatus(c, IF r.coin = "token" THEN "MainTokenFinish" ELSE "Finish")
        /\ locked' = [locked EXCEPT ![c] = @ \ {Old}]
        /\ UNCHANGED items

\* OpcuAssetTransferFinish: a key node votes; the vote that confirms settles the order.
OpcuAssetTransferFinish(o, n) ==
    LET r   == orders[o]
        old == IF boxes[o].items = << >>
               THEN NewVoteBox(Majority23(Cardinality(CurrentEpoch.keyNodeSet))) ELSE boxes[o]
        new == AddVote(old, n, Fee)
    IN  /\ r # NoOrder
        /\ r.status = "SignFinish"
        /\ IsActiveKeyNode(n)
        /\ boxes' = [boxes EXCEPT ![o] = new]
        /\ IF FirstConfirmed(old, new)
           THEN /\ Old \in addrs[r.cu]
                /\ orders' = [orders EXCEPT ![o].status = "Finish"]
                /\ AccountMoved(o) \/ UtxoMoved(o)
           ELSE UNCHANGED <<epochVars, migration, amount, place, items, locked, orders>>
        /\ UNCHANGED <<addrs, other, topUp, dust>>

-----------------------------------------------------------------------------
\* Withdrawals and collects use a CU only outside a migration.
MayServe(c) == migration[c] = "Finish"

\* WithdrawalWaitSign or CollectWaitSign: the CU's current address spends vins and
\* will receive change or collected coins worth out.
StartOther(c, vins, out) ==
    /\ MayServe(c)
    /\ out > 0 => FreeItems \cup vins # {}   \* bound: names of items, for one UTXO CU
    /\ other[c] = NoOrder
    /\ CurrentIndex \in addrs[c]
    /\ CurrentIndex \notin locked[c]
    /\ IF KindOf[c] = "Utxo"
       THEN /\ vins \subseteq ConfirmedAt(c, CurrentIndex)
            /\ items' = [i \in ItemID |-> IF i \in vins THEN [items[i] EXCEPT !.status = "InProcess"] ELSE items[i]]
            /\ amount' = [amount EXCEPT ![c]["main"] = @ - SumOfItems(vins)]
            /\ UNCHANGED locked
       ELSE /\ vins = {} /\ out = 0
            /\ amount[c][OwnCoin(c)] > 0
            /\ amount' = [amount EXCEPT ![c][OwnCoin(c)] = @ - 1]
            /\ locked' = [locked EXCEPT ![c] = @ \cup {CurrentIndex}]
            /\ UNCHANGED items
    /\ other' = [other EXCEPT ![c] = [epoch |-> CurrentIndex, vins |-> vins, out |-> out]]
    /\ UNCHANGED <<epochVars, migration, addrs, place, orders, boxes, topUp, dust>>

\* WithdrawalFinish or CollectFinish when confirmed, at whatever stage the migration is.
FinishOther(c) ==
    LET w   == other[c]
        new == CHOOSE i \in IF w.vins = {} THEN FreeItems ELSE w.vins : TRUE
    IN
    /\ w # NoOrder
    /\ IF KindOf[c] = "Utxo"
       THEN /\ items' = [i \in ItemID |->
                 IF w.out > 0 /\ i = new
                 THEN [cu |-> c, epoch |-> w.epoch, amount |-> w.out, status |-> "Confirmed"]
                 ELSE IF i \in w.vins THEN NoItem ELSE items[i]]
            /\ amount' = [amount EXCEPT ![c]["main"] = @ + w.out]
            /\ UNCHANGED locked
       ELSE /\ locked' = [locked EXCEPT ![c] = @ \ {w.epoch}]
            /\ UNCHANGED <<items, amount>>
    /\ other' = [other EXCEPT ![c] = NoOrder]
    /\ UNCHANGED <<epochVars, migration, addrs, place, orders, boxes, topUp, dust>>

\* A token transfer of CU c waits for its transaction (checkNeedSysTransfer).
TokenWaits(c) ==
    \E o \in OrderID :
        orders[o] # NoOrder /\ orders[o].cu = c /\ orders[o].coin = "token" /\ orders[o].status = "Begin"

\* CU d is not migrating and has gas to send.
MaySendGas(d) ==
    /\ KindOf[d] # "Utxo"
    /\ migration[d] = "Finish"
    /\ CurrentIndex \in addrs[d]
    /\ amount[d]["main"] >= GasLimitFee

(***************************************************************************)
(* SysTransfer of gas from CU d to the old address of CU c, which migrates *)
(* and has a token transfer in need.  The amount leaves d, whose address   *)
(* is locked.                                                              *)
(***************************************************************************)
StartTopUp(c, d) ==
    /\ KindOf[c] = "Token"
    /\ migration[c] # "Finish"
    /\ Old \in addrs[c]
    /\ topUp[c] = NoOrder
    /\ amount[c]["main"] < MaxGas   \* bound: the code sends gas again and again
    /\ TokenWaits(c) \/ PendingTokenWithdrawals
    /\ MaySendGas(d)
    /\ CurrentIndex \notin locked[d]
    /\ topUp' = [topUp EXCEPT ![c] = [from |-> d, epoch |-> CurrentIndex]]
    /\ amount' = [amount EXCEPT ![d]["main"] = @ - GasLimitFee]
    /\ locked' = [locked EXCEPT ![d] = @ \cup {CurrentIndex}]
    /\ UNCHANGED <<epochVars, migration, addrs, place, items, orders, boxes, other, dust>>

\* SysTransferWaitSign needs the fee of the transaction too, and the external chain
\* the coins at the sender's address.
TopUpPayable(c) ==
    LET s == topUp[c] IN amount[s.from]["main"] >= GasLimitFee /\ place[s.from]["main"] = s.epoch

\* SysTransferWaitSign to SysTransferFinish when confirmed.
FinishTopUp(c) ==
    /\ topUp[c] # NoOrder
    /\ TopUpPayable(c)
    /\ topUp' = [topUp EXCEPT ![c] = NoOrder]
    /\ LET s == topUp[c]
       IN  /\ amount' = [amount EXCEPT ![s.from]["main"] = @ - GasLimitFee, ![c]["main"] = @ + GasLimitFee]
           /\ locked' = [locked EXCEPT ![s.from] = @ \ {s.epoch}]
    /\ UNCHANGED <<epochVars, migration, addrs, place, items, orders, boxes, other, dust>>

Transfer ==
    \E o \in OrderID :
        \/ \E c \in OpCU, coin \in Coin : SettlementAsks(c, coin) /\ OpcuAssetTransfer(o, c, coin)
        \/ OpcuAssetTransferWaitSign(o)
        \/ OpcuAssetTransferSignFinish(o)
        \/ \E n \in KeyNode : OpcuAssetTransferFinish(o, n)

Next ==
    \/ \E remove, add \in SUBSET KeyNode : NewEpochBlock(remove, add)
    \/ BeginKeyGen
    \/ \E c \in OpCU : FinishKeyGen(c) \/ FinishTopUp(c) \/ \E d \in OpCU : StartTopUp(c, d)
    \/ Transfer
    \/ \E c \in OpCU, vins \in SUBSET ItemID, out \in GenesisAmount \cup {0} : StartOther(c, vins, out)
    \/ \E c \in OpCU : FinishOther(c)

Spec == Init /\ [][Next]_migrationVars

-----------------------------------------------------------------------------
MigrationTypeOK ==
    /\ migration \in [OpCU -> Status]
    /\ amount \in [OpCU -> [Coin -> Nat]]
    /\ items \in [ItemID -> Item \cup {NoItem}]
    /\ orders \in [OrderID -> Order \cup {NoOrder}]
    /\ other \in [OpCU -> OtherOrder \cup {NoOrder}]
    /\ topUp \in [OpCU -> TopUpOrder \cup {NoOrder}]

(***************************************************************************)
(* While assets of an operation CU are moved no withdrawal or collect uses *)
(* the CU, though such orders may be under way when the migration starts.  *)
(***************************************************************************)
TransfersAlone ==
    \A o \in OrderID :
        orders[o] # NoOrder /\ orders[o].status # "Finish" => other[orders[o].cu] = NoOrder

(***************************************************************************)
(* When the migration of a CU is finished nothing of value is left behind: *)
(* no item at an older address, no token there, and of the main token less *)
(* than SysTransferAmount (checkUtxoOpcuAstTransferFinish, status order).  *)
(***************************************************************************)
NothingLeftBehind ==
    \A c \in OpCU : migration[c] = "Finish" /\ Old \in addrs[c] =>
        /\ \A e \in 1 .. Old : ItemsAt(c, e) = {}
        /\ KindOf[c] = "Token" => amount[c]["token"] = 0 \/ place[c]["token"] = CurrentIndex
        /\ KindOf[c] # "Utxo" => amount[c]["main"] < SysTransferAmount \/ place[c]["main"] = CurrentIndex

(***************************************************************************)
(* The AssetCoins of a UTXO CU are its outputs, those in signed spending   *)
(* transactions excepted, and what was written off: OpcuAssetTransfer      *)
(* counts written-off outputs as used gas and leaves AssetCoins alone.     *)
(***************************************************************************)
LedgerIsOutputs ==
    \A c \in OpCU : KindOf[c] = "Utxo" =>
        LET mine  == {i \in ItemID : items[i] # NoItem /\ items[i].cu = c}
            spent == {i \in mine : /\ items[i].status = "InProcess"
                                   /\ ~\E o \in OrderID : /\ orders[o] # NoOrder
                                                          /\ i \in orders[o].items
                                                          /\ orders[o].status = "Begin"}
        IN  amount[c]["main"] = SumOfItems(mine \ spent) + dust[c]

\* A token transfer waits for gas and all other operation CUs are done and have none
\* to send, or one has begun to send gas and cannot pay for the transaction.
GasMissing ==
    \E c \in OpCU :
        IF topUp[c] # NoOrder THEN ~TopUpPayable(c)
        ELSE /\ TokenWaits(c)
             /\ amount[c]["main"] < GasLimitFee
             /\ \A d \in OpCU \ {c} : migration[d] = "Finish" /\ ~MaySendGas(d)

(***************************************************************************)
(* Every migration comes to an end and the epoch is marked, so that key    *)
(* nodes can be changed again, or else gas is missing for ever: a token    *)
(* transfer waits and no other operation CU has gas to send, or a system   *)
(* transfer that was begun cannot be paid for and keeps both CUs busy.     *)
(***************************************************************************)
MigrationFinishes ==
    ~CurrentEpoch.migrationFinished ~> (CurrentEpoch.migrationFinished \/ []GasMissing)

=============================================================================
