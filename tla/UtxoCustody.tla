---------------------------- MODULE UtxoCustody -----------------------------
(***************************************************************************)
(* Custody of a UTXO coin (the UTXO branches of deposit.go, collect.go and *)
(* withdrawal.go of x/transfer).  Outputs that users receive on the chain  *)
(* are collected to an operation CU, several in one transaction; several   *)
(* withdrawals are paid by one transaction, whose change comes back.       *)
(*                                                                         *)
(* The external chain is the outputs themselves: an output is unspent as   *)
(* long as no signed transaction spends it.  Each Finish action is the     *)
(* vote of a key node that confirms; voting is modelled in Evidence.  A    *)
(* UTXO transaction on its chain has the fee it was made with and has not  *)
(* failed, so the key nodes report its fee and valid = true.               *)
(***************************************************************************)
EXTENDS Integers, FiniteSets, FiniteSetsExt, Functions

CONSTANTS User, Op,          \* user CUs and the operation CU
          ItemID, OrderID, TxID,
          NoItem, NoOrder, NoTx,
          Amount,            \* amounts of deposits, CollectFee or more, and withdrawals
          CollectFee,        \* charged to a user for a collect
          GasFee,            \* reserved by a withdrawal
          Fee,               \* fees a transaction may have
          CollectThreshold, MaxVinNum, MaxVoutNum

VARIABLES items,     \* deposit items: outputs of CUs, each with its collect order
          worder,    \* withdrawal orders
          txs,       \* raw and signed transactions of orders
          assets, assetsHold,    \* AssetCoins and AssetCoinsHold of a CU
          coins, coinsHold,      \* balances of users
          feesIn, feesOut        \* history: fees charged to users, fees paid on the chain

utxoVars == <<items, worder, txs, assets, assetsHold, coins, coinsHold, feesIn, feesOut>>

CU == User \cup {Op}
Item == [cu : CU, amount : Nat, status : {"WaitCollect", "InProcess", "Confirmed"}]
Withdrawal == [user : User, amount : Amount, status : {"Begin", "WaitSign", "SignFinish", "Finish", "Cancel"}]
Tx == [kind : {"collect", "withdrawal"}, vins : SUBSET ItemID, orders : SUBSET OrderID,
       back : Nat, fee : Nat, status : {"WaitSign", "SignFinish", "Finish"}]

SumOfItems(ids) == MapThenSumSet(LAMBDA i : items[i].amount, ids)
SumOfOrders(ids) == MapThenSumSet(LAMBDA o : worder[o].amount, ids)
Own(c) == {i \in ItemID : items[i] # NoItem /\ items[i].cu = c}
Free == {i \in ItemID : items[i] = NoItem}
SetItems(ids, status) == [i \in ItemID |-> IF i \in ids THEN [items[i] EXCEPT !.status = status] ELSE items[i]]

Init ==
    /\ items = [i \in ItemID |-> NoItem]
    /\ worder = [o \in OrderID |-> NoOrder]
    /\ txs = [t \in TxID |-> NoTx]
    /\ assets = [c \in CU |-> 0] /\ assetsHold = [c \in CU |-> 0]
    /\ coins = [u \in User |-> 0] /\ coinsHold = [u \in User |-> 0]
    /\ feesIn = 0 /\ feesOut = 0

(***************************************************************************)
(* confirmDepositOrder for a UTXO coin: the first item that waits for a    *)
(* collect pays its fee.                                                   *)
(***************************************************************************)
ConfirmDeposit(i, u, a) ==
    LET fee == IF \E j \in Own(u) : items[j].status = "WaitCollect" THEN 0 ELSE CollectFee
    IN  /\ items[i] = NoItem
        /\ items' = [items EXCEPT ![i] = [cu |-> u, amount |-> a, status |-> "WaitCollect"]]
        /\ coins' = [coins EXCEPT ![u] = @ + a - fee]
        /\ assets' = [assets EXCEPT ![u] = @ + a]
        /\ feesIn' = feesIn + fee
        /\ UNCHANGED <<worder, txs, assetsHold, coinsHold, feesOut>>

\* The assets of users whose items ids are collected: from coins to coins on hold.
Move(f, ids, sign) ==
    [c \in CU |-> f[c] + sign * SumOfItems({i \in ids : items[i].cu = c})]

\* checkCollectOrders for CollectWaitSign: the item of a confirmed deposit waits.
Collectable(i) == items[i] # NoItem /\ items[i].cu \in User /\ items[i].status = "WaitCollect"

\* CollectWaitSign, the UTXO branch: all outputs go to the operation CU.
CollectWaitSign(t, ids, fee) ==
    /\ txs[t] = NoTx
    /\ ids # {} /\ Cardinality(ids) =< MaxVinNum
    /\ \A i \in ids : Collectable(i)
    /\ SumOfItems(ids) >= CollectThreshold
    /\ SumOfItems(ids) > fee
    /\ txs' = [txs EXCEPT ![t] = [kind |-> "collect", vins |-> ids, orders |-> {},
                                  back |-> SumOfItems(ids) - fee, fee |-> fee, status |-> "WaitSign"]]
    /\ items' = SetItems(ids, "InProcess")
    /\ assets' = Move(assets, ids, -1)
    /\ assetsHold' = Move(assetsHold, ids, 1)
    /\ UNCHANGED <<worder, coins, coinsHold, feesIn, feesOut>>

\* verifyUtxoBasedSignedTx: the items of the transaction are still in process.
VerifySigned(t) ==
    \A i \in txs[t].vins : items[i] # NoItem /\ items[i].status = "InProcess"

CollectSignFinish(t) ==
    /\ txs[t] # NoTx
    /\ txs[t].kind = "collect" /\ txs[t].status = "WaitSign"
    /\ VerifySigned(t)
    /\ txs' = [txs EXCEPT ![t].status = "SignFinish"]
    /\ UNCHANGED <<items, worder, assets, assetsHold, coins, coinsHold, feesIn, feesOut>>

\* CollectFinish when confirmed: the output becomes an item of the operation CU,
\* those of the users stay as confirmed (spent) ones, without value for the chain.
CollectFinish(t, new) ==
    LET x == txs[t] IN
    /\ x # NoTx
    /\ x.kind = "collect" /\ x.status = "SignFinish"
    /\ \A i \in x.vins : items[i].status = "InProcess"
    /\ new \in Free
    /\ items' = [SetItems(x.vins, "Confirmed") EXCEPT
                   ![new] = [cu |-> Op, amount |-> x.back, status |-> "Confirmed"]]
    /\ assetsHold' = Move(assetsHold, x.vins, -1)
    /\ assets' = [assets EXCEPT ![Op] = @ + x.back]
    /\ txs' = [txs EXCEPT ![t].status = "Finish"]
    /\ feesOut' = feesOut + x.fee
    /\ UNCHANGED <<worder, coins, coinsHold, feesIn>>

-----------------------------------------------------------------------------
\* LockCoins: the balance covers amount and fee.
CanLock(u, a) == coins[u] >= a + GasFee

\* MsgWithdrawal: amount and fee are locked.
Withdraw(o, u, a) ==
    /\ worder[o] = NoOrder
    /\ CanLock(u, a)
    /\ coins' = [coins EXCEPT ![u] = @ - a - GasFee]
    /\ coinsHold' = [coinsHold EXCEPT ![u] = @ + a + GasFee]
    /\ worder' = [worder EXCEPT ![o] = [user |-> u, amount |-> a, status |-> "Begin"]]
    /\ UNCHANGED <<items, txs, assets, assetsHold, feesIn, feesOut>>

\* CancelWithdrawal: an order that no transaction pays yet.
CancelWithdrawal(o) ==
    LET w == worder[o] IN
    /\ w # NoOrder /\ w.status = "Begin"
    /\ worder' = [worder EXCEPT ![o].status = "Cancel"]
    /\ coins' = [coins EXCEPT ![w.user] = @ + w.amount + GasFee]
    /\ coinsHold' = [coinsHold EXCEPT ![w.user] = @ - w.amount - GasFee]
    /\ UNCHANGED <<items, txs, assets, assetsHold, feesIn, feesOut>>

\* checkDecodedUtxoTransaction: outputs pay the orders, the rest is change.
checkDecodedUtxoTransaction(ids, vins, fee) ==
    /\ assets[Op] >= SumOfItems(vins)
    /\ SumOfItems(vins) >= SumOfOrders(ids) + fee

\* An output of the operation CU that no transaction spends.
Spendable(i) == i \in Own(Op) /\ items[i].status = "Confirmed"

WithdrawalWaitSign(t, ids, vins, fee) ==
    /\ txs[t] = NoTx
    /\ ids # {} /\ Cardinality(ids) =< MaxVoutNum
    /\ \A o \in ids : worder[o] # NoOrder /\ worder[o].status = "Begin"
    /\ vins # {} /\ \A i \in vins : Spendable(i)
    /\ checkDecodedUtxoTransaction(ids, vins, fee)
    /\ txs' = [txs EXCEPT ![t] = [kind |-> "withdrawal", vins |-> vins, orders |-> ids,
                                  back |-> SumOfItems(vins) - SumOfOrders(ids) - fee,
                                  fee |-> fee, status |-> "WaitSign"]]
    /\ worder' = [o \in OrderID |-> IF o \in ids THEN [worder[o] EXCEPT !.status = "WaitSign"] ELSE worder[o]]
    /\ items' = SetItems(vins, "InProcess")
    /\ assets' = [assets EXCEPT ![Op] = @ - SumOfItems(vins)]
    /\ assetsHold' = [assetsHold EXCEPT ![Op] = @ + SumOfItems(vins)]
    /\ UNCHANGED <<coins, coinsHold, feesIn, feesOut>>

WithdrawalSignFinish(t) ==
    LET ids == txs[t].orders IN
    /\ txs[t] # NoTx
    /\ txs[t].kind = "withdrawal" /\ txs[t].status = "WaitSign"
    /\ \A o \in ids : worder[o].status = "WaitSign"
    /\ VerifySigned(t)
    /\ txs' = [txs EXCEPT ![t].status = "SignFinish"]
    /\ worder' = [o \in OrderID |-> IF o \in ids THEN [worder[o] EXCEPT !.status = "SignFinish"] ELSE worder[o]]
    /\ UNCHANGED <<items, assets, assetsHold, coins, coinsHold, feesIn, feesOut>>

\* What an order pays for gas, of the GasFee it reserved: the whole transaction's fee.
Charged(fee) == IF GasFee > fee THEN fee ELSE GasFee

\* What is taken off the hold of the user of orders ids.
Release(ids) == SumOfOrders(ids) + Cardinality(ids) * GasFee

\* The change of a transaction.
Back(x) == x.back

\* WithdrawalFinish when confirmed, for all orders of the transaction.
WithdrawalFinish(t, new) ==
    LET x     == txs[t]
        of(u) == {o \in x.orders : worder[o].user = u}
        n(u)  == Cardinality(of(u))
    IN  /\ x # NoTx
        /\ x.kind = "withdrawal" /\ x.status = "SignFinish"
        /\ new \in x.vins              \* the change takes the name of a spent item
        /\ \A o \in x.orders : worder[o].status = "SignFinish"
        /\ \A i \in x.vins : items[i] # NoItem /\ items[i].status = "InProcess"
        /\ items' = [i \in ItemID |->
             IF i = new /\ x.back > 0 THEN [cu |-> Op, amount |-> x.back, status |-> "Confirmed"]
             ELSE IF i \in x.vins THEN NoItem ELSE items[i]]
        /\ assetsHold' = [assetsHold EXCEPT ![Op] = @ - SumOfItems(x.vins)]
        /\ assets' = [assets EXCEPT ![Op] = @ + Back(x)]
        /\ coinsHold' = [u \in User |-> coinsHold[u] - Release(of(u))]
        /\ coins' = [u \in User |-> coins[u] + n(u) * (GasFee - Charged(x.fee))]
        /\ worder' = [o \in OrderID |-> IF o \in x.orders THEN [worder[o] EXCEPT !.status = "Finish"] ELSE worder[o]]
        /\ txs' = [txs EXCEPT ![t].status = "Finish"]
        /\ feesIn' = feesIn + Cardinality(x.orders) * Charged(x.fee)
        /\ feesOut' = feesOut + x.fee

Next ==
    \/ \E i \in ItemID, u \in User, a \in Amount : ConfirmDeposit(i, u, a)
    \/ \E t \in TxID, ids \in SUBSET ItemID, fee \in Fee : CollectWaitSign(t, ids, fee)
    \/ \E t \in TxID, i \in ItemID : CollectFinish(t, i) \/ WithdrawalFinish(t, i)
    \/ \E t \in TxID : CollectSignFinish(t) \/ WithdrawalSignFinish(t)
    \/ \E o \in OrderID, u \in User, a \in Amount : Withdraw(o, u, a)
    \/ \E o \in OrderID : CancelWithdrawal(o)
    \/ \E t \in TxID, ids \in SUBSET OrderID, vins \in SUBSET ItemID, fee \in Fee :
        WithdrawalWaitSign(t, ids, vins, fee)

Spec == Init /\ [][Next]_utxoVars

-----------------------------------------------------------------------------
\* Types; no balance and no asset of a CU is ever negative.
UtxoTypeOK ==
    /\ items \in [ItemID -> Item \cup {NoItem}]
    /\ worder \in [OrderID -> Withdrawal \cup {NoOrder}]
    /\ txs \in [TxID -> Tx \cup {NoTx}]
    /\ \A c \in CU : assets[c] >= 0 /\ assetsHold[c] >= 0
    /\ \A u \in User : coins[u] >= 0 /\ coinsHold[u] >= 0

(***************************************************************************)
(* No output is the input of two transactions: the status of a deposit     *)
(* item keeps collects and withdrawals apart, however they interleave.     *)
(***************************************************************************)
OutputSpentOnce ==
    \A s, t \in TxID :
        /\ s # t /\ txs[s] # NoTx /\ txs[t] # NoTx
        /\ txs[s].status # "Finish" /\ txs[t].status # "Finish"
        => txs[s].vins \cap txs[t].vins = {}

(***************************************************************************)
(* The ledger follows the outputs: AssetCoins are the unspent outputs of a *)
(* CU, AssetCoinsHold those in a transaction under way.                    *)
(***************************************************************************)
AssetsAreOutputs ==
    \A c \in CU :
        LET live == {i \in Own(c) : ~(c \in User /\ items[i].status = "Confirmed")}
            busy == {i \in live : items[i].status = "InProcess"}
        IN  /\ assets[c] = SumOfItems(live \ busy)
            /\ assetsHold[c] = SumOfItems(busy)

(***************************************************************************)
(* Assets and what users own differ by the fees: users' balances, locked   *)
(* or not, are backed by outputs, but for fees that the chain took and the *)
(* users were not charged.                                                 *)
(***************************************************************************)
AssetsBalance ==
    LET total(f) == FoldFunction(+, 0, f)
    IN  total(assets) + total(assetsHold) + feesOut = total(coins) + total(coinsHold) + feesIn

=============================================================================
