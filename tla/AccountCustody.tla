--------------------------- MODULE AccountCustody ---------------------------
(***************************************************************************)
(* Deposits, collects, withdrawals and system transfers of one             *)
(* account-based chain together, as the handlers of x/transfer interleave  *)
(* them in one transaction order, and what must hold of all of them.       *)
(***************************************************************************)
EXTENDS Custody

CONSTANTS DepositID, WithdrawalID, SysTransferID, \* ids in messages, by type of order
          Depositor,     \* the CUs that deposits are made to
          Amount,        \* amounts users deposit, withdraw and send
          CollectAmount, \* amounts of collecting transactions
          CostFee,       \* network fees that key nodes report
          PartialBatches,\* a key node may report some orders of a transaction only
          SelfTransfers, \* the settlement may transfer from an operation CU to itself
          InitialCoins,  \* balance of each user at the start
          InitialAsset   \* coins of each operation CU at the start

ASSUME InitialAssumption ==
    /\ {DepositID, WithdrawalID, SysTransferID} \subseteq SUBSET OrderID
    /\ Depositor \subseteq CU
    /\ Amount \subseteq Nat
    /\ CollectAmount \subseteq Nat /\ CostFee \subseteq Nat
    /\ {PartialBatches, SelfTransfers} \subseteq BOOLEAN
    /\ InitialCoins \in [User -> [Symbol -> Nat]]
    /\ InitialAsset \in [OpCU -> [Symbol -> Nat]]

\* Empty orders and votes; what the users own has been collected.
Init ==
    /\ order = << >> /\ item = << >> /\ confirmBox = << >> /\ finishBox = << >>
    /\ coins = InitialCoins
    /\ held = [u \in User |-> NoCoins]
    /\ ast = [c \in CU |-> IF c \in OpCU THEN AddAssetCoins(EmptyAsset, InitialAsset[c]) ELSE EmptyAsset]
    /\ chain = [c \in CU |-> IF c \in OpCU THEN InitialAsset[c] ELSE NoCoins]

\* SendCoins between users, which moves what others count on.
Send(u, v, symbol, amount) ==
    LET sent == Coin(symbol, amount)
    IN  /\ Covers(coins[u], sent)
        /\ coins' = IF u = v THEN coins
                    ELSE [coins EXCEPT ![u] = Minus(@, sent), ![v] = Plus(@, sent)]
        /\ UNCHANGED <<order, item, confirmBox, finishBox, held, ast, chain>>

\* The orders that share the transaction of order i.
Batch(i) == {j \in DOMAIN order : order[j].type = "Collect" /\ order[j].raw = order[i].raw}

Batches(i) == IF PartialBatches THEN SUBSET Batch(i) ELSE {Batch(i)}

(***************************************************************************)
(* The settlement builds transactions; their fees and amounts are what the *)
(* checks of WaitSign let pass.  Key nodes report a fee of at most the fee *)
(* limit of the transaction.                                               *)
(***************************************************************************)
Fees == UNION {0 .. (12 * GasFee[s]) \div 10 : s \in Symbol}

Costs(tx) == IF tx = NoTx THEN CostFee ELSE {c \in CostFee : c =< tx.fee}

DepositStep ==
    \/ \E id \in DepositID, cu \in Depositor, s \in Symbol, h \in Hash, a \in Amount :
        Deposit(id, cu, s, h, a)
    \/ \E n \in KeyNode, id \in DOMAIN order, valid \in BOOLEAN : ConfirmedDeposit(n, id, valid)

CollectStep ==
    \/ \E op \in OpCU, ids \in SUBSET DOMAIN order, a \in CollectAmount, fee \in Fees :
        CollectWaitSign(op, ids, a, fee)
    \/ \E i \in DOMAIN order : \E ids \in Batches(i) : CollectSignFinish(ids)
    \/ \E n \in KeyNode, i \in DOMAIN order : \E ids \in Batches(i), c \in Costs(order[i].ext) :
        CollectFinish(n, ids, c)

WithdrawalBegin ==
    \/ \E id \in WithdrawalID, u \in User, s \in Symbol, a, g \in Amount : Withdrawal(id, u, s, a, g)
    \/ \E n \in KeyNode, id \in DOMAIN order, valid \in BOOLEAN : WithdrawalConfirm(n, id, valid)
    \/ \E id \in DOMAIN order : CancelWithdrawal(id)
    \/ \E op \in OpCU, id \in DOMAIN order, fee \in Fees : WithdrawalWaitSign(op, id, fee)
    \/ \E id \in DOMAIN order : WithdrawalSignFinish(id)

WithdrawalEnd ==
    \E n \in KeyNode, id \in DOMAIN order, valid \in BOOLEAN : \E c \in Costs(order[id].ext) :
        WithdrawalFinish(n, id, c, valid)

SysTransferStep ==
    \/ \E id \in SysTransferID, op \in OpCU, to \in CU, s \in Symbol :
        (op # to \/ SelfTransfers) /\ SysTransfer(id, op, to, s)
    \/ \E id \in DOMAIN order, fee \in Fees : SysTransferWaitSign(id, fee)
    \/ \E id \in DOMAIN order : SysTransferSignFinish(id)
    \/ \E n \in KeyNode, id \in DOMAIN order : \E c \in Costs(order[id].ext) :
        SysTransferFinish(n, id, c)

SendStep == \E u, v \in User, s \in Symbol, a \in Amount : Send(u, v, s, a)

Next ==
    DepositStep \/ CollectStep \/ WithdrawalBegin \/ WithdrawalEnd \/ SysTransferStep \/ SendStep

Spec == Init /\ [][Next]_custodyVars

(***************************************************************************)
(* The key nodes watch the chain: each of them sooner or later reports the *)
(* transaction of a signed order, all with the fee it really cost.         *)
(***************************************************************************)
Reported(n, i, costFee) ==
    /\ i \in DOMAIN order
    /\ \/ CollectFinish(n, Batch(i), costFee)
       \/ WithdrawalFinish(n, i, costFee, TRUE)
       \/ SysTransferFinish(n, i, costFee)

KeyNodesReport ==
    \A n \in KeyNode, i \in OrderID, costFee \in CostFee : WF_custodyVars(Reported(n, i, costFee))

-----------------------------------------------------------------------------
OrdersOf(type, statuses) ==
    {i \in DOMAIN order : order[i].type = type /\ order[i].status \in statuses}

Signing == {"WaitSign", "SignFinish"}

\* The address a transaction of order i is sent from, once an order has one.
Sender(i) == IF order[i].type = "Withdrawal" THEN order[i].other ELSE order[i].cu

\* The orders that occupy the address of CU c: those whose transaction is being
\* signed or waits on the chain, and system transfers from their beginning.
Occupying(c) ==
    {i \in OrdersOf("Collect", Signing) \cup OrdersOf("Withdrawal", Signing)
           \cup OrdersOf("SysTransfer", {"Begin"} \cup Signing) : Sender(i) = c}

TypeOK ==
    /\ DOMAIN order \subseteq OrderID
    /\ \A i \in DOMAIN order : order[i] \in Order
    /\ \A k \in DOMAIN item :
        k \in Symbol \X CU \X (Hash \cup Tx) /\ item[k] \in [amount : Nat, status : ItemStatus]
    /\ coins \in [User -> [Symbol -> Nat]]
    /\ held \in [User -> [Symbol -> Nat]]
    /\ ast \in [CU -> Asset]
    /\ chain \in [CU -> [Symbol -> Int]]

(***************************************************************************)
(* An address is locked exactly while an order occupies it, and all orders *)
(* that occupy it have the same transaction (EnableSendTx, set in WaitSign *)
(* or SysTransfer and reset in Finish).                                    *)
(***************************************************************************)
LockedWhileOccupied ==
    \A c \in CU :
        /\ ast[c].sendTx <=> Occupying(c) = {}
        /\ \A i, j \in Occupying(c) : i = j \/ (order[i].raw = order[j].raw /\ order[i].raw # NoTx)

(***************************************************************************)
(* No two different transactions of an address carry the same nonce, over  *)
(* all orders that ever had one: a second transaction with the same nonce  *)
(* could replace the first on the chain.                                   *)
(***************************************************************************)
NonceUsedOnce ==
    \A i, j \in DOMAIN order :
        LET p == order[i].raw
            q == order[j].raw
        IN  p # NoTx /\ q # NoTx /\ p.from = q.from /\ p.nonce = q.nonce => p = q

(***************************************************************************)
(* The hold balance of a user is what the user's open withdrawals need, to *)
(* the coin: Withdrawal locks it and exactly one of Confirm, Cancel and    *)
(* Finish releases it.                                                     *)
(***************************************************************************)
HeldIsOpenWithdrawals ==
    \A u \in User, s \in Symbol :
        held[u][s] = SumOf(LAMBDA i : Needed(order[i])[s],
                           {i \in OrdersOf("Withdrawal", {"Begin"} \cup Signing) : order[i].cu = u})

\* What order i keeps on hold at the address it occupies.
OnHold(i) ==
    LET o == order[i]
    IN  CASE o.type = "Collect" -> Coin(o.symbol, o.amount)
          [] o.type = "Withdrawal" -> Plus(Coin(o.symbol, o.amount), Coin(Main, o.costFee))
          [] o.type = "SysTransfer" -> Coin(Main, o.amount + o.costFee)

(***************************************************************************)
(* The coins a CU has on hold are what the orders that occupy its address  *)
(* have put there: nothing stays on hold and nothing is released twice.    *)
(***************************************************************************)
AssetHoldIsOccupying ==
    \A c \in CU, s \in Symbol : ast[c].hold[s] = SumOf(LAMBDA i : OnHold(i)[s], Occupying(c))

\* What the ledger says CU c has on the chain.
Ledger(c, s) == ast[c].coins[s] + ast[c].hold[s] + (IF s = Main THEN ast[c].gas ELSE 0)

(***************************************************************************)
(* The ledger of a CU agrees with the chain: its assets, the coins on hold *)
(* and the remaining gas are what its address has on the chain, less the   *)
(* amounts of failed withdrawals, which WithdrawalFinish refunds to the    *)
(* user and takes from the assets though they never left.                  *)
(***************************************************************************)
LedgerMatchesChain ==
    \A c \in CU, s \in Symbol :
        chain[c][s] = Ledger(c, s)
            + SumOf(LAMBDA i : IF order[i].other = c /\ order[i].symbol = s THEN order[i].amount ELSE 0,
                    OrdersOf("Withdrawal", {"Failed"}))

\* What users may claim of symbol s.
Claims(s) == SumOf(LAMBDA u : coins[u][s] + held[u][s], User)

Funds(s) == SumOf(LAMBDA c : chain[c][s], CU)

(***************************************************************************)
(* Users never own more of a token than the addresses hold on the chain,   *)
(* in-flight withdrawals included.  The main token also pays for gas, see  *)
(* MainCovered.                                                            *)
(***************************************************************************)
TokensCovered == \A s \in Symbol \ {Main} : Claims(s) =< Funds(s)

\* The fees of collecting transactions and system transfers, from their votes.
FeesOfCustody ==
    SumOf(LAMBDA tx : finishBox[tx].result[1],
          {tx \in DOMAIN finishBox \ {NoTx} : finishBox[tx].confirmed /\ tx.to \in CU})

(***************************************************************************)
(* For the main token the users' claims are covered by what the addresses  *)
(* hold and the network fees that moving coins between the addresses has   *)
(* cost; every other fee was charged to the user who caused it.            *)
(***************************************************************************)
MainCovered == Claims(Main) =< Funds(Main) + FeesOfCustody

\* The ledger and the users' claims against the chain.
BooksMatch == LedgerMatchesChain /\ TokensCovered /\ MainCovered

\* Coins on hold against the open orders.
HoldsMatch == HeldIsOpenWithdrawals /\ AssetHoldIsOccupying

(***************************************************************************)
(* A transaction that pays in is credited at most once: no two orders for  *)
(* the same transaction, CU and token are both found valid.                *)
(***************************************************************************)
CreditedOnce ==
    \A i, j \in DOMAIN order :
        /\ order[i].type = "Collect" /\ order[j].type = "Collect"
        /\ order[i].checked = "Valid" /\ order[j].checked = "Valid"
        /\ KeyOf(i) = KeyOf(j)
        => i = j

\* The statuses of the item of a valid deposit order in the given status.
Following(status) ==
    IF status = "Begin" THEN {"UnCollected", "WaitCollect"}
    ELSE IF status \in Signing THEN {"InProcess"}
    ELSE {"Confirmed"}

(***************************************************************************)
(* A deposit item follows the order that created it: it waits while the    *)
(* order has not begun, is in process while the order is, and is settled   *)
(* with the order, so no deposit is collected twice or forgotten.          *)
(***************************************************************************)
ItemFollowsOrder ==
    \A i \in DOMAIN order : order[i].type = "Collect" =>
        /\ order[i].checked = "Invalid" => order[i].status = "Finish"
        /\ order[i].checked = "Unconfirmed" => KeyOf(i) \notin DOMAIN item
        /\ order[i].checked = "Valid" =>
            KeyOf(i) \in DOMAIN item /\ item[KeyOf(i)].status \in Following(order[i].status)

(***************************************************************************)
(* A payment into the custody is used once: credited once and collected    *)
(* once, though its report, the votes on it and the collecting transaction *)
(* interleave with those of others (NotReported, checkCollectOrders).      *)
(***************************************************************************)
DepositsUsedOnce == CreditedOnce /\ ItemFollowsOrder

(***************************************************************************)
(* A terminated order stays as it is, whatever votes come in late: Match   *)
(* and checkCollectOrders let votes on finished orders through.            *)
(***************************************************************************)
TerminatedIsFinal ==
    [][\A i \in DOMAIN order : Terminated(order[i].status) => order'[i] = order[i]]_custodyVars

(***************************************************************************)
(* An order whose transaction is signed terminates: no check of the Finish *)
(* handlers rejects for ever what WaitSign and SignFinish have admitted.   *)
(***************************************************************************)
SignedTerminates ==
    \A i \in OrderID :
        (i \in DOMAIN order /\ order[i].status = "SignFinish")
            ~> (i \in DOMAIN order /\ Terminated(order[i].status))

-----------------------------------------------------------------------------
(* The addresses, as AddressLock sees them.                                *)

Nonces == [c \in CU |-> ast[c].nonce]

CanSend == [c \in CU |-> ast[c].sendTx]

IssuedTxs == {order[i].raw : i \in DOMAIN order} \ {NoTx}

SettledTxs == {tx \in DOMAIN finishBox : finishBox[tx].confirmed}

Reserved == {order[i].cu : i \in OrdersOf("SysTransfer", {"Begin"})}

Addresses ==
    INSTANCE AddressLock WITH
        Address <- CU,
        nonce <- Nonces,
        sendTx <- CanSend,
        issued <- IssuedTxs,
        settled <- SettledTxs,
        reserved <- Reserved

(***************************************************************************)
(* The handlers implement AddressLock: whichever of the three WaitSign     *)
(* handlers and SysTransfer take an address, and however the votes on      *)
(* their transactions come in, it sends one transaction at a time.         *)
(***************************************************************************)
AddressesLocked == Addresses!Spec

=============================================================================
