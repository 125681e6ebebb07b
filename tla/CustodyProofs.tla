--------------------------- MODULE CustodyProofs ----------------------------
(***************************************************************************)
(* The handlers of AccountCustody implement AddressLock, for any CUs, key  *)
(* nodes, tokens, fees and number of orders, also when key nodes report    *)
(* some orders of a transaction only; and no payment into the custody is   *)
(* credited or collected twice.                                            *)
(***************************************************************************)
EXTENDS CustodyInvariant

-----------------------------------------------------------------------------
(* The handlers that settle a transaction.                                 *)

\* An order with a signed transaction ends.
Ended(o, f, g, st) == [o EXCEPT !.costFee = f, !.gasFee = g, !.status = st]

\* Ending keeps an order good, and what AddressLock sees of it.
LEMMA EndedGood ==
    ASSUME NEW o, OrderGood(o), o.ext # NoTx, o.type = "Collect" => o.checked # "Unconfirmed",
           NEW f \in Nat, NEW g \in Nat, NEW st \in {"Finish", "Failed"}
    PROVE  LET p == Ended(o, f, g, st)
           IN  /\ OrderGood(p) /\ SameCore(o, p)
               /\ p.type = o.type /\ p.checked = o.checked /\ p.ext = o.ext
<1> DEFINE p == Ended(o, f, g, st)
<1>1. /\ p \in Order /\ p.type = o.type /\ p.cu = o.cu /\ p.other = o.other /\ p.checked = o.checked
      /\ p.raw = o.raw /\ p.ext = o.ext /\ p.status = st
  BY Zenon DEF OrderGood, Order, Status, Ended
<1> HIDE DEF p
<1>2. OrderGood(p) /\ SameCore(o, p)
  BY SMTT(30), <1>1 DEF OrderGood, SameCore
<1> QED
  BY <1>1, <1>2 DEF p

\* The transaction of a signed order is one that was issued.
LEMMA SignedIsIssued ==
    ASSUME OrdersGood, NEW i \in DOMAIN order, order[i].ext # NoTx
    PROVE  /\ order[i].ext \in IssuedTxs /\ order[i].ext = order[i].raw
           /\ order[i].ext.from = IF order[i].type = "Withdrawal" THEN order[i].other ELSE order[i].cu
           /\ order[i].ext \in Tx
<1>1. OrderGood(order[i])
  BY SMTT(30) DEF OrdersGood
<1>2. order[i].ext = order[i].raw /\ order[i].raw \in Tx
  BY <1>1 DEF OrderGood, Order
<1> QED
  BY <1>1, <1>2 DEF OrderGood, IssuedTxs

\* CollectFinish settles a collecting transaction when its box is confirmed, or only votes.
LEMMA CollectFinishOK ==
    ASSUME CustodyInv, NEW n \in KeyNode, NEW ids, NEW costFee \in CostFee, CollectFinish(n, ids, costFee)
    PROVE  StepOK
<1>a. /\ OrdersGood /\ AssetsGood /\ BoxesGood(confirmBox) /\ BoxesGood(finishBox)
      /\ OneReservation /\ ClosedByVote
  BY Zenon DEF CustodyInv
<1> DEFINE one == CHOOSE i \in ids : TRUE
<1>0. PICK tx : tx = order[one].ext
  BY Zenon
<1> DEFINE v == TxVote(costFee, TRUE)
           first == ConfirmedFirstTime(finishBox, tx, n, v)
<1>1. /\ ids # {} /\ ids \subseteq DOMAIN order
      /\ \A i \in ids : /\ order[i].type = "Collect" /\ order[i].checked # "Unconfirmed"
                        /\ order[i].ext # NoTx
      /\ \A i, j \in ids : order[i].ext = order[j].ext
  BY Zenon DEF CollectFinish, checkCollectOrders
<1>2. finishBox' = Voted(finishBox, tx, n, v) /\ UNCHANGED confirmBox
  BY <1>0, SMTT(30) DEF CollectFinish
<1>3. IF first THEN FinishCollect(ids, tx, costFee) ELSE UNCHANGED <<order, item, ast, chain>>
  BY <1>0, Zenon DEF CollectFinish
<1>4. one \in ids /\ \A i \in ids : order[i].ext = tx
  BY <1>0, <1>1
<1> HIDE DEF one, v
<1>5. /\ BoxesGood(finishBox)'
      /\ \A t : Confirmed(finishBox, t) => Confirmed(finishBox, t)'
      /\ ~first => SettledTxs' = SettledTxs
      /\ first => /\ tx \notin SettledTxs /\ ~Confirmed(finishBox, tx)
                  /\ SettledTxs' = SettledTxs \cup {tx} /\ Confirmed(finishBox, tx)'
  BY <1>a, <1>2, VoteSettles
<1>6. BoxesKept
  BY <1>a, <1>2, <1>5, UnchangedConfirmBox, SMTT(30) DEF BoxesKept
<1>7. tx \in IssuedTxs /\ tx \in Tx /\ tx.from \in CU
  <2>1. order[one].cu \in CU
    BY <1>a, <1>1, <1>4, SMTT(30) DEF OrdersGood, OrderGood, Order
  <2> QED
    BY <1>a, <1>1, <1>4, <2>1, SignedIsIssued, SMTT(30)
<1> HIDE DEF first
<1>8. CASE ~first
  BY <1>3, <1>5, <1>6, <1>8, VotesOnlyOK, SMTT(30)
<1>9. CASE first
  <2> DEFINE p(i) == [order[i] EXCEPT !.status = "Finish"]
             c == tx.from
             d == tx.to
             a == Collected(ast[c], tx, Total(ids), costFee)
             k == Coin(tx.symbol, tx.amount)
  <2>1. /\ order' = [i \in DOMAIN order |-> IF i \in ids THEN p(i) ELSE order[i]]
        /\ ast' = [[ast EXCEPT ![c] = a] EXCEPT ![d] = AddAssetCoins(@, k)]
    BY <1>3, <1>9 DEF FinishCollect
  <2>2. \A i \in ids : /\ OrderGood(p(i)) /\ SameCore(order[i], p(i)) /\ ~Terminated(order[i].status)
                       /\ p(i).type = "Collect" /\ p(i).ext = tx
    <3> SUFFICES ASSUME NEW i \in ids
                 PROVE  /\ OrderGood(p(i)) /\ SameCore(order[i], p(i)) /\ ~Terminated(order[i].status)
                        /\ p(i).type = "Collect" /\ p(i).ext = tx
      OBVIOUS
    <3>1. OrderGood(order[i]) /\ order[i].type = "Collect" /\ order[i].ext = tx /\ tx # NoTx
      BY <1>a, <1>1, <1>4, SMTT(30) DEF OrdersGood
    <3>2. order[i].status # "Cancel"
      BY <3>1, Zenon DEF OrderGood
    <3>3. ~Terminated(order[i].status)
      BY <1>a, <1>1, <1>5, <1>9, <3>1, <3>2, Zenon DEF ClosedByVote, Terminated
    <3>4. /\ p(i) = Ended(order[i], order[i].costFee, order[i].gasFee, "Finish")
          /\ order[i].costFee \in Nat /\ order[i].gasFee \in Nat
      BY <3>1, Zenon DEF OrderGood, Order, Ended
    <3>5. /\ OrderGood(p(i)) /\ SameCore(order[i], p(i))
          /\ p(i).type = order[i].type /\ p(i).ext = order[i].ext
      <4> DEFINE f == order[i].costFee
                 g == order[i].gasFee
                 o == order[i]
      <4>1. OrderGood(o) /\ o.ext # NoTx /\ o.checked # "Unconfirmed" /\ f \in Nat /\ g \in Nat
        BY <1>1, <3>1, <3>4
      <4>2. p(i) = Ended(o, f, g, "Finish")
        BY SMTT(30), <3>4
      <4> HIDE DEF p, f, g, o
      <4>3. LET q == Ended(o, f, g, "Finish")
            IN  OrderGood(q) /\ SameCore(o, q) /\ q.type = o.type /\ q.ext = o.ext
        BY <4>1, EndedGood
      <4> QED
        BY <4>2, <4>3 DEF o
    <3> QED
      BY <3>1, <3>3, <3>5
  <2> HIDE DEF p
  <2>3. OrdersGood' /\ Final
    BY <1>a, <1>1, <2>1, <2>2, ChangedOrders, Zenon
  <2>4. /\ DOMAIN order' = DOMAIN order
        /\ \A i \in DOMAIN order : order'[i] = IF i \in ids THEN p(i) ELSE order[i]
    BY <2>1, ZenonT(40)
  <2>5. ClosedByVote'
    <3>1. \A i \in ids : Confirmed(confirmBox, i)
      BY <1>a, <1>1, Zenon DEF ClosedByVote
    <3>2. \A i : Confirmed(confirmBox, i) => Confirmed(confirmBox, i)'
      BY <1>6, SMTT(30) DEF BoxesKept
    <3>3. SUFFICES ASSUME NEW i \in DOMAIN order
                   PROVE  /\ order'[i].type = "Collect" /\ order'[i].checked # "Unconfirmed"
                             => Confirmed(confirmBox, i)'
                          /\ order'[i].status \in {"Finish", "Failed"} /\ order'[i].ext # NoTx
                             => \E t : t = order'[i].ext /\ Confirmed(finishBox, t)'
      BY <1>a, <2>4, SMTT(30) DEF ClosedByVote, Confirmed
    <3>4. CASE i \in ids
      BY <1>5, <1>9, <2>2, <2>4, <3>1, <3>2, <3>4, ZenonT(40)
    <3>5. CASE i \notin ids
      <4>1. order'[i] = order[i]
        BY <2>4, <3>5, Zenon
      <4>2. /\ order[i].type = "Collect" /\ order[i].checked # "Unconfirmed" => Confirmed(confirmBox, i)
            /\ order[i].status \in {"Finish", "Failed"} /\ order[i].ext # NoTx
                => Confirmed(finishBox, order[i].ext)
        BY <1>a, Zenon DEF ClosedByVote
      <4>3. \A t : Confirmed(finishBox, t) => Confirmed(finishBox, t)'
        BY <1>5, Zenon
      <4> QED
        BY <3>2, <4>1, <4>2, <4>3, Zenon
    <3> QED
      BY <3>4, <3>5, ZenonT(40)
  <2>6. QuietOrders
    <3>1. \A x : SameCore(x, x)
      BY Zenon DEF SameCore
    <3>2. \A i \in DOMAIN order : SameCore(order[i], order'[i])
      BY <2>2, <2>4, <3>1, Zenon
    <3> QED
      BY <2>4, <3>2, Zenon DEF QuietOrders
  <2>7. SettledAsset(ast[c], ast'[c]) /\ OthersQuiet(c) /\ AssetsGood'
    <3>1. AssetGood(ast[c]) /\ SettledAsset(ast[c], a)
      BY <1>a, <1>7, SettledOperations DEF AssetsGood
    <3>2. AssetGood(a) /\ SameAddress(a, AddAssetCoins(a, k))
      BY <3>1, AssetOperations DEF SettledAsset
    <3>3. \A e \in CU : SameAddress(ast[e], AddAssetCoins(ast[e], k)) /\ SameAddress(ast[e], ast[e])
      BY <1>a, AssetOperations DEF AssetsGood, SameAddress
    <3>4. /\ ast'[c] = IF d = c THEN AddAssetCoins(a, k) ELSE a
          /\ \A e \in CU \ {c} : ast'[e] = IF d = e THEN AddAssetCoins(ast[e], k) ELSE ast[e]
          /\ ast' = [e \in CU |-> ast'[e]]
      <4>1. c \in CU /\ ast = [e \in CU |-> ast[e]]
        BY <1>a, <1>7 DEF AssetsGood
      <4> HIDE DEF a, c, d, k
      <4> DEFINE b == [ast EXCEPT ![c] = a]
      <4>2. b = [e \in CU |-> IF e = c THEN a ELSE ast[e]]
        BY <4>1
      <4>3. ast' = [b EXCEPT ![d] = AddAssetCoins(b[d], k)]
        BY <2>1
      <4> HIDE DEF b
      <4>4. ast' = [e \in CU |-> IF e = d THEN AddAssetCoins(b[e], k) ELSE b[e]]
        BY <4>2, <4>3, SMTT(30)
      <4> QED
        BY <4>1, <4>2, <4>4
    <3> HIDE DEF a, k
    <3>5. SettledAsset(ast[c], ast'[c])
      BY <3>1, <3>2, <3>4, ZenonT(40) DEF SettledAsset, SameAddress
    <3>6. OthersQuiet(c)
      BY SMTT(30), <3>3, <3>4 DEF OthersQuiet
    <3>7. \A e \in CU : AssetGood(ast'[e])
      BY <3>5, <3>6 DEF SettledAsset, OthersQuiet, SameAddress
    <3> QED
      BY <1>a, <3>4, <3>5, <3>6, <3>7, SMTT(30) DEF AssetsGood
  <2>8. [Addresses!Next]_(Addresses!addressVars) /\ OneReservation'
    BY <1>a, <1>5, <1>7, <1>9, <2>6, <2>7, SettleStep, Zenon
  <2> QED
    BY <1>a, <1>6, <2>3, <2>5, <2>7, <2>8, Zenon DEF StepOK, BoxesKept, CustodyInv
<1> QED
  BY <1>8, <1>9

\* WithdrawalFinish settles a withdrawal when its box is confirmed, or only votes.
LEMMA WithdrawalFinishOK ==
    ASSUME CustodyInv, NEW n \in KeyNode, NEW id \in DOMAIN order, NEW costFee \in CostFee,
           NEW valid \in BOOLEAN, WithdrawalFinish(n, id, costFee, valid)
    PROVE  StepOK
<1>a. /\ OrdersGood /\ AssetsGood /\ BoxesGood(confirmBox) /\ BoxesGood(finishBox)
      /\ OneReservation /\ ClosedByVote
  BY Zenon DEF CustodyInv
<1>0. PICK tx : tx = order[id].ext
  OBVIOUS
<1> DEFINE v == TxVote(costFee, TRUE)
           first == ConfirmedFirstTime(finishBox, tx, n, v)
           o == order[id]
<1>1. /\ finishBox' = Voted(finishBox, tx, n, v) /\ UNCHANGED confirmBox
      /\ OrderGood(o) /\ o.type = "Withdrawal"
  BY <1>a, <1>0 DEF WithdrawalFinish, IsOrder, OrdersGood
<1>2. IF first THEN FinishWithdrawal(id, costFee, valid) ELSE UNCHANGED <<order, coins, held, ast, chain>>
  BY <1>0, ZenonT(40) DEF WithdrawalFinish
<1> HIDE DEF v
<1>3. /\ BoxesGood(finishBox)'
      /\ \A t : Confirmed(finishBox, t) => Confirmed(finishBox, t)'
      /\ ~first => SettledTxs' = SettledTxs
      /\ first => /\ tx \notin SettledTxs /\ ~Confirmed(finishBox, tx)
                  /\ SettledTxs' = SettledTxs \cup {tx} /\ Confirmed(finishBox, tx)'
  BY <1>a, <1>1, VoteSettles, Zenon
<1>4. BoxesKept
  BY <1>a, <1>1, <1>3, UnchangedConfirmBox, Zenon DEF BoxesKept
<1> HIDE DEF first
<1>5. CASE ~first
  BY <1>2, <1>3, <1>4, <1>5, VotesOnlyOK, SMTT(30)
<1>6. CASE first
  <2> DEFINE c == o.other
             g == IF o.symbol = Main /\ o.gasFee > costFee THEN costFee ELSE o.gasFee
             st == IF valid THEN "Finish" ELSE "Failed"
             p == Ended(o, costFee, g, st)
  <2>1. /\ checkWithdrawalOrder(id, "SignFinish")
        /\ order' = [order EXCEPT ![id] = p] /\ ast' = [ast EXCEPT ![c] = PaidOut(@, o, costFee)]
    BY <1>2, <1>6, SMTT(30) DEF FinishWithdrawal, Ended
  <2>2. tx # NoTx /\ o.status \in {"SignFinish", "Finish", "Failed"}
    BY <1>0, <2>1, SMTT(30) DEF checkWithdrawalOrder, Match
  <2>3. ~Terminated(o.status)
    BY <1>a, <1>0, <1>3, <1>6, <2>2, SMTT(30) DEF ClosedByVote, Terminated
  <2>4. costFee \in Nat /\ g \in Nat /\ st \in {"Finish", "Failed"}
    BY <1>1, InitialAssumption, ZenonT(40) DEF OrderGood, Order
  <2>5. OrderGood(p) /\ SameCore(o, p) /\ p.type = o.type /\ p.checked = o.checked /\ p.ext = o.ext
    <3> HIDE DEF g, st, o
    <3> QED
      BY <1>0, <1>1, <2>2, <2>4, EndedGood, ZenonT(40) DEF o
  <2> HIDE DEF p
  <2>6. OrdersGood' /\ Final
    BY <1>a, <2>1, <2>3, <2>5, ChangedOrder, ZenonT(40)
  <2>7. DOMAIN order' = DOMAIN order /\ order'[id] = p
        /\ \A i \in DOMAIN order \ {id} : order'[i] = order[i]
    BY <1>a, <2>1 DEF OrdersGood
  <2>8. tx \in IssuedTxs /\ tx.from = c /\ c \in CU
    <3>1. tx \in IssuedTxs /\ tx \in Tx /\ tx.from = c
      BY <1>a, <1>0, <1>1, <2>2, SignedIsIssued, ZenonT(40)
    <3> QED
      BY SMTT(30), <3>1 DEF Tx
  <2>9. ClosedByVote'
    BY <1>a, <1>0, <1>1, <1>3, <1>4, <1>6, <2>5, <2>7, ZenonT(40) DEF ClosedByVote, BoxesKept
  <2>10. QuietOrders
    BY <2>5, <2>7, SMTT(30) DEF QuietOrders, SameCore
  <2>11. SettledAsset(ast[c], ast'[c]) /\ OthersQuiet(c) /\ AssetsGood'
    <3>1. AssetGood(ast[c]) /\ SettledAsset(ast[c], PaidOut(ast[c], o, costFee))
      BY <1>a, <2>8, SettledOperations, SMTT(30) DEF AssetsGood
    <3> DEFINE a == PaidOut(ast[c], o, costFee)
    <3>2. ast' = [e \in CU |-> IF e = c THEN a ELSE ast[e]]
      BY <1>a, <2>1, <2>8, SMTT(30) DEF AssetsGood
    <3> HIDE DEF a
    <3>3. SettledAsset(ast[c], a)
      BY <3>1, Zenon DEF a
    <3> QED
      BY <1>a, SMTT(30), <2>8, <3>2, <3>3 DEF AssetsGood, OthersQuiet, SameAddress, SettledAsset
  <2>12. [Addresses!Next]_(Addresses!addressVars) /\ OneReservation'
    <3> HIDE DEF c
    <3> QED
      BY <1>a, <1>3, <1>6, <2>8, <2>10, <2>11, SettleStep, Zenon
  <2> QED
    BY <1>a, <1>4, <2>6, <2>9, <2>11, <2>12, Zenon DEF StepOK, BoxesKept, CustodyInv
<1> QED
  BY <1>5, <1>6

\* SysTransferFinish settles a system transfer when its box is confirmed, or only votes.
LEMMA SysTransferFinishOK ==
    ASSUME CustodyInv, ~SelfTransfers, NEW n \in KeyNode, NEW id \in DOMAIN order,
           NEW costFee \in CostFee, SysTransferFinish(n, id, costFee)
    PROVE  StepOK
<1>a. /\ OrdersGood /\ AssetsGood /\ BoxesGood(confirmBox) /\ BoxesGood(finishBox)
      /\ OneReservation /\ ClosedByVote
  BY Zenon DEF CustodyInv
<1>0. PICK tx : tx = order[id].ext
  BY SMTT(30)
<1> DEFINE v == TxVote(costFee, TRUE)
           first == ConfirmedFirstTime(finishBox, tx, n, v)
           o == order[id]
<1>1. /\ finishBox' = Voted(finishBox, tx, n, v) /\ UNCHANGED confirmBox
      /\ OrderGood(o) /\ o.type = "SysTransfer" /\ o.status \in {"SignFinish", "Finish", "Failed"}
  BY <1>a, <1>0 DEF SysTransferFinish, checkSysTransferOrder, Match, IsOrder, OrdersGood
<1>2. IF first THEN FinishSysTransfer(id, costFee) ELSE UNCHANGED <<order, item, coins, ast, chain>>
  BY <1>0, ZenonT(40) DEF SysTransferFinish
<1> HIDE DEF v
<1>3. /\ BoxesGood(finishBox)'
      /\ \A t : Confirmed(finishBox, t) => Confirmed(finishBox, t)'
      /\ ~first => SettledTxs' = SettledTxs
      /\ first => /\ tx \notin SettledTxs /\ ~Confirmed(finishBox, tx)
                  /\ SettledTxs' = SettledTxs \cup {tx} /\ Confirmed(finishBox, tx)'
  BY <1>a, <1>1, VoteSettles, Zenon
<1>4. BoxesKept
  BY <1>a, <1>1, <1>3, UnchangedConfirmBox, Zenon DEF BoxesKept
<1> HIDE DEF first
<1>5. CASE ~first
  BY <1>2, <1>3, <1>4, <1>5, VotesOnlyOK, SMTT(30)
<1>6. CASE first
  <2> DEFINE c == o.cu
             d == o.other
             p == Ended(o, costFee, o.gasFee, "Finish")
             finished == [order EXCEPT ![id].costFee = costFee, ![id].status = "Finish"]
  <2>1. /\ RefundCollectFee(finished, o, costFee)
        /\ ast' = [e \in CU |-> IF e = d THEN Received(ast[d], o)
                                ELSE IF e = c THEN Sent(ast[c], o, costFee) ELSE ast[e]]
    BY <1>2, <1>6, SMTT(30) DEF FinishSysTransfer
  <2>2. tx # NoTx /\ c # d /\ c \in CU /\ o.amount \in Nat /\ o.gasFee \in Nat /\ costFee \in Nat
    BY <1>0, <1>1, InitialAssumption, ZenonT(40) DEF OrderGood, Order
  <2>3. ~Terminated(o.status)
    BY <1>a, <1>0, <1>1, <1>3, <1>6, <2>2, Zenon DEF ClosedByVote, Terminated
  <2>4. finished = [i \in DOMAIN order |-> IF i = id THEN p ELSE order[i]]
    <3>1. p = [o EXCEPT !.costFee = costFee, !.status = "Finish"]
      BY <1>1, Zenon DEF Ended, OrderGood, Order
    <3> QED
      BY <1>a, <3>1 DEF OrdersGood
  <2>5. OrderGood(p) /\ SameCore(o, p) /\ p.type = o.type /\ p.checked = o.checked /\ p.ext = o.ext
    <3> HIDE DEF o
    <3> QED
      BY <1>0, <1>1, <2>2, EndedGood, Zenon DEF o
  <2> HIDE DEF p, finished
  <2>6. /\ DOMAIN order' = DOMAIN order /\ order' = [i \in DOMAIN order' |-> order'[i]]
        /\ order'[id] = p /\ \A i \in DOMAIN order \ {id} : SameButFee(order[i], order'[i])
    BY <1>a, <1>1, <2>1, <2>2, <2>4, RefundedOrders, SMTT(30)
  <2>7. \A i \in DOMAIN order \ {id} :
        /\ OrderGood(order'[i]) /\ SameCore(order[i], order'[i])
        /\ Terminated(order[i].status) => order'[i] = order[i]
        /\ order'[i].type = order[i].type /\ order'[i].checked = order[i].checked
        /\ order'[i].status = order[i].status /\ order'[i].ext = order[i].ext
    BY <1>a, <2>6, SameButFeeGood, SMTT(30) DEF OrdersGood
  <2>8. OrdersGood' /\ Final
    BY <1>a, <2>3, <2>5, <2>6, <2>7, Zenon DEF OrdersGood, Final
  <2>9. ClosedByVote'
    BY <1>a, <1>0, <1>1, <1>3, <1>4, <1>6, <2>5, <2>6, <2>7, SMTT(30) DEF ClosedByVote, BoxesKept
  <2>10. QuietOrders
    BY <2>5, <2>6, <2>7, SMTT(30) DEF QuietOrders
  <2>11. tx \in IssuedTxs /\ tx.from = c
    BY <1>a, <1>0, <1>1, <2>2, SignedIsIssued, ZenonT(40)
  <2>12. SettledAsset(ast[c], ast'[c]) /\ OthersQuiet(c) /\ AssetsGood'
    <3> DEFINE a == Sent(ast[c], o, costFee)
               b == Received(ast[d], o)
    <3>1. SettledAsset(ast[c], a)
      BY <1>a, <2>2, SettledOperations, SMTT(30) DEF AssetsGood
    <3>2. d \in CU => SameAddress(ast[d], b)
      BY <1>a, SettledOperations DEF AssetsGood
    <3>3. \A e \in CU : SameAddress(ast[e], ast[e])
      BY <1>a, SMTT(30) DEF AssetsGood, SameAddress
    <3>4. ast' = [e \in CU |-> IF e = d THEN b ELSE IF e = c THEN a ELSE ast[e]]
      BY <2>1, SMTT(30)
    <3> HIDE DEF a, b
    <3>5. SettledAsset(ast[c], ast'[c]) /\ OthersQuiet(c)
      BY <2>2, <3>1, <3>2, <3>3, <3>4, SMTT(30) DEF OthersQuiet
    <3> QED
      BY <1>a, <2>2, <3>4, <3>5, SMTT(30) DEF AssetsGood, OthersQuiet, SameAddress, SettledAsset
  <2>13. [Addresses!Next]_(Addresses!addressVars) /\ OneReservation'
    <3> HIDE DEF c
    <3> QED
      BY <1>a, <1>3, <1>6, <2>2, <2>10, <2>11, <2>12, SettleStep, Zenon
  <2> QED
    BY <1>a, <1>4, <2>8, <2>9, <2>12, <2>13, Zenon DEF StepOK, BoxesKept, CustodyInv
<1> QED
  BY <1>5, <1>6

-----------------------------------------------------------------------------
(* The specification.                                                      *)

\* The invariant holds initially, and initial states are those of AddressLock.
LEMMA InitOK ==
    ASSUME Init
    PROVE  CustodyInv /\ Addresses!Init
<1>1. DOMAIN order = {} /\ DOMAIN confirmBox = {} /\ DOMAIN finishBox = {}
  BY SMTT(30) DEF Init
<1>2. OrdersGood /\ BoxesGood(confirmBox) /\ BoxesGood(finishBox) /\ OneReservation /\ ClosedByVote
  <2>1. order = [i \in DOMAIN order |-> order[i]]
    BY SMTT(30) DEF Init
  <2>2. OrdersGood /\ ClosedByVote
    BY <1>1, <2>1, Zenon DEF OrdersGood, ClosedByVote
  <2>3. OneReservation
    BY <1>1, Zenon DEF OneReservation, OrdersOf
  <2>4. BoxesGood(confirmBox) /\ BoxesGood(finishBox)
    BY <1>1, SMTT(30) DEF Init, BoxesGood
  <2> QED
    BY <2>2, <2>3, <2>4
<1>3. \A c \in CU : AssetGood(ast[c]) /\ ast[c].sendTx = TRUE /\ ast[c].nonce = 0
  <2>1. AssetGood(EmptyAsset) /\ EmptyAsset.sendTx = TRUE /\ EmptyAsset.nonce = 0
    BY DEF AssetGood, EmptyAsset
  <2>2. \A x : /\ AssetGood(AddAssetCoins(EmptyAsset, x)) /\ AddAssetCoins(EmptyAsset, x).sendTx = TRUE
               /\ AddAssetCoins(EmptyAsset, x).nonce = 0
    BY <2>1, AssetOperations DEF SameAddress
  <2>3. \A c \in CU : ast[c] = EmptyAsset \/ ast[c] = AddAssetCoins(EmptyAsset, InitialAsset[c])
    BY DEF Init
  <2> QED
    BY <2>1, <2>2, <2>3, SMTT(30)
<1>4. ast = [c \in CU |-> ast[c]]
  BY DEF Init
<1>5. IssuedTxs = {} /\ SettledTxs = {} /\ Reserved = {}
  BY <1>1 DEF IssuedTxs, SettledTxs, Reserved, OrdersOf
<1> QED
  BY <1>2, <1>3, <1>4, <1>5, Zenon DEF CustodyInv, AssetsGood, Addresses!Init, Nonces, CanSend

\* Stuttering steps.
LEMMA UnchangedOK ==
    ASSUME CustodyInv, UNCHANGED custodyVars
    PROVE  StepOK
<1>1. UNCHANGED <<order, ast, confirmBox, finishBox>>
  BY DEF custodyVars
<1>2. BoxesKept /\ SettledTxs' = SettledTxs
  BY <1>1, UnchangedConfirmBox, UnchangedFinishBox DEF BoxesKept, CustodyInv
<1> QED
  BY <1>1, <1>2, VotesOnlyOK

\* A user sends coins to another: no order, address or box changes.
LEMMA SendOK ==
    ASSUME CustodyInv, SendStep
    PROVE  StepOK
<1>1. UNCHANGED <<order, ast, confirmBox, finishBox>>
  BY DEF SendStep, Send
<1>2. BoxesKept /\ SettledTxs' = SettledTxs
  BY <1>1, UnchangedConfirmBox, UnchangedFinishBox DEF BoxesKept, CustodyInv
<1> QED
  BY <1>1, <1>2, VotesOnlyOK

\* Every handler keeps the invariant.
LEMMA NextOK ==
    ASSUME CustodyInv, Addresses!AddressInv, ~SelfTransfers, Next
    PROVE  StepOK
<1>1. CASE DepositStep
  BY <1>1, DepositOK, ConfirmedDepositOK, SMTT(30) DEF DepositStep
<1>2. CASE CollectStep
  <2>1. \A t : Costs(t) \subseteq CostFee
    BY DEF Costs
  <2> QED
    BY <1>2, <2>1, CollectWaitSignOK, CollectSignFinishOK, CollectFinishOK DEF CollectStep
<1>3. CASE WithdrawalBegin
  BY SMTT(30), <1>3, WithdrawalOK, WithdrawalConfirmOK, CancelWithdrawalOK, WithdrawalWaitSignOK,
     WithdrawalSignFinishOK DEF WithdrawalBegin
<1>4. CASE WithdrawalEnd
  BY <1>4, WithdrawalFinishOK, SMTT(30) DEF WithdrawalEnd, Costs
<1>5. CASE SysTransferStep
  <2>1. \A t : Costs(t) \subseteq CostFee
    BY DEF Costs
  <2> QED
    BY <1>5, <2>1, SysTransferOK, SysTransferWaitSignOK, SysTransferSignFinishOK, SysTransferFinishOK, SMTT(30)
    DEF SysTransferStep
<1>6. CASE SendStep
  BY <1>6, SendOK
<1> QED
  BY <1>1, <1>2, <1>3, <1>4, <1>5, <1>6, Zenon DEF Next

\* The invariant of the orders and the one of AddressLock hold together.
LEMMA StepPreserves ==
    ASSUME ~SelfTransfers, CustodyInv, Addresses!AddressInv, [Next]_custodyVars
    PROVE  StepOK /\ Addresses!AddressInv'
<1>1. StepOK
  BY NextOK, UnchangedOK
<1>2. Addresses!AddressInv'
  BY <1>1, AddressInvStep DEF StepOK
<1> QED
  BY <1>1, <1>2

\* The invariants of the custody and of AddressLock, always.
LEMMA AlwaysCustodyInv ==
    ASSUME ~SelfTransfers
    PROVE  Spec => [](CustodyInv /\ Addresses!AddressInv)
<1>1. Init => CustodyInv /\ Addresses!AddressInv
  BY InitOK, AddressInvInit
<1>2. CustodyInv /\ Addresses!AddressInv /\ [Next]_custodyVars => (CustodyInv /\ Addresses!AddressInv)'
  BY StepPreserves DEF StepOK
<1> QED
  BY <1>1, <1>2, PTL DEF Spec

(***************************************************************************)
(* The transfer handlers implement AddressLock: the four handlers that     *)
(* take an address and the three that release it, in any order and with    *)
(* any votes, send one transaction at a time from it.                      *)
(***************************************************************************)
THEOREM AccountCustodyImplementsAddressLock ==
    ASSUME ~SelfTransfers
    PROVE  Spec => AddressesLocked
<1>1. Init => Addresses!Init
  BY InitOK
<1>2. CustodyInv /\ Addresses!AddressInv /\ [Next]_custodyVars => [Addresses!Next]_(Addresses!addressVars)
  BY StepPreserves DEF StepOK
<1> QED
  BY <1>1, <1>2, AlwaysCustodyInv, PTL DEF Spec, AddressesLocked, Addresses!Spec

(***************************************************************************)
(* No two transactions that the WaitSign handlers build for one address    *)
(* have the same nonce, over all orders.                                   *)
(***************************************************************************)
THEOREM NonceIsUsedOnce ==
    ASSUME ~SelfTransfers
    PROVE  Spec => []NonceUsedOnce
<1>1. CustodyInv /\ Addresses!AddressInv => NonceUsedOnce
  BY DEF Addresses!AddressInv, Addresses!OnePerNonce, IssuedTxs, NonceUsedOnce
<1> QED
  BY <1>1, AlwaysCustodyInv, PTL

(***************************************************************************)
(* An order that terminated never changes again: no vote that comes in     *)
(* late confirms its box a second time, and no handler of another order    *)
(* writes to it.                                                           *)
(***************************************************************************)
THEOREM TerminatedOrdersAreFinal ==
    ASSUME ~SelfTransfers
    PROVE  Spec => TerminatedIsFinal
<1>1. CustodyInv /\ Addresses!AddressInv /\ [Next]_custodyVars
        => [\A i \in DOMAIN order : Terminated(order[i].status) => order'[i] = order[i]]_custodyVars
  BY StepPreserves DEF StepOK, Final
<1> QED
  BY <1>1, AlwaysCustodyInv, PTL DEF Spec, TerminatedIsFinal


-----------------------------------------------------------------------------
(* Deposits.                                                               *)

\* KeyOf, of an order.
Key(o) == <<o.symbol, o.cu, o.hash>>

ItemGood(x) == x \in [amount : {x.amount}, status : ItemStatus]

ItemsGood == item = [k \in DOMAIN item |-> item[k]] /\ \A k \in DOMAIN item : ItemGood(item[k])

\* A deposit order and the item of its transaction.
DepositGood(o) ==
    /\ o.hash \in Hash
    /\ o.checked # "Valid" => o.raw = NoTx
    /\ o.checked = "Unconfirmed" => Key(o) \notin DOMAIN item
    /\ o.checked = "Invalid" => o.status = "Finish"
    /\ o.checked = "Valid" => Key(o) \in DOMAIN item /\ item[Key(o)].status \in Following(o.status)

DepositsGood == \A i \in DOMAIN order : order[i].type = "Collect" => DepositGood(order[i])

\* Of two orders for one transaction one was rejected, and of two orders in
\* process each has its own transaction.
DepositsApart ==
    \A i, j \in DOMAIN order :
        /\ order[i].type = "Collect" /\ order[j].type = "Collect" /\ i # j
        => /\ Key(order[i]) = Key(order[j]) => "Invalid" \in {order[i].checked, order[j].checked}
           /\ order[i].hash = order[j].hash => Terminated(order[i].status) \/ Terminated(order[j].status)

DepositInv == ItemsGood /\ DepositsGood /\ DepositsApart

-----------------------------------------------------------------------------
(* Steps, by what they do to the deposits.                                 *)

\* p is order o with another fee, or another operation CU.
SameDeposit(o, p) ==
    /\ p.type = o.type /\ p.cu = o.cu /\ p.symbol = o.symbol /\ p.hash = o.hash
    /\ p.checked = o.checked /\ p.status = o.status /\ p.raw = o.raw

\* The item with key k stays, or waits for its collection from now on.
KeepsItem(k) ==
    /\ k \in DOMAIN item' <=> k \in DOMAIN item
    /\ k \in DOMAIN item =>
        \/ item'[k].status = item[k].status
        \/ {item[k].status, item'[k].status} \subseteq {"UnCollected", "WaitCollect"}

\* No deposit is reported, and the type of no order changes.
NoneReported ==
    /\ DOMAIN order \subseteq DOMAIN order'
    /\ \A i \in DOMAIN order : order'[i].type = order[i].type
    /\ \A i \in DOMAIN order' \ DOMAIN order : order'[i].type # "Collect"

\* Order i goes on, together with its item.
GoesOn(i) ==
    /\ order[i].type = "Collect" /\ order[i].checked # "Invalid"
    /\ Key(order'[i]) = Key(order[i]) /\ order'[i].hash = order[i].hash
    /\ DepositGood(order[i])'
    /\ Terminated(order[i].status) => Terminated(order'[i].status)

\* A deposit that is valid in the next state goes on if its item follows it.
LEMMA ValidGoesOn ==
    ASSUME NEW i, NEW st, order[i].type = "Collect", order[i].hash \in Hash, order[i].checked # "Invalid",
           order'[i].status = st, order'[i].checked = "Valid", order'[i].hash = order[i].hash,
           Key(order'[i]) = Key(order[i]), Key(order[i]) \in DOMAIN item',
           item'[Key(order[i])].status \in Following(st), ~Terminated(order[i].status) \/ Terminated(st)
    PROVE  GoesOn(i)
<1>1. DepositGood(order[i])'
  BY DEF DepositGood
<1> QED
  BY <1>1 DEF GoesOn

LEMMA ItemsFollow ==
    /\ "InProcess" \in Following("WaitSign") /\ "InProcess" \in Following("SignFinish")
    /\ "Confirmed" \in Following("Finish") /\ Following("WaitSign") = Following("SignFinish")
    /\ ~Terminated("Begin") /\ ~Terminated("WaitSign") /\ Terminated("Finish")
BY DEF Following, Signing, Terminated

\* The deposits ids go on, the other ones are left alone.
LEMMA DepositsKept ==
    ASSUME DepositInv, ItemsGood', NoneReported, NEW ids \in SUBSET DOMAIN order,
           \A i \in ids : GoesOn(i),
           \A i \in DOMAIN order \ ids : order[i].type = "Collect" =>
                /\ SameDeposit(order[i], order'[i])
                /\ (\A j \in ids : Key(order[j]) # Key(order[i])) => KeepsItem(Key(order[i]))
    PROVE  DepositInv'
<1>1. ASSUME NEW i \in DOMAIN order', order'[i].type = "Collect"
      PROVE  i \in DOMAIN order /\ order[i].type = "Collect" /\ DepositGood(order[i])
             /\ Key(order'[i]) = Key(order[i]) /\ order'[i].hash = order[i].hash
  <2>1. i \in DOMAIN order /\ order[i].type = "Collect"
    BY <1>1 DEF NoneReported
  <2>2. DepositGood(order[i])
    BY <2>1 DEF DepositInv, DepositsGood
  <2> QED
    BY <2>1, <2>2, Zenon DEF GoesOn, SameDeposit, Key
<1>2. ASSUME NEW i \in DOMAIN order', order'[i].type = "Collect", i \notin ids
      PROVE  DepositGood(order[i])'
  <2>1. /\ i \in DOMAIN order \ ids /\ order[i].type = "Collect" /\ DepositGood(order[i])
        /\ SameDeposit(order[i], order'[i]) /\ Key(order'[i]) = Key(order[i])
    BY <1>1, <1>2
  <2>2. CASE \A j \in ids : Key(order[j]) # Key(order[i])
    <3>1. KeepsItem(Key(order[i]))
      BY <2>1, <2>2
    <3> QED
      BY <2>1, <3>1 DEF DepositGood, SameDeposit, KeepsItem, Following, Signing
  <2>3. ASSUME NEW j \in ids, Key(order[j]) = Key(order[i])
        PROVE  DepositGood(order[i])'
    <3>1. order[i].checked = "Invalid"
      BY <1>2, <2>1, <2>3 DEF DepositInv, DepositsApart, GoesOn
    <3> QED
      BY <2>1, <3>1 DEF DepositGood, SameDeposit
  <2> QED
    BY <2>2, <2>3
<1>3. DepositsGood'
  BY <1>2 DEF DepositsGood, GoesOn
<1>4. DepositsApart'
  <2> SUFFICES ASSUME NEW i \in DOMAIN order', NEW j \in DOMAIN order', i # j,
                      order'[i].type = "Collect", order'[j].type = "Collect"
               PROVE  /\ Key(order'[i]) = Key(order'[j])
                            => "Invalid" \in {order'[i].checked, order'[j].checked}
                      /\ order'[i].hash = order'[j].hash
                            => Terminated(order'[i].status) \/ Terminated(order'[j].status)
    BY DEF DepositsApart
  <2>1. /\ i \in DOMAIN order /\ order[i].type = "Collect" /\ Key(order'[i]) = Key(order[i])
        /\ j \in DOMAIN order /\ order[j].type = "Collect" /\ Key(order'[j]) = Key(order[j])
        /\ order'[i].hash = order[i].hash /\ order'[j].hash = order[j].hash
    BY <1>1
  <2>2. /\ Key(order[i]) = Key(order[j]) => order[i].checked = "Invalid" \/ order[j].checked = "Invalid"
        /\ order[i].hash = order[j].hash => Terminated(order[i].status) \/ Terminated(order[j].status)
    BY <2>1 DEF DepositInv, DepositsApart
  <2>3. \A k \in {i, j} : /\ order[k].checked = "Invalid" => order'[k].checked = "Invalid"
                          /\ Terminated(order[k].status) => Terminated(order'[k].status)
    BY <2>1 DEF GoesOn, SameDeposit
  <2> QED
    BY <2>1, <2>2, <2>3
<1> QED
  BY <1>3, <1>4 DEF DepositInv

\* The same for a step that leaves the items alone and no deposit goes on.
LEMMA DepositsUntouched ==
    ASSUME DepositInv, UNCHANGED item, NoneReported,
           \A i \in DOMAIN order : order[i].type = "Collect" => SameDeposit(order[i], order'[i])
    PROVE  DepositInv'
<1>1. ItemsGood' /\ \A k : KeepsItem(k)
  BY DEF DepositInv, ItemsGood, ItemGood, KeepsItem
<1>2. {} \in SUBSET DOMAIN order /\ \A i \in {} : GoesOn(i)
  OBVIOUS
<1>3. \A i \in DOMAIN order \ {} : order[i].type = "Collect" =>
        /\ SameDeposit(order[i], order'[i])
        /\ (\A j \in {} : Key(order[j]) # Key(order[i])) => KeepsItem(Key(order[i]))
  BY <1>1
<1> QED
  BY <1>1, <1>2, <1>3, DepositsKept, Zenon

-----------------------------------------------------------------------------
(* The handlers of deposits.                                               *)

\* Deposit: the transaction is no item yet, and no deposit in process has it.
LEMMA DepositKeeps ==
    ASSUME CustodyInv, DepositInv, NEW id \in DepositID, NEW cu \in Depositor, NEW s \in Symbol,
           NEW h \in Hash, NEW a \in Amount, Deposit(id, cu, s, h, a)
    PROVE  DepositInv'
<1> DEFINE o == Fresh("Collect", cu, Outside, s, a, h, 0, "Unconfirmed")
<1>1. /\ o.type = "Collect" /\ o.hash = h /\ o.checked = "Unconfirmed" /\ o.raw = NoTx
      /\ Key(o) = <<s, cu, h>>
  BY DEF Fresh, Key
<1>2. /\ id \notin DOMAIN order /\ NotReported(s, cu, h) /\ UNCHANGED item
      /\ order' = [i \in DOMAIN order \cup {id} |-> IF i = id THEN o ELSE order[i]]
  BY Zenon DEF Deposit, NewOrderCollect, NewOrder, Fresh
<1> HIDE DEF o
<1>3. /\ DOMAIN order' = DOMAIN order \cup {id} /\ order'[id] = o
      /\ \A i \in DOMAIN order : order'[i] = order[i]
  BY <1>2
<1>4. DepositsGood'
  BY <1>1, <1>2, <1>3 DEF DepositInv, DepositsGood, DepositGood, NotReported
<1>5. ASSUME NEW j \in DOMAIN order, order[j].type = "Collect"
      PROVE  /\ Key(order[j]) = Key(o) => order[j].checked = "Invalid"
             /\ order[j].hash = o.hash => Terminated(order[j].status)
  <2>1. order[j].hash = o.hash => Terminated(order[j].status)
    BY <1>1, <1>2, <1>5 DEF NotReported, ProcessOrders
  <2>2. OrderGood(order[j]) /\ DepositGood(order[j])
    BY <1>5 DEF CustodyInv, OrdersGood, DepositInv, DepositsGood
  <2>3. Key(order[j]) = Key(o) => order[j].hash = o.hash /\ Key(order[j]) \notin DOMAIN item
    BY <1>1, <1>2 DEF NotReported, Key
  <2>4. order[j].checked \in {"Unconfirmed", "Valid", "Invalid"}
    BY <2>2 DEF OrderGood, Order
  <2> QED
    BY <1>5, <2>1, <2>2, <2>3, <2>4 DEF OrderGood, DepositGood, Terminated
<1>6. DepositsApart'
  BY <1>3, <1>5 DEF DepositInv, DepositsApart
<1>7. ItemsGood'
  BY <1>2 DEF DepositInv, ItemsGood, ItemGood
<1> QED
  BY <1>4, <1>6, <1>7 DEF DepositInv

\* One deposit goes on, and with it its item.
LEMMA OneGoesOn ==
    ASSUME DepositInv, ItemsGood', NEW id \in DOMAIN order, GoesOn(id),
           DOMAIN order' = DOMAIN order, order'[id].type = "Collect",
           \A i \in DOMAIN order \ {id} : order'[i] = order[i],
           \A k : k # Key(order[id]) => KeepsItem(k)
    PROVE  DepositInv'
<1> DEFINE ids == {id}
<1>1. ids \in SUBSET DOMAIN order /\ (\A i \in ids : GoesOn(i)) /\ NoneReported
  BY DEF NoneReported, GoesOn
<1>2. \A i \in DOMAIN order \ ids : order[i].type = "Collect" =>
        /\ SameDeposit(order[i], order'[i])
        /\ (\A j \in ids : Key(order[j]) # Key(order[i])) => KeepsItem(Key(order[i]))
  BY DEF SameDeposit
<1> HIDE DEF ids
<1> QED
  BY <1>1, <1>2, DepositsKept

\* ConfirmedDeposit: a deposit that is credited gets its item, with the vote that
\* decides it.
LEMMA ConfirmedDepositKeeps ==
    ASSUME CustodyInv, DepositInv, NEW n \in KeyNode, NEW id \in DOMAIN order, NEW valid \in BOOLEAN,
           ConfirmedDeposit(n, id, valid)
    PROVE  DepositInv'
<1> DEFINE v == TxVote(0, valid)
           o == order[id]
           first == ConfirmedFirstTime(confirmBox, id, n, v)
<1>1. /\ o.type = "Collect" /\ confirmBox' = Voted(confirmBox, id, n, v)
      /\ IF first THEN IF valid THEN confirmDepositOrder(id) ELSE rejectDepositOrder(id)
         ELSE UNCHANGED <<order, item>>
  BY Zenon DEF ConfirmedDeposit, IsOrder
<1>2. OrderGood(o) /\ DepositGood(o) /\ order = [i \in DOMAIN order |-> order[i]]
  BY <1>1, SMTT(30) DEF CustodyInv, OrdersGood, DepositInv, DepositsGood
<1>3. first => o.checked = "Unconfirmed" /\ o.status = "Begin" /\ o.raw = NoTx
  <2>1. first => ~Confirmed(confirmBox, id)
    BY <1>1, VoteConfirms, SMTT(30) DEF CustodyInv
  <2> HIDE DEF first
  <2> QED
    BY <1>1, <1>2, <2>1 DEF CustodyInv, ClosedByVote, OrderGood
<1> HIDE DEF first, v
<1>4. CASE ~first
  BY <1>1, <1>4, DepositsUntouched DEF NoneReported, SameDeposit
<1>5. CASE first /\ valid
  <2> DEFINE fee == IF FeeCharged(o) > 0 THEN FeeCharged(o) ELSE o.costFee
             st == IF o.cu \in OpCU THEN "Finish" ELSE o.status
             p == [o EXCEPT !.checked = "Valid", !.costFee = fee, !.status = st]
             x == [amount |-> o.amount, status |-> NewItemStatus(o)]
  <2>1. confirmDepositOrder(id)
    BY <1>1, <1>5
  <2>2. order' = [order EXCEPT ![id] = p]
    BY <2>1, Zenon DEF confirmDepositOrder
  <2>3. item' = [k \in DOMAIN item \cup {Key(o)} |-> IF k = Key(o) THEN x ELSE item[k]]
    BY <2>1, Zenon DEF confirmDepositOrder, SaveDeposit, Key
  <2>4. NewItemStatus(o) \in Following(st) /\ NewItemStatus(o) \in ItemStatus
        /\ st \in {"Begin", "Finish"}
    BY <1>3, <1>5 DEF NewItemStatus, Following, Signing, ItemStatus
  <2> HIDE DEF fee, st
  <2>5. /\ p.type = o.type /\ p.checked = "Valid" /\ p.status = st /\ p.hash = o.hash
        /\ Key(p) = Key(o)
    BY <1>2, Zenon DEF OrderGood, Order, Key
  <2>6. ItemGood(x) /\ x.status = NewItemStatus(o)
    BY <2>4 DEF ItemGood
  <2> HIDE DEF p, x
  <2>7. /\ ItemsGood' /\ Key(o) \in DOMAIN item' /\ item'[Key(o)] = x
        /\ \A k : k # Key(o) => KeepsItem(k)
    <3>1. DOMAIN item' = DOMAIN item \cup {Key(o)}
      BY <2>3
    <3>2. item'[Key(o)] = x /\ \A k \in DOMAIN item \ {Key(o)} : item'[k] = item[k]
      BY <2>3
    <3>3. item' = [k \in DOMAIN item' |-> item'[k]]
      BY <2>3
    <3> QED
      BY <2>6, <3>1, <3>2, <3>3 DEF DepositInv, ItemsGood, KeepsItem
  <2>8. /\ DOMAIN order' = DOMAIN order /\ order'[id] = p
        /\ \A i \in DOMAIN order \ {id} : order'[i] = order[i]
    BY <1>2, <2>2
  <2>9. GoesOn(id)
    <3>1. o.hash \in Hash /\ o.checked # "Invalid" /\ o.status = "Begin"
      BY <1>2, <1>3, <1>5 DEF DepositGood
    <3>2. order'[id] = p /\ Key(o) \in DOMAIN item' /\ item'[Key(o)].status \in Following(st)
      BY <2>4, <2>6, <2>7, <2>8
    <3> QED
      BY <1>1, <2>5, <3>1, <3>2, ItemsFollow, ValidGoesOn, Zenon
  <2> QED
    BY <1>1, <2>5, <2>7, <2>8, <2>9, OneGoesOn
<1>6. CASE first /\ ~valid
  <2> DEFINE p == [o EXCEPT !.checked = "Invalid", !.status = "Finish"]
  <2>1. order' = [order EXCEPT ![id] = p] /\ UNCHANGED item
    BY <1>1, <1>6, Zenon DEF rejectDepositOrder
  <2>2. /\ p.type = o.type /\ p.checked = "Invalid" /\ p.status = "Finish" /\ p.hash = o.hash
        /\ p.raw = o.raw /\ Key(p) = Key(o)
    BY <1>2, Zenon DEF OrderGood, Order, Key
  <2> HIDE DEF p
  <2>3. /\ DOMAIN order' = DOMAIN order /\ order'[id] = p
        /\ \A i \in DOMAIN order \ {id} : order'[i] = order[i]
    BY <1>2, <2>1
  <2>4. GoesOn(id)
    BY <1>1, <1>2, <1>3, <1>6, <2>2, <2>3 DEF GoesOn, DepositGood, Terminated
  <2>5. ItemsGood' /\ \A k : KeepsItem(k)
    BY <2>1 DEF DepositInv, ItemsGood, ItemGood, KeepsItem
  <2> QED
    BY <1>1, <2>2, <2>3, <2>4, <2>5, OneGoesOn
<1> QED
  BY <1>4, <1>5, <1>6

-----------------------------------------------------------------------------
(* The handlers of collects.                                               *)

\* ItemsSet gives the items of the orders ids the status st, and no other one.
LEMMA ItemsSetGood ==
    ASSUME ItemsGood, NEW ids \in SUBSET DOMAIN order, NEW st \in ItemStatus
    PROVE  LET f == ItemsSet(ids, st)
           IN  /\ DOMAIN f = DOMAIN item /\ f = [k \in DOMAIN item |-> f[k]]
               /\ \A k \in DOMAIN item : ItemGood(f[k])
               /\ \A i \in ids : Key(order[i]) \in DOMAIN item => f[Key(order[i])].status = st
               /\ \A k \in DOMAIN item : (\A j \in ids : Key(order[j]) # k) => f[k] = item[k]
<1> DEFINE keys == {KeyOf(i) : i \in ids}
           g(k) == [item[k] EXCEPT !.status = st]
           f == ItemsSet(ids, st)
<1>1. f = [k \in DOMAIN item |-> IF k \in keys THEN g(k) ELSE item[k]]
  BY DEF ItemsSet
<1>2. \A k \in DOMAIN item : ItemGood(g(k)) /\ g(k).status = st
  BY DEF ItemsGood, ItemGood
<1>3. \A i \in ids : Key(order[i]) \in keys
  BY DEF Key, KeyOf
<1>4. \A k \in keys : \E i \in ids : k = Key(order[i])
  BY DEF Key, KeyOf
<1> HIDE DEF keys, g, f
<1>5. DOMAIN f = DOMAIN item /\ f = [k \in DOMAIN item |-> f[k]]
      /\ \A k \in DOMAIN item : f[k] = IF k \in keys THEN g(k) ELSE item[k]
  BY <1>1
<1>6. \A k \in DOMAIN item : ItemGood(f[k])
  BY <1>2, <1>5 DEF ItemsGood
<1> QED
  BY <1>2, <1>3, <1>4, <1>5, <1>6 DEF f

\* The deposits ids go on, and no other order changes.
LEMMA BatchGoesOn ==
    ASSUME DepositInv, ItemsGood', NEW ids \in SUBSET DOMAIN order, DOMAIN order' = DOMAIN order,
           \A i \in ids : GoesOn(i) /\ order'[i].type = "Collect",
           \A i \in DOMAIN order \ ids : order'[i] = order[i],
           \A k : k[3] \in Hash /\ (\A j \in ids : Key(order[j]) # k) => KeepsItem(k)
    PROVE  DepositInv'
<1>1. NoneReported
  BY DEF NoneReported, GoesOn
<1>2. \A i \in DOMAIN order : order[i].type = "Collect" => Key(order[i])[3] \in Hash
  BY Zenon DEF DepositInv, DepositsGood, DepositGood, Key
<1>3. \A i \in DOMAIN order \ ids : order[i].type = "Collect" =>
        /\ SameDeposit(order[i], order'[i])
        /\ (\A j \in ids : Key(order[j]) # Key(order[i])) => KeepsItem(Key(order[i]))
  BY <1>2 DEF SameDeposit
<1> QED
  BY <1>1, <1>3, DepositsKept

\* What checkCollectOrders says of the orders of a transaction.
LEMMA CheckedCollects ==
    ASSUME CustodyInv, DepositInv, NEW ids, NEW st, NEW its, checkCollectOrders(ids, st, its)
    PROVE  /\ ids \in SUBSET DOMAIN order
           /\ \A i \in ids : /\ order[i].type = "Collect" /\ Key(order[i]) \in DOMAIN item
                             /\ OrderGood(order[i]) /\ DepositGood(order[i])
                             /\ order[i].checked \in {"Valid", "Invalid"}
                             /\ st # "SignFinish" => order[i].status = st
                             /\ st \in {"WaitSign", "SignFinish"} => order[i].raw # NoTx
                             /\ order[i].hash \in Hash
<1>1. /\ ids \in SUBSET DOMAIN order
      /\ \A i \in ids : /\ order[i].type = "Collect" /\ KeyOf(i) \in DOMAIN item
                        /\ order[i].checked # "Unconfirmed"
                        /\ st # "SignFinish" => order[i].status = st
                        /\ st \in {"WaitSign", "SignFinish"} => order[i].raw # NoTx
  BY ZenonT(40) DEF checkCollectOrders
<1>2. \A i \in ids : OrderGood(order[i])
  BY <1>1 DEF CustodyInv, OrdersGood
<1>3. \A i \in ids : DepositGood(order[i])
  BY <1>1 DEF DepositInv, DepositsGood
<1>4. \A i \in ids : order[i].checked \in {"Valid", "Invalid"}
  BY <1>1, <1>2 DEF OrderGood, Order
<1>5. \A i \in ids : Key(order[i]) = KeyOf(i) /\ order[i].hash \in Hash
  BY <1>3, Zenon DEF Key, KeyOf, DepositGood
<1> QED
  BY <1>1, <1>2, <1>3, <1>4, <1>5

\* CollectWaitSign: the deposits of the transaction are in process.
LEMMA CollectWaitSignKeeps ==
    ASSUME CustodyInv, DepositInv, NEW op \in OpCU, NEW ids \in SUBSET DOMAIN order,
           NEW amount \in CollectAmount, NEW fee \in Fees, CollectWaitSign(op, ids, amount, fee)
    PROVE  DepositInv'
<1>1. \A i \in ids : /\ order[i].type = "Collect" /\ Key(order[i]) \in DOMAIN item
                     /\ OrderGood(order[i]) /\ DepositGood(order[i]) /\ order[i].hash \in Hash
                     /\ order[i].checked \in {"Valid", "Invalid"} /\ order[i].status = "Begin"
  <2>1. checkCollectOrders(ids, "Begin", {"WaitCollect"})
    BY Zenon DEF CollectWaitSign
  <2> QED
    BY <2>1, CheckedCollects, SMTT(30)
<1>2. \A i \in ids : order[i].checked = "Valid"
  BY <1>1 DEF DepositGood
<1>3. PICK tx : order' = CollectsWaitSign(ids, op, tx)
  BY Zenon DEF CollectWaitSign
<1> DEFINE p(i) == [order[i] EXCEPT !.status = "WaitSign", !.other = op, !.raw = tx]
           f == ItemsSet(ids, "InProcess")
<1>4. /\ order' = [i \in DOMAIN order |-> IF i \in ids THEN p(i) ELSE order[i]] /\ item' = f
  BY <1>3, Zenon DEF CollectWaitSign, CollectsWaitSign
<1>5. \A i \in ids : /\ p(i).type = "Collect" /\ p(i).status = "WaitSign" /\ p(i).checked = "Valid"
                     /\ p(i).hash = order[i].hash /\ Key(p(i)) = Key(order[i])
  BY <1>1, <1>2, ZenonT(40) DEF OrderGood, Order, Key
<1> HIDE DEF p
<1>6. /\ DOMAIN order' = DOMAIN order
      /\ \A i \in DOMAIN order : order'[i] = IF i \in ids THEN p(i) ELSE order[i]
  BY <1>4
<1>7. /\ DOMAIN f = DOMAIN item /\ f = [k \in DOMAIN item |-> f[k]] /\ \A k \in DOMAIN item : ItemGood(f[k])
      /\ \A i \in ids : Key(order[i]) \in DOMAIN item => f[Key(order[i])].status = "InProcess"
      /\ \A k \in DOMAIN item : (\A j \in ids : Key(order[j]) # k) => f[k] = item[k]
  BY ItemsSetGood, Zenon DEF DepositInv, ItemStatus
<1> HIDE DEF f
<1>8. ItemsGood'
  BY <1>4, <1>7 DEF ItemsGood, ItemGood
<1>9. \A i \in ids : GoesOn(i) /\ order'[i].type = "Collect"
  <2> SUFFICES ASSUME NEW i \in ids
               PROVE  GoesOn(i) /\ order'[i].type = "Collect"
    OBVIOUS
  <2>1. order'[i] = p(i) /\ Key(order[i]) \in DOMAIN item' /\ item'[Key(order[i])].status = "InProcess"
    BY <1>1, <1>4, <1>6, <1>7
  <2> QED
    BY <1>1, <1>2, <1>5, <2>1, ItemsFollow, ValidGoesOn
<1>10. \A k : (\A j \in ids : Key(order[j]) # k) => KeepsItem(k)
  BY <1>4, <1>7 DEF KeepsItem
<1> QED
  BY <1>6, <1>8, <1>9, <1>10, BatchGoesOn

\* CollectSignFinish: the deposits stay in process.
LEMMA CollectSignFinishKeeps ==
    ASSUME CustodyInv, DepositInv, NEW ids, CollectSignFinish(ids)
    PROVE  DepositInv'
<1>1. /\ ids \in SUBSET DOMAIN order
      /\ \A i \in ids : /\ order[i].type = "Collect" /\ Key(order[i]) \in DOMAIN item
                        /\ OrderGood(order[i]) /\ DepositGood(order[i])
                        /\ order[i].checked \in {"Valid", "Invalid"} /\ order[i].status = "WaitSign"
  <2>1. checkCollectOrders(ids, "WaitSign", {"InProcess"})
    BY Zenon DEF CollectSignFinish
  <2> QED
    BY <2>1, CheckedCollects, SMTT(30)
<1>2. \A i \in ids : order[i].checked = "Valid"
  BY <1>1 DEF DepositGood
<1>3. /\ order' = [i \in DOMAIN order |-> IF i \in ids THEN Signed(order[i]) ELSE order[i]]
      /\ UNCHANGED item
  BY Zenon DEF CollectSignFinish, Signed
<1>4. \A i \in ids : LET p == Signed(order[i])
                     IN  /\ p.type = "Collect" /\ p.status = "SignFinish" /\ p.checked = "Valid"
                         /\ p.hash = order[i].hash /\ Key(p) = Key(order[i])
  BY <1>1, <1>2, ZenonT(40) DEF OrderGood, Order, Key, Signed
<1>5. /\ DOMAIN order' = DOMAIN order
      /\ \A i \in DOMAIN order : order'[i] = IF i \in ids THEN Signed(order[i]) ELSE order[i]
  BY <1>3
<1>6. \A i \in ids : GoesOn(i) /\ order'[i].type = "Collect"
  <2> SUFFICES ASSUME NEW i \in ids
               PROVE  GoesOn(i) /\ order'[i].type = "Collect"
    OBVIOUS
  <2>1. order[i].hash \in Hash /\ item[Key(order[i])].status \in Following("SignFinish")
    BY <1>1, <1>2, ItemsFollow DEF DepositGood
  <2>2. order'[i] = Signed(order[i]) /\ item' = item
    BY <1>1, <1>3, <1>5
  <2> QED
    BY <1>1, <1>2, <1>4, <2>1, <2>2, ItemsFollow, ValidGoesOn
<1>7. ItemsGood' /\ \A k : KeepsItem(k)
  BY <1>3 DEF DepositInv, ItemsGood, ItemGood, KeepsItem
<1> QED
  BY <1>1, <1>5, <1>6, <1>7, BatchGoesOn, Zenon

\* CollectFinish: the deposits are settled with the orders, and the collecting
\* transaction is an item that is settled from the beginning, of no deposit.
LEMMA CollectFinishKeeps ==
    ASSUME CustodyInv, DepositInv, NEW n \in KeyNode, NEW ids, NEW costFee \in CostFee,
           CollectFinish(n, ids, costFee)
    PROVE  DepositInv'
<1>1. /\ ids \in SUBSET DOMAIN order /\ ids # {}
      /\ \A i \in ids : /\ order[i].type = "Collect" /\ Key(order[i]) \in DOMAIN item
                        /\ OrderGood(order[i]) /\ DepositGood(order[i]) /\ order[i].hash \in Hash
                        /\ order[i].checked \in {"Valid", "Invalid"} /\ order[i].raw # NoTx
                        /\ order[i].ext # NoTx
  <2>1. checkCollectOrders(ids, "SignFinish", {"InProcess", "Confirmed"})
    BY Zenon DEF CollectFinish
  <2>2. ids # {} /\ \A i \in ids : order[i].ext # NoTx
    BY <2>1, Zenon DEF checkCollectOrders
  <2> QED
    BY <2>1, <2>2, CheckedCollects, SMTT(30)
<1>2. \A i \in ids : order[i].checked = "Valid"
  BY <1>1 DEF DepositGood
<1>3. PICK tx : /\ tx = order[CHOOSE i \in ids : TRUE].ext
                /\ FinishCollect(ids, tx, costFee) \/ UNCHANGED <<order, item>>
  BY Zenon DEF CollectFinish
<1>4. CASE UNCHANGED <<order, item>>
  BY <1>4, DepositsUntouched DEF NoneReported, SameDeposit
<1>5. CASE FinishCollect(ids, tx, costFee)
  <2> DEFINE p(i) == [order[i] EXCEPT !.status = "Finish"]
             f == ItemsSet(ids, "Confirmed")
             own == <<tx.symbol, tx.to, tx>>
             x == [amount |-> tx.amount, status |-> "Confirmed"]
  <2>1. /\ order' = [i \in DOMAIN order |-> IF i \in ids THEN p(i) ELSE order[i]]
        /\ item' = [k \in DOMAIN item \cup {own} |-> IF k \in DOMAIN item THEN f[k] ELSE x]
    BY <1>5, Zenon DEF FinishCollect
  <2>2. own[3] \notin Hash
    <3>0. \E i \in ids : tx = order[i].ext
      BY <1>1, <1>3, Zenon
    <3>1. tx \in Tx
      BY <1>1, <3>0 DEF OrderGood, Order
    <3> QED
      BY <3>1, HashAssumption
  <2>3. \A i \in ids : /\ p(i).type = "Collect" /\ p(i).status = "Finish" /\ p(i).checked = "Valid"
                       /\ p(i).hash = order[i].hash /\ Key(p(i)) = Key(order[i])
    BY <1>1, <1>2, ZenonT(40) DEF OrderGood, Order, Key
  <2>4. ItemGood(x)
    BY DEF ItemGood, ItemStatus
  <2> HIDE DEF p, x, own
  <2>5. /\ DOMAIN order' = DOMAIN order
        /\ \A i \in DOMAIN order : order'[i] = IF i \in ids THEN p(i) ELSE order[i]
    BY <2>1
  <2>6. /\ \A k \in DOMAIN item : ItemGood(f[k])
        /\ \A i \in ids : Key(order[i]) \in DOMAIN item => f[Key(order[i])].status = "Confirmed"
        /\ \A k \in DOMAIN item : (\A j \in ids : Key(order[j]) # k) => f[k] = item[k]
    BY <1>1, ItemsSetGood, Zenon DEF DepositInv, ItemStatus
  <2> HIDE DEF f
  <2>7. /\ DOMAIN item' = DOMAIN item \cup {own} /\ item' = [k \in DOMAIN item' |-> item'[k]]
        /\ \A k \in DOMAIN item' : item'[k] = IF k \in DOMAIN item THEN f[k] ELSE x
    BY <2>1
  <2>8. ItemsGood'
    BY <2>4, <2>6, <2>7 DEF ItemsGood
  <2>9. \A i \in ids : GoesOn(i) /\ order'[i].type = "Collect"
    <3> SUFFICES ASSUME NEW i \in ids
                 PROVE  GoesOn(i) /\ order'[i].type = "Collect"
      OBVIOUS
    <3>1. order'[i] = p(i) /\ Key(order[i]) \in DOMAIN item' /\ item'[Key(order[i])].status = "Confirmed"
      BY <1>1, <2>5, <2>6, <2>7
    <3> QED
      BY <1>1, <1>2, <2>3, <3>1, ItemsFollow, ValidGoesOn
  <2>10. \A k : k[3] \in Hash /\ (\A j \in ids : Key(order[j]) # k) => KeepsItem(k)
    BY <2>2, <2>6, <2>7 DEF KeepsItem
  <2> QED
    BY <1>1, <2>5, <2>8, <2>9, <2>10, BatchGoesOn
<1> QED
  BY <1>3, <1>4, <1>5

-----------------------------------------------------------------------------
(* The handlers of withdrawals and system transfers.                       *)

\* A withdrawal or system transfer changes, and no item.
LEMMA OtherOrderKeeps ==
    ASSUME CustodyInv, DepositInv, UNCHANGED item, NEW id \in DOMAIN order, order[id].type # "Collect",
           NEW p, p.type = order[id].type, order' = [order EXCEPT ![id] = p]
    PROVE  DepositInv'
<1>1. /\ DOMAIN order' = DOMAIN order /\ order'[id] = p
      /\ \A i \in DOMAIN order \ {id} : order'[i] = order[i]
  BY DEF CustodyInv, OrdersGood
<1> QED
  BY <1>1, DepositsUntouched DEF NoneReported, SameDeposit

\* Withdrawal opens no deposit.
LEMMA WithdrawalKeeps ==
    ASSUME DepositInv, NEW id, NEW u, NEW s, NEW a, NEW g, Withdrawal(id, u, s, a, g)
    PROVE  DepositInv'
<1> DEFINE o == Fresh("Withdrawal", u, Outside, s, a, NoTx, g, "Unconfirmed")
<1>0. order' = NewOrderWithdrawal(id, u, s, a, g) /\ UNCHANGED item /\ id \notin DOMAIN order
  BY Zenon DEF Withdrawal
<1>1. order' = [i \in DOMAIN order \cup {id} |-> IF i = id THEN o ELSE order[i]]
  BY <1>0, Zenon DEF NewOrderWithdrawal, NewOrder, Fresh
<1>2. o.type = "Withdrawal"
  BY DEF Fresh
<1> HIDE DEF o
<1> QED
  BY <1>0, <1>1, <1>2, DepositsUntouched DEF NoneReported, SameDeposit

\* The other handlers of withdrawals.
LEMMA WithdrawalStepsKeep ==
    ASSUME CustodyInv, DepositInv, NEW n, NEW id \in DOMAIN order, NEW valid, NEW op, NEW fee,
           \/ WithdrawalConfirm(n, id, valid) \/ CancelWithdrawal(id) \/ WithdrawalWaitSign(op, id, fee)
           \/ WithdrawalSignFinish(id) \/ WithdrawalFinish(n, id, fee, valid)
    PROVE  DepositInv'
<1> DEFINE o == order[id]
<1>1. o \in Order
  BY DEF CustodyInv, OrdersGood, OrderGood
<1>2. o.type = "Withdrawal" /\ UNCHANGED item
  <2>1. WithdrawalConfirm(n, id, valid) \/ CancelWithdrawal(id) => o.type = "Withdrawal" /\ UNCHANGED item
    BY Zenon DEF WithdrawalConfirm, CancelWithdrawal, IsOrder
  <2>2. WithdrawalWaitSign(op, id, fee) => o.type = "Withdrawal" /\ UNCHANGED item
    BY Zenon DEF WithdrawalWaitSign, checkWithdrawalOrder, IsOrder
  <2>3. WithdrawalSignFinish(id) \/ WithdrawalFinish(n, id, fee, valid)
            => o.type = "Withdrawal" /\ UNCHANGED item
    BY Zenon DEF WithdrawalSignFinish, WithdrawalFinish, checkWithdrawalOrder, IsOrder
  <2> QED
    BY <2>1, <2>2, <2>3, Zenon
<1>3. \/ UNCHANGED order \/ \E p : p.type = o.type /\ order' = [order EXCEPT ![id] = p]
  <2>1. CASE WithdrawalConfirm(n, id, valid)
    <3>1. /\ [o EXCEPT !.checked = "Valid"].type = o.type
          /\ [o EXCEPT !.checked = "Invalid", !.status = "Cancel"].type = o.type
      BY <1>1, Zenon DEF Order
    <3> QED
      BY <2>1, <3>1, ZenonT(40) DEF WithdrawalConfirm
  <2>2. CASE CancelWithdrawal(id)
    <3>1. [o EXCEPT !.status = "Cancel"].type = o.type
      BY <1>1, Zenon DEF Order
    <3> QED
      BY <2>2, <3>1, Zenon DEF CancelWithdrawal
  <2>3. CASE WithdrawalWaitSign(op, id, fee)
    <3>1. PICK tx : order' = WithdrawalsWaitSign(id, op, fee, tx)
      BY <2>3, Zenon DEF WithdrawalWaitSign
    <3>2. [o EXCEPT !.other = op, !.costFee = fee, !.status = "WaitSign", !.raw = tx].type = o.type
      BY <1>1, Zenon DEF Order
    <3> QED
      BY <3>1, <3>2, Zenon DEF WithdrawalsWaitSign
  <2>4. CASE WithdrawalSignFinish(id)
    <3>1. [o EXCEPT !.status = "SignFinish", !.ext = o.raw].type = o.type
      BY <1>1, Zenon DEF Order
    <3> QED
      BY <2>4, <3>1, Zenon DEF WithdrawalSignFinish
  <2>5. CASE WithdrawalFinish(n, id, fee, valid)
    <3>1. UNCHANGED order \/ FinishWithdrawal(id, fee, valid)
      BY <2>5, ZenonT(40) DEF WithdrawalFinish
    <3> DEFINE g == IF o.symbol = Main /\ o.gasFee > fee THEN fee ELSE o.gasFee
               st == IF valid THEN "Finish" ELSE "Failed"
    <3>2. FinishWithdrawal(id, fee, valid) => order' = [order EXCEPT ![id] = Ended(o, fee, g, st)]
      BY ZenonT(40) DEF FinishWithdrawal, Ended
    <3> HIDE DEF g, st
    <3>3. Ended(o, fee, g, st).type = o.type
      BY <1>1, Zenon DEF Order, Ended
    <3> QED
      BY <3>1, <3>2, <3>3, Zenon
  <2> QED
    BY <2>1, <2>2, <2>3, <2>4, <2>5
<1>4. CASE UNCHANGED order
  BY <1>2, <1>4, DepositsUntouched DEF NoneReported, SameDeposit
<1>5. ASSUME NEW p, p.type = o.type, order' = [order EXCEPT ![id] = p]
      PROVE  DepositInv'
  BY <1>2, <1>5, OtherOrderKeeps, Zenon
<1> QED
  BY <1>3, <1>4, <1>5

\* A deposit with another fee is the same deposit.
LEMMA SameButFeeDeposit ==
    ASSUME NEW o, OrderGood(o), NEW p, SameButFee(o, p)
    PROVE  SameDeposit(o, p)
<1>1. o \in Order
  BY DEF OrderGood
<1>2. \A f \in Nat : SameDeposit(o, [o EXCEPT !.costFee = f])
  BY <1>1 DEF Order, SameDeposit
<1> QED
  BY <1>2, Zenon DEF SameButFee, SameDeposit

\* Orders change by fees only, but for the ones of system transfers, and items
\* stay or wait for their collection from now on.
LEMMA FeesOnlyKeep ==
    ASSUME CustodyInv, DepositInv, ItemsGood', NEW id, DOMAIN order' = DOMAIN order \cup {id},
           id \in DOMAIN order => order[id].type = "SysTransfer", order'[id].type = "SysTransfer",
           \A i \in DOMAIN order \ {id} : SameButFee(order[i], order'[i]),
           \A k : k[3] \in Hash => KeepsItem(k)
    PROVE  DepositInv'
<1>1. \A i \in DOMAIN order \ {id} : SameDeposit(order[i], order'[i])
  BY SameButFeeDeposit DEF CustodyInv, OrdersGood
<1>2. NoneReported
  BY <1>1 DEF NoneReported, SameDeposit
<1>3. \A i \in DOMAIN order : order[i].type = "Collect" => Key(order[i])[3] \in Hash
  BY Zenon DEF DepositInv, DepositsGood, DepositGood, Key
<1>4. {} \in SUBSET DOMAIN order /\ \A i \in {} : GoesOn(i)
  OBVIOUS
<1>5. \A i \in DOMAIN order \ {} : order[i].type = "Collect" =>
        /\ SameDeposit(order[i], order'[i])
        /\ (\A j \in {} : Key(order[j]) # Key(order[i])) => KeepsItem(Key(order[i]))
  BY <1>1, <1>3
<1> QED
  BY <1>2, <1>4, <1>5, DepositsKept, Zenon

\* SysTransfer: the user's uncollected items wait for their collection.
LEMMA SysTransferKeeps ==
    ASSUME CustodyInv, DepositInv, NEW id, NEW op, NEW to, NEW s \in Symbol, SysTransfer(id, op, to, s)
    PROVE  DepositInv'
<1> DEFINE amount == IF to \in OpCU THEN OpCUSysTransferAmount[s] ELSE SysTransferAmount[s]
           o == Fresh("SysTransfer", op, to, s, amount, NoTx, 0, "Valid")
           orders == [i \in DOMAIN order \cup {id} |-> IF i = id THEN o ELSE order[i]]
<1>1. id \notin DOMAIN order /\ CreditUnCollected(orders, to, s)
  BY ZenonT(40) DEF SysTransfer, NewOrderSysTransfer, NewOrder, Fresh
<1>2. o.type = "SysTransfer"
  BY DEF Fresh
<1>3. orders = [i \in DOMAIN order \cup {id} |-> IF i = id THEN o ELSE order[i]]
  OBVIOUS
<1> HIDE DEF o, orders
<1>4. /\ DOMAIN order' = DOMAIN order \cup {id} /\ order'[id] = o
      /\ \A i \in DOMAIN order : SameButFee(order[i], order'[i])
  BY <1>1, <1>3, CreditedOrders, SMTT(30) DEF CustodyInv
<1> DEFINE ks == UnCollected(to, s)
           g(k) == [item[k] EXCEPT !.status = "WaitCollect"]
<1>5. UNCHANGED item \/ item' = [k \in DOMAIN item |-> IF k \in ks THEN g(k) ELSE item[k]]
  BY <1>1, Zenon DEF CreditUnCollected
<1>6. \A k \in DOMAIN item : ItemGood(g(k)) /\ g(k).status = "WaitCollect"
  BY DEF DepositInv, ItemsGood, ItemGood, ItemStatus
<1>7. \A k \in ks : item[k].status = "UnCollected"
  BY DEF UnCollected, ItemsIn
<1> HIDE DEF ks, g
<1>8. ItemsGood' /\ \A k : KeepsItem(k)
  <2>1. CASE UNCHANGED item
    BY <2>1 DEF DepositInv, ItemsGood, ItemGood, KeepsItem
  <2>2. CASE item' = [k \in DOMAIN item |-> IF k \in ks THEN g(k) ELSE item[k]]
    <3>1. /\ DOMAIN item' = DOMAIN item /\ item' = [k \in DOMAIN item' |-> item'[k]]
          /\ \A k \in DOMAIN item : item'[k] = IF k \in ks THEN g(k) ELSE item[k]
      BY <2>2
    <3> QED
      BY <1>6, <1>7, <3>1 DEF DepositInv, ItemsGood, KeepsItem
  <2> QED
    BY <1>5, <2>1, <2>2
<1> QED
  BY <1>1, <1>2, <1>4, <1>8, FeesOnlyKeep

\* SysTransferFinish: its transaction is an item that is settled from the
\* beginning, of no deposit.
LEMMA SysTransferFinishKeeps ==
    ASSUME CustodyInv, DepositInv, NEW n, NEW id \in DOMAIN order, NEW costFee \in CostFee,
           SysTransferFinish(n, id, costFee)
    PROVE  DepositInv'
<1> DEFINE o == order[id]
<1>1. /\ OrderGood(o) /\ o.type = "SysTransfer" /\ o.status \in {"SignFinish", "Finish", "Failed"}
      /\ order = [i \in DOMAIN order |-> order[i]]
  BY DEF SysTransferFinish, checkSysTransferOrder, Match, IsOrder, CustodyInv, OrdersGood
<1>2. UNCHANGED <<order, item>> \/ FinishSysTransfer(id, costFee)
  BY ZenonT(40) DEF SysTransferFinish
<1>3. CASE UNCHANGED <<order, item>>
  BY <1>3, DepositsUntouched DEF NoneReported, SameDeposit
<1>4. CASE FinishSysTransfer(id, costFee)
  <2> DEFINE p == Ended(o, costFee, o.gasFee, "Finish")
             finished == [order EXCEPT ![id].costFee = costFee, ![id].status = "Finish"]
             own == <<Main, o.other, o.ext>>
             x == [amount |-> o.amount, status |-> "Confirmed"]
  <2>1. /\ RefundCollectFee(finished, o, costFee)
        /\ item' = [k \in DOMAIN item \cup {own} |-> IF k = own THEN x ELSE item[k]]
    BY <1>4, ZenonT(40) DEF FinishSysTransfer, SaveDeposit
  <2>2. finished = [i \in DOMAIN order |-> IF i = id THEN p ELSE order[i]]
    <3>1. p = [o EXCEPT !.costFee = costFee, !.status = "Finish"]
      BY <1>1, Zenon DEF Ended, OrderGood, Order
    <3> QED
      BY <1>1, <3>1
  <2>3. p.type = "SysTransfer"
    BY <1>1, Zenon DEF Ended, OrderGood, Order
  <2>4. own[3] \notin Hash
    <3>1. o.ext \in Tx
      BY <1>1 DEF OrderGood, Order
    <3> QED
      BY <3>1, HashAssumption
  <2>5. ItemGood(x) /\ costFee \in Nat
    BY InitialAssumption DEF ItemGood, ItemStatus
  <2> HIDE DEF p, finished, own, x
  <2>6. /\ DOMAIN order' = DOMAIN order /\ order'[id] = p
        /\ \A i \in DOMAIN order \ {id} : SameButFee(order[i], order'[i])
    BY <1>1, <2>1, <2>2, <2>5, RefundedOrders, SMTT(30) DEF CustodyInv
  <2>7. /\ DOMAIN item' = DOMAIN item \cup {own} /\ item' = [k \in DOMAIN item' |-> item'[k]]
        /\ \A k \in DOMAIN item' : item'[k] = IF k = own THEN x ELSE item[k]
    BY <2>1
  <2>8. ItemsGood' /\ \A k : k[3] \in Hash => KeepsItem(k)
    BY <2>4, <2>5, <2>7 DEF DepositInv, ItemsGood, KeepsItem
  <2> QED
    BY <1>1, <2>3, <2>6, <2>8, FeesOnlyKeep
<1> QED
  BY <1>2, <1>3, <1>4

\* The other handlers of system transfers.
LEMMA SysTransferStepsKeep ==
    ASSUME CustodyInv, DepositInv, NEW id \in DOMAIN order, NEW fee,
           SysTransferWaitSign(id, fee) \/ SysTransferSignFinish(id)
    PROVE  DepositInv'
<1> DEFINE o == order[id]
<1>1. o \in Order
  BY DEF CustodyInv, OrdersGood, OrderGood
<1>2. CASE SysTransferWaitSign(id, fee)
  <2>1. o.type = "SysTransfer" /\ UNCHANGED item
    BY <1>2, Zenon DEF SysTransferWaitSign, checkSysTransferOrder, IsOrder
  <2>2. PICK tx : order' = [order EXCEPT ![id].costFee = fee, ![id].status = "WaitSign", ![id].raw = tx]
    BY <1>2, ZenonT(40) DEF SysTransferWaitSign
  <2> DEFINE p == [o EXCEPT !.costFee = fee, !.status = "WaitSign", !.raw = tx]
  <2>3. order' = [order EXCEPT ![id] = p] /\ p.type = o.type
    BY <1>1, <2>2, Zenon DEF Order
  <2> HIDE DEF p
  <2> QED
    BY <2>1, <2>3, OtherOrderKeeps, Zenon
<1>3. CASE SysTransferSignFinish(id)
  <2> DEFINE p == [o EXCEPT !.status = "SignFinish", !.ext = o.raw]
  <2>1. o.type = "SysTransfer" /\ UNCHANGED item
    BY <1>3, Zenon DEF SysTransferSignFinish, checkSysTransferOrder, IsOrder
  <2>2. order' = [order EXCEPT ![id] = p] /\ p.type = o.type
    BY <1>1, <1>3, Zenon DEF SysTransferSignFinish, Order
  <2> HIDE DEF p
  <2> QED
    BY <2>1, <2>2, OtherOrderKeeps, Zenon
<1> QED
  BY <1>2, <1>3

-----------------------------------------------------------------------------
(* The specification.                                                      *)

\* Every handler keeps the deposits and their items together.
LEMMA DepositInvStep ==
    ASSUME CustodyInv, DepositInv, [Next]_custodyVars
    PROVE  DepositInv'
<1>0. \A t : Costs(t) \subseteq CostFee
  BY DEF Costs
<1>1. CASE DepositStep
  BY <1>1, DepositKeeps, ConfirmedDepositKeeps, SMTT(30) DEF DepositStep
<1>2. CASE CollectStep
  BY <1>0, <1>2, CollectWaitSignKeeps, CollectSignFinishKeeps, CollectFinishKeeps DEF CollectStep
<1>3. CASE WithdrawalBegin
  BY <1>3, WithdrawalKeeps, WithdrawalStepsKeep, SMTT(30) DEF WithdrawalBegin
<1>4. CASE WithdrawalEnd
  BY <1>4, WithdrawalStepsKeep, SMTT(30) DEF WithdrawalEnd
<1>5. CASE SysTransferStep
  BY <1>0, <1>5, SysTransferKeeps, SysTransferStepsKeep, SysTransferFinishKeeps, SMTT(30)
  DEF SysTransferStep
<1>6. CASE SendStep \/ UNCHANGED custodyVars
  <2>1. UNCHANGED <<order, item>>
    BY <1>6 DEF SendStep, Send, custodyVars
  <2> QED
    BY <2>1, DepositsUntouched DEF NoneReported, SameDeposit
<1> QED
  BY <1>1, <1>2, <1>3, <1>4, <1>5, <1>6, Zenon DEF Next

\* There are no deposits at the start.
LEMMA DepositInvInit == Init => DepositInv
<1> SUFFICES ASSUME Init
             PROVE  DepositInv
  OBVIOUS
<1>1. DOMAIN order = {} /\ DOMAIN item = {} /\ item = [k \in DOMAIN item |-> item[k]]
  BY SMTT(30) DEF Init
<1> QED
  BY <1>1 DEF DepositInv, ItemsGood, DepositsGood, DepositsApart

\* The invariant says what is wanted of the deposits.
LEMMA DepositInvImplies == DepositInv => DepositsUsedOnce
<1> SUFFICES ASSUME DepositInv
             PROVE  DepositsUsedOnce
  OBVIOUS
<1>1. \A i : KeyOf(i) = Key(order[i])
  BY DEF KeyOf, Key
<1>2. CreditedOnce
  BY <1>1 DEF DepositInv, DepositsApart, CreditedOnce
<1>3. ItemFollowsOrder
  BY <1>1 DEF DepositInv, DepositsGood, DepositGood, ItemFollowsOrder
<1> QED
  BY <1>2, <1>3 DEF DepositsUsedOnce

(***************************************************************************)
(* A transaction that pays in is credited at most once and its item        *)
(* follows the one order that was found valid for it, whoever reports it   *)
(* again, in whatever order the votes on it, on its collection and on      *)
(* other orders come in (Deposit, ConfirmedDeposit and the Collect         *)
(* handlers).                                                              *)
(***************************************************************************)
THEOREM DepositsAreUsedOnce ==
    ASSUME ~SelfTransfers
    PROVE  Spec => []DepositsUsedOnce
<1>1. Init => DepositInv
  BY DepositInvInit
<1>2. CustodyInv /\ DepositInv /\ [Next]_custodyVars => DepositInv'
  BY DepositInvStep
<1>3. DepositInv => DepositsUsedOnce
  BY DepositInvImplies
<1> QED
  BY <1>1, <1>2, <1>3, AlwaysCustodyInv, PTL DEF Spec

=============================================================================
