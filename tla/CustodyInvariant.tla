-------------------------- MODULE CustodyInvariant --------------------------
(***************************************************************************)
(* The inductive invariant of AccountCustody, and what steps that change   *)
(* orders, addresses or boxes in one way or another do to it.  The         *)
(* handlers are put together from these steps; here are those that open,   *)
(* confirm and cancel orders, and those that reserve an address, issue a   *)
(* transaction from it or record its signature.                            *)
(***************************************************************************)
EXTENDS AccountCustody, WellFoundedInduction, TLAPS

\* Records of a known shape; what the proofs need of their fields.
BoxGood(b) ==
    b \in [threshold : {b.threshold}, items : {b.items}, confirmed : BOOLEAN, result : {b.result}]

BoxesGood(boxes) ==
    /\ boxes = [i \in DOMAIN boxes |-> boxes[i]]
    /\ \A i \in DOMAIN boxes : BoxGood(boxes[i])

Confirmed(boxes, id) == id \in DOMAIN boxes /\ boxes[id].confirmed

AssetGood(a) ==
    a \in [coins : {a.coins}, hold : {a.hold}, gas : {a.gas}, sendTx : BOOLEAN, nonce : Nat]

\* b is asset a with other amounts: its address is as it was.
SameAddress(a, b) == AssetGood(b) /\ b.sendTx = a.sendTx /\ b.nonce = a.nonce

-----------------------------------------------------------------------------
(***************************************************************************)
(* A vote confirms at most the box it is cast in, and never undoes a       *)
(* confirmation.                                                           *)
(***************************************************************************)
LEMMA VotedOnce ==
    ASSUME NEW boxes, BoxesGood(boxes), NEW id, NEW n, NEW v
    PROVE  /\ BoxesGood(Voted(boxes, id, n, v))
           /\ DOMAIN Voted(boxes, id, n, v) = DOMAIN boxes \cup {id}
           /\ \A i : Confirmed(boxes, i) => Confirmed(Voted(boxes, id, n, v), i)
           /\ \A i : i # id /\ Confirmed(Voted(boxes, id, n, v), i) => Confirmed(boxes, i)
           /\ ConfirmedFirstTime(boxes, id, n, v) <=>
                ~Confirmed(boxes, id) /\ Confirmed(Voted(boxes, id, n, v), id)
<1> DEFINE b == BoxIn(boxes, id)
           c == AddVote(b, n, v)
<1>1. BoxGood(b) /\ (b.confirmed <=> Confirmed(boxes, id))
  BY DEF BoxIn, NewVoteBox, BoxGood, BoxesGood, Confirmed
<1>2. BoxGood(c) /\ (b.confirmed => c.confirmed)
  <2> DEFINE stored == [b EXCEPT !.items = StoreVote(b, n, v)]
  <2>1. BoxGood(stored) /\ stored.confirmed = b.confirmed
    BY <1>1 DEF BoxGood
  <2> HIDE DEF stored
  <2> DEFINE r == CHOOSE x \in Winners(stored) : TRUE
  <2>2. c = IF b.confirmed \/ Winners(stored) = {} THEN stored
            ELSE [stored EXCEPT !.confirmed = TRUE, !.result = r]
    BY DEF AddVote, stored
  <2> HIDE DEF r, c, b
  <2>3. BoxGood([stored EXCEPT !.confirmed = TRUE, !.result = r])
        /\ [stored EXCEPT !.confirmed = TRUE, !.result = r].confirmed
    BY <2>1, Zenon DEF BoxGood
  <2> QED
    BY <2>1, <2>2, <2>3
<1>3. ConfirmedFirstTime(boxes, id, n, v) <=> c.confirmed /\ ~b.confirmed
  BY DEF ConfirmedFirstTime, FirstConfirmed
<1>4. Voted(boxes, id, n, v) = [i \in DOMAIN boxes \cup {id} |-> IF i = id THEN c ELSE boxes[i]]
  BY DEF Voted
<1> HIDE DEF b, c
<1> QED
  BY <1>1, <1>2, <1>3, <1>4 DEF BoxesGood, Confirmed

(***************************************************************************)
(* Which of the operations on assets touch the address, and how.           *)
(***************************************************************************)
LEMMA AssetOperations ==
    ASSUME NEW a, AssetGood(a), NEW c
    PROVE  /\ SameAddress(a, AddAssetCoins(a, c))
           /\ SameAddress(a, SubAssetCoinsHold(a, c))
           /\ SameAddress(a, HoldAssetCoins(a, c))
           /\ \A g : SameAddress(a, [a EXCEPT !.gas = g])
           /\ AssetGood(Lock(a)) /\ ~Lock(a).sendTx /\ Lock(a).nonce = a.nonce
           /\ AssetGood(NextNonce(a)) /\ NextNonce(a).sendTx /\ NextNonce(a).nonce = a.nonce + 1
<1>1. SameAddress(a, AddAssetCoins(a, c))
  BY DEF AssetGood, SameAddress, AddAssetCoins
<1>2. SameAddress(a, SubAssetCoinsHold(a, c))
  BY DEF AssetGood, SameAddress, SubAssetCoinsHold
<1>3. SameAddress(a, HoldAssetCoins(a, c))
  BY Zenon DEF AssetGood, SameAddress, HoldAssetCoins
<1>4. \A g : SameAddress(a, [a EXCEPT !.gas = g])
  BY DEF AssetGood, SameAddress
<1>5. AssetGood(Lock(a)) /\ ~Lock(a).sendTx /\ Lock(a).nonce = a.nonce
  BY Zenon DEF AssetGood, Lock
<1>6. AssetGood(NextNonce(a)) /\ NextNonce(a).sendTx /\ NextNonce(a).nonce = a.nonce + 1
  <2>1. a.nonce + 1 \in Nat
    BY DEF AssetGood
  <2> DEFINE n == a.nonce + 1
  <2> HIDE DEF n
  <2>2. NextNonce(a) = [a EXCEPT !.nonce = n, !.sendTx = TRUE]
    BY DEF NextNonce, n
  <2>3. n \in Nat
    BY <2>1 DEF n
  <2>4. AssetGood(NextNonce(a)) /\ NextNonce(a).sendTx /\ NextNonce(a).nonce = n
    BY <2>2, <2>3, Zenon DEF AssetGood
  <2> QED
    BY <2>4 DEF n
<1> QED
  BY <1>1, <1>2, <1>3, <1>4, <1>5, <1>6

\* The asset of a CU whose transaction is settled: the next nonce, and unlocked.
SettledAsset(a, b) == AssetGood(b) /\ b.sendTx /\ b.nonce = a.nonce + 1

\* What settling a transaction does to the addresses of sender and receiver.
LEMMA SettledOperations ==
    ASSUME NEW a, AssetGood(a), NEW o, NEW tx, NEW total, NEW costFee
    PROVE  /\ SettledAsset(a, Collected(a, tx, total, costFee))
           /\ SettledAsset(a, PaidOut(a, o, costFee))
           /\ SettledAsset(a, Sent(a, o, costFee))
           /\ SameAddress(a, Received(a, o))
<1> USE DEF SettledAsset, SameAddress
<1>1. SettledAsset(a, Collected(a, tx, total, costFee))
  <2> DEFINE d == SubAssetCoinsHold(a, Coin(tx.symbol, total))
             g == (IF tx.symbol = Main THEN d.gas + (total - tx.amount) ELSE d.gas) - costFee
             e == [d EXCEPT !.gas = g]
  <2>1. SameAddress(a, d)
    BY AssetOperations
  <2> HIDE DEF d, g
  <2>2. SameAddress(d, e)
    BY <2>1, AssetOperations, SMTT(30)
  <2> HIDE DEF e
  <2>3. SettledAsset(e, NextNonce(e))
    BY <2>2, AssetOperations
  <2>4. Collected(a, tx, total, costFee) = NextNonce(e)
    BY DEF Collected, e, g, d
  <2> QED
    BY <2>1, <2>2, <2>3, <2>4
<1>2. SettledAsset(a, PaidOut(a, o, costFee))
  <2> DEFINE d == SubAssetCoinsHold(a, Plus(Coin(o.symbol, o.amount), Coin(Main, o.costFee)))
             e == AddAssetCoins(d, Coin(Main, o.costFee - costFee))
  <2>1. SameAddress(a, d)
    BY AssetOperations
  <2> HIDE DEF d
  <2>2. SameAddress(d, e)
    BY <2>1, AssetOperations
  <2> HIDE DEF e
  <2>3. SettledAsset(e, NextNonce(e))
    BY <2>2, AssetOperations
  <2>4. PaidOut(a, o, costFee) = NextNonce(e)
    BY DEF PaidOut, Payment, e, d
  <2> QED
    BY <2>1, <2>2, <2>3, <2>4
<1>3. SettledAsset(a, Sent(a, o, costFee))
  <2> DEFINE d == SubAssetCoinsHold(a, Coin(Main, o.amount + o.costFee))
             e == AddAssetCoins(d, Coin(Main, o.costFee - costFee))
  <2>1. SameAddress(a, d)
    BY AssetOperations
  <2> HIDE DEF d
  <2>2. SameAddress(d, e)
    BY <2>1, AssetOperations
  <2> HIDE DEF e
  <2>3. SettledAsset(e, NextNonce(e))
    BY <2>2, AssetOperations
  <2>4. Sent(a, o, costFee) = NextNonce(e)
    BY DEF Sent, e, d
  <2> QED
    BY <2>1, <2>2, <2>3, <2>4
<1>4. SameAddress(a, Received(a, o))
  <2>1. SameAddress(a, [a EXCEPT !.gas = a.gas + o.amount])
    BY AssetOperations, ZenonT(40)
  <2>2. SameAddress(a, AddAssetCoins(a, Coin(Main, o.amount)))
    BY AssetOperations
  <2>3. \/ Received(a, o) = [a EXCEPT !.gas = a.gas + o.amount]
        \/ Received(a, o) = AddAssetCoins(a, Coin(Main, o.amount))
    BY DEF Received
  <2> QED
    BY <2>1, <2>2, <2>3, Zenon
<1> QED
  BY <1>1, <1>2, <1>3, <1>4

-----------------------------------------------------------------------------
(* The inductive invariant.                                                *)

\* What is true of an order by itself: how far its transaction has come, and
\* that the transaction is sent from the address the order occupies.
OrderGood(o) ==
    /\ o \in Order
    /\ o.status = "Begin" => o.raw = NoTx /\ o.ext = NoTx
    /\ o.status = "WaitSign" => o.raw # NoTx
    /\ o.status = "SignFinish" => o.ext # NoTx
    /\ o.type = "SysTransfer" /\ o.status \in {"Finish", "Failed"} => o.ext # NoTx
    /\ o.ext # NoTx => o.ext = o.raw
    /\ o.raw # NoTx => o.raw.from = IF o.type = "Withdrawal" THEN o.other ELSE o.cu
    /\ o.type = "Collect" /\ o.checked = "Unconfirmed" => o.status = "Begin"
    /\ o.type = "Collect" => o.status # "Cancel"
    /\ o.type = "SysTransfer" => o.other # o.cu \/ SelfTransfers

OrdersGood ==
    /\ DOMAIN order \subseteq OrderID
    /\ order = [i \in DOMAIN order |-> order[i]]
    /\ \A i \in DOMAIN order : OrderGood(order[i])

AssetsGood ==
    /\ ast = [c \in CU |-> ast[c]]
    /\ \A c \in CU : AssetGood(ast[c])

\* A system transfer that has begun has its address for itself.
OneReservation ==
    \A i, j \in OrdersOf("SysTransfer", {"Begin"}) : order[i].cu = order[j].cu => i = j

\* A deposit that was decided, and an order that ended with a transaction, have
\* a confirmed box, so no later vote is the one that confirms it.
ClosedByVote ==
    \A i \in DOMAIN order :
        /\ order[i].type = "Collect" /\ order[i].checked # "Unconfirmed" => Confirmed(confirmBox, i)
        /\ order[i].status \in {"Finish", "Failed"} /\ order[i].ext # NoTx
            => Confirmed(finishBox, order[i].ext)

CustodyInv ==
    /\ OrdersGood /\ AssetsGood /\ BoxesGood(confirmBox) /\ BoxesGood(finishBox)
    /\ OneReservation /\ ClosedByVote

\* What a step does to the orders that terminated before.
Final == \A i \in DOMAIN order : Terminated(order[i].status) => order'[i] = order[i]

-----------------------------------------------------------------------------
(* What AddressLock promises.                                              *)

\* The invariant holds initially: no address has issued anything.
LEMMA AddressInvInit == Addresses!Init => Addresses!AddressInv
  BY
  DEF Addresses!Init, Addresses!AddressInv, Addresses!TypeOK, Addresses!OnePerNonce, Addresses!LockedWhileInUse

(***************************************************************************)
(* Every step of an address keeps its invariant: a transaction is issued   *)
(* only when no other one has the address's nonce.                         *)
(***************************************************************************)
LEMMA AddressInvStep ==
    ASSUME Addresses!AddressInv, [Addresses!Next]_(Addresses!addressVars)
    PROVE  Addresses!AddressInv'
<1> USE DEF Addresses!AddressInv, Addresses!TypeOK
<1>1. ASSUME NEW a \in CU, Addresses!Issue(a)
      PROVE  Addresses!AddressInv'
  <2>1. PICK t \in IssuedTxs' : t.from = a /\ t.nonce = Nonces[a] /\ IssuedTxs' = IssuedTxs \cup {t}
    BY <1>1 DEF Addresses!Issue, Addresses!Issued
  <2>2. \A u \in IssuedTxs : u.from = a => u.nonce # Nonces[a]
    BY <1>1 DEF Addresses!Issue, Addresses!LockedWhileInUse
  <2>3. a \notin Reserved
    BY <1>1 DEF Addresses!Issue, Addresses!LockedWhileInUse
  <2> QED
    BY <1>1, <2>1, <2>2, <2>3 DEF Addresses!Issue, Addresses!OnePerNonce, Addresses!LockedWhileInUse
<1>2. ASSUME NEW a \in CU, Addresses!Reserve(a)
      PROVE  Addresses!AddressInv'
  BY <1>2 DEF Addresses!Reserve, Addresses!OnePerNonce, Addresses!LockedWhileInUse
<1>3. ASSUME NEW a \in CU, Addresses!IssueReserved(a)
      PROVE  Addresses!AddressInv'
  <2>1. PICK t \in IssuedTxs' : t.from = a /\ t.nonce = Nonces[a] /\ IssuedTxs' = IssuedTxs \cup {t}
    BY <1>3 DEF Addresses!IssueReserved, Addresses!Issued
  <2>2. \A u \in IssuedTxs : u.from = a => u.nonce # Nonces[a]
    BY <1>3 DEF Addresses!IssueReserved, Addresses!LockedWhileInUse
  <2>3. ~CanSend[a]
    BY <1>3 DEF Addresses!IssueReserved, Addresses!LockedWhileInUse
  <2> QED
    BY <1>3, <2>1, <2>2, <2>3
    DEF Addresses!IssueReserved, Addresses!OnePerNonce, Addresses!LockedWhileInUse
<1>4. ASSUME NEW t \in IssuedTxs, Addresses!Settle(t)
      PROVE  Addresses!AddressInv'
  <2>1. t.from \in CU /\ t.nonce = Nonces[t.from] /\ t.from \notin Reserved
    BY <1>4 DEF Addresses!Settle, Addresses!LockedWhileInUse
  <2>2. \A u \in IssuedTxs : u.from = t.from /\ u # t => u \in SettledTxs
    BY <1>4, <2>1 DEF Addresses!OnePerNonce, Addresses!LockedWhileInUse
  <2> QED
    BY <1>4, <2>1, <2>2 DEF Addresses!Settle, Addresses!OnePerNonce, Addresses!LockedWhileInUse
<1>5. CASE UNCHANGED (Addresses!addressVars)
  BY <1>5 DEF Addresses!addressVars, Addresses!OnePerNonce, Addresses!LockedWhileInUse
<1> QED
  BY <1>1, <1>2, <1>3, <1>4, <1>5 DEF Addresses!Next

(***************************************************************************)
(* Under AddressLock no two transactions of an address ever have the same  *)
(* nonce, and an address whose nonce is in use is locked.                  *)
(***************************************************************************)
THEOREM AlwaysOnePerNonce == Addresses!Spec => [](Addresses!OnePerNonce /\ Addresses!LockedWhileInUse)
<1>1. Addresses!AddressInv => Addresses!OnePerNonce /\ Addresses!LockedWhileInUse
  BY DEF Addresses!AddressInv
<1> QED
  BY AddressInvInit, AddressInvStep, <1>1, PTL DEF Addresses!Spec


-----------------------------------------------------------------------------
(* Steps that issue and settle nothing.                                    *)

\* p is order o with other fees and another status.
SameCore(o, p) ==
    /\ p.type = o.type /\ p.cu = o.cu /\ p.raw = o.raw
    /\ o.type = "SysTransfer" => (p.status = "Begin" <=> o.status = "Begin")

\* No order gets a transaction, and no system transfer begins or ends its beginning.
QuietOrders ==
    /\ DOMAIN order \subseteq DOMAIN order'
    /\ \A i \in DOMAIN order : SameCore(order[i], order'[i])
    /\ \A i \in DOMAIN order' \ DOMAIN order : order'[i].raw = NoTx /\ order'[i].type # "SysTransfer"

\* Orders that keep what AddressLock sees issue and reserve nothing.
LEMMA QuietOrdersStep ==
    ASSUME QuietOrders, OneReservation
    PROVE  IssuedTxs' = IssuedTxs /\ Reserved' = Reserved /\ OneReservation'
<1>1. \A i \in DOMAIN order' : order'[i].raw # NoTx => i \in DOMAIN order /\ order[i].raw = order'[i].raw
  BY DEF QuietOrders, SameCore
<1>2. \A i \in DOMAIN order : i \in DOMAIN order' /\ order[i].raw = order'[i].raw
  BY DEF QuietOrders, SameCore
<1>3. IssuedTxs' = IssuedTxs
  BY <1>1, <1>2 DEF IssuedTxs
<1>4. OrdersOf("SysTransfer", {"Begin"})' = OrdersOf("SysTransfer", {"Begin"})
  BY DEF QuietOrders, SameCore, OrdersOf
<1>5. \A i \in OrdersOf("SysTransfer", {"Begin"}) : order'[i].cu = order[i].cu
  BY DEF QuietOrders, SameCore, OrdersOf
<1>6. Reserved' = Reserved
  BY <1>4, <1>5 DEF Reserved
<1>7. OneReservation'
  BY <1>4, <1>5 DEF OneReservation
<1> QED
  BY <1>3, <1>6, <1>7

\* No address changes.
QuietAssets == \A c \in CU : SameAddress(ast[c], ast'[c])

(***************************************************************************)
(* Such a step, in which no transaction is confirmed, is no step of        *)
(* AddressLock.                                                            *)
(***************************************************************************)
LEMMA QuietStep ==
    ASSUME QuietOrders, QuietAssets, OneReservation, SettledTxs' = SettledTxs
    PROVE  [Addresses!Next]_(Addresses!addressVars) /\ OneReservation'
<1>1. IssuedTxs' = IssuedTxs /\ Reserved' = Reserved /\ OneReservation'
  BY QuietOrdersStep
<1>2. Nonces' = Nonces
  BY DEF QuietAssets, SameAddress, Nonces
<1>3. CanSend' = CanSend
  BY DEF QuietAssets, SameAddress, CanSend
<1> QED
  BY <1>1, <1>2, <1>3 DEF Addresses!addressVars

-----------------------------------------------------------------------------
(* Steps that issue, reserve and settle.                                   *)

\* The address of CU c changes as given, every other one stays as it is.
OthersQuiet(c) == \A d \in CU \ {c} : SameAddress(ast[d], ast'[d])

Locked(c) ==
    /\ ast[c].sendTx
    /\ AssetGood(ast'[c]) /\ ~ast'[c].sendTx /\ ast'[c].nonce = ast[c].nonce
    /\ OthersQuiet(c)

(***************************************************************************)
(* The orders ids, none of them a system transfer, get transaction tx.     *)
(***************************************************************************)
LEMMA IssueStep ==
    ASSUME NEW c \in CU, NEW ids \in SUBSET DOMAIN order, ids # {}, NEW tx \in Tx, tx # NoTx,
           OneReservation, AssetsGood,
           tx.from = c, tx.nonce = ast[c].nonce, Locked(c), SettledTxs' = SettledTxs,
           DOMAIN order' = DOMAIN order,
           \A i \in ids : /\ order[i].raw = NoTx /\ order'[i].raw = tx
                          /\ order[i].type # "SysTransfer" /\ order'[i].type = order[i].type,
           \A i \in DOMAIN order \ ids : order'[i] = order[i]
    PROVE  [Addresses!Next]_(Addresses!addressVars) /\ OneReservation'
<1>1. IssuedTxs' = IssuedTxs \cup {tx}
  <2>1. \A x : x \in IssuedTxs' => x \in IssuedTxs \cup {tx}
    BY DEF IssuedTxs
  <2>2. \A x : x \in IssuedTxs => x \in IssuedTxs'
    BY DEF IssuedTxs
  <2>3. tx \in IssuedTxs'
    BY DEF IssuedTxs
  <2> QED
    BY <2>1, <2>2, <2>3
<1>2. OrdersOf("SysTransfer", {"Begin"})' = OrdersOf("SysTransfer", {"Begin"})
  BY DEF OrdersOf
<1>3. \A i \in OrdersOf("SysTransfer", {"Begin"}) : order'[i] = order[i]
  BY DEF OrdersOf
<1>4. Reserved' = Reserved /\ OneReservation'
  BY <1>2, <1>3 DEF Reserved, OneReservation
<1> USE DEF Nonces, CanSend
<1>5. Nonces' = Nonces
  BY DEF Locked, OthersQuiet, SameAddress
<1>6. CanSend[c] /\ CanSend' = [CanSend EXCEPT ![c] = FALSE]
  <2>1. ast'[c].sendTx = FALSE
    BY DEF Locked, AssetGood
  <2>2. \A d \in CU : ast'[d].sendTx = IF d = c THEN FALSE ELSE ast[d].sendTx
    BY <2>1, Zenon DEF Locked, OthersQuiet, SameAddress
  <2> QED
    BY <2>2, Zenon DEF Locked
<1>7. tx.nonce = Nonces[c]
  OBVIOUS
<1> HIDE DEF Nonces, CanSend
<1>8. Addresses!Issue(c)
  BY <1>1, <1>4, <1>5, <1>6, <1>7 DEF Addresses!Issue, Addresses!Issued
<1> QED
  BY <1>4, <1>8 DEF Addresses!Next

(***************************************************************************)
(* A system transfer from CU c begins as order id.                         *)
(***************************************************************************)
LEMMA ReserveStep ==
    ASSUME NEW c \in CU, NEW id, id \notin DOMAIN order,
           CustodyInv, Addresses!AddressInv, Locked(c), SettledTxs' = SettledTxs,
           DOMAIN order' = DOMAIN order \cup {id},
           order'[id].type = "SysTransfer" /\ order'[id].status = "Begin"
                /\ order'[id].cu = c /\ order'[id].raw = NoTx,
           \A i \in DOMAIN order : SameCore(order[i], order'[i])
    PROVE  [Addresses!Next]_(Addresses!addressVars) /\ OneReservation'
<1> DEFINE B == OrdersOf("SysTransfer", {"Begin"})
<1>1. IssuedTxs' = IssuedTxs
  <2>1. \A i \in DOMAIN order : order'[i].raw = order[i].raw
    BY DEF SameCore
  <2> QED
    BY <2>1 DEF IssuedTxs
<1>2. B' = B \cup {id}
  BY DEF OrdersOf, SameCore
<1>3. \A i \in B : order'[i].cu = order[i].cu /\ i # id
  BY DEF OrdersOf, SameCore
<1>4. Reserved' = Reserved \cup {c}
  <2> HIDE DEF B
  <2>1. Reserved = {order[i].cu : i \in B} /\ Reserved' = {order'[i].cu : i \in B'}
    BY DEF Reserved, B
  <2> QED
    BY <1>2, <1>3, <2>1
<1> USE DEF Nonces, CanSend
<1>5. Nonces' = Nonces
  BY DEF Locked, OthersQuiet, SameAddress
<1>6. CanSend[c] /\ CanSend' = [CanSend EXCEPT ![c] = FALSE]
  <2>1. ast'[c].sendTx = FALSE
    BY DEF Locked, AssetGood
  <2>2. \A d \in CU : ast'[d].sendTx = IF d = c THEN FALSE ELSE ast[d].sendTx
    BY <2>1, Zenon DEF Locked, OthersQuiet, SameAddress
  <2> QED
    BY <2>2, Zenon DEF Locked
<1>7. \A i \in B : order[i].cu # c
  <2>1. \A a \in Reserved : ~CanSend[a]
    BY DEF Addresses!AddressInv, Addresses!LockedWhileInUse
  <2> QED
    BY <2>1, <1>6, Zenon DEF Reserved
<1>8. OneReservation'
  <2> HIDE DEF B
  <2>1. \A i, j \in B' : order'[i].cu = order'[j].cu => i = j
    BY <1>2, <1>3, <1>7 DEF CustodyInv, OneReservation, B
  <2> QED
    BY <2>1 DEF OneReservation, B
<1> HIDE DEF Nonces, CanSend
<1>9. Addresses!Reserve(c)
  BY <1>1, <1>4, <1>5, <1>6 DEF Addresses!Reserve
<1> QED
  BY <1>8, <1>9 DEF Addresses!Next

(***************************************************************************)
(* The system transfer id from CU c gets its transaction tx.               *)
(***************************************************************************)
LEMMA IssueReservedStep ==
    ASSUME NEW c \in CU, NEW id \in DOMAIN order, NEW tx \in Tx, tx # NoTx,
           CustodyInv,
           order[id].type = "SysTransfer" /\ order[id].status = "Begin"
                /\ order[id].cu = c /\ order[id].raw = NoTx,
           tx.from = c, tx.nonce = ast[c].nonce, QuietAssets, SettledTxs' = SettledTxs,
           DOMAIN order' = DOMAIN order,
           order'[id].raw = tx /\ order'[id].status # "Begin",
           \A i \in DOMAIN order \ {id} : order'[i] = order[i]
    PROVE  [Addresses!Next]_(Addresses!addressVars) /\ OneReservation'
<1> DEFINE B == OrdersOf("SysTransfer", {"Begin"})
<1>1. IssuedTxs' = IssuedTxs \cup {tx}
  BY DEF IssuedTxs
<1>2. B' = B \ {id} /\ id \in B
  BY DEF OrdersOf
<1>3. \A i \in B' : order'[i].cu = order[i].cu
  BY <1>2 DEF OrdersOf
<1>4. \A i \in B' : order[i].cu # c
  BY <1>2 DEF CustodyInv, OneReservation
<1>5. Reserved' = Reserved \ {c} /\ c \in Reserved
  <2> HIDE DEF B
  <2>1. Reserved = {order[i].cu : i \in B} /\ Reserved' = {order'[i].cu : i \in B'}
    BY DEF Reserved, B
  <2> QED
    BY <1>2, <1>3, <1>4, <2>1
<1>6. OneReservation'
  <2> HIDE DEF B
  <2>1. \A i, j \in B' : order'[i].cu = order'[j].cu => i = j
    BY <1>2, <1>3 DEF CustodyInv, OneReservation, B
  <2> QED
    BY <2>1 DEF OneReservation, B
<1> USE DEF Nonces, CanSend
<1>7. Nonces' = Nonces /\ CanSend' = CanSend /\ tx.nonce = Nonces[c]
  BY DEF QuietAssets, SameAddress
<1> HIDE DEF Nonces, CanSend
<1>8. Addresses!IssueReserved(c)
  BY <1>1, <1>5, <1>7, SMTT(30) DEF Addresses!IssueReserved, Addresses!Issued
<1> QED
  BY <1>6, <1>8 DEF Addresses!Next

(***************************************************************************)
(* The transaction tx is settled.                                          *)
(***************************************************************************)
LEMMA SettleStep ==
    ASSUME NEW tx \in IssuedTxs, tx \notin SettledTxs, SettledTxs' = SettledTxs \cup {tx},
           OneReservation, AssetsGood, QuietOrders, tx.from \in CU,
           SettledAsset(ast[tx.from], ast'[tx.from]), OthersQuiet(tx.from)
    PROVE  [Addresses!Next]_(Addresses!addressVars) /\ OneReservation'
<1>1. IssuedTxs' = IssuedTxs /\ Reserved' = Reserved /\ OneReservation'
  BY QuietOrdersStep
<1> USE DEF Nonces, CanSend
<1>2. Nonces' = [Nonces EXCEPT ![tx.from] = @ + 1]
  BY DEF SettledAsset, OthersQuiet, SameAddress
<1>3. CanSend' = [CanSend EXCEPT ![tx.from] = TRUE]
  <2>1. ast'[tx.from].sendTx = TRUE
    BY DEF SettledAsset, AssetGood
  <2> QED
    BY <2>1, Zenon DEF OthersQuiet, SameAddress
<1> HIDE DEF Nonces, CanSend
<1>4. Addresses!Settle(tx)
  BY <1>1, <1>2, <1>3 DEF Addresses!Settle
<1> QED
  BY <1>1, <1>4 DEF Addresses!Next

-----------------------------------------------------------------------------
(* The handlers.  Each one keeps the invariant, leaves the orders alone    *)
(* that had terminated, and is a step of AddressLock or none.              *)

StepOK == CustodyInv' /\ Final /\ [Addresses!Next]_(Addresses!addressVars)

\* The settlement's token parameters are natural numbers.
LEMMA Tariffs ==
    \A s \in Symbol : /\ CollectFee[s] \in Nat /\ SysTransferAmount[s] \in Nat
                      /\ OpCUSysTransferAmount[s] \in Nat /\ GasFee[s] \in Nat
  BY CustodyAssumption DEF Tariff

\* Fees are natural numbers.
LEMMA FeesAreNat == Fees \subseteq Nat
<1>1. \A s \in Symbol : 0 .. (12 * GasFee[s]) \div 10 \subseteq Nat
  OBVIOUS
<1> QED
  BY <1>1 DEF Fees

\* The order that NewOrder stores; the other orders are as they were.
Fresh(type, cu, other, symbol, amount, hash, gasFee, checked) ==
    [type |-> type, cu |-> cu, other |-> other, symbol |-> symbol, amount |-> amount,
     hash |-> hash, gasFee |-> gasFee, costFee |-> 0, status |-> "Begin",
     checked |-> checked, raw |-> NoTx, ext |-> NoTx]

\* Storing a new order keeps the orders good and the ended ones as they are.
LEMMA NewOrderStep ==
    ASSUME OrdersGood, NEW id \in OrderID, id \notin DOMAIN order, NEW o, OrderGood(o),
           order' = [i \in DOMAIN order \cup {id} |-> IF i = id THEN o ELSE order[i]]
    PROVE  /\ OrdersGood' /\ Final
           /\ DOMAIN order' = DOMAIN order \cup {id}
           /\ order'[id] = o
           /\ \A i \in DOMAIN order : order'[i] = order[i]
<1>1. /\ order' = [i \in DOMAIN order' |-> order'[i]]
      /\ DOMAIN order' = DOMAIN order \cup {id} /\ DOMAIN order' \subseteq OrderID
      /\ order'[id] = o
      /\ \A i \in DOMAIN order : order'[i] = order[i]
  BY DEF OrdersGood
<1> QED
  BY <1>1 DEF OrdersGood, Final

\* The boxes after a step: good ones, and no confirmation is undone.
BoxesKept ==
    /\ BoxesGood(confirmBox)' /\ BoxesGood(finishBox)'
    /\ \A i : Confirmed(confirmBox, i) => Confirmed(confirmBox, i)'
    /\ \A t : Confirmed(finishBox, t) => Confirmed(finishBox, t)'

\* A step that leaves the boxes of orders alone keeps what they say.
LEMMA UnchangedConfirmBox ==
    ASSUME BoxesGood(confirmBox), UNCHANGED confirmBox
    PROVE  BoxesGood(confirmBox)' /\ \A i : Confirmed(confirmBox, i) => Confirmed(confirmBox, i)'
  BY DEF BoxesGood, BoxGood, Confirmed

\* A step that leaves the boxes of transactions alone keeps what they say.
LEMMA UnchangedFinishBox ==
    ASSUME BoxesGood(finishBox), UNCHANGED finishBox
    PROVE  /\ BoxesGood(finishBox)' /\ SettledTxs' = SettledTxs
           /\ \A i : Confirmed(finishBox, i) => Confirmed(finishBox, i)'
  BY DEF BoxesGood, BoxGood, Confirmed, SettledTxs

\* Votes that confirm no transaction, and steps on other variables.
LEMMA VotesOnlyOK ==
    ASSUME CustodyInv, UNCHANGED <<order, ast>>, BoxesKept, SettledTxs' = SettledTxs
    PROVE  StepOK
<1>a. /\ OrdersGood /\ AssetsGood /\ BoxesGood(confirmBox) /\ BoxesGood(finishBox)
      /\ OneReservation /\ ClosedByVote
  BY Zenon DEF CustodyInv
<1> USE DEF BoxesKept
<1>1. OrdersGood' /\ AssetsGood' /\ Final
  BY <1>a DEF OrdersGood, OrderGood, AssetsGood, AssetGood, Final
<1>2. ClosedByVote'
  BY <1>a DEF ClosedByVote
<1>3. QuietOrders /\ QuietAssets
  BY <1>a DEF QuietOrders, SameCore, QuietAssets, SameAddress, AssetsGood
<1> QED
  BY <1>a, <1>1, <1>2, <1>3, QuietStep, SMTT(30) DEF StepOK, CustodyInv

-----------------------------------------------------------------------------
(* Changes to stored orders.                                               *)

\* The orders ids change, to good ones, and none of them had terminated.
LEMMA ChangedOrders ==
    ASSUME OrdersGood, NEW ids, DOMAIN order' = DOMAIN order,
           order' = [i \in DOMAIN order |-> order'[i]],
           \A i \in DOMAIN order :
                IF i \in ids THEN OrderGood(order'[i]) /\ ~Terminated(order[i].status)
                ELSE order'[i] = order[i]
    PROVE  OrdersGood' /\ Final
  BY DEF OrdersGood, Final

\* The same for one order.
LEMMA ChangedOrder ==
    ASSUME OrdersGood, NEW id \in DOMAIN order, NEW p, OrderGood(p), ~Terminated(order[id].status),
           order' = [order EXCEPT ![id] = p]
    PROVE  OrdersGood' /\ Final
  BY Zenon DEF OrdersGood, Final

\* A vote on an order confirms its box or nothing.
LEMMA VoteConfirms ==
    ASSUME BoxesGood(confirmBox), NEW id, NEW n, NEW v, confirmBox' = Voted(confirmBox, id, n, v)
    PROVE  /\ BoxesGood(confirmBox)'
           /\ \A i : Confirmed(confirmBox, i) => Confirmed(confirmBox, i)'
           /\ ConfirmedFirstTime(confirmBox, id, n, v) =>
                ~Confirmed(confirmBox, id) /\ Confirmed(confirmBox, id)'
<1> DEFINE f == Voted(confirmBox, id, n, v)
<1>1. /\ BoxesGood(f)
      /\ \A i : Confirmed(confirmBox, i) => Confirmed(f, i)
      /\ ConfirmedFirstTime(confirmBox, id, n, v) <=> ~Confirmed(confirmBox, id) /\ Confirmed(f, id)
  BY VotedOnce, Zenon
<1>2. BoxesGood(confirmBox)' /\ \A t : Confirmed(confirmBox, t)' <=> Confirmed(f, t)
  BY <1>1 DEF BoxesGood, BoxGood, Confirmed
<1> HIDE DEF f
<1> QED
  BY <1>1, <1>2

\* A vote on a transaction settles it or nothing.
LEMMA VoteSettles ==
    ASSUME BoxesGood(finishBox), NEW tx, NEW n, NEW v, finishBox' = Voted(finishBox, tx, n, v)
    PROVE  /\ BoxesGood(finishBox)'
           /\ \A t : Confirmed(finishBox, t) => Confirmed(finishBox, t)'
           /\ ~ConfirmedFirstTime(finishBox, tx, n, v) => SettledTxs' = SettledTxs
           /\ ConfirmedFirstTime(finishBox, tx, n, v) =>
                /\ tx \notin SettledTxs /\ ~Confirmed(finishBox, tx)
                /\ SettledTxs' = SettledTxs \cup {tx} /\ Confirmed(finishBox, tx)'
<1> DEFINE f == Voted(finishBox, tx, n, v)
<1>1. /\ BoxesGood(f)
      /\ \A i : Confirmed(finishBox, i) => Confirmed(f, i)
      /\ \A i : i # tx /\ Confirmed(f, i) => Confirmed(finishBox, i)
      /\ ConfirmedFirstTime(finishBox, tx, n, v) <=> ~Confirmed(finishBox, tx) /\ Confirmed(f, tx)
  BY VotedOnce, Zenon
<1>2. \A t : t \in SettledTxs <=> Confirmed(finishBox, t)
  BY DEF SettledTxs, Confirmed
<1>3. \A t : t \in SettledTxs' <=> Confirmed(f, t)
  BY DEF SettledTxs, Confirmed
<1>4. BoxesGood(finishBox)' /\ \A t : Confirmed(finishBox, t)' <=> Confirmed(f, t)
  BY <1>1 DEF BoxesGood, BoxGood, Confirmed
<1> HIDE DEF f
<1> QED
  BY <1>1, <1>2, <1>3, <1>4

\* Order id changes to p, while no transaction is issued or settled.
LEMMA QuietChangeOK ==
    ASSUME CustodyInv, NEW id \in DOMAIN order, NEW p, OrderGood(p), SameCore(order[id], p),
           ~Terminated(order[id].status), order' = [order EXCEPT ![id] = p],
           p.type = "Collect" /\ p.checked # "Unconfirmed" => Confirmed(confirmBox, id)',
           p.status \notin {"Finish", "Failed"} \/ p.ext = NoTx,
           AssetsGood', QuietAssets, BoxesKept, SettledTxs' = SettledTxs
    PROVE  StepOK
<1>a. /\ OrdersGood /\ AssetsGood /\ BoxesGood(confirmBox) /\ BoxesGood(finishBox)
      /\ OneReservation /\ ClosedByVote
  BY Zenon DEF CustodyInv
<1> USE DEF BoxesKept
<1>1. OrdersGood' /\ Final
  BY <1>a, ChangedOrder, Zenon
<1>2. DOMAIN order' = DOMAIN order /\ order'[id] = p
      /\ \A i \in DOMAIN order \ {id} : order'[i] = order[i]
  BY <1>a DEF OrdersGood
<1>3. ClosedByVote'
  BY <1>a, <1>2 DEF ClosedByVote
<1>4. QuietOrders
  BY <1>2 DEF QuietOrders, SameCore
<1> QED
  BY <1>a, <1>1, <1>3, <1>4, QuietStep DEF StepOK, CustodyInv

-----------------------------------------------------------------------------
(* The handlers that open, confirm and cancel orders change no address.    *)

\* Deposit opens a collect order.
LEMMA DepositOK ==
    ASSUME CustodyInv, NEW id \in DepositID, NEW cu \in Depositor, NEW s \in Symbol,
           NEW h \in Hash, NEW a \in Amount, Deposit(id, cu, s, h, a)
    PROVE  StepOK
<1>a. /\ OrdersGood /\ AssetsGood /\ BoxesGood(confirmBox) /\ BoxesGood(finishBox)
      /\ OneReservation /\ ClosedByVote
  BY Zenon DEF CustodyInv
<1>1. id \in OrderID /\ cu \in CU /\ a \in Nat /\ id \notin DOMAIN order
  BY InitialAssumption, SMTT(30) DEF Deposit
<1> DEFINE o == Fresh("Collect", cu, Outside, s, a, h, 0, "Unconfirmed")
<1>2. OrderGood(o) /\ o.type = "Collect" /\ o.raw = NoTx /\ o.ext = NoTx /\ o.checked = "Unconfirmed"
  <2>1. o \in Order
    BY <1>1 DEF Fresh, Order, Status, OrderType
  <2>2. o.type = "Collect" /\ o.status = "Begin" /\ o.raw = NoTx /\ o.ext = NoTx
        /\ o.checked = "Unconfirmed"
    BY SMTT(30) DEF Fresh
  <2> HIDE DEF o
  <2> QED
    BY <2>1, <2>2, Zenon DEF OrderGood
<1>3. /\ order' = [i \in DOMAIN order \cup {id} |-> IF i = id THEN o ELSE order[i]]
      /\ UNCHANGED <<item, confirmBox, finishBox, coins, held, ast, chain>>
  BY Zenon DEF Deposit, NewOrderCollect, NewOrder, Fresh
<1> HIDE DEF o
<1>4. /\ OrdersGood' /\ Final
      /\ DOMAIN order' = DOMAIN order \cup {id}
      /\ order'[id] = o
      /\ \A i \in DOMAIN order : order'[i] = order[i]
  BY <1>a, <1>1, <1>2, <1>3, NewOrderStep, Zenon
<1>5. AssetsGood' /\ BoxesGood(confirmBox)' /\ BoxesGood(finishBox)' /\ SettledTxs' = SettledTxs
  BY <1>a, <1>3, SMTT(30) DEF AssetsGood, BoxesGood, BoxGood, AssetGood, SettledTxs
<1>6. ClosedByVote'
  BY <1>a, <1>2, <1>3, <1>4 DEF ClosedByVote, Confirmed
<1>7. QuietOrders /\ QuietAssets
  BY <1>a, <1>2, <1>3, <1>4, SMTT(30) DEF QuietOrders, SameCore, QuietAssets, SameAddress, AssetsGood
<1> QED
  BY <1>a, <1>4, <1>5, <1>6, <1>7, QuietStep DEF StepOK, CustodyInv

\* Withdrawal opens a withdrawal order.
LEMMA WithdrawalOK ==
    ASSUME CustodyInv, NEW id \in WithdrawalID, NEW u \in User, NEW s \in Symbol,
           NEW a \in Amount, NEW g \in Amount, Withdrawal(id, u, s, a, g)
    PROVE  StepOK
<1>a. /\ OrdersGood /\ AssetsGood /\ BoxesGood(confirmBox) /\ BoxesGood(finishBox)
      /\ OneReservation /\ ClosedByVote
  BY Zenon DEF CustodyInv
<1>1. id \in OrderID /\ u \in CU /\ a \in Nat /\ g \in Nat /\ id \notin DOMAIN order
  BY InitialAssumption, SMTT(30) DEF Withdrawal, CU
<1> DEFINE o == Fresh("Withdrawal", u, Outside, s, a, NoTx, g, "Unconfirmed")
<1>2. OrderGood(o) /\ o.type = "Withdrawal" /\ o.raw = NoTx /\ o.ext = NoTx
  <2>1. o \in Order
    BY <1>1 DEF Fresh, Order, Status, OrderType
  <2>2. o.type = "Withdrawal" /\ o.status = "Begin" /\ o.raw = NoTx /\ o.ext = NoTx
    BY SMTT(30) DEF Fresh
  <2> QED
    BY <2>1, <2>2, Zenon DEF OrderGood
<1>3. /\ order' = [i \in DOMAIN order \cup {id} |-> IF i = id THEN o ELSE order[i]]
      /\ UNCHANGED <<item, confirmBox, finishBox, ast, chain>>
  BY Zenon DEF Withdrawal, NewOrderWithdrawal, NewOrder, Fresh
<1> HIDE DEF o
<1>4. /\ OrdersGood' /\ Final
      /\ DOMAIN order' = DOMAIN order \cup {id}
      /\ order'[id] = o
      /\ \A i \in DOMAIN order : order'[i] = order[i]
  BY <1>a, <1>1, <1>2, <1>3, NewOrderStep, Zenon
<1>5. AssetsGood' /\ BoxesGood(confirmBox)' /\ BoxesGood(finishBox)' /\ SettledTxs' = SettledTxs
  BY <1>a, <1>3, SMTT(30) DEF AssetsGood, BoxesGood, BoxGood, AssetGood, SettledTxs
<1>6. ClosedByVote'
  BY <1>a, <1>2, <1>3, <1>4 DEF ClosedByVote, Confirmed
<1>7. QuietOrders /\ QuietAssets
  BY <1>a, <1>2, <1>3, <1>4 DEF QuietOrders, SameCore, QuietAssets, SameAddress, AssetsGood
<1> QED
  BY <1>a, <1>4, <1>5, <1>6, <1>7, QuietStep DEF StepOK, CustodyInv

\* ConfirmedDeposit decides a collect order when its box is confirmed, or only votes.
LEMMA ConfirmedDepositOK ==
    ASSUME CustodyInv, NEW n \in KeyNode, NEW id \in DOMAIN order, NEW valid \in BOOLEAN,
           ConfirmedDeposit(n, id, valid)
    PROVE  StepOK
<1>a. /\ OrdersGood /\ AssetsGood /\ BoxesGood(confirmBox) /\ BoxesGood(finishBox)
      /\ OneReservation /\ ClosedByVote
  BY Zenon DEF CustodyInv
<1> DEFINE v == TxVote(0, valid)
           o == order[id]
<1>1. /\ BoxesGood(confirmBox)'
      /\ \A i : Confirmed(confirmBox, i) => Confirmed(confirmBox, i)'
      /\ ConfirmedFirstTime(confirmBox, id, n, v) =>
            ~Confirmed(confirmBox, id) /\ Confirmed(confirmBox, id)'
  <2>1. confirmBox' = Voted(confirmBox, id, n, v)
    BY DEF ConfirmedDeposit
  <2> QED
    BY <1>a, <2>1, VoteConfirms
<1>2. OrderGood(o) /\ o.type = "Collect" /\ UNCHANGED finishBox
  BY <1>a, SMTT(30) DEF ConfirmedDeposit, IsOrder, OrdersGood
<1>3. BoxesKept /\ SettledTxs' = SettledTxs
  BY <1>a, <1>1, <1>2, UnchangedConfirmBox, UnchangedFinishBox DEF BoxesKept
<1>4. CASE ~ConfirmedFirstTime(confirmBox, id, n, v)
  <2>1. UNCHANGED <<order, ast>>
    BY <1>4 DEF ConfirmedDeposit
  <2> QED
    BY <1>3, <2>1, VotesOnlyOK
<1>5. CASE ConfirmedFirstTime(confirmBox, id, n, v)
  <2>1. o.checked = "Unconfirmed" /\ o.status = "Begin" /\ o.raw = NoTx /\ o.ext = NoTx
    BY <1>a, <1>1, <1>2, <1>5 DEF ClosedByVote, OrderGood
  <2>3. CASE valid
    <3> DEFINE fee == IF FeeCharged(o) > 0 THEN FeeCharged(o) ELSE o.costFee
               st == IF o.cu \in OpCU THEN "Finish" ELSE o.status
               p == [o EXCEPT !.checked = "Valid", !.costFee = fee, !.status = st]
    <3>1. confirmDepositOrder(id)
      BY <1>5, <2>3 DEF ConfirmedDeposit
    <3>2. order' = [order EXCEPT ![id] = p]
      BY <3>1, Zenon DEF confirmDepositOrder
    <3>3. fee \in Nat /\ st \in {"Begin", "Finish"}
      BY <1>2, <2>1, Tariffs DEF FeeCharged, OrderGood, Order
    <3> HIDE DEF fee, st
    <3>4. /\ p \in Order /\ p.type = o.type /\ p.cu = o.cu /\ p.other = o.other
          /\ p.raw = o.raw /\ p.ext = o.ext /\ p.checked = "Valid" /\ p.status = st
      BY <1>2, <3>3, ZenonT(40) DEF OrderGood, Order, Status
    <3> HIDE DEF p
    <3>5. OrderGood(p) /\ SameCore(o, p) /\ p.ext = NoTx
      BY SMTT(30), <1>2, <2>1, <3>3, <3>4 DEF OrderGood, SameCore
    <3>6. AssetsGood' /\ QuietAssets
      <4>1. ast' = [ast EXCEPT ![o.cu] = AddAssetCoins(ast[o.cu], Coin(o.symbol, o.amount))]
        BY SMTT(30), <3>1 DEF confirmDepositOrder
      <4>2. o.cu \in CU
        BY <1>2 DEF OrderGood, Order
      <4>3. SameAddress(ast[o.cu], AddAssetCoins(ast[o.cu], Coin(o.symbol, o.amount)))
        BY <1>a, <4>2, AssetOperations DEF AssetsGood
      <4> QED
        BY <1>a, <4>1, <4>2, <4>3 DEF AssetsGood, QuietAssets, SameAddress
    <3> QED
      BY <1>1, <1>3, <1>5, <2>1, <3>2, <3>5, <3>6, QuietChangeOK, Zenon DEF Terminated
  <2>4. CASE ~valid
    <3> DEFINE p == [o EXCEPT !.checked = "Invalid", !.status = "Finish"]
    <3>1. rejectDepositOrder(id)
      BY <1>5, <2>4 DEF ConfirmedDeposit
    <3>2. order' = [order EXCEPT ![id] = p] /\ UNCHANGED ast
      BY <3>1, Zenon DEF rejectDepositOrder
    <3>4. /\ p \in Order /\ p.type = o.type /\ p.cu = o.cu /\ p.other = o.other
          /\ p.raw = o.raw /\ p.ext = o.ext /\ p.checked = "Invalid" /\ p.status = "Finish"
      BY <1>2, Zenon DEF OrderGood, Order, Status
    <3> HIDE DEF p
    <3>5. OrderGood(p) /\ SameCore(o, p) /\ p.ext = NoTx
      BY <1>2, <2>1, <3>4 DEF OrderGood, SameCore
    <3>6. AssetsGood' /\ QuietAssets
      BY <1>a, <3>2 DEF AssetsGood, AssetGood, QuietAssets, SameAddress
    <3> QED
      BY <1>1, <1>3, <1>5, <2>1, <3>2, <3>5, <3>6, QuietChangeOK, Zenon DEF Terminated
  <2> QED
    BY <2>3, <2>4, SMTT(30)
<1> QED
  BY <1>4, <1>5

\* WithdrawalConfirm decides a withdrawal when its box is confirmed, or only votes.
LEMMA WithdrawalConfirmOK ==
    ASSUME CustodyInv, NEW n \in KeyNode, NEW id \in DOMAIN order, NEW valid \in BOOLEAN,
           WithdrawalConfirm(n, id, valid)
    PROVE  StepOK
<1>a. /\ OrdersGood /\ AssetsGood /\ BoxesGood(confirmBox) /\ BoxesGood(finishBox)
      /\ OneReservation /\ ClosedByVote
  BY Zenon DEF CustodyInv
<1> DEFINE v == TxVote(0, valid)
           o == order[id]
<1>1. /\ OrderGood(o) /\ o.type = "Withdrawal" /\ o.status = "Begin"
      /\ UNCHANGED <<finishBox, ast>> /\ confirmBox' = Voted(confirmBox, id, n, v)
  BY <1>a, SMTT(30) DEF WithdrawalConfirm, IsOrder, OrdersGood
<1>2. BoxesKept /\ SettledTxs' = SettledTxs
  <2>1. /\ BoxesGood(confirmBox)'
        /\ \A i : Confirmed(confirmBox, i) => Confirmed(confirmBox, i)'
    BY <1>a, <1>1, VoteConfirms
  <2> QED
    BY <1>a, <1>1, <2>1, UnchangedConfirmBox, UnchangedFinishBox, SMTT(30) DEF BoxesKept
<1>3. AssetsGood' /\ QuietAssets
  BY <1>a, <1>1 DEF AssetsGood, AssetGood, QuietAssets, SameAddress
<1>4. CASE UNCHANGED order
  BY <1>1, <1>2, <1>4, VotesOnlyOK
<1>5. CASE order' = [order EXCEPT ![id].checked = "Valid"]
  <2> DEFINE p == [o EXCEPT !.checked = "Valid"]
  <2>1. /\ p \in Order /\ p.type = o.type /\ p.cu = o.cu /\ p.other = o.other
        /\ p.raw = o.raw /\ p.ext = o.ext /\ p.status = o.status
    BY <1>1 DEF OrderGood, Order, Status
  <2>2. order' = [order EXCEPT ![id] = p]
    BY SMTT(30), <1>5
  <2> HIDE DEF p
  <2>3. OrderGood(p) /\ SameCore(o, p) /\ p.type = "Withdrawal" /\ p.status = "Begin"
    BY <1>1, <2>1 DEF OrderGood, SameCore
  <2> QED
    BY <1>1, <1>2, <1>3, <2>2, <2>3, QuietChangeOK, Zenon DEF Terminated
<1>6. CASE order' = [order EXCEPT ![id].checked = "Invalid", ![id].status = "Cancel"]
  <2> DEFINE p == [o EXCEPT !.checked = "Invalid", !.status = "Cancel"]
  <2>1. /\ p \in Order /\ p.type = o.type /\ p.cu = o.cu /\ p.other = o.other
        /\ p.raw = o.raw /\ p.ext = o.ext /\ p.status = "Cancel"
    BY <1>1, Zenon DEF OrderGood, Order, Status
  <2>2. order' = [order EXCEPT ![id] = p]
    BY <1>6, Zenon
  <2> HIDE DEF p
  <2>3. OrderGood(p) /\ SameCore(o, p) /\ p.type = "Withdrawal" /\ p.status = "Cancel"
    BY <1>1, <2>1 DEF OrderGood, SameCore
  <2> QED
    BY <1>1, <1>2, <1>3, <2>2, <2>3, QuietChangeOK, Zenon DEF Terminated
<1> QED
  BY <1>4, <1>5, <1>6 DEF WithdrawalConfirm

\* CancelWithdrawal ends a withdrawal that has not been confirmed.
LEMMA CancelWithdrawalOK ==
    ASSUME CustodyInv, NEW id \in DOMAIN order, CancelWithdrawal(id)
    PROVE  StepOK
<1>a. /\ OrdersGood /\ AssetsGood /\ BoxesGood(confirmBox) /\ BoxesGood(finishBox)
      /\ OneReservation /\ ClosedByVote
  BY Zenon DEF CustodyInv
<1> DEFINE o == order[id]
           p == [o EXCEPT !.status = "Cancel"]
<1>1. /\ OrderGood(o) /\ o.type = "Withdrawal" /\ o.status = "Begin"
      /\ UNCHANGED <<confirmBox, finishBox, ast>> /\ order' = [order EXCEPT ![id] = p]
  BY <1>a DEF CancelWithdrawal, IsOrder, OrdersGood
<1>2. BoxesKept /\ SettledTxs' = SettledTxs
  BY <1>a, <1>1, UnchangedConfirmBox, UnchangedFinishBox DEF BoxesKept
<1>3. AssetsGood' /\ QuietAssets
  BY <1>a, <1>1 DEF AssetsGood, AssetGood, QuietAssets, SameAddress
<1>4. /\ p \in Order /\ p.type = o.type /\ p.cu = o.cu /\ p.other = o.other
      /\ p.raw = o.raw /\ p.ext = o.ext /\ p.status = "Cancel"
  BY <1>1 DEF OrderGood, Order, Status
<1> HIDE DEF p
<1>5. OrderGood(p) /\ SameCore(o, p) /\ p.type = "Withdrawal" /\ p.status = "Cancel"
  BY <1>1, <1>4 DEF OrderGood, SameCore
<1> QED
  BY <1>1, <1>2, <1>3, <1>5, QuietChangeOK, Zenon DEF Terminated


-----------------------------------------------------------------------------
(* The handlers that reserve an address, issue a transaction from it or    *)
(* record its signature.                                                   *)

\* A transaction is not the absent transaction.
LEMMA TxIsSome == \A t \in Tx : t # NoTx
<1>1. \A t \in Tx : "from" \in DOMAIN t
  BY DEF Tx
<1>2. "from" \notin DOMAIN NoTx
  BY DEF NoTx
<1> QED
  BY <1>1, <1>2

\* The transactions that the WaitSign handlers build.
LEMMA BuiltTx ==
    \A f \in CU, n \in Nat, s \in Symbol, t \in CU \cup {Outside}, a \in Nat, g \in Nat :
        LET tx == [from |-> f, nonce |-> n, symbol |-> s, to |-> t, amount |-> a, fee |-> g]
        IN  tx \in Tx /\ tx # NoTx /\ tx.from = f /\ tx.nonce = n
<1> SUFFICES ASSUME NEW f \in CU, NEW n \in Nat, NEW s \in Symbol, NEW t \in CU \cup {Outside},
                    NEW a \in Nat, NEW g \in Nat
             PROVE  LET tx == [from |-> f, nonce |-> n, symbol |-> s, to |-> t, amount |-> a, fee |-> g]
                    IN  tx \in Tx /\ tx # NoTx /\ tx.from = f /\ tx.nonce = n
  OBVIOUS
<1> DEFINE tx == [from |-> f, nonce |-> n, symbol |-> s, to |-> t, amount |-> a, fee |-> g]
<1>1. tx \in Tx /\ tx.from = f /\ tx.nonce = n
  BY DEF Tx
<1> QED
  BY <1>1, TxIsSome, Zenon

\* The asset of a CU that puts coins c on hold and is locked.
LEMMA LockGood ==
    ASSUME NEW a, AssetGood(a), NEW c
    PROVE  LET b == Lock(HoldAssetCoins(a, c))
           IN  AssetGood(b) /\ ~b.sendTx /\ b.nonce = a.nonce
<1>1. SameAddress(a, HoldAssetCoins(a, c))
  BY AssetOperations
<1> QED
  BY <1>1, AssetOperations DEF SameAddress

\* CollectWaitSign issues a transaction from the address that the deposits are at.
LEMMA CollectWaitSignOK ==
    ASSUME CustodyInv, NEW op \in OpCU, NEW ids \in SUBSET DOMAIN order, NEW amount \in CollectAmount,
           NEW fee \in Fees, CollectWaitSign(op, ids, amount, fee)
    PROVE  StepOK
<1>a. /\ OrdersGood /\ AssetsGood /\ BoxesGood(confirmBox) /\ BoxesGood(finishBox)
      /\ OneReservation /\ ClosedByVote
  BY Zenon DEF CustodyInv
<1> DEFINE one == order[CHOOSE i \in ids : TRUE]
           c == one.cu
           k == Coin(one.symbol, Total(ids))
           tx == [from |-> c, nonce |-> ast[c].nonce, symbol |-> one.symbol,
                  to |-> op, amount |-> amount, fee |-> fee]
           p(i) == [order[i] EXCEPT !.status = "WaitSign", !.other = op, !.raw = tx]
<1>1. /\ ids # {} /\ \A i, j \in ids : order[i].cu = order[j].cu
      /\ \A i \in ids : /\ order[i].type = "Collect" /\ order[i].checked # "Unconfirmed"
                        /\ order[i].status = "Begin" /\ OrderGood(order[i])
                        /\ order[i].raw = NoTx /\ order[i].ext = NoTx /\ order[i].cu \in CU
                        /\ order[i].symbol \in Symbol
  <2>1. /\ ids # {} /\ \A i, j \in ids : order[i].cu = order[j].cu
        /\ \A i \in ids : /\ order[i].type = "Collect" /\ order[i].checked # "Unconfirmed"
                          /\ order[i].status = "Begin"
    BY ZenonT(40) DEF CollectWaitSign, checkCollectOrders
  <2>2. \A i \in ids : OrderGood(order[i])
    BY <1>a DEF OrdersGood
  <2>3. \A i \in ids : order[i].cu \in CU /\ order[i].symbol \in Symbol
    BY <2>2, SMTT(30) DEF OrderGood, Order
  <2>4. \A i \in ids : order[i].raw = NoTx /\ order[i].ext = NoTx
    BY <2>1, <2>2, SMTT(30) DEF OrderGood
  <2> QED
    BY <2>1, <2>2, <2>3, <2>4, SMTT(30)
<1>2. /\ IsEnabledSendTx(ast[c]) /\ ast' = [ast EXCEPT ![c] = Lock(HoldAssetCoins(@, k))]
      /\ order' = [i \in DOMAIN order |-> IF i \in ids THEN p(i) ELSE order[i]]
      /\ UNCHANGED <<confirmBox, finishBox>>
  BY Zenon DEF CollectWaitSign, CollectsWaitSign
<1>3. c \in CU /\ one.symbol \in Symbol /\ \A i \in ids : order[i].cu = c
  BY <1>1, SMTT(30)
<1>4. tx \in Tx /\ tx # NoTx /\ tx.from = c /\ tx.nonce = ast[c].nonce
  <2>1. ast[c].nonce \in Nat /\ op \in CU \cup {Outside} /\ amount \in Nat /\ fee \in Nat
    BY <1>a, <1>3, FeesAreNat, InitialAssumption, Zenon DEF AssetsGood, AssetGood, CU
  <2>2. c \in CU /\ one.symbol \in Symbol
    BY <1>3, Zenon
  <2> HIDE DEF one, c
  <2> QED
    BY <2>1, <2>2, BuiltTx, SMTT(30)
<1>5. Locked(c) /\ AssetsGood'
  <2> HIDE DEF c, k
  <2>1. /\ AssetGood(Lock(HoldAssetCoins(ast[c], k))) /\ ~Lock(HoldAssetCoins(ast[c], k)).sendTx
        /\ Lock(HoldAssetCoins(ast[c], k)).nonce = ast[c].nonce
    BY <1>a, <1>3, LockGood, SMTT(30) DEF AssetsGood
  <2>2. ast[c].sendTx
    BY <1>2, Zenon DEF IsEnabledSendTx
  <2> QED
    BY <1>a, <1>2, <1>3, <2>1, <2>2, Zenon DEF Locked, OthersQuiet, SameAddress, AssetsGood
<1> HIDE DEF tx, c
<1>6. \A i \in ids : /\ OrderGood(p(i)) /\ p(i).type = "Collect" /\ p(i).raw = tx
                     /\ p(i).status = "WaitSign" /\ p(i).ext = NoTx
  <2> SUFFICES ASSUME NEW i \in ids
               PROVE  /\ OrderGood(p(i)) /\ p(i).type = "Collect" /\ p(i).raw = tx
                      /\ p(i).status = "WaitSign" /\ p(i).ext = NoTx
    BY ZenonT(40)
  <2> DEFINE o == order[i]
             q == p(i)
  <2>1. o \in Order
    BY <1>1 DEF OrderGood
  <2>2. /\ q \in Order /\ q.type = o.type /\ q.cu = o.cu /\ q.checked = o.checked
        /\ q.raw = tx /\ q.ext = o.ext /\ q.status = "WaitSign"
    BY <2>1, <1>4, ZenonT(40) DEF Order, Status, CU
  <2>3. o.type = "Collect" /\ o.checked # "Unconfirmed" /\ o.ext = NoTx /\ o.cu = c
    BY SMTT(30), <1>1, <1>3
  <2> HIDE DEF q, o
  <2>4. OrderGood(q)
    BY SMTT(30), <1>4, <2>2, <2>3 DEF OrderGood
  <2> QED
    BY <2>2, <2>3, <2>4, SMTT(30) DEF q
<1> HIDE DEF p
<1>7. OrdersGood' /\ Final
  <2>1. \A i \in ids : OrderGood(p(i)) /\ ~Terminated(order[i].status)
    BY <1>1, <1>6, Zenon DEF Terminated
  <2>2. /\ DOMAIN order' = DOMAIN order /\ order' = [i \in DOMAIN order |-> order'[i]]
        /\ \A i \in DOMAIN order : order'[i] = IF i \in ids THEN p(i) ELSE order[i]
    BY <1>2, Zenon
  <2> QED
    BY <1>a, <2>1, <2>2, ChangedOrders, Zenon
<1>8. BoxesKept /\ SettledTxs' = SettledTxs
  BY <1>a, <1>2, UnchangedConfirmBox, UnchangedFinishBox, SMTT(30) DEF BoxesKept
<1>9. ClosedByVote'
  BY <1>a, <1>1, <1>2, <1>6, <1>8, ZenonT(40) DEF ClosedByVote, BoxesKept
<1>10. [Addresses!Next]_(Addresses!addressVars) /\ OneReservation'
  <2>1. /\ DOMAIN order' = DOMAIN order
        /\ \A i \in ids : /\ order[i].raw = NoTx /\ order'[i].raw = tx
                          /\ order[i].type # "SysTransfer" /\ order'[i].type = order[i].type
        /\ \A i \in DOMAIN order \ ids : order'[i] = order[i]
    BY Zenon, <1>1, <1>2, <1>6
  <2> QED
    BY <1>a, <1>1, <1>3, <1>4, <1>5, <1>8, <2>1, IssueStep, ZenonT(40)
<1> QED
  BY <1>a, <1>5, <1>7, <1>8, <1>9, <1>10, SMTT(30) DEF StepOK, BoxesKept, CustodyInv

\* WithdrawalWaitSign issues a transaction from an operation CU.
LEMMA WithdrawalWaitSignOK ==
    ASSUME CustodyInv, NEW op \in OpCU, NEW id \in DOMAIN order, NEW fee \in Fees,
           WithdrawalWaitSign(op, id, fee)
    PROVE  StepOK
<1>a. /\ OrdersGood /\ AssetsGood /\ BoxesGood(confirmBox) /\ BoxesGood(finishBox)
      /\ OneReservation /\ ClosedByVote
  BY Zenon DEF CustodyInv
<1> DEFINE o == order[id]
           k == Plus(Coin(o.symbol, o.amount), Coin(Main, fee))
           tx == [from |-> op, nonce |-> ast[op].nonce, symbol |-> o.symbol,
                  to |-> Outside, amount |-> o.amount, fee |-> fee]
           p == [o EXCEPT !.other = op, !.costFee = fee, !.status = "WaitSign", !.raw = tx]
<1>1. /\ o.type = "Withdrawal" /\ o.status = "Begin" /\ OrderGood(o) /\ o \in Order
      /\ o.raw = NoTx /\ o.ext = NoTx
  BY <1>a DEF WithdrawalWaitSign, checkWithdrawalOrder, IsOrder, Match, OrdersGood, OrderGood
<1>2. /\ ast[op].sendTx /\ ast' = [ast EXCEPT ![op] = Lock(HoldAssetCoins(@, k))]
      /\ order' = [order EXCEPT ![id] = p] /\ UNCHANGED <<confirmBox, finishBox>>
  BY Zenon DEF WithdrawalWaitSign, WithdrawalsWaitSign, Payment, IsEnabledSendTx
<1>3. op \in CU /\ fee \in Nat /\ ast[op].nonce \in Nat
  BY <1>a, FeesAreNat DEF CU, AssetsGood, AssetGood
<1>4. tx \in Tx /\ tx # NoTx /\ tx.from = op /\ tx.nonce = ast[op].nonce
  <2>1. o.symbol \in Symbol /\ o.amount \in Nat
    BY <1>1, Zenon DEF Order
  <2> HIDE DEF o
  <2> QED
    BY <1>3, <2>1, BuiltTx, SMTT(30)
<1>5. Locked(op) /\ AssetsGood'
  <2> HIDE DEF k
  <2>1. /\ AssetGood(Lock(HoldAssetCoins(ast[op], k))) /\ ~Lock(HoldAssetCoins(ast[op], k)).sendTx
        /\ Lock(HoldAssetCoins(ast[op], k)).nonce = ast[op].nonce
    BY <1>a, <1>3, LockGood DEF AssetsGood
  <2> QED
    BY <1>a, SMTT(30), <1>2, <1>3, <2>1 DEF Locked, OthersQuiet, SameAddress, AssetsGood
<1> HIDE DEF tx
<1>6. /\ p \in Order /\ p.type = o.type /\ p.other = op
      /\ p.raw = tx /\ p.ext = o.ext /\ p.status = "WaitSign"
  BY <1>1, <1>3, <1>4, Zenon DEF Order, Status
<1> HIDE DEF p
<1>7. OrderGood(p)
  BY Zenon, <1>1, <1>4, <1>6 DEF OrderGood
<1>8. OrdersGood' /\ Final
  BY <1>a, <1>1, <1>2, <1>7, ChangedOrder, Zenon DEF Terminated
<1>9. DOMAIN order' = DOMAIN order /\ order'[id] = p
      /\ \A i \in DOMAIN order \ {id} : order'[i] = order[i]
  BY <1>a, <1>2 DEF OrdersGood
<1>10. BoxesKept /\ SettledTxs' = SettledTxs
  BY <1>a, SMTT(30), <1>2, UnchangedConfirmBox, UnchangedFinishBox DEF BoxesKept
<1>11. ClosedByVote'
  BY <1>a, ZenonT(40), <1>1, <1>6, <1>9, <1>10 DEF ClosedByVote, BoxesKept
<1>12. [Addresses!Next]_(Addresses!addressVars) /\ OneReservation'
  <2> DEFINE ids == {id}
  <2>1. /\ ids \in SUBSET DOMAIN order /\ ids # {}
        /\ \A i \in ids : /\ order[i].raw = NoTx /\ order'[i].raw = tx
                          /\ order[i].type # "SysTransfer" /\ order'[i].type = order[i].type
        /\ \A i \in DOMAIN order \ ids : order'[i] = order[i]
    BY <1>1, <1>6, <1>9
  <2> HIDE DEF ids
  <2> QED
    BY <1>a, <1>3, <1>4, <1>5, <1>9, <1>10, <2>1, IssueStep, SMTT(30)
<1> QED
  BY <1>a, <1>5, <1>8, <1>10, <1>11, <1>12, SMTT(30) DEF StepOK, BoxesKept, CustodyInv

\* SysTransferWaitSign issues the transaction that the address is reserved for.
LEMMA SysTransferWaitSignOK ==
    ASSUME CustodyInv, NEW id \in DOMAIN order, NEW fee \in Fees, SysTransferWaitSign(id, fee)
    PROVE  StepOK
<1>a. /\ OrdersGood /\ AssetsGood /\ BoxesGood(confirmBox) /\ BoxesGood(finishBox)
      /\ OneReservation /\ ClosedByVote
  BY Zenon DEF CustodyInv
<1> DEFINE o == order[id]
           op == o.cu
           k == Coin(Main, fee)
           tx == [from |-> op, nonce |-> ast[op].nonce, symbol |-> Main,
                  to |-> o.other, amount |-> o.amount, fee |-> fee]
           p == [o EXCEPT !.costFee = fee, !.status = "WaitSign", !.raw = tx]
<1>1. /\ o.type = "SysTransfer" /\ o.status = "Begin" /\ OrderGood(o) /\ o \in Order
      /\ o.raw = NoTx /\ o.ext = NoTx
  BY <1>a DEF SysTransferWaitSign, checkSysTransferOrder, IsOrder, Match, OrdersGood, OrderGood
<1>2. /\ ast' = [ast EXCEPT ![op] = HoldAssetCoins(@, k)]
      /\ order' = [order EXCEPT ![id] = p] /\ UNCHANGED <<confirmBox, finishBox>>
  BY ZenonT(40) DEF SysTransferWaitSign
<1>3. op \in CU /\ fee \in Nat /\ ast[op].nonce \in Nat /\ Main \in Symbol
  BY <1>a, SMTT(30), <1>1, FeesAreNat, CustodyAssumption DEF Order, AssetsGood, AssetGood
<1>4. tx \in Tx /\ tx # NoTx /\ tx.from = op /\ tx.nonce = ast[op].nonce
  <2>1. o.other \in CU \cup {Outside} /\ o.amount \in Nat
    BY <1>1, Zenon DEF Order
  <2> HIDE DEF o, op
  <2> QED
    BY <1>3, <2>1, BuiltTx, SMTT(30)
<1>5. QuietAssets /\ AssetsGood'
  <2> HIDE DEF k
  <2>1. SameAddress(ast[op], HoldAssetCoins(ast[op], k))
    BY <1>a, <1>3, AssetOperations DEF AssetsGood
  <2> QED
    BY <1>a, <1>2, <1>3, <2>1 DEF QuietAssets, SameAddress, AssetsGood
<1> HIDE DEF tx
<1>6. /\ p \in Order /\ p.type = o.type /\ p.cu = o.cu /\ p.other = o.other
      /\ p.raw = tx /\ p.ext = o.ext /\ p.status = "WaitSign"
  BY <1>1, <1>3, <1>4, Zenon DEF Order, Status
<1> HIDE DEF p
<1>7. OrderGood(p)
  BY Zenon, <1>1, <1>4, <1>6 DEF OrderGood
<1>8. OrdersGood' /\ Final
  BY <1>a, <1>1, <1>2, <1>7, ChangedOrder, ZenonT(40) DEF Terminated
<1>9. DOMAIN order' = DOMAIN order /\ order'[id] = p
      /\ \A i \in DOMAIN order \ {id} : order'[i] = order[i]
  BY <1>a, <1>2 DEF OrdersGood
<1>10. BoxesKept /\ SettledTxs' = SettledTxs
  BY <1>a, SMTT(30), <1>2, UnchangedConfirmBox, UnchangedFinishBox DEF BoxesKept
<1>11. ClosedByVote'
  BY <1>a, SMTT(30), <1>1, <1>6, <1>9, <1>10 DEF ClosedByVote, BoxesKept
<1>12. [Addresses!Next]_(Addresses!addressVars) /\ OneReservation'
  <2> HIDE DEF op
  <2>1. order[id].cu = op
    BY DEF op
  <2>2. order[id].type = "SysTransfer" /\ order[id].status = "Begin" /\ order[id].cu = op /\ order[id].raw = NoTx
    BY <1>1, <2>1
  <2>3. order'[id].raw = tx /\ order'[id].status # "Begin"
    BY <1>6, <1>9
  <2> QED
    BY <1>3, <1>4, <1>5, <1>9, <1>10, <2>2, <2>3, IssueReservedStep, Zenon
<1> QED
  BY <1>a, SMTT(30), <1>5, <1>8, <1>10, <1>11, <1>12 DEF StepOK, BoxesKept, CustodyInv

-----------------------------------------------------------------------------
(* The fee of a waiting deposit, the only change to an order that another  *)
(* order's handler makes.                                                  *)

\* A set of natural numbers that is not empty has its minimum as a member.
LEMMA MinIn ==
    ASSUME NEW S \in SUBSET Nat, S # {}
    PROVE  Min(S) \in S
<1> DEFINE R == OpToRel(<, Nat)
<1>1. IsWellFoundedOn(R, Nat)
  BY NatLessThanWellFounded, Zenon
<1>2. \A x, y \in Nat : x < y => <<x, y>> \in R
  BY DEF OpToRel
<1> HIDE DEF R
<1>3. PICK x \in S : \A y \in S : <<y, x>> \notin R
  BY <1>1, WFMin, Zenon
<1>4. \A y \in S : x =< y
  <2> SUFFICES ASSUME NEW y \in S
               PROVE  x =< y
    OBVIOUS
  <2>1. x \in Nat /\ y \in Nat
    OBVIOUS
  <2>2. ~(y < x)
    BY <1>2, <1>3, <2>1, Zenon
  <2> QED
    BY <2>1, <2>2
<1> QED
  BY <1>4, Zenon DEF Min

\* The first of the waiting collect orders is a collect order in status Begin.
LEMMA FirstWaiting ==
    ASSUME OrdersGood, NEW c, NEW s, WaitCollectOrderIDs(c, s) # {}
    PROVE  LET m == Min(WaitCollectOrderIDs(c, s))
           IN  m \in DOMAIN order /\ order[m].type = "Collect" /\ order[m].status = "Begin"
<1> DEFINE ids == WaitCollectOrderIDs(c, s)
<1>1. \A i \in ids : i \in DOMAIN order /\ order[i].type = "Collect" /\ order[i].status = "Begin"
  BY DEF WaitCollectOrderIDs, ProcessOrders
<1>2. ids \in SUBSET Nat
  BY <1>1, CustodyAssumption DEF OrdersGood
<1> HIDE DEF ids
<1>3. ids # {}
  BY DEF ids
<1>4. Min(ids) \in ids
  BY <1>2, <1>3, MinIn
<1>5. Min(ids) \in DOMAIN order /\ order[Min(ids)].type = "Collect" /\ order[Min(ids)].status = "Begin"
  BY <1>1, <1>4
<1> QED
  BY SMTT(30), <1>5 DEF ids

\* p is order o, or the waiting deposit o with another fee.
SameButFee(o, p) ==
    \/ p = o
    \/ /\ o.type = "Collect" /\ o.status = "Begin"
       /\ \E f \in Nat : p = [o EXCEPT !.costFee = f]

\* A good order stays good when only its fee changes.
LEMMA SameButFeeGood ==
    ASSUME NEW o, OrderGood(o), NEW p, SameButFee(o, p)
    PROVE  /\ OrderGood(p) /\ SameCore(o, p) /\ (Terminated(o.status) => p = o)
           /\ p.type = o.type /\ p.checked = o.checked /\ p.status = o.status /\ p.ext = o.ext
<1>1. CASE p = o
  BY <1>1 DEF SameCore
<1>2. ASSUME o.type = "Collect", o.status = "Begin", NEW f \in Nat, p = [o EXCEPT !.costFee = f]
      PROVE  /\ OrderGood(p) /\ SameCore(o, p) /\ (Terminated(o.status) => p = o)
             /\ p.type = o.type /\ p.checked = o.checked /\ p.status = o.status /\ p.ext = o.ext
  <2>1. /\ p \in Order /\ p.type = o.type /\ p.cu = o.cu /\ p.other = o.other /\ p.checked = o.checked
        /\ p.raw = o.raw /\ p.ext = o.ext /\ p.status = o.status
    BY <1>2 DEF OrderGood, Order
  <2> QED
    BY <1>2, <2>1 DEF OrderGood, SameCore, Terminated
<1> QED
  BY <1>1, <1>2 DEF SameButFee

\* SysTransfer stores a new order, and the fee in the first of the waiting deposits.
LEMMA CreditedOrders ==
    ASSUME OrdersGood, NEW id, id \notin DOMAIN order, NEW o, NEW to, NEW s \in Symbol, NEW orders,
           orders = [i \in DOMAIN order \cup {id} |-> IF i = id THEN o ELSE order[i]],
           CreditUnCollected(orders, to, s)
    PROVE  /\ DOMAIN order' = DOMAIN order \cup {id} /\ order' = [i \in DOMAIN order' |-> order'[i]]
           /\ order'[id] = o /\ \A i \in DOMAIN order : SameButFee(order[i], order'[i])
<1>1. CASE order' = orders
  BY <1>1 DEF SameButFee
<1>2. CASE order' # orders
  <2> DEFINE m == Min(WaitCollectOrderIDs(to, s))
             f == CollectFee[s]
  <2>1. WaitCollectOrderIDs(to, s) # {} /\ order' = [orders EXCEPT ![m].costFee = f]
    BY <1>2, Zenon DEF CreditUnCollected
  <2>2. m \in DOMAIN order /\ order[m].type = "Collect" /\ order[m].status = "Begin"
    BY <2>1, FirstWaiting
  <2>3. f \in Nat
    BY Tariffs
  <2> HIDE DEF m, f
  <2>4. order' = [i \in DOMAIN order \cup {id} |->
                      IF i = id THEN o ELSE IF i = m THEN [order[m] EXCEPT !.costFee = f] ELSE order[i]]
    BY <2>1, <2>2, Zenon
  <2> QED
    BY <2>2, <2>3, <2>4 DEF SameButFee
<1> QED
  BY <1>1, <1>2

\* SysTransferFinish stores the finished order p, and what the first of the
\* waiting deposits gets back.
LEMMA RefundedOrders ==
    ASSUME OrdersGood, NEW id \in DOMAIN order, order[id].type = "SysTransfer", OrderGood(order[id]),
           NEW costFee \in Nat, NEW p, NEW finished,
           finished = [i \in DOMAIN order |-> IF i = id THEN p ELSE order[i]],
           RefundCollectFee(finished, order[id], costFee)
    PROVE  /\ DOMAIN order' = DOMAIN order /\ order' = [i \in DOMAIN order' |-> order'[i]]
           /\ order'[id] = p /\ \A i \in DOMAIN order \ {id} : SameButFee(order[i], order'[i])
<1>1. CASE order' = finished
  BY <1>1 DEF SameButFee
<1>2. CASE order' # finished
  <2> DEFINE o == order[id]
             m == Min(WaitCollectOrderIDs(o.other, o.symbol))
             f == costFee + o.amount
  <2>1. WaitCollectOrderIDs(o.other, o.symbol) # {} /\ order' = [finished EXCEPT ![m].costFee = f]
    BY <1>2 DEF RefundCollectFee
  <2>2. m \in DOMAIN order /\ order[m].type = "Collect" /\ order[m].status = "Begin"
    BY <2>1, FirstWaiting
  <2>3. f \in Nat
    <3>1. o.amount \in Nat
      BY DEF OrderGood, Order
    <3> QED
      BY <3>1
  <2>4. m # id
    BY <2>2, Zenon
  <2> HIDE DEF m, f
  <2>5. order' = [i \in DOMAIN order |->
            IF i = id THEN p ELSE IF i = m THEN [order[m] EXCEPT !.costFee = f] ELSE order[i]]
    BY <2>1, <2>2, <2>4, SMTT(30)
  <2> QED
    BY <2>2, <2>3, <2>4, <2>5, Zenon DEF SameButFee
<1> QED
  BY <1>1, <1>2

\* SysTransfer reserves the address of the operation CU.
LEMMA SysTransferOK ==
    ASSUME CustodyInv, Addresses!AddressInv, NEW id \in SysTransferID, NEW op \in OpCU, NEW to \in CU,
           NEW s \in Symbol, op # to \/ SelfTransfers, SysTransfer(id, op, to, s)
    PROVE  StepOK
<1>a. /\ OrdersGood /\ AssetsGood /\ BoxesGood(confirmBox) /\ BoxesGood(finishBox)
      /\ OneReservation /\ ClosedByVote
  BY Zenon DEF CustodyInv
<1> DEFINE amount == IF to \in OpCU THEN OpCUSysTransferAmount[s] ELSE SysTransferAmount[s]
           k == Coin(Main, amount)
           o == Fresh("SysTransfer", op, to, s, amount, NoTx, 0, "Valid")
           orders == [i \in DOMAIN order \cup {id} |-> IF i = id THEN o ELSE order[i]]
<1>1. /\ id \in OrderID /\ id \notin DOMAIN order /\ op \in CU /\ amount \in Nat
      /\ to \in CU \cup {Outside}
  BY InitialAssumption, Tariffs, ZenonT(40) DEF SysTransfer, CU
<1>2. /\ ast[op].sendTx /\ ast' = [ast EXCEPT ![op] = Lock(HoldAssetCoins(@, k))]
      /\ UNCHANGED <<confirmBox, finishBox>> /\ CreditUnCollected(orders, to, s)
  BY ZenonT(40) DEF SysTransfer, IsEnabledSendTx, NewOrderSysTransfer, NewOrder, Fresh
<1> HIDE DEF amount, k
<1>3. OrderGood(o) /\ o.type = "SysTransfer" /\ o.status = "Begin" /\ o.cu = op /\ o.raw = NoTx
  <2>1. o \in Order
    BY <1>1, SMTT(30) DEF Fresh, Order, Status, OrderType
  <2>2. /\ o.type = "SysTransfer" /\ o.status = "Begin" /\ o.cu = op /\ o.other = to
        /\ o.raw = NoTx /\ o.ext = NoTx
    BY DEF Fresh
  <2> QED
    BY <2>1, <2>2, Zenon DEF OrderGood
<1> HIDE DEF o
<1>4. /\ DOMAIN order' = DOMAIN order \cup {id} /\ order' = [i \in DOMAIN order' |-> order'[i]]
      /\ order'[id] = o /\ \A i \in DOMAIN order : SameButFee(order[i], order'[i])
  <2>1. orders = [i \in DOMAIN order \cup {id} |-> IF i = id THEN o ELSE order[i]]
    OBVIOUS
  <2> HIDE DEF orders
  <2> QED
    BY <1>a, <1>1, <1>2, <2>1, CreditedOrders, Zenon
<1>5. \A i \in DOMAIN order :
        /\ OrderGood(order'[i]) /\ SameCore(order[i], order'[i])
        /\ Terminated(order[i].status) => order'[i] = order[i]
        /\ order'[i].type = order[i].type /\ order'[i].checked = order[i].checked
        /\ order'[i].status = order[i].status /\ order'[i].ext = order[i].ext
  BY <1>a, <1>4, SameButFeeGood DEF OrdersGood
<1>6. OrdersGood' /\ Final
  BY <1>a, <1>1, <1>3, <1>4, <1>5, SMTT(30) DEF OrdersGood, Final
<1>7. BoxesKept /\ SettledTxs' = SettledTxs
  BY <1>a, <1>2, UnchangedConfirmBox, UnchangedFinishBox, SMTT(30) DEF BoxesKept
<1>8. ClosedByVote'
  BY <1>a, <1>3, <1>4, <1>5, <1>7, SMTT(30) DEF ClosedByVote, BoxesKept
<1>9. Locked(op) /\ AssetsGood'
  <2>1. /\ AssetGood(Lock(HoldAssetCoins(ast[op], k))) /\ ~Lock(HoldAssetCoins(ast[op], k)).sendTx
        /\ Lock(HoldAssetCoins(ast[op], k)).nonce = ast[op].nonce
    BY <1>a, <1>1, LockGood, SMTT(30) DEF AssetsGood
  <2> QED
    BY <1>a, <1>1, <1>2, <2>1, SMTT(30) DEF Locked, OthersQuiet, SameAddress, AssetsGood
<1>10. [Addresses!Next]_(Addresses!addressVars) /\ OneReservation'
  BY <1>a, <1>1, <1>3, <1>4, <1>5, <1>7, <1>9, ReserveStep, SMTT(30)
<1> QED
  BY <1>a, <1>6, <1>7, <1>8, <1>9, <1>10, SMTT(30) DEF StepOK, BoxesKept, CustodyInv

-----------------------------------------------------------------------------
(* Signing.                                                                *)

\* The order with the signed transaction.
Signed(o) == [o EXCEPT !.status = "SignFinish", !.ext = o.raw]

\* Signing keeps an order good, and what AddressLock sees of it.
LEMMA SignedGood ==
    ASSUME NEW o, OrderGood(o), o.status = "WaitSign"
    PROVE  /\ OrderGood(Signed(o)) /\ SameCore(o, Signed(o)) /\ Signed(o).status = "SignFinish"
           /\ Signed(o).type = o.type /\ Signed(o).checked = o.checked
<1> DEFINE p == Signed(o)
<1>1. o.raw \in Tx \cup {NoTx}
  BY DEF OrderGood, Order
<1>2. /\ p \in Order /\ p.type = o.type /\ p.cu = o.cu /\ p.other = o.other /\ p.checked = o.checked
      /\ p.raw = o.raw /\ p.ext = o.raw /\ p.status = "SignFinish"
  BY <1>1, Zenon DEF OrderGood, Order, Status, Signed
<1> HIDE DEF p
<1>3. OrderGood(p) /\ SameCore(o, p)
  BY SMTT(30), <1>2 DEF OrderGood, SameCore
<1> QED
  BY <1>2, <1>3 DEF p

\* The orders ids, which wait for it, are signed.
LEMMA SignFinishOK ==
    ASSUME CustodyInv, NEW ids \in SUBSET DOMAIN order, \A i \in ids : order[i].status = "WaitSign",
           order' = [i \in DOMAIN order |-> IF i \in ids THEN Signed(order[i]) ELSE order[i]],
           UNCHANGED <<confirmBox, finishBox, ast>>
    PROVE  StepOK
<1>a. /\ OrdersGood /\ AssetsGood /\ BoxesGood(confirmBox) /\ BoxesGood(finishBox)
      /\ OneReservation /\ ClosedByVote
  BY Zenon DEF CustodyInv
<1>1. \A i \in ids : /\ OrderGood(Signed(order[i])) /\ SameCore(order[i], Signed(order[i]))
                     /\ Signed(order[i]).status = "SignFinish"
                     /\ Signed(order[i]).type = order[i].type
                     /\ Signed(order[i]).checked = order[i].checked
  BY <1>a, SignedGood DEF OrdersGood
<1>2. OrdersGood' /\ Final
  BY <1>a, <1>1, ChangedOrders DEF Terminated
<1>3. BoxesKept /\ SettledTxs' = SettledTxs
  BY <1>a, UnchangedConfirmBox, UnchangedFinishBox, SMTT(30) DEF BoxesKept
<1>4. ClosedByVote'
  BY <1>a, <1>1, <1>3 DEF ClosedByVote, BoxesKept
<1>5. AssetsGood' /\ QuietAssets
  BY <1>a DEF AssetsGood, AssetGood, QuietAssets, SameAddress
<1>6. QuietOrders
  BY <1>1, SMTT(30) DEF QuietOrders, SameCore
<1> QED
  BY <1>a, SMTT(30), <1>2, <1>3, <1>4, <1>5, <1>6, QuietStep DEF StepOK, BoxesKept, CustodyInv

\* CollectSignFinish signs the orders of a collecting transaction.
LEMMA CollectSignFinishOK ==
    ASSUME CustodyInv, NEW ids, CollectSignFinish(ids)
    PROVE  StepOK
<1>1. /\ ids \in SUBSET DOMAIN order /\ \A i \in ids : order[i].status = "WaitSign"
      /\ order' = [i \in DOMAIN order |-> IF i \in ids THEN Signed(order[i]) ELSE order[i]]
      /\ UNCHANGED <<confirmBox, finishBox, ast>>
  BY Zenon DEF CollectSignFinish, checkCollectOrders, Signed
<1> QED
  BY <1>1, SignFinishOK, SMTT(30)

\* WithdrawalSignFinish signs a withdrawal.
LEMMA WithdrawalSignFinishOK ==
    ASSUME CustodyInv, NEW id \in DOMAIN order, WithdrawalSignFinish(id)
    PROVE  StepOK
<1>1. order[id].status = "WaitSign" /\ UNCHANGED <<confirmBox, finishBox, ast>>
  BY DEF WithdrawalSignFinish, checkWithdrawalOrder, Match
<1>2. order' = [i \in DOMAIN order |-> IF i \in {id} THEN Signed(order[i]) ELSE order[i]]
  BY Zenon DEF WithdrawalSignFinish, Signed, CustodyInv, OrdersGood
<1> DEFINE ids == {id}
<1>3. ids \in SUBSET DOMAIN order /\ \A i \in ids : order[i].status = "WaitSign"
  BY <1>1, SMTT(30)
<1> HIDE DEF ids
<1> QED
  BY <1>1, <1>2, <1>3, SignFinishOK, Zenon DEF ids

\* SysTransferSignFinish signs a system transfer.
LEMMA SysTransferSignFinishOK ==
    ASSUME CustodyInv, NEW id \in DOMAIN order, SysTransferSignFinish(id)
    PROVE  StepOK
<1>1. order[id].status = "WaitSign" /\ UNCHANGED <<confirmBox, finishBox, ast>>
  BY SMTT(30) DEF SysTransferSignFinish, checkSysTransferOrder, Match
<1>2. order' = [i \in DOMAIN order |-> IF i \in {id} THEN Signed(order[i]) ELSE order[i]]
  BY Zenon DEF SysTransferSignFinish, Signed, CustodyInv, OrdersGood
<1> DEFINE ids == {id}
<1>3. ids \in SUBSET DOMAIN order /\ \A i \in ids : order[i].status = "WaitSign"
  BY <1>1
<1> HIDE DEF ids
<1> QED
  BY Zenon, <1>1, <1>2, <1>3, SignFinishOK DEF ids

=============================================================================
