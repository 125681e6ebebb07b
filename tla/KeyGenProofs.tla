---------------------------- MODULE KeyGenProofs ----------------------------
(***************************************************************************)
(* The other steps of KeyGen keep its invariant too: the end of an order,  *)
(* orders for keys in advance and for a migration, and a new epoch.  So    *)
(* keys are sound in every behaviour.                                      *)
(***************************************************************************)
EXTENDS KeyGenInvariant

(***************************************************************************)
(* handleMsgKeyGenFinish for a CU: it gets the key of its order.           *)
(***************************************************************************)
LEMMA FinishForCUKeeps ==
    ASSUME KeyGenConstants, KeyGenInv, NEW o \in OrderID,
           korder[o] # NoOrder, korder[o].status = "WaitSign", FinishForCU(o),
           UNCHANGED <<epochVars, opSymbol>>
    PROVE  KeyGenInv'
<1>1. NewestInForce /\ KeyTypes /\ WaitingInv
  BY DEF KeyGenInv
<1>2. /\ NewestInForce' /\ Nodes' = Nodes /\ epochs' = epochs /\ Len(epochs) \in Nat
  BY <1>1, SameBlock
<1>3. /\ korder[o] \in KeyOrder /\ OrderSound(o) /\ MadeNow(o) /\ korder[o].to # NoCU
      /\ korder[o].symbol \in Symbol
  BY OrderFacts DEF OrderSound, FinishForCU
<1>4. PICK to \in CU, s \in Symbol : to = korder[o].to /\ s = korder[o].symbol
  BY <1>3 DEF KeyOrder
<1>5. korder[o].epoch = Len(epochs) /\ korder[o].key \in Key /\ ast[to] \in Asset
  BY <1>1, <1>3 DEF MadeNow, KeyTypes
<1> DEFINE a == setAddressAndPubkeyToCU(ast[to], korder[o].key, s, Len(epochs))
           b == IF IsOpCU(to) /\ a.migration = "KeyGenBegin"
                THEN [a EXCEPT !.migration = "KeyGenFinish"] ELSE a
           k == [korder[o] EXCEPT !.status = "Finish"]
<1>6. /\ ast' = [ast EXCEPT ![to] = b]
      /\ korder' = [korder EXCEPT ![o] = k]
      /\ process' = process \ {o} /\ waitAssign' = waitAssign
  BY <1>4, <1>5 DEF FinishForCU
<1>7. a \in Asset
  BY <1>2, <1>5, SetAddressFacts
<1>8. k \in KeyOrder /\ k.status = "Finish" /\ k.to = to /\ k.symbol = s
  BY <1>3, <1>4 DEF KeyOrder
<1> HIDE DEF a, k
<1>9. b \in Asset /\ b.assets = a.assets /\ b.pubkey = a.pubkey /\ b.pubkeyEpoch = a.pubkeyEpoch
  <2>1. "KeyGenFinish" \in Migration
    BY DEF Migration
  <2> QED
    BY <2>1, <1>7 DEF Asset
<1> HIDE DEF b
<1>10. korder'[o] = k /\ k # NoOrder
  BY <1>1, <1>6, <1>8 DEF KeyTypes, KeyGenConstants
<1>11. OrderSound(o)'
  BY <1>6, <1>8, <1>10 DEF OrderSound
<1>12. /\ korder' \in [OrderID -> KeyOrder \cup {NoOrder}]
       /\ process' \subseteq OrderID
       /\ \A p \in OrderID : korder'[p] # NoOrder \/ p \in process' => OrderSound(p)'
       /\ FinalsKept
       /\ \A p \in OrderID : p # o => korder'[p] = korder[p]
  BY <1>6, <1>8, <1>11, OneOrderKeeps, Zenon
<1>13. AddressInv' /\ ast' \in [CU -> Asset]
  BY <1>3, <1>6, <1>8, <1>9, <1>10, <1>12, NewKeyKeeps, Zenon DEF a
<1>14. /\ OneOrderPerCU'
       /\ Cardinality(Preparing') =< Cardinality(Preparing)
       /\ Cardinality(Preparing') \in Nat /\ Cardinality(Preparing) \in Nat
       /\ MaxWaitAssignKeyOrders \in Nat
  <2>1. process' \subseteq process /\ \A p \in process' : korder'[p].to = korder[p].to
    BY <1>1, <1>6, <1>12 DEF KeyTypes
  <2> QED
    BY <2>1, SameTo
<1>15. WaitingInv'
  <2>1. \A p \in OrderID : WaitingSound(p) => korder'[p] = korder[p]
    BY <1>12 DEF WaitingSound
  <2> QED
    BY <2>1, <1>2, <1>6, <1>14, WaitingKept
<1>16. KeyTypes'
  BY <1>1, <1>6, <1>12, <1>13 DEF KeyTypes
<1> QED
  BY <1>2, <1>12, <1>13, <1>14, <1>15, <1>16 DEF KeyGenInv

(***************************************************************************)
(* handleMsgKeyGenFinish for no CU: one order less prepares a key, one key *)
(* more waits.                                                             *)
(***************************************************************************)
LEMMA FinishPreparedKeeps ==
    ASSUME KeyGenConstants, KeyGenInv, NEW o \in OrderID,
           korder[o] # NoOrder, korder[o].status = "WaitSign", FinishPrepared(o),
           UNCHANGED <<epochVars, opSymbol>>
    PROVE  KeyGenInv'
<1>1. NewestInForce /\ KeyTypes /\ WaitingInv /\ AddressInv
  BY DEF KeyGenInv
<1>2. /\ NewestInForce' /\ Nodes' = Nodes /\ epochs' = epochs /\ Len(epochs) \in Nat
  BY <1>1, SameBlock
<1>3. korder[o] \in KeyOrder /\ OrderSound(o) /\ MadeNow(o) /\ korder[o].to = NoCU /\ o \in process
  BY OrderFacts DEF OrderSound, FinishPrepared
<1> DEFINE k == [korder[o] EXCEPT !.status = "SignFinish"]
<1>4. /\ korder' = [korder EXCEPT ![o] = k]
      /\ process' = process \ {o} /\ waitAssign' = Append(waitAssign, o) /\ ast' = ast
  BY DEF FinishPrepared
<1>5. /\ k \in KeyOrder /\ k.status = "SignFinish" /\ k.to = NoCU /\ k.symbol = korder[o].symbol
      /\ k.key = korder[o].key /\ k.epoch = korder[o].epoch
  BY <1>3 DEF KeyOrder
<1> HIDE DEF k
<1>6. korder'[o] = k /\ k # NoOrder
  BY <1>1, <1>4, <1>5 DEF KeyTypes, KeyGenConstants
<1>7. OrderSound(o)'
  BY <1>4, <1>5, <1>6 DEF OrderSound
<1>8. /\ korder' \in [OrderID -> KeyOrder \cup {NoOrder}]
      /\ process' \subseteq OrderID
      /\ \A p \in OrderID : korder'[p] # NoOrder \/ p \in process' => OrderSound(p)'
      /\ FinalsKept
      /\ \A p \in OrderID : p # o => korder'[p] = korder[p]
  BY <1>4, <1>5, <1>7, OneOrderKeeps, Zenon
<1>9. AddressInv'
  BY <1>1, <1>2, <1>4, <1>8, AddressKept
<1>10. OneOrderPerCU'
  <2>1. process' \subseteq process /\ \A p \in process' : korder'[p].to = korder[p].to
    BY <1>1, <1>4, <1>8 DEF KeyTypes
  <2> QED
    BY <2>1, SameTo
<1>11. waitAssign \in Seq(OrderID) /\ Len(waitAssign) \in Nat
  BY <1>1 DEF KeyTypes
<1>12. /\ waitAssign' \in Seq(OrderID)
       /\ Len(waitAssign') = Len(waitAssign) + 1
       /\ DOMAIN waitAssign = 1 .. Len(waitAssign)
       /\ DOMAIN waitAssign' = 1 .. Len(waitAssign) + 1
       /\ \A i \in 1 .. Len(waitAssign) : waitAssign'[i] = waitAssign[i]
       /\ waitAssign'[Len(waitAssign) + 1] = o
  BY <1>4, <1>11
<1>13. \A i \in 1 .. Len(waitAssign) : WaitingSound(waitAssign[i]) /\ waitAssign[i] # o /\ waitAssign[i] \in OrderID
  BY <1>1, <1>11, <1>12 DEF WaitingInv, WaitingSound
<1>14. WaitingInv'
  <2>1. IsInjective(waitAssign')
    <3> SUFFICES ASSUME NEW i \in DOMAIN waitAssign', NEW j \in DOMAIN waitAssign',
                        waitAssign'[i] = waitAssign'[j]
                 PROVE  i = j
      BY DEF IsInjective
    <3>1. CASE i \in 1 .. Len(waitAssign) /\ j \in 1 .. Len(waitAssign)
      BY <3>1, <1>1, <1>12 DEF WaitingInv, IsInjective
    <3>2. CASE i = Len(waitAssign) + 1 \/ j = Len(waitAssign) + 1
      BY <3>2, <1>11, <1>12, <1>13
    <3> QED
      BY <3>1, <3>2, <1>11, <1>12
  <2>2. ASSUME NEW i \in DOMAIN waitAssign'
        PROVE  WaitingSound(waitAssign[i])'
    <3>1. CASE i \in 1 .. Len(waitAssign)
      <4>1. PICK p \in OrderID : p = waitAssign'[i] /\ p # o /\ WaitingSound(p)
        BY <3>1, <1>12, <1>13
      <4>2. korder'[p] = korder[p]
        BY <4>1, <1>8
      <4> QED
        BY <4>1, <4>2, <1>2 DEF WaitingSound, MadeNow
    <3>2. CASE i = Len(waitAssign) + 1
      <4>1. waitAssign'[i] = o
        BY <3>2, <1>12
      <4>2. WaitingSound(o)'
        BY <1>2, <1>3, <1>5, <1>6 DEF WaitingSound, MadeNow
      <4> QED
        BY <4>1, <4>2 DEF WaitingSound, MadeNow
    <3> QED
      BY <3>1, <3>2, <1>11, <1>12
  <2>3. Len(waitAssign') + Cardinality(Preparing') =< MaxWaitAssignKeyOrders
    <3>1. Preparing' = Preparing \ {o} /\ o \in Preparing
      BY <1>1, <1>3, <1>4, <1>8 DEF Preparing, KeyTypes
    <3>2. IsFiniteSet(Preparing) /\ Cardinality(Preparing) \in Nat
      BY <1>1, PreparingFinite DEF KeyTypes
    <3>3. Cardinality(Preparing') = Cardinality(Preparing) - 1
      BY <3>1, <3>2, FS_RemoveElement
    <3> QED
      BY <3>2, <3>3, <1>1, <1>11, <1>12 DEF WaitingInv, KeyGenConstants
  <2> QED
    BY <2>1, <2>2, <2>3 DEF WaitingInv
<1>15. KeyTypes'
  BY <1>1, <1>4, <1>8, <1>12 DEF KeyTypes
<1> QED
  BY <1>2, <1>8, <1>9, <1>10, <1>14, <1>15 DEF KeyGenInv
(***************************************************************************)
(* A step that creates orders, for CUs without one or for no CU.           *)
(***************************************************************************)
LEMMA NewOrdersKeep ==
    ASSUME KeyGenConstants, KeyGenInv, UNCHANGED <<epochVars, waitAssign, opSymbol>>, NEW ids \in SUBSET OrderID,
           \A o \in ids : korder[o] = NoOrder,
           korder' \in [OrderID -> KeyOrder \cup {NoOrder}],
           process' = process \cup ids,
           \A o \in OrderID \ ids : korder'[o] = korder[o],
           \A o \in ids : /\ korder'[o] \in KeyOrder
                          /\ korder'[o].status = "Begin" /\ AllButOne(korder'[o].keyNodes, Nodes)
                          /\ korder'[o].to # NoCU => korder'[o].symbol \in Symbol,
           \A o \in ids : korder'[o].to # NoCU =>
                          /\ \A p \in process : korder[p].to # korder'[o].to
                          /\ \A p \in ids : p # o => korder'[p].to # korder'[o].to,
           Len(waitAssign) + Cardinality(Preparing') =< MaxWaitAssignKeyOrders,
           ast' \in [CU -> Asset],
           \A c \in CU : /\ ast'[c].assets = ast[c].assets
                         /\ ast'[c].pubkeyEpoch = ast[c].pubkeyEpoch /\ ast'[c].pubkey = ast[c].pubkey
    PROVE  KeyGenInv'
<1>1. NewestInForce /\ KeyTypes /\ WaitingInv /\ AddressInv /\ OneOrderPerCU
  BY DEF KeyGenInv
<1>2. /\ NewestInForce' /\ Nodes' = Nodes /\ epochs' = epochs /\ Len(epochs) \in Nat
  BY <1>1, SameBlock
<1>3. \A o \in ids : o \notin process
  BY OrderFacts
<1>4. \A o \in ids : korder'[o] # NoOrder
  BY DEF KeyGenConstants
<1>5. ASSUME NEW o \in OrderID, korder'[o] # NoOrder \/ o \in process'
      PROVE  OrderSound(o)'
  <2>1. CASE o \in ids
    <3>1. /\ korder'[o] # NoOrder /\ o \in process' /\ korder'[o].status = "Begin"
          /\ AllButOne(korder'[o].keyNodes, Nodes')
          /\ korder'[o].to # NoCU => korder'[o].symbol \in Symbol
      BY <2>1, <1>2, <1>4
    <3> QED
      BY <3>1 DEF OrderSound
  <2>2. CASE o \notin ids
    <3>1. korder'[o] = korder[o] /\ (o \in process' <=> o \in process)
      BY <2>2
    <3>2. OrderSound(o)
      BY <1>5, <3>1 DEF KeyGenInv
    <3> QED
      BY <1>2, <3>1, <3>2 DEF OrderSound, MadeNow
  <2> QED
    BY <2>1, <2>2
<1>6. FinalsKept
  BY <1>2 DEF FinalsKept
<1>7. AddressInv'
  BY <1>1, <1>2, <1>6, AddressKept
<1>8. OneOrderPerCU'
  <2> SUFFICES ASSUME NEW o \in process', NEW p \in process', o # p, korder'[o].to # NoCU,
                      korder'[o].to = korder'[p].to
               PROVE  FALSE
    BY DEF OneOrderPerCU
  <2>1. \A q \in process : q \in OrderID \ ids /\ korder'[q] = korder[q]
    BY <1>1, <1>3 DEF KeyTypes
  <2>2. CASE o \in process /\ p \in process
    BY <2>1, <2>2, <1>1 DEF OneOrderPerCU
  <2>3. CASE o \in ids
    BY <2>1, <2>3
  <2>4. CASE p \in ids
    BY <2>1, <2>4
  <2> QED
    BY <2>2, <2>3, <2>4
<1>9. WaitingInv'
  <2>1. \A p \in OrderID : WaitingSound(p) => korder'[p] = korder[p]
    BY DEF WaitingSound
  <2> QED
    BY <2>1, <1>2, WaitingSoundKept DEF WaitingInv
<1>10. KeyTypes'
  BY <1>1 DEF KeyTypes
<1> QED
  BY <1>2, <1>5, <1>7, <1>8, <1>9, <1>10 DEF KeyGenInv

(***************************************************************************)
(* handleMsgPreKeyGen looks only at the keys that wait; that is enough     *)
(* because no order is under way.                                          *)
(***************************************************************************)
LEMMA PreKeyGenKeeps ==
    ASSUME KeyGenConstants, KeyGenInv, NEW ids \in SUBSET OrderID, NEW from \in KeyNode, MsgPreKeyGen(ids, from)
    PROVE  KeyGenInv'
<1>1. /\ process = {} /\ \A o \in ids : korder[o] = NoOrder
      /\ Len(waitAssign) + Cardinality(ids) =< MaxWaitAssignKeyOrders
      /\ process' = process \cup ids /\ ast' = ast
      /\ UNCHANGED <<epochVars, waitAssign, opSymbol>>
  BY DEF MsgPreKeyGen, NothingInProcess
<1>2. NewestInForce /\ KeyTypes
  BY DEF KeyGenInv
<1>3. CurrentEpoch.keyNodeSet = Nodes /\ Nodes \subseteq KeyNode
  BY <1>1, <1>2, SameBlock
<1>4. PICK nodes \in SigningNodes(Nodes) :
        korder' = [o \in OrderID |-> IF o \in ids THEN NewOrderKeyGen(from, NoSymbol, nodes, NoCU, 0)
                                     ELSE korder[o]]
  BY <1>3 DEF MsgPreKeyGen
<1> DEFINE k == NewOrderKeyGen(from, NoSymbol, nodes, NoCU, 0)
<1>5. nodes \subseteq Nodes /\ AllButOne(nodes, Nodes)
  BY <1>4, SigningNodesAmong
<1>6. k \in KeyOrder /\ k.status = "Begin" /\ k.to = NoCU /\ k.keyNodes = nodes
  BY <1>3, <1>5 DEF NewOrderKeyGen, KeyOrder, Payer
<1>7. /\ korder' \in [OrderID -> KeyOrder \cup {NoOrder}]
      /\ \A o \in OrderID \ ids : korder'[o] = korder[o]
      /\ \A o \in ids : korder'[o] = k
  <2> HIDE DEF k
  <2> QED
    BY <1>2, <1>4, <1>6 DEF KeyTypes, k
<1> HIDE DEF k
<1>8. Preparing' = ids
  BY <1>1, <1>6, <1>7 DEF Preparing
<1>9. ast' \in [CU -> Asset] /\ Len(waitAssign) + Cardinality(Preparing') =< MaxWaitAssignKeyOrders
  BY <1>1, <1>2, <1>8 DEF KeyTypes
<1> QED
  BY <1>1, <1>5, <1>6, <1>7, <1>9, NewOrdersKeep

(***************************************************************************)
(* handleMsgOpcuMigrationKeyGen gives an order to each operation CU that   *)
(* has none.                                                               *)
(***************************************************************************)
LEMMA MigrationKeyGenKeeps ==
    ASSUME KeyGenConstants, KeyGenInv, NEW id \in [OpCU -> OrderID], IsInjective(id), NEW from \in KeyNode,
           MsgOpcuMigrationKeyGen(id, from)
    PROVE  KeyGenInv'
<1> DEFINE fresh == {c \in OpCUs : ~checkCuKeyGenOrder(c)}
           of(o) == CHOOSE c \in fresh : id[c] = o
<1>1. NewestInForce /\ KeyTypes /\ WaitingInv
  BY DEF KeyGenInv
<1>2. /\ \A c \in OpCUs : korder[id[c]] = NoOrder
      /\ ast' = [c \in CU |-> IF c \in OpCUs THEN [ast[c] EXCEPT !.migration = "KeyGenBegin"] ELSE ast[c]]
      /\ process' = process \cup {id[c] : c \in fresh}
      /\ UNCHANGED <<epochVars, waitAssign, opSymbol>>
  BY DEF MsgOpcuMigrationKeyGen
<1>3. CurrentEpoch.keyNodeSet = Nodes /\ Nodes \subseteq KeyNode
  BY <1>1, <1>2, SameBlock
<1>4. PICK nodes \in SigningNodes(Nodes) :
        korder' = [o \in OrderID |-> IF \E c \in fresh : id[c] = o
                                     THEN NewOrderKeyGen(from, opSymbol[of(o)], nodes, of(o), 0)
                                     ELSE korder[o]]
  BY <1>3 DEF MsgOpcuMigrationKeyGen
<1>5. PICK ids \in SUBSET OrderID : ids = {id[c] : c \in fresh}
  BY Zenon DEF OpCUs
<1>6. nodes \subseteq Nodes /\ AllButOne(nodes, Nodes)
  BY <1>4, SigningNodesAmong
<1>7. /\ \A o \in OrderID \ ids : korder'[o] = korder[o]
      /\ \A o \in ids : korder'[o] = NewOrderKeyGen(from, opSymbol[of(o)], nodes, of(o), 0)
  BY <1>4, <1>5
<1>8. \A o \in ids : of(o) \in fresh /\ id[of(o)] = o
  BY <1>5
<1>9. \A c \in fresh : c \in OpCU /\ c \in CU /\ opSymbol[c] \in Symbol /\ \A p \in process : korder[p].to # c
  BY <1>1 DEF OpCUs, IsOpCU, KeyTypes, CU, checkCuKeyGenOrder
<1> HIDE DEF fresh, of
<1>10. ASSUME NEW o \in ids
       PROVE  /\ korder'[o] \in KeyOrder /\ korder'[o].to = of(o) /\ korder'[o].symbol \in Symbol
              /\ korder'[o].status = "Begin" /\ korder'[o].keyNodes = nodes
  <2>1. PICK c \in CU, s \in Symbol : c = of(o) /\ s = opSymbol[of(o)]
    BY <1>8, <1>9
  <2> DEFINE k == NewOrderKeyGen(from, s, nodes, c, 0)
  <2>2. k \in KeyOrder /\ k.status = "Begin" /\ k.to = c /\ k.symbol = s /\ k.keyNodes = nodes
    BY <1>3, <1>6 DEF NewOrderKeyGen, KeyOrder, Payer
  <2>3. korder'[o] = k
    BY <1>7, <2>1
  <2> QED
    BY <2>1, <2>2, <2>3
<1>11. \A o \in ids : /\ \A p \in process : korder[p].to # korder'[o].to
                      /\ \A p \in ids : p # o => korder'[p].to # korder'[o].to
  BY <1>8, <1>9, <1>10
<1>12. \A o \in ids : korder[o] = NoOrder
  BY <1>2, <1>5 DEF fresh
<1>13. Preparing' = Preparing
  <2>1. \A o \in ids : korder'[o].to # NoCU /\ o \notin process
    BY <1>8, <1>9, <1>10, <1>12, OrderFacts DEF KeyGenConstants
  <2>2. \A o \in process : o \in OrderID
    BY <1>1 DEF KeyTypes
  <2> QED
    BY <2>1, <2>2, <1>2, <1>5, <1>7 DEF Preparing
<1>14. Len(waitAssign) + Cardinality(Preparing') =< MaxWaitAssignKeyOrders
  BY <1>1, <1>13 DEF WaitingInv
<1>15. ASSUME NEW c \in CU
       PROVE  /\ ast'[c] \in Asset
              /\ ast'[c].assets = ast[c].assets
              /\ ast'[c].pubkeyEpoch = ast[c].pubkeyEpoch /\ ast'[c].pubkey = ast[c].pubkey
  BY <1>1, <1>2, Zenon DEF KeyTypes, Asset, Migration
<1>16. ast' \in [CU -> Asset]
  BY <1>2, <1>15
<1>17. korder' \in [OrderID -> KeyOrder \cup {NoOrder}]
  <2>1. \A o \in OrderID : korder'[o] \in KeyOrder \cup {NoOrder}
    BY <1>1, <1>7, <1>10 DEF KeyTypes
  <2> QED
    BY <2>1, <1>4, Zenon
<1> QED
  BY <1>2, <1>5, <1>6, <1>7, <1>10, <1>11, <1>12, <1>14, <1>15, <1>16, <1>17, NewOrdersKeep, Zenon

\* What resetKeyGenOrders makes of an open order, and
\* delAllWaitAssignKeyGenOrderIDs of one that waits.
Restarted(k, nodes) == [k EXCEPT !.keyNodes = nodes, !.status = "Begin"]
Voided(k) == [k EXCEPT !.status = "Finish"]

\* Both change nothing else of the order.
LEMMA OrderUpdates ==
    ASSUME NEW k \in KeyOrder, NEW nodes \in SUBSET KeyNode
    PROVE  /\ Restarted(k, nodes) \in KeyOrder
           /\ Restarted(k, nodes).status = "Begin" /\ Restarted(k, nodes).keyNodes = nodes
           /\ Restarted(k, nodes).to = k.to /\ Restarted(k, nodes).symbol = k.symbol
           /\ Voided(k) \in KeyOrder /\ Voided(k).status = "Finish" /\ Voided(k).to = k.to
  BY Zenon DEF KeyOrder, Restarted, Voided

(***************************************************************************)
(* A new epoch: what waits is void, and what is open starts again with the *)
(* new key nodes (AfterNewEpoch of x/keygen and x/ibcasset).               *)
(***************************************************************************)
LEMMA NewEpochBlockKeeps ==
    ASSUME KeyGenConstants, KeyGenInv, NEW remove \in SUBSET KeyNode, NEW add \in SUBSET KeyNode,
           NewEpochBlock(remove, add)
    PROVE  KeyGenInv'
<1>1. NewestInForce /\ KeyTypes /\ WaitingInv /\ AddressInv
  BY DEF KeyGenInv
<1>2. Len(epochs) \in Nat \ {0} /\ CurrentEpoch.keyNodeSet \subseteq KeyNode
  BY <1>1, NewestFacts
<1>3. PICK nodes \in SUBSET KeyNode : nodes = (CurrentEpoch.keyNodeSet \ remove) \cup add
  BY <1>2, Zenon
<1> nodes \in SUBSET KeyNode
  BY <1>3
<1>4. UpdateKeyNodes(remove, add) /\ height' = height + 1
  BY DEF NewEpochBlock
<1>5. /\ NewestInForce'
      /\ Len(epochs') = Len(epochs) + 1
      /\ \A i \in 1 .. Len(epochs) : epochs'[i].keyNodeSet = epochs[i].keyNodeSet
      /\ Nodes' = nodes
  BY <1>1, <1>3, <1>4, EpochBlockKeeps, Zenon
<1> DEFINE orders == resetKeyGenOrders(nodes)
           open(o) == o \in process /\ korder[o].status \in {"Begin", "WaitSign"}
<1>6. /\ UNCHANGED <<process, opSymbol>>
      /\ waitAssign' = << >>
      /\ korder' = [o \in OrderID |-> IF o \in Range(waitAssign)
                                      THEN [orders[o] EXCEPT !.status = "Finish"] ELSE orders[o]]
      /\ ast' = [c \in CU |-> IF IsOpCU(c) THEN [ast[c] EXCEPT !.migration = "Begin"] ELSE ast[c]]
  BY <1>3 DEF NewEpochBlock, delAllWaitAssignKeyGenOrderIDs, startMigrationForAllOpcus
<1>7. \A o \in OrderID : /\ o \in process => /\ korder[o] \in KeyOrder /\ OrderSound(o)
                                             /\ korder[o].status \in {"Begin", "WaitSign"}
                         /\ o \in Range(waitAssign) => WaitingSound(o) /\ o \notin process
  <2>1. ASSUME NEW o \in OrderID, o \in process
        PROVE  korder[o] \in KeyOrder /\ OrderSound(o) /\ korder[o].status \in {"Begin", "WaitSign"}
    BY <2>1, OrderFacts DEF OrderSound
  <2>2. ASSUME NEW o \in OrderID, o \in Range(waitAssign)
        PROVE  WaitingSound(o)
    BY <2>2, <1>1 DEF WaitingInv, Range
  <2>3. ASSUME NEW o \in OrderID, WaitingSound(o)
        PROVE  o \notin process
    BY <2>1, <2>3 DEF WaitingSound
  <2> QED
    BY <2>1, <2>2, <2>3
<1>8. ASSUME NEW o \in OrderID
      PROVE  /\ o \in process => korder'[o] = Restarted(korder[o], nodes)
             /\ o \in Range(waitAssign) => korder'[o] = Voided(korder[o])
             /\ o \notin process /\ o \notin Range(waitAssign) => korder'[o] = korder[o]
  <2>1. orders[o] = IF open(o) THEN Restarted(korder[o], nodes) ELSE korder[o]
    BY DEF resetKeyGenOrders, Restarted
  <2> HIDE DEF orders
  <2>2. korder'[o] = IF o \in Range(waitAssign) THEN Voided(orders[o]) ELSE orders[o]
    BY <1>6 DEF Voided
  <2> QED
    BY <2>1, <2>2, <1>7
<1>9. ASSUME NEW o \in OrderID, o \in process
      PROVE  /\ korder'[o] \in KeyOrder /\ korder'[o].status = "Begin" /\ korder'[o].keyNodes = nodes
             /\ korder'[o].to = korder[o].to /\ korder'[o].symbol = korder[o].symbol
  BY <1>7, <1>8, <1>9, OrderUpdates
<1>10. ASSUME NEW o \in OrderID, o \in Range(waitAssign)
       PROVE  /\ korder'[o] \in KeyOrder /\ korder'[o].status = "Finish"
              /\ korder'[o].to = NoCU /\ korder[o].status = "SignFinish"
  <2>1. korder[o] \in KeyOrder /\ WaitingSound(o)
    BY <1>7, <1>10, OrderFacts DEF WaitingSound
  <2> QED
    BY <2>1, <1>8, <1>10, OrderUpdates DEF WaitingSound
<1>11. korder' \in [OrderID -> KeyOrder \cup {NoOrder}]
  <2>1. \A o \in OrderID : korder'[o] \in KeyOrder \cup {NoOrder}
    BY <1>1, <1>8, <1>9, <1>10 DEF KeyTypes
  <2> HIDE DEF orders
  <2> QED
    BY <2>1, <1>6, Zenon
<1>12. ASSUME NEW o \in OrderID, korder'[o] # NoOrder \/ o \in process'
       PROVE  OrderSound(o)'
  <2>1. CASE o \in process
    <3>1. OrderSound(o) /\ korder'[o] # NoOrder
      BY <2>1, <1>7, <1>9 DEF KeyGenConstants
    <3> QED
      BY <2>1, <3>1, <1>5, <1>6, <1>9, AllAreAllButOne, Zenon DEF OrderSound
  <2>2. CASE o \in Range(waitAssign)
    <3>1. o \notin process' /\ korder'[o] # NoOrder
      BY <2>2, <1>6, <1>7, <1>10 DEF KeyGenConstants
    <3> QED
      BY <2>2, <3>1, <1>10 DEF OrderSound
  <2>3. CASE o \notin process /\ o \notin Range(waitAssign)
    <3>1. korder'[o] = korder[o] /\ o \notin process'
      BY <2>3, <1>6, <1>8, Zenon
    <3>2. OrderSound(o)
      BY <1>12, <3>1 DEF KeyGenInv
    <3> QED
      BY <2>3, <3>1, <3>2 DEF OrderSound
  <2> QED
    BY <2>1, <2>2, <2>3
<1>13. FinalsKept
  <2>1. ASSUME NEW o \in OrderID, korder[o] # NoOrder, korder[o].status = "Finish"
        PROVE  korder'[o] = korder[o]
    BY <2>1, <1>7, <1>8, <1>10
  <2> QED
    BY <2>1, <1>2, <1>5 DEF FinalsKept
<1>14. ASSUME NEW c \in CU
       PROVE  /\ ast'[c] \in Asset
              /\ ast'[c].assets = ast[c].assets
              /\ ast'[c].pubkeyEpoch = ast[c].pubkeyEpoch /\ ast'[c].pubkey = ast[c].pubkey
  BY <1>1, <1>6, Zenon DEF KeyTypes, Asset, Migration
<1>15. ast' \in [CU -> Asset]
  BY <1>6, <1>14
<1>16. AddressInv'
  BY <1>1, <1>2, <1>5, <1>13, <1>14, AddressKept
<1>17. /\ OneOrderPerCU'
       /\ Cardinality(Preparing') =< Cardinality(Preparing)
       /\ Cardinality(Preparing') \in Nat /\ Cardinality(Preparing) \in Nat
       /\ MaxWaitAssignKeyOrders \in Nat
  <2>1. process' \subseteq process /\ \A p \in process' : korder'[p].to = korder[p].to
    BY <1>1, <1>6, <1>9, Zenon DEF KeyTypes
  <2> QED
    BY <2>1, SameTo
<1>18. WaitingInv'
  <2>1. waitAssign' = << >> /\ Len(waitAssign') = 0 /\ DOMAIN waitAssign' = {}
    BY <1>6
  <2>2. Len(waitAssign) \in Nat /\ Cardinality(Preparing) =< MaxWaitAssignKeyOrders
    BY <1>1, <1>17 DEF KeyTypes, WaitingInv
  <2> QED
    BY <2>1, <2>2, <1>17 DEF WaitingInv, IsInjective
<1>19. KeyTypes'
  <2>1. waitAssign' \in Seq(OrderID)
    BY <1>6
  <2> QED
    BY <2>1, <1>1, <1>6, <1>11, <1>15 DEF KeyTypes
<1> QED
  BY <1>5, <1>12, <1>16, <1>17, <1>18, <1>19 DEF KeyGenInv

(***************************************************************************)
(* Every message and block of key generation keeps the invariant.          *)
(***************************************************************************)
LEMMA KeyGenInvStep ==
    ASSUME KeyGenConstants, KeyGenInv, [KeyGenNext]_keygenVars
    PROVE  KeyGenInv'
<1>1. NewestInForce /\ KeyTypes
  BY DEF KeyGenInv
<1>2. ASSUME NEW o \in OrderID, NEW from \in Payer, NEW to \in CU, NEW s \in Symbol, MsgKeyGen(o, from, to, s)
      PROVE  KeyGenInv'
  <2>1. PICK fee \in Nat : fee = FeeOf(to, s)
    BY FeeIsNat
  <2>2. /\ korder[o] = NoOrder /\ ~checkCuKeyGenOrder(to) /\ UNCHANGED <<epochVars, opSymbol>>
        /\ DeriveAddress(to, s) \/ TakePreparedKey(from, to, s, fee) \/ OrderKey(o, from, to, s, fee)
    BY <1>2, <2>1 DEF MsgKeyGen, KeyGenAllowed
  <2> QED
    BY <2>1, <2>2, DeriveAddressKeeps, TakePreparedKeyKeeps, OrderKeyKeeps
<1>3. ASSUME NEW o \in OrderID, MsgKeyGenFinish(o)
      PROVE  KeyGenInv'
  <2>1. /\ korder[o] # NoOrder /\ korder[o].status = "WaitSign" /\ UNCHANGED <<epochVars, opSymbol>>
        /\ FinishForCU(o) \/ FinishPrepared(o)
    BY <1>3 DEF MsgKeyGenFinish
  <2> QED
    BY <2>1, FinishForCUKeeps, FinishPreparedKeeps
<1>4. ASSUME NEW c \in OpCU, NEW s \in Symbol, NEW from \in KeyNode, MsgNewOpCU(c, s, from)
      PROVE  KeyGenInv'
  <2>1. /\ UNCHANGED <<korder, process, waitAssign>> /\ UNCHANGED epochVars
        /\ opSymbol' = [opSymbol EXCEPT ![c] = s] /\ ast' = [ast EXCEPT ![c] = NewAsset(TRUE)]
    BY <1>4 DEF MsgNewOpCU
  <2>2. /\ NewestInForce' /\ Nodes' = Nodes /\ epochs' = epochs
    BY <1>1, <2>1, SameBlock
  <2>3. NewAsset(TRUE) \in Asset /\ NewAsset(TRUE).assets = {} /\ NewAsset(TRUE).pubkeyEpoch = 0
    BY DEF NewAsset, Asset, Migration
  <2>4. ast' \in [CU -> Asset] /\ opSymbol' \in [OpCU -> Symbol \cup {NoSymbol}]
    BY <1>1, <2>1, <2>3, Zenon DEF KeyTypes
  <2>5. \A d \in CU : ast'[d] = ast[d] \/ ast'[d] = NewAsset(TRUE)
    BY <1>1, <2>1, Zenon DEF KeyTypes
  <2> QED
    BY <2>1, <2>2, <2>3, <2>4, <2>5, AstOnlyKeeps, Zenon
<1>5. ASSUME UNCHANGED <<korder, process, waitAssign, opSymbol>>,
             \/ epochs' = epochs /\ (height' = height \/ height' = height + 1)
             \/ SetMigrationFinished /\ height' = height,
             \/ ast' = ast
             \/ \E c \in OpCU : ast' = [ast EXCEPT ![c].migration = "Finish"]
      PROVE  KeyGenInv'
  <2>1. /\ NewestInForce'
        /\ Len(epochs') = Len(epochs)
        /\ \A i \in 1 .. Len(epochs) : epochs'[i].keyNodeSet = epochs[i].keyNodeSet
        /\ Nodes' = Nodes
    BY <1>1, <1>5, SameEpochKeeps
  <2>2. /\ ast' \in [CU -> Asset]
        /\ \A d \in CU : /\ ast'[d].assets = ast[d].assets
                         /\ ast'[d].pubkeyEpoch = ast[d].pubkeyEpoch /\ ast'[d].pubkey = ast[d].pubkey
    <3>1. CASE ast' = ast
      BY <1>1, <3>1 DEF KeyTypes
    <3>2. ASSUME NEW c \in OpCU, ast' = [ast EXCEPT ![c].migration = "Finish"]
          PROVE  /\ ast' \in [CU -> Asset]
                 /\ \A d \in CU : /\ ast'[d].assets = ast[d].assets
                                  /\ ast'[d].pubkeyEpoch = ast[d].pubkeyEpoch /\ ast'[d].pubkey = ast[d].pubkey
      <4> DEFINE b == [ast[c] EXCEPT !.migration = "Finish"]
      <4>1. c \in CU /\ ast \in [CU -> Asset]
        BY <1>1 DEF CU, KeyTypes
      <4>2. /\ b \in Asset /\ b.assets = ast[c].assets
            /\ b.pubkeyEpoch = ast[c].pubkeyEpoch /\ b.pubkey = ast[c].pubkey
        BY <4>1 DEF Asset, Migration
      <4>3. ast' = [ast EXCEPT ![c] = b]
        BY <3>2
      <4> HIDE DEF b
      <4> QED
        BY <4>1, <4>2, <4>3
    <3> QED
      BY <1>5, <3>1, <3>2
  <2>3. opSymbol' \in [OpCU -> Symbol \cup {NoSymbol}]
    BY <1>1, <1>5 DEF KeyTypes
  <2> QED
    BY <1>5, <2>1, <2>2, <2>3, AstOnlyKeeps
<1>6. ASSUME NEW n \in KeyNode, Heartbeat(n)
      PROVE  KeyGenInv'
  BY <1>5, <1>6 DEF Heartbeat, epochVars
<1>7. ASSUME NEW c \in OpCU, OpCUMigrated(c)
      PROVE  KeyGenInv'
  BY <1>5, <1>7, Zenon DEF OpCUMigrated
<1>8. ASSUME Block
      PROVE  KeyGenInv'
  BY <1>5, <1>8 DEF Block
<1>9. CASE UNCHANGED keygenVars
  BY <1>5, <1>9 DEF keygenVars
<1>10. ASSUME NEW id \in {f \in [OpCU -> OrderID] : IsInjective(f)}, NEW from \in KeyNode,
              MsgOpcuMigrationKeyGen(id, from)
       PROVE  KeyGenInv'
  BY <1>10, MigrationKeyGenKeeps
<1> QED
  BY <1>2, <1>3, <1>4, <1>6, <1>7, <1>8, <1>9, <1>10, WaitSignKeeps, RetryKeyGenKeeps, PreKeyGenKeeps,
     NewEpochBlockKeeps DEF KeyGenNext

(***************************************************************************)
(* What the invariant says of addresses and waiting keys.                  *)
(***************************************************************************)
LEMMA KeyGenInvImplies ==
    ASSUME KeyGenConstants, KeyGenInv
    PROVE  AddressByItsKeyNodes /\ KeyGivenOnce /\ WaitingKeysUsable /\ OneOrderPerCU
<1>1. /\ NewestInForce /\ KeyTypes /\ WaitingInv /\ AddressInv /\ OneOrderPerCU
      /\ Len(waitAssign) \in Nat
  BY DEF KeyGenInv, KeyTypes
<1>2. AddressByItsKeyNodes
  BY <1>1 DEF AddressByItsKeyNodes, AddressInv, KeyOf, AllButOne
<1>3. KeyGivenOnce
  <2>1. ASSUME NEW c \in CU, NEW d \in CU, c # d, NEW x \in ast[c].assets, NEW y \in ast[d].assets
        PROVE  x.key # y.key
    <3>1. Owns(c, x.key) /\ Owns(d, y.key)
      BY <1>1 DEF AddressInv, KeyOf
    <3> QED
      BY <3>1, <2>1 DEF Owns
  <2>2. ASSUME NEW i \in DOMAIN waitAssign, NEW c \in CU, NEW x \in ast[c].assets
        PROVE  x.key # korder[waitAssign[i]].key
    <3>1. PICK o \in OrderID : o = waitAssign[i] /\ WaitingSound(o)
      BY <1>1 DEF KeyTypes, WaitingInv
    <3>2. Owns(c, x.key)
      BY <1>1 DEF AddressInv, KeyOf
    <3> QED
      BY <3>1, <3>2 DEF Owns, WaitingSound, MadeNow
  <2> QED
    BY <2>1, <2>2 DEF KeyGivenOnce
<1>4. WaitingKeysUsable
  <2>1. Len(waitAssign) =< MaxWaitAssignKeyOrders
    BY <1>1, PreparingFinite DEF WaitingInv, KeyTypes, KeyGenConstants
  <2>2. CurrentIndex = Len(epochs)
    BY <1>1, NewestFacts
  <2> QED
    BY <2>1, <2>2, <1>1 DEF WaitingKeysUsable, WaitingInv, WaitingSound, MadeNow
<1> QED
  BY <1>1, <1>2, <1>3, <1>4

(***************************************************************************)
(* For any key nodes, CUs and orders and through any number of epochs, the *)
(* key of an address was made by key nodes of its epoch, belongs to one CU *)
(* and is no key that still waits; keys that wait are of the epoch in      *)
(* force and no more than MaxWaitAssignKeyOrders; and no CU has two open   *)
(* orders (handleMsgKeyGen, handleMsgKeyGenFinish, handleMsgPreKeyGen,     *)
(* resetKeyGenOrders).                                                     *)
(***************************************************************************)
THEOREM KeysAreSound ==
    ASSUME KeyGenConstants
    PROVE  KeyGenSpec => []KeysSound
<1>1. KeyGenInit => KeyGenInv
  BY KeyGenInvInit
<1>2. KeyGenInv /\ [KeyGenNext]_keygenVars => KeyGenInv'
  BY KeyGenInvStep
<1>3. KeyGenInv => KeysSound
  BY KeyGenInvImplies DEF KeysSound
<1> QED
  BY <1>1, <1>2, <1>3, PTL DEF KeyGenSpec

=============================================================================
