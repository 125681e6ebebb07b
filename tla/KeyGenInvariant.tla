-------------------------- MODULE KeyGenInvariant ---------------------------
(***************************************************************************)
(* The inductive invariant of KeyGen, for any key nodes, CUs and orders,   *)
(* and what it is kept by: the messages that ask for a key and sign one,   *)
(* and retries.  It rests on the epochs being contiguous and on the epoch  *)
(* in force being the newest, which EpochProofs shows.                     *)
(***************************************************************************)
EXTENDS KeyGen, EpochProofs

\* The key of order o, made by key nodes of the epoch in force.
MadeNow(o) ==
    LET k == korder[o]
    IN  k.key \in Key /\ k.key.order = o /\ AllButOne(k.key.nodes, Nodes) /\ k.epoch = Len(epochs)

\* An order is on the process list until its key is signed, is for key nodes of
\* the epoch in force, and has a key of theirs once they have signed it.
OrderSound(o) ==
    LET k == korder[o]
    IN  /\ k # NoOrder
        /\ o \in process <=> k.status \in {"Begin", "WaitSign"}
        /\ k.status = "Begin" => AllButOne(k.keyNodes, Nodes)
        /\ k.status = "WaitSign" => MadeNow(o)
        /\ k.to # NoCU => k.symbol \in Symbol

\* Orders under way whose keys will wait for a CU.
Preparing == {o \in process : korder[o].to = NoCU}

WaitingSound(o) ==
    korder[o] # NoOrder /\ korder[o].status = "SignFinish" /\ korder[o].to = NoCU /\ MadeNow(o)

WaitingInv ==
    /\ IsInjective(waitAssign)
    /\ \A i \in DOMAIN waitAssign : WaitingSound(waitAssign[i])
    /\ Len(waitAssign) + Cardinality(Preparing) =< MaxWaitAssignKeyOrders

\* CU c owns the key: the finished order of the key is for it, or it is a
\* genesis operation CU and the key its own.
Owns(c, key) ==
    IF key.order \in OrderID
    THEN korder[key.order] # NoOrder /\ korder[key.order].status = "Finish" /\ korder[key.order].to = c
    ELSE key.order = c

\* CU c owns the key, which key nodes of epoch e have made.
KeyOf(c, key, e) ==
    /\ key \in Key
    /\ Owns(c, key)
    /\ e \in 1 .. Len(epochs)
    /\ AllButOne(key.nodes, epochs[e].keyNodeSet)

PubkeySound(c) == KeyOf(c, ast[c].pubkey, ast[c].pubkeyEpoch)

AddressInv ==
    \A c \in CU :
        /\ \A x \in ast[c].assets : KeyOf(c, x.key, x.epoch)
        /\ ast[c].pubkeyEpoch # 0 => PubkeySound(c)

KeyTypes ==
    /\ korder \in [OrderID -> KeyOrder \cup {NoOrder}]
    /\ process \subseteq OrderID
    /\ waitAssign \in Seq(OrderID)
    /\ ast \in [CU -> Asset]
    /\ opSymbol \in [OpCU -> Symbol \cup {NoSymbol}]

KeyGenInv ==
    /\ NewestInForce
    /\ KeyTypes
    /\ \A o \in OrderID : korder[o] # NoOrder \/ o \in process => OrderSound(o)
    /\ WaitingInv
    /\ AddressInv
    /\ OneOrderPerCU

\* An order of the type, and the facts about one on the process list.
LEMMA OrderFacts ==
    ASSUME KeyGenConstants, KeyGenInv, NEW o \in OrderID
    PROVE  /\ korder[o] # NoOrder => korder[o] \in KeyOrder /\ OrderSound(o)
           /\ o \in process => korder[o] # NoOrder
  BY DEF KeyGenInv, KeyTypes, OrderSound

(***************************************************************************)
(* AddAsset and setAddressAndPubkeyToCU add addresses of the key and epoch *)
(* given and no others.                                                    *)
(***************************************************************************)
LEMMA AddAssetFacts ==
    ASSUME NEW assets \in SUBSET AssetAddress, NEW s \in Symbol, NEW key \in Key, NEW e \in Nat
    PROVE  /\ AddAsset(assets, s, key, e) \in SUBSET AssetAddress
           /\ \A x \in AddAsset(assets, s, key, e) : x \in assets \/ (x.key = key /\ x.epoch = e)
<1>1. [symbol |-> s, epoch |-> e, key |-> key] \in AssetAddress
  BY DEF AssetAddress
<1> QED
  BY <1>1 DEF AddAsset

\* What setAddressAndPubkeyToCU does to the record of a CU.
LEMMA SetAddressFacts ==
    ASSUME NEW a \in Asset, NEW s \in Symbol, NEW key \in Key, NEW e \in Nat
    PROVE  LET b == setAddressAndPubkeyToCU(a, key, s, e)
           IN  /\ b \in Asset
               /\ b.pubkey = key /\ b.pubkeyEpoch = e
               /\ \A x \in b.assets : x \in a.assets \/ (x.key = key /\ x.epoch = e)
<1> DEFINE own == AddAsset(a.assets, s, key, e)
           all == IF s = Chain THEN own ELSE AddAsset(own, Chain, key, e)
<1>1. a.assets \in SUBSET AssetAddress /\ Chain \in Symbol
  BY DEF Asset, Symbol
<1>2. /\ own \in SUBSET AssetAddress
      /\ \A x \in own : x \in a.assets \/ (x.key = key /\ x.epoch = e)
  BY <1>1, AddAssetFacts
<1> HIDE DEF own
<1>3. /\ AddAsset(own, Chain, key, e) \in SUBSET AssetAddress
      /\ \A x \in AddAsset(own, Chain, key, e) : x \in own \/ (x.key = key /\ x.epoch = e)
  BY <1>1, <1>2, AddAssetFacts
<1>4. /\ all \in SUBSET AssetAddress
      /\ \A x \in all : x \in a.assets \/ (x.key = key /\ x.epoch = e)
  BY <1>2, <1>3
<1>5. setAddressAndPubkeyToCU(a, key, s, e) =
        [a EXCEPT !.stored = TRUE, !.pubkey = key, !.pubkeyEpoch = e, !.assets = all]
  BY DEF setAddressAndPubkeyToCU, own
<1> HIDE DEF all
<1> DEFINE b == [a EXCEPT !.stored = TRUE, !.pubkey = key, !.pubkeyEpoch = e, !.assets = all]
<1>6. b \in Asset /\ b.pubkey = key /\ b.pubkeyEpoch = e /\ b.assets = all
  BY <1>4, Zenon DEF Asset
<1> QED
  BY <1>4, <1>5, <1>6

(***************************************************************************)
(* A finished order keeps its status and its CU, and an epoch its nodes.   *)
(***************************************************************************)
FinalsKept ==
    /\ Len(epochs) =< Len(epochs')
    /\ \A i \in 1 .. Len(epochs) : epochs'[i].keyNodeSet = epochs[i].keyNodeSet
    /\ \A o \in OrderID : korder[o] # NoOrder /\ korder[o].status = "Finish" =>
        korder'[o] # NoOrder /\ korder'[o].status = "Finish" /\ korder'[o].to = korder[o].to

\* A key of a CU stays one.
LEMMA KeyOfKept ==
    ASSUME FinalsKept, Len(epochs) \in Nat, Len(epochs') \in Nat, NEW c, NEW key, NEW e, KeyOf(c, key, e)
    PROVE  KeyOf(c, key, e)'
<1>1. Owns(c, key)'
  BY DEF FinalsKept, KeyOf, Owns
<1>2. e \in 1 .. Len(epochs') /\ epochs'[e].keyNodeSet = epochs[e].keyNodeSet
  BY DEF FinalsKept, KeyOf
<1> QED
  BY <1>1, <1>2 DEF KeyOf

(***************************************************************************)
(* The addresses stay sound when every new address and public key of a CU  *)
(* is a key of it.                                                         *)
(***************************************************************************)
LEMMA AddressKept ==
    ASSUME AddressInv, FinalsKept, Len(epochs) \in Nat, Len(epochs') \in Nat,
           \A c \in CU :
             /\ \A x \in ast'[c].assets : x \in ast[c].assets \/ KeyOf(c, x.key, x.epoch)'
             /\ \/ ast'[c].pubkeyEpoch = 0
                \/ ast'[c].pubkeyEpoch = ast[c].pubkeyEpoch /\ ast'[c].pubkey = ast[c].pubkey
                \/ PubkeySound(c)'
    PROVE  AddressInv'
<1> SUFFICES ASSUME NEW c \in CU
             PROVE  /\ \A x \in ast'[c].assets : KeyOf(c, x.key, x.epoch)'
                    /\ ast'[c].pubkeyEpoch # 0 => PubkeySound(c)'
  BY DEF AddressInv
<1>1. ASSUME NEW x \in ast'[c].assets
      PROVE  KeyOf(c, x.key, x.epoch)'
  <2>1. CASE x \in ast[c].assets
    <3>1. KeyOf(c, x.key, x.epoch)
      BY <2>1 DEF AddressInv
    <3> QED
      BY <3>1, KeyOfKept
  <2> QED
    BY <2>1
<1>2. ASSUME ast'[c].pubkeyEpoch # 0
      PROVE  PubkeySound(c)'
  <2>1. CASE ast'[c].pubkeyEpoch = ast[c].pubkeyEpoch /\ ast'[c].pubkey = ast[c].pubkey
    <3>1. KeyOf(c, ast[c].pubkey, ast[c].pubkeyEpoch)
      BY <1>2, <2>1 DEF AddressInv, PubkeySound
    <3>2. \A key, e : KeyOf(c, key, e) => KeyOf(c, key, e)'
      BY KeyOfKept
    <3> QED
      BY <3>1, <3>2, <2>1 DEF PubkeySound, KeyOf, Owns
  <2> QED
    BY <1>2, <2>1
<1> QED
  BY <1>1, <1>2

\* A step that leaves block and epochs alone.
LEMMA SameBlock ==
    ASSUME NewestInForce, UNCHANGED epochVars
    PROVE  /\ NewestInForce' /\ Nodes' = Nodes /\ epochs' = epochs
           /\ Len(epochs) \in Nat \ {0} /\ Len(epochs') = Len(epochs)
           /\ CurrentIndex = Len(epochs) /\ CurrentEpoch.keyNodeSet = Nodes
           /\ Nodes \subseteq KeyNode
<1>1. epochs' = epochs /\ height' = height
  BY DEF epochVars
<1> QED
  BY <1>1, NewestFacts, SameEpochKeeps

\* The nodes that sign are those given, one at most excepted.
LEMMA SigningNodesAmong ==
    ASSUME NEW N, NEW nodes \in SigningNodes(N)
    PROVE  nodes \subseteq N /\ AllButOne(nodes, N)
  BY DEF SigningNodes, AllButOne

\* All given nodes are that.
LEMMA AllAreAllButOne ==
    ASSUME NEW N
    PROVE  AllButOne(N, N)
  BY DEF AllButOne

(***************************************************************************)
(* A step that writes one order, which was not finished, and puts it on    *)
(* the process list, takes it off, or neither.                             *)
(***************************************************************************)
LEMMA OneOrderKeeps ==
    ASSUME KeyGenConstants, KeyGenInv, UNCHANGED epochVars, NEW o \in OrderID, NEW k \in KeyOrder,
           korder[o] # NoOrder => korder[o].status # "Finish",
           korder' = [korder EXCEPT ![o] = k],
           process' = process \/ process' = process \cup {o} \/ process' = process \ {o},
           OrderSound(o)'
    PROVE  /\ korder' \in [OrderID -> KeyOrder \cup {NoOrder}]
           /\ process' \subseteq OrderID
           /\ \A p \in OrderID : korder'[p] # NoOrder \/ p \in process' => OrderSound(p)'
           /\ FinalsKept
           /\ korder'[o] = k /\ k # NoOrder
           /\ \A p \in OrderID : p # o => korder'[p] = korder[p] /\ (p \in process' <=> p \in process)
<1>1. /\ korder \in [OrderID -> KeyOrder \cup {NoOrder}]
      /\ process \subseteq OrderID
      /\ NewestInForce
  BY DEF KeyGenInv, KeyTypes
<1>2. /\ korder' \in [OrderID -> KeyOrder \cup {NoOrder}]
      /\ process' \subseteq OrderID
      /\ korder'[o] = k
      /\ \A p \in OrderID : p # o => korder'[p] = korder[p] /\ (p \in process' <=> p \in process)
  BY <1>1
<1>3. Nodes' = Nodes /\ epochs' = epochs /\ Len(epochs) \in Nat
  BY <1>1, SameBlock
<1>4. k # NoOrder
  BY DEF KeyGenConstants
<1>5. ASSUME NEW p \in OrderID, korder'[p] # NoOrder \/ p \in process'
      PROVE  OrderSound(p)'
  <2>1. CASE p = o
    BY <2>1
  <2>2. CASE p # o
    <3>1. korder'[p] = korder[p] /\ (p \in process' <=> p \in process)
      BY <1>2, <2>2
    <3>2. OrderSound(p)
      BY <1>5, <3>1 DEF KeyGenInv
    <3> QED
      BY <1>3, <3>1, <3>2 DEF OrderSound, MadeNow
  <2> QED
    BY <2>1, <2>2
<1>6. FinalsKept
  BY <1>2, <1>3 DEF FinalsKept
<1> QED
  BY <1>2, <1>4, <1>5, <1>6

\* The waiting keys are as before when the orders written do not wait for a CU.
LEMMA WaitingSoundKept ==
    ASSUME KeyGenInv, Nodes' = Nodes, Len(epochs') = Len(epochs), waitAssign' = waitAssign,
           \A p \in OrderID : WaitingSound(p) => korder'[p] = korder[p]
    PROVE  /\ IsInjective(waitAssign')
           /\ \A i \in DOMAIN waitAssign' : WaitingSound(waitAssign[i])'
<1>1. /\ WaitingInv
      /\ waitAssign \in Seq(OrderID)
  BY DEF KeyGenInv, KeyTypes
<1>2. IsInjective(waitAssign')
  BY <1>1 DEF WaitingInv
<1>3. ASSUME NEW i \in DOMAIN waitAssign
      PROVE  WaitingSound(waitAssign[i])'
  <2>1. waitAssign[i] \in OrderID /\ WaitingSound(waitAssign[i])
    BY <1>1 DEF WaitingInv
  <2>2. korder'[waitAssign[i]] = korder[waitAssign[i]]
    BY <2>1
  <2> QED
    BY <2>1, <2>2 DEF WaitingSound, MadeNow
<1> QED
  BY <1>2, <1>3

\* Nor are there too many of them, unless more are prepared.
LEMMA WaitingKept ==
    ASSUME KeyGenInv, Nodes' = Nodes, Len(epochs') = Len(epochs), waitAssign' = waitAssign,
           Cardinality(Preparing') =< Cardinality(Preparing), Cardinality(Preparing') \in Nat,
           Cardinality(Preparing) \in Nat, MaxWaitAssignKeyOrders \in Nat,
           \A p \in OrderID : WaitingSound(p) => korder'[p] = korder[p]
    PROVE  WaitingInv'
<1>1. WaitingInv /\ Len(waitAssign) \in Nat
  BY DEF KeyGenInv, KeyTypes
<1>2. Len(waitAssign') + Cardinality(Preparing') =< MaxWaitAssignKeyOrders
  BY <1>1 DEF WaitingInv
<1> QED
  BY <1>2, WaitingSoundKept DEF WaitingInv

\* Orders that prepare keys are finitely many.
LEMMA PreparingFinite ==
    ASSUME KeyGenConstants, process \subseteq OrderID
    PROVE  IsFiniteSet(Preparing) /\ Cardinality(Preparing) \in Nat
<1>1. Preparing \subseteq OrderID
  BY DEF Preparing
<1> QED
  BY <1>1, FS_Subset, FS_CardinalityType DEF KeyGenConstants

(***************************************************************************)
(* A step that touches neither orders nor key nodes.                       *)
(***************************************************************************)
LEMMA AstOnlyKeeps ==
    ASSUME KeyGenConstants, KeyGenInv, UNCHANGED <<korder, process, waitAssign>>,
           NewestInForce', Len(epochs') = Len(epochs), Nodes' = Nodes,
           \A i \in 1 .. Len(epochs) : epochs'[i].keyNodeSet = epochs[i].keyNodeSet,
           ast' \in [CU -> Asset], opSymbol' \in [OpCU -> Symbol \cup {NoSymbol}],
           \A c \in CU :
             /\ \A x \in ast'[c].assets : x \in ast[c].assets \/ KeyOf(c, x.key, x.epoch)
             /\ \/ ast'[c].pubkeyEpoch = 0
                \/ ast'[c].pubkeyEpoch = ast[c].pubkeyEpoch /\ ast'[c].pubkey = ast[c].pubkey
    PROVE  KeyGenInv'
<1>1. NewestInForce /\ KeyTypes /\ AddressInv /\ OneOrderPerCU
  BY DEF KeyGenInv
<1>2. Len(epochs) \in Nat /\ Len(epochs') \in Nat
  BY <1>1, NewestFacts
<1>3. FinalsKept
  BY <1>2 DEF FinalsKept
<1>4. \A c, key, e : KeyOf(c, key, e) => KeyOf(c, key, e)'
  BY <1>2, <1>3, KeyOfKept
<1>5. AddressInv'
  BY <1>1, <1>2, <1>3, <1>4, AddressKept
<1>6. KeyTypes'
  BY <1>1 DEF KeyTypes
<1>7. ASSUME NEW o \in OrderID, korder'[o] # NoOrder \/ o \in process'
      PROVE  OrderSound(o)'
  <2>1. OrderSound(o)
    BY <1>7 DEF KeyGenInv
  <2> QED
    BY <2>1 DEF OrderSound, MadeNow
<1>8. WaitingInv'
  <2>1. Preparing' = Preparing
    BY DEF Preparing
  <2>2. Cardinality(Preparing) \in Nat /\ MaxWaitAssignKeyOrders \in Nat
    BY <1>1, PreparingFinite DEF KeyTypes, KeyGenConstants
  <2> QED
    BY <2>1, <2>2, WaitingKept
<1>9. OneOrderPerCU'
  BY <1>1 DEF OneOrderPerCU
<1> QED
  BY <1>5, <1>6, <1>7, <1>8, <1>9 DEF KeyGenInv

\* At genesis only operation CUs have keys, each its own.
LEMMA KeyGenInvInit ==
    ASSUME KeyGenConstants, KeyGenInit
    PROVE  KeyGenInv
<1>1. NewestInForce /\ Len(epochs) = 1 /\ epochs[1].keyNodeSet = GenesisKeyNodes
  <2>1. EpochsInit
    BY DEF KeyGenInit
  <2>2. epochs[1] = NewEpoch(1, GenesisKeyNodes, TRUE)
    BY <2>1 DEF EpochsInit
  <2> QED
    BY <2>1, <2>2, EpochsInitially DEF NewestInForce, NewEpoch
<1>2. \A o \in OrderID : korder[o] = NoOrder /\ o \notin process
  BY DEF KeyGenInit
<1>3. NewAsset(TRUE) \in Asset /\ NewAsset(FALSE) \in Asset
      /\ NewAsset(TRUE).assets = {} /\ NewAsset(FALSE).assets = {} /\ NewAsset(FALSE).pubkeyEpoch = 0
  BY DEF NewAsset, Asset, Migration
<1>4. ASSUME NEW c \in CU, c \in GenesisOpCU
      PROVE  /\ ast[c] \in Asset
             /\ \A x \in ast[c].assets : KeyOf(c, x.key, x.epoch)
             /\ PubkeySound(c)
  <2>1. GenesisKey(c) \in Key /\ GenesisKey(c).order = c /\ GenesisKey(c).nodes = GenesisKeyNodes
    BY <1>4, KeyNodeAssumption DEF GenesisKey, Key
  <2>2. ast[c] = setAddressAndPubkeyToCU(NewAsset(TRUE), GenesisKey(c), Chain, 1)
    BY <1>4 DEF KeyGenInit
  <2>3. Chain \in Symbol /\ 1 \in Nat
    BY DEF Symbol
  <2>4. /\ ast[c] \in Asset
        /\ ast[c].pubkey = GenesisKey(c) /\ ast[c].pubkeyEpoch = 1
        /\ \A x \in ast[c].assets : x.key = GenesisKey(c) /\ x.epoch = 1
    <3> DEFINE a == NewAsset(TRUE)
               key == GenesisKey(c)
    <3>1. a \in Asset /\ key \in Key /\ a.assets = {} /\ ast[c] = setAddressAndPubkeyToCU(a, key, Chain, 1)
      BY <2>1, <2>2, <1>3, Zenon
    <3> HIDE DEF a, key
    <3>2. /\ ast[c] \in Asset
          /\ ast[c].pubkey = key /\ ast[c].pubkeyEpoch = 1
          /\ \A x \in ast[c].assets : x \in a.assets \/ (x.key = key /\ x.epoch = 1)
      BY <3>1, <2>3, SetAddressFacts
    <3> QED
      BY <3>1, <3>2 DEF key
  <2>5. KeyOf(c, GenesisKey(c), 1)
    BY <2>1, <1>1, <1>4, AllAreAllButOne DEF KeyOf, Owns, KeyGenConstants
  <2> QED
    BY <2>4, <2>5 DEF PubkeySound
<1>5. ASSUME NEW c \in CU, c \notin GenesisOpCU
      PROVE  ast[c] = NewAsset(FALSE)
  BY <1>5 DEF KeyGenInit
<1>6. AddressInv
  BY <1>3, <1>4, <1>5, Zenon DEF AddressInv
<1>7. KeyTypes
  <2>1. ast \in [CU -> Asset]
    BY <1>3, <1>4, <1>5, Zenon DEF KeyGenInit
  <2>2. opSymbol \in [OpCU -> Symbol \cup {NoSymbol}]
    BY DEF KeyGenInit, Symbol
  <2>3. korder \in [OrderID -> KeyOrder \cup {NoOrder}] /\ process \subseteq OrderID
    BY DEF KeyGenInit
  <2>4. waitAssign \in Seq(OrderID)
    BY DEF KeyGenInit
  <2> QED
    BY <2>1, <2>2, <2>3, <2>4 DEF KeyTypes
<1>8. WaitingInv
  <2>1. Preparing = {} /\ waitAssign = << >> /\ Len(waitAssign) = 0 /\ DOMAIN waitAssign = {}
    BY DEF Preparing, KeyGenInit
  <2>2. Cardinality(Preparing) = 0
    BY <2>1, FS_EmptySet
  <2> QED
    BY <2>1, <2>2 DEF WaitingInv, IsInjective, KeyGenConstants
<1>9. OneOrderPerCU
  BY <1>2 DEF OneOrderPerCU, KeyGenInit
<1> QED
  BY <1>1, <1>2, <1>6, <1>7, <1>8, <1>9 DEF KeyGenInv

-----------------------------------------------------------------------------
(***************************************************************************)
(* Orders keep their CU: no CU gets a second order, and no more keys are   *)
(* prepared.                                                               *)
(***************************************************************************)
LEMMA SameTo ==
    ASSUME KeyGenConstants, KeyGenInv, process' \subseteq process,
           \A p \in process' : korder'[p].to = korder[p].to
    PROVE  /\ OneOrderPerCU'
           /\ Cardinality(Preparing') =< Cardinality(Preparing)
           /\ Cardinality(Preparing') \in Nat /\ Cardinality(Preparing) \in Nat
           /\ MaxWaitAssignKeyOrders \in Nat
<1>1. OneOrderPerCU'
  BY DEF KeyGenInv, OneOrderPerCU
<1>2. Preparing' \subseteq Preparing
  BY DEF Preparing
<1>3. IsFiniteSet(Preparing) /\ Cardinality(Preparing) \in Nat
  BY PreparingFinite DEF KeyGenInv, KeyTypes
<1>4. Cardinality(Preparing') =< Cardinality(Preparing) /\ IsFiniteSet(Preparing')
  BY <1>2, <1>3, FS_Subset
<1> QED
  BY <1>1, <1>3, <1>4, FS_CardinalityType DEF KeyGenConstants

(***************************************************************************)
(* handleMsgKeyGen for a CU that has a key of this epoch.                  *)
(***************************************************************************)
LEMMA DeriveAddressKeeps ==
    ASSUME KeyGenConstants, KeyGenInv, NEW to \in CU, NEW s \in Symbol,
           DeriveAddress(to, s), UNCHANGED <<epochVars, opSymbol>>
    PROVE  KeyGenInv'
<1> DEFINE a   == ast[to]
           own == AddAsset(a.assets, s, a.pubkey, CurrentIndex)
           all == IF s = Chain \/ HasAddress(a, Chain, CurrentIndex)
                  THEN own ELSE AddAsset(own, Chain, a.pubkey, CurrentIndex)
           b   == [a EXCEPT !.assets = all]
<1>1. NewestInForce /\ KeyTypes /\ AddressInv
  BY DEF KeyGenInv
<1>2. /\ NewestInForce' /\ Nodes' = Nodes /\ epochs' = epochs /\ CurrentIndex = Len(epochs)
      /\ Len(epochs) \in Nat \ {0}
  BY <1>1, SameBlock
<1>3. /\ a \in Asset /\ a.assets \in SUBSET AssetAddress /\ Chain \in Symbol
      /\ a.pubkeyEpoch = Len(epochs)
  BY <1>1, <1>2 DEF KeyTypes, Asset, Symbol, DeriveAddress
<1>4. KeyOf(to, a.pubkey, Len(epochs)) /\ a.pubkey \in Key
  BY <1>1, <1>2, <1>3 DEF AddressInv, PubkeySound, KeyOf
<1>5. ast' = [ast EXCEPT ![to] = b] /\ UNCHANGED <<korder, process, waitAssign, opSymbol>>
  BY DEF DeriveAddress
<1> HIDE DEF a
<1>6. /\ own \in SUBSET AssetAddress
      /\ \A x \in own : x \in a.assets \/ (x.key = a.pubkey /\ x.epoch = Len(epochs))
  BY <1>2, <1>3, <1>4, AddAssetFacts
<1> HIDE DEF own
<1>7. /\ AddAsset(own, Chain, a.pubkey, CurrentIndex) \in SUBSET AssetAddress
      /\ \A x \in AddAsset(own, Chain, a.pubkey, CurrentIndex) :
            x \in own \/ (x.key = a.pubkey /\ x.epoch = Len(epochs))
  BY <1>2, <1>3, <1>4, <1>6, AddAssetFacts
<1>8. /\ all \in SUBSET AssetAddress
      /\ \A x \in all : x \in a.assets \/ (x.key = a.pubkey /\ x.epoch = Len(epochs))
  BY <1>6, <1>7
<1> HIDE DEF all
<1>9. b \in Asset /\ b.assets = all /\ b.pubkey = a.pubkey /\ b.pubkeyEpoch = a.pubkeyEpoch
  BY <1>3, <1>8 DEF Asset
<1> HIDE DEF b
<1>10. ast' \in [CU -> Asset] /\ ast'[to] = b /\ \A c \in CU : c # to => ast'[c] = ast[c]
  BY <1>1, <1>5, <1>9 DEF KeyTypes
<1>11. ASSUME NEW c \in CU
       PROVE  /\ \A x \in ast'[c].assets : x \in ast[c].assets \/ KeyOf(c, x.key, x.epoch)
              /\ ast'[c].pubkeyEpoch = ast[c].pubkeyEpoch /\ ast'[c].pubkey = ast[c].pubkey
  <2>1. CASE c = to
    BY <2>1, <1>4, <1>8, <1>9, <1>10 DEF a
  <2>2. CASE c # to
    BY <2>2, <1>10
  <2> QED
    BY <2>1, <2>2
<1>12. opSymbol' \in [OpCU -> Symbol \cup {NoSymbol}]
  BY <1>1, <1>5 DEF KeyTypes
<1> QED
  BY <1>2, <1>5, <1>10, <1>11, <1>12, AstOnlyKeeps

\* Fees are natural numbers.
LEMMA FeeIsNat ==
    ASSUME KeyGenConstants, NEW to, NEW s
    PROVE  FeeOf(to, s) \in Nat
  BY DEF KeyGenConstants, FeeOf, getFeeCoin

(***************************************************************************)
(* A CU gets the key of order o, which is finished for it in this step:    *)
(* the address invariant is kept.                                          *)
(***************************************************************************)
LEMMA NewKeyKeeps ==
    ASSUME KeyGenInv, FinalsKept, UNCHANGED epochVars, NEW to \in CU, NEW s \in Symbol,
           NEW o \in OrderID, MadeNow(o), NEW b \in Asset,
           korder'[o] # NoOrder, korder'[o].status = "Finish", korder'[o].to = to,
           b.assets = setAddressAndPubkeyToCU(ast[to], korder[o].key, s, Len(epochs)).assets,
           b.pubkey = setAddressAndPubkeyToCU(ast[to], korder[o].key, s, Len(epochs)).pubkey,
           b.pubkeyEpoch = setAddressAndPubkeyToCU(ast[to], korder[o].key, s, Len(epochs)).pubkeyEpoch,
           ast' = [ast EXCEPT ![to] = b]
    PROVE  AddressInv' /\ ast' \in [CU -> Asset]
<1> DEFINE a == ast[to]
           key == korder[o].key
           new == setAddressAndPubkeyToCU(a, key, s, Len(epochs))
<1>1. NewestInForce /\ ast \in [CU -> Asset] /\ AddressInv
  BY DEF KeyGenInv, KeyTypes
<1>2. epochs' = epochs /\ Len(epochs) \in Nat \ {0}
  BY <1>1, SameBlock
<1>3. a \in Asset /\ key \in Key /\ key.order = o /\ AllButOne(key.nodes, epochs[Len(epochs)].keyNodeSet)
  BY <1>1 DEF MadeNow, Nodes
<1>4. b.assets = new.assets /\ b.pubkey = new.pubkey /\ b.pubkeyEpoch = new.pubkeyEpoch
  OBVIOUS
<1> HIDE DEF a, key
<1>5. /\ new.pubkey = key /\ new.pubkeyEpoch = Len(epochs)
      /\ \A x \in new.assets : x \in a.assets \/ (x.key = key /\ x.epoch = Len(epochs))
  BY <1>2, <1>3, SetAddressFacts
<1> HIDE DEF new
<1>6. ast' \in [CU -> Asset] /\ ast'[to] = b /\ \A c \in CU : c # to => ast'[c] = ast[c]
  BY <1>1
<1>7. \A k, e : k = key /\ e = Len(epochs) => KeyOf(to, k, e)'
  BY <1>2, <1>3 DEF KeyOf, Owns
<1>8. ASSUME NEW c \in CU
      PROVE  /\ \A x \in ast'[c].assets : x \in ast[c].assets \/ KeyOf(c, x.key, x.epoch)'
             /\ \/ ast'[c].pubkeyEpoch = 0
                \/ ast'[c].pubkeyEpoch = ast[c].pubkeyEpoch /\ ast'[c].pubkey = ast[c].pubkey
                \/ PubkeySound(c)'
  <2>1. CASE c = to
    <3>0. ast'[to].pubkey = key /\ ast'[to].pubkeyEpoch = Len(epochs)
      BY <1>4, <1>5, <1>6, Zenon
    <3>1. PubkeySound(to)'
      BY <3>0, <1>7, Zenon DEF PubkeySound, KeyOf, Owns
    <3>2. \A x \in ast'[to].assets : x \in ast[to].assets \/ KeyOf(to, x.key, x.epoch)'
      BY <1>2, <1>4, <1>5, <1>6, <1>7 DEF KeyOf, Owns, a
    <3> QED
      BY <2>1, <3>1, <3>2
  <2>2. CASE c # to
    BY <2>2, <1>6
  <2> QED
    BY <2>1, <2>2
<1>9. AddressInv'
  BY <1>1, <1>2, <1>8, AddressKept
<1> QED
  BY <1>6, <1>9

(***************************************************************************)
(* handleMsgKeyGen when a key is waiting: it is given to the CU.           *)
(***************************************************************************)
LEMMA TakePreparedKeyKeeps ==
    ASSUME KeyGenConstants, KeyGenInv, NEW from \in Payer, NEW to \in CU, NEW s \in Symbol, NEW fee \in Nat,
           TakePreparedKey(from, to, s, fee), UNCHANGED <<epochVars, opSymbol>>
    PROVE  KeyGenInv'
<1>1. NewestInForce /\ KeyTypes /\ WaitingInv
  BY DEF KeyGenInv
<1>2. /\ NewestInForce' /\ Nodes' = Nodes /\ epochs' = epochs /\ CurrentIndex = Len(epochs)
      /\ Len(epochs) \in Nat \ {0}
  BY <1>1, SameBlock
<1>3. waitAssign # << >> /\ waitAssign \in Seq(OrderID) /\ Len(waitAssign) \in Nat /\ 1 \in DOMAIN waitAssign
  BY <1>1 DEF KeyTypes, TakePreparedKey
<1>4. PICK w \in OrderID : w = waitAssign[1]
  BY <1>3
<1>5. WaitingSound(w)
  BY <1>1, <1>3, <1>4 DEF WaitingInv
<1> DEFINE k == [korder[w] EXCEPT !.from = from, !.symbol = s, !.to = to,
                                  !.openFee = fee, !.status = "Finish"]
           b == setAddressAndPubkeyToCU(ast[to], korder[w].key, s, Len(epochs))
<1>5a. /\ waitAssign' = Tail(waitAssign)
       /\ korder' = [korder EXCEPT ![w] = k] /\ process' = process
       /\ ast' = [ast EXCEPT ![to] = b]
  BY <1>2, <1>4 DEF TakePreparedKey
<1>6. korder[w] \in KeyOrder /\ OrderSound(w) /\ w \notin process
  BY <1>5, OrderFacts DEF WaitingSound, OrderSound
<1>7. /\ k \in KeyOrder /\ k.status = "Finish" /\ k.to = to /\ k.symbol = s
  BY <1>6, Zenon DEF KeyOrder
<1> HIDE DEF k
<1>8. korder'[w] = k /\ k # NoOrder
  BY <1>1, <1>5a, <1>5, <1>7 DEF KeyTypes, KeyGenConstants
<1>9. OrderSound(w)'
  BY <1>5a, <1>6, <1>7, <1>8 DEF OrderSound
<1>10. korder[w].status # "Finish"
  BY <1>5 DEF WaitingSound
<1>11. /\ korder' \in [OrderID -> KeyOrder \cup {NoOrder}]
       /\ process' \subseteq OrderID
       /\ \A p \in OrderID : korder'[p] # NoOrder \/ p \in process' => OrderSound(p)'
       /\ FinalsKept
       /\ \A p \in OrderID : p # w => korder'[p] = korder[p]
  BY <1>5a, <1>5, <1>7, <1>9, <1>10, OneOrderKeeps, Zenon
<1>12. AddressInv' /\ ast' \in [CU -> Asset]
  <2>1. MadeNow(w) /\ korder[w].key \in Key /\ ast[to] \in Asset
    BY <1>1, <1>5, Zenon DEF WaitingSound, MadeNow, KeyTypes
  <2>2. b \in Asset
    BY <2>1, <1>2, SetAddressFacts, Zenon
  <2> QED
    BY <2>1, <2>2, <1>5a, <1>5, <1>7, <1>8, <1>11, NewKeyKeeps, Zenon
<1>13. /\ OneOrderPerCU'
       /\ Cardinality(Preparing') =< Cardinality(Preparing)
       /\ Cardinality(Preparing') \in Nat /\ Cardinality(Preparing) \in Nat
       /\ MaxWaitAssignKeyOrders \in Nat
  <2>1. \A p \in process' : korder'[p].to = korder[p].to
    BY <1>5a, <1>6, <1>11
  <2> QED
    BY <2>1, <1>5a, SameTo
<1>14. /\ Tail(waitAssign) \in Seq(OrderID)
       /\ Len(Tail(waitAssign)) = Len(waitAssign) - 1
       /\ \A i \in DOMAIN Tail(waitAssign) :
             i + 1 \in DOMAIN waitAssign /\ Tail(waitAssign)[i] = waitAssign[i + 1] /\ i + 1 # 1
       /\ \A i \in DOMAIN Tail(waitAssign) : i \in Nat
  BY <1>5a, <1>3
<1>15. WaitingInv'
  <2>1. ASSUME NEW i \in DOMAIN waitAssign, i # 1
        PROVE  waitAssign[i] # w /\ waitAssign[i] \in OrderID
    BY <2>1, <1>1, <1>3, <1>4 DEF WaitingInv, IsInjective
  <2>2. IsInjective(Tail(waitAssign))
    <3> SUFFICES ASSUME NEW i \in DOMAIN Tail(waitAssign), NEW j \in DOMAIN Tail(waitAssign),
                        Tail(waitAssign)[i] = Tail(waitAssign)[j]
                 PROVE  i = j
      BY DEF IsInjective
    <3>1. i + 1 = j + 1
      BY <1>1, <1>14 DEF WaitingInv, IsInjective
    <3> QED
      BY <3>1, <1>14
  <2>3. ASSUME NEW i \in DOMAIN waitAssign'
        PROVE  WaitingSound(waitAssign[i])'
    <3>1. PICK p \in OrderID : p = waitAssign'[i] /\ p # w /\ WaitingSound(p)
      BY <1>1, <1>5a, <1>14, <2>1 DEF WaitingInv
    <3>2. korder'[p] = korder[p]
      BY <3>1, <1>11
    <3> QED
      BY <3>1, <3>2, <1>2 DEF WaitingSound, MadeNow
  <2>4. Len(waitAssign') + Cardinality(Preparing') =< MaxWaitAssignKeyOrders
    BY <1>1, <1>5a, <1>3, <1>13, <1>14 DEF WaitingInv
  <2> QED
    BY <2>2, <2>3, <2>4, <1>5a DEF WaitingInv
<1>16. KeyTypes'
  BY <1>1, <1>5a, <1>11, <1>12, <1>14 DEF KeyTypes
<1> QED
  BY <1>2, <1>11, <1>12, <1>13, <1>15, <1>16 DEF KeyGenInv

(***************************************************************************)
(* handleMsgKeyGen when no key is waiting: the CU has no other order.      *)
(***************************************************************************)
LEMMA OrderKeyKeeps ==
    ASSUME KeyGenConstants, KeyGenInv, NEW o \in OrderID, NEW from \in Payer, NEW to \in CU, NEW s \in Symbol,
           NEW fee \in Nat, korder[o] = NoOrder, ~checkCuKeyGenOrder(to),
           OrderKey(o, from, to, s, fee), UNCHANGED <<epochVars, opSymbol>>
    PROVE  KeyGenInv'
<1>1. NewestInForce /\ KeyTypes /\ WaitingInv /\ AddressInv /\ OneOrderPerCU
  BY DEF KeyGenInv
<1>2. /\ NewestInForce' /\ Nodes' = Nodes /\ epochs' = epochs
      /\ Len(epochs) \in Nat \ {0} /\ CurrentEpoch.keyNodeSet = Nodes /\ Nodes \subseteq KeyNode
  BY <1>1, SameBlock, Zenon
<1>3. PICK nodes \in SigningNodes(Nodes) : korder' = [korder EXCEPT ![o] = NewOrderKeyGen(from, s, nodes, to, fee)]
  BY <1>2, Zenon DEF OrderKey
<1> DEFINE k == NewOrderKeyGen(from, s, nodes, to, fee)
           b == [ast[to] EXCEPT !.stored = TRUE]
<1>4. nodes \subseteq Nodes /\ AllButOne(nodes, Nodes)
  BY <1>3, SigningNodesAmong
<1>5. k \in KeyOrder /\ k.status = "Begin" /\ k.to = to /\ k.symbol = s /\ k.keyNodes = nodes
  BY <1>2, <1>4 DEF NewOrderKeyGen, KeyOrder
<1> HIDE DEF k
<1>6. process' = process \cup {o} /\ waitAssign' = waitAssign /\ ast' = [ast EXCEPT ![to] = b]
  BY DEF OrderKey
<1>7. korder' = [korder EXCEPT ![o] = k] /\ korder'[o] = k /\ k # NoOrder
  BY <1>1, <1>3, <1>5 DEF KeyTypes, KeyGenConstants, k
<1>8. OrderSound(o)'
  BY <1>2, <1>4, <1>5, <1>6, <1>7 DEF OrderSound
<1>9. /\ korder' \in [OrderID -> KeyOrder \cup {NoOrder}]
      /\ process' \subseteq OrderID
      /\ \A p \in OrderID : korder'[p] # NoOrder \/ p \in process' => OrderSound(p)'
      /\ FinalsKept
      /\ \A p \in OrderID : p # o => korder'[p] = korder[p]
  BY <1>5, <1>6, <1>7, <1>8, OneOrderKeeps, Zenon
<1>10. o \notin process
  BY OrderFacts
<1>11. b \in Asset /\ b.assets = ast[to].assets /\ b.pubkey = ast[to].pubkey
       /\ b.pubkeyEpoch = ast[to].pubkeyEpoch
  BY <1>1, Zenon DEF KeyTypes, Asset
<1> HIDE DEF b
<1>12. ast' \in [CU -> Asset] /\ ast'[to] = b /\ \A c \in CU : c # to => ast'[c] = ast[c]
  BY <1>1, <1>6, <1>11 DEF KeyTypes
<1>13. AddressInv'
  <2>1. \A c \in CU : /\ ast'[c].assets = ast[c].assets
                      /\ ast'[c].pubkeyEpoch = ast[c].pubkeyEpoch /\ ast'[c].pubkey = ast[c].pubkey
    BY <1>11, <1>12
  <2> QED
    BY <2>1, <1>1, <1>2, <1>9, AddressKept, Zenon
<1>14. OneOrderPerCU'
  <2>1. \A p \in process : p # o /\ p \in OrderID /\ korder'[p] = korder[p] /\ korder[p].to # to
    BY <1>1, <1>9, <1>10 DEF KeyTypes, checkCuKeyGenOrder
  <2>2. korder'[o].to = to /\ process' = process \cup {o}
    BY <1>5, <1>6, <1>7
  <2>3. \A p, q \in process : p # q /\ korder[p].to # NoCU => korder[p].to # korder[q].to
    BY <1>1 DEF OneOrderPerCU
  <2>4. ASSUME NEW p \in process', NEW q \in process', p # q, korder'[p].to # NoCU
        PROVE  korder'[p].to # korder'[q].to
    <3>1. CASE p \in process /\ q \in process
      BY <3>1, <2>1, <2>3, <2>4, Zenon
    <3>2. CASE p = o
      BY <3>2, <2>1, <2>2, <2>4, Zenon
    <3>3. CASE q = o
      BY <3>3, <2>1, <2>2, <2>4, Zenon
    <3> QED
      BY <3>1, <3>2, <3>3, <2>2, Zenon
  <2> QED
    BY <2>4, Zenon DEF OneOrderPerCU
<1>15. WaitingInv'
  <2>1. Preparing' = Preparing
    <3>1. k.to # NoCU
      BY <1>5 DEF KeyGenConstants
    <3>2. \A p \in process : p # o /\ p \in OrderID
      BY <1>1, <1>10 DEF KeyTypes
    <3> QED
      BY <3>1, <3>2, <1>6, <1>7, <1>9 DEF Preparing
  <2>2. Cardinality(Preparing) \in Nat /\ MaxWaitAssignKeyOrders \in Nat
    BY <1>1, PreparingFinite DEF KeyTypes, KeyGenConstants
  <2>3. \A p \in OrderID : WaitingSound(p) => korder'[p] = korder[p]
    BY <1>9 DEF WaitingSound
  <2>4. Cardinality(Preparing') \in Nat /\ Cardinality(Preparing') =< Cardinality(Preparing)
    BY <2>1, <2>2
  <2>5. Nodes' = Nodes /\ Len(epochs') = Len(epochs) /\ waitAssign' = waitAssign
    BY <1>2, <1>6, Zenon
  <2> QED
    BY <2>2, <2>3, <2>4, <2>5, WaitingKept, Zenon
<1>16. KeyTypes'
  BY <1>1, <1>6, <1>9, <1>12 DEF KeyTypes
<1> QED
  BY <1>2, <1>9, <1>13, <1>14, <1>15, <1>16, Zenon DEF KeyGenInv

(***************************************************************************)
(* An open order that stays open and keeps its CU, and nothing else, is    *)
(* written: handleMsgKeyGenWaitSign and the retry of an order.             *)
(***************************************************************************)
LEMMA OpenOrderKeeps ==
    ASSUME KeyGenConstants, KeyGenInv, UNCHANGED <<epochVars, process, waitAssign, ast, opSymbol>>,
           NEW o \in OrderID, o \in process, NEW k \in KeyOrder,
           korder' = [korder EXCEPT ![o] = k], k.to = korder[o].to, OrderSound(o)'
    PROVE  KeyGenInv'
<1>1. NewestInForce /\ KeyTypes /\ AddressInv
  BY DEF KeyGenInv
<1>2. /\ NewestInForce' /\ Nodes' = Nodes /\ epochs' = epochs /\ Len(epochs) \in Nat
  BY <1>1, SameBlock
<1>3. korder[o] # NoOrder /\ korder[o].status \in {"Begin", "WaitSign"}
  BY OrderFacts DEF OrderSound
<1>4. /\ korder' \in [OrderID -> KeyOrder \cup {NoOrder}]
      /\ \A p \in OrderID : korder'[p] # NoOrder \/ p \in process' => OrderSound(p)'
      /\ FinalsKept
      /\ korder'[o] = k
      /\ \A p \in OrderID : p # o => korder'[p] = korder[p]
  BY <1>3, OneOrderKeeps, Zenon
<1>5. AddressInv'
  BY <1>1, <1>2, <1>4, AddressKept
<1>6. /\ OneOrderPerCU'
      /\ Cardinality(Preparing') =< Cardinality(Preparing)
      /\ Cardinality(Preparing') \in Nat /\ Cardinality(Preparing) \in Nat
      /\ MaxWaitAssignKeyOrders \in Nat
  <2>1. \A p \in process' : korder'[p].to = korder[p].to
    BY <1>1, <1>4 DEF KeyTypes
  <2> QED
    BY <2>1, SameTo
<1>7. WaitingInv'
  <2>1. \A p \in OrderID : WaitingSound(p) => korder'[p] = korder[p]
    BY <1>3, <1>4 DEF WaitingSound
  <2> QED
    BY <2>1, <1>2, <1>6, WaitingKept
<1>8. KeyTypes'
  BY <1>1, <1>4 DEF KeyTypes
<1> QED
  BY <1>2, <1>4, <1>5, <1>6, <1>7, <1>8 DEF KeyGenInv

\* handleMsgKeyGenWaitSign: the key is of the key nodes of the epoch in force.
LEMMA WaitSignKeeps ==
    ASSUME KeyGenConstants, KeyGenInv, NEW o \in OrderID, NEW from \in Payer, MsgKeyGenWaitSign(o, from)
    PROVE  KeyGenInv'
<1> DEFINE key == [order |-> o, nodes |-> korder[o].keyNodes]
           k == [korder[o] EXCEPT !.epoch = CurrentIndex, !.status = "WaitSign", !.key = key]
<1>1. /\ korder[o] # NoOrder /\ korder[o].status = "Begin"
      /\ korder' = [korder EXCEPT ![o] = k]
      /\ UNCHANGED <<epochVars, process, waitAssign, ast, opSymbol>>
  BY DEF MsgKeyGenWaitSign
<1>2. korder[o] \in KeyOrder /\ OrderSound(o)
  BY <1>1, OrderFacts
<1>3. /\ Nodes' = Nodes /\ epochs' = epochs /\ CurrentIndex = Len(epochs) /\ Len(epochs) \in Nat
  BY <1>1, SameBlock DEF KeyGenInv
<1>4. key \in Key /\ key.order = o /\ key.nodes = korder[o].keyNodes
  BY <1>2 DEF KeyOrder, Key
<1> HIDE DEF key
<1>5. /\ k \in KeyOrder /\ k.status = "WaitSign" /\ k.to = korder[o].to /\ k.symbol = korder[o].symbol
      /\ k.key = key /\ k.epoch = Len(epochs)
  BY <1>2, <1>3, <1>4, Zenon DEF KeyOrder
<1> HIDE DEF k
<1>6. korder'[o] = k /\ k # NoOrder
  BY <1>1, <1>5 DEF KeyGenInv, KeyTypes, KeyGenConstants
<1>7. o \in process /\ AllButOne(korder[o].keyNodes, Nodes)
  BY <1>1, <1>2 DEF OrderSound
<1>8. OrderSound(o)'
  <2>1. MadeNow(o)'
    BY <1>3, <1>4, <1>5, <1>6, <1>7 DEF MadeNow
  <2> QED
    BY <2>1, <1>1, <1>2, <1>5, <1>6, <1>7, Zenon DEF OrderSound
<1> QED
  BY <1>1, <1>5, <1>7, <1>8, OpenOrderKeeps, Zenon

\* The retry of an order gives it to key nodes of the epoch in force.
LEMMA RetryKeyGenKeeps ==
    ASSUME KeyGenConstants, KeyGenInv, NEW o \in OrderID, RetryKeyGen(o)
    PROVE  KeyGenInv'
<1>1. /\ korder[o] # NoOrder /\ korder[o].status \in {"Begin", "WaitSign"}
      /\ UNCHANGED <<epochVars, process, waitAssign, ast, opSymbol>>
  BY DEF RetryKeyGen
<1>2. korder[o] \in KeyOrder /\ OrderSound(o)
  BY <1>1, OrderFacts
<1>3. /\ Nodes' = Nodes /\ CurrentEpoch.keyNodeSet = Nodes /\ Nodes \subseteq KeyNode
  BY <1>1, SameBlock DEF KeyGenInv
<1>4. PICK nodes \in SigningNodes(Nodes) :
        korder' = [korder EXCEPT ![o] = [@ EXCEPT !.keyNodes = nodes, !.status = "Begin"]]
  BY <1>3, Zenon DEF RetryKeyGen
<1> DEFINE k == [korder[o] EXCEPT !.keyNodes = nodes, !.status = "Begin"]
<1>5. nodes \subseteq Nodes /\ AllButOne(nodes, Nodes)
  BY <1>4, SigningNodesAmong
<1>6. /\ k \in KeyOrder /\ k.status = "Begin" /\ k.to = korder[o].to /\ k.symbol = korder[o].symbol
      /\ k.keyNodes = nodes
  BY <1>2, <1>3, <1>5, Zenon DEF KeyOrder
<1>7. korder' = [korder EXCEPT ![o] = k]
  BY <1>4
<1> HIDE DEF k
<1>8. korder'[o] = k /\ k # NoOrder /\ o \in process
  BY <1>1, <1>2, <1>6, <1>7, Zenon DEF KeyGenInv, KeyTypes, KeyGenConstants, OrderSound
<1>9. OrderSound(o)'
  BY <1>1, <1>2, <1>3, <1>5, <1>6, <1>8, Zenon DEF OrderSound
<1> QED
  BY <1>1, <1>6, <1>7, <1>8, <1>9, OpenOrderKeeps, Zenon

=============================================================================
