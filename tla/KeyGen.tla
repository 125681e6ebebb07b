------------------------------- MODULE KeyGen -------------------------------
(***************************************************************************)
(* Key generation (x/keygen).  An order asks the key nodes of the epoch to *)
(* make a key together; every one of them signs the key (WaitSign), then   *)
(* the key is used once to sign (Finish) and becomes the address of a CU,  *)
(* or waits until a CU asks for one.  A new epoch voids waiting keys and   *)
(* starts all open orders again, and every operation CU needs a new key.   *)
(*                                                                         *)
(* A key is known by its order and by the nodes that made it, an address   *)
(* by its key.  The tokens are those of one external chain, Chain.         *)
(***************************************************************************)
EXTENDS Epochs, Functions

CONSTANTS User, OpCU,     \* custodian units; operation CUs that may be opened
          Chain, Token,   \* the main token of the chain and its other tokens
          OrderID,
          NoOrder, NoCU, NoKey, NoSymbol,
          OpenFee, SysOpenFee,      \* fees of a first key, for users and operation CUs
          InitialCoins,             \* native coins of every CU at genesis
          GenesisOpCU,              \* operation CUs with a key of the first epoch
          MaxOpCUNumber,            \* parameter of a token
          MaxPreKeyGenOrders, MaxWaitAssignKeyOrders, MaxKeyNodeHeartbeat

VARIABLES korder,     \* key generation orders by id (x/order)
          process,    \* ids on the process list of key generation orders
          waitAssign, \* finished orders whose key has no CU yet
          ast,        \* CUIBCAsset by CU
          opSymbol,   \* symbol of an operation CU
          coins, held, feePool, \* native balances, on hold, and the fee pool
          beat        \* height of the last heartbeat of a key node

keygenVars == <<height, epochs, korder, process, waitAssign, ast, opSymbol, coins, held, feePool, beat>>

Symbol == {Chain} \cup Token
CU == User \cup OpCU
Payer == User \cup KeyNode   \* key nodes are CUs too

\* MigrationStatus of an operation CU.
Migration == {"Begin", "KeyGenBegin", "KeyGenFinish", "AssetBegin", "MainTokenFinish", "Finish"}

Key == [order : OrderID \cup GenesisOpCU, nodes : SUBSET KeyNode]
AssetAddress == [symbol : Symbol, epoch : Nat, key : Key]

KeyOrder == [status : {"Begin", "WaitSign", "SignFinish", "Finish"}, from : Payer, to : CU \cup {NoCU},
             symbol : Symbol \cup {NoSymbol}, keyNodes : SUBSET KeyNode,
             key : Key \cup {NoKey}, epoch : Nat, openFee : Nat]

(***************************************************************************)
(* What the constants of KeyGen have to be: an order is no genesis CU, the *)
(* values that stand for nothing are nothing else, fees are natural.       *)
(***************************************************************************)
KeyGenConstants ==
    /\ GenesisOpCU \subseteq OpCU /\ OrderID \cap GenesisOpCU = {} /\ IsFiniteSet(OrderID)
    /\ NoOrder \notin KeyOrder /\ NoCU \notin CU
    /\ OpenFee \in Nat /\ SysOpenFee \in Nat
    /\ MaxWaitAssignKeyOrders \in Nat

Asset == [stored : BOOLEAN, pubkey : Key \cup {NoKey}, pubkeyEpoch : Nat,
          assets : SUBSET AssetAddress, migration : Migration]

NewAsset(stored) ==
    [stored |-> stored, pubkey |-> NoKey, pubkeyEpoch |-> 0, assets |-> {}, migration |-> "Finish"]

GenesisKey(c) == [order |-> c, nodes |-> GenesisKeyNodes]

IsOpCU(c) == c \in OpCU /\ opSymbol[c] # NoSymbol
OpCUs == {c \in OpCU : IsOpCU(c)}

\* GetAssetAddress: the address of symbol s that CU c has in epoch e.
HasAddress(a, s, e) == \E x \in a.assets : x.symbol = s /\ x.epoch = e

\* AddAsset: the addresses of all epochs but the last two are dropped.
AddAsset(assets, s, key, e) ==
    {x \in assets : e < 3 \/ e - x.epoch < 2} \cup {[symbol |-> s, epoch |-> e, key |-> key]}

(***************************************************************************)
(* SetAssetAddress for a token and for its chain, and SetAssetPubkey.      *)
(***************************************************************************)
setAddressAndPubkeyToCU(a, key, s, e) ==
    LET own == AddAsset(a.assets, s, key, e)
    IN  [a EXCEPT !.stored = TRUE, !.pubkey = key, !.pubkeyEpoch = e,
                  !.assets = IF s = Chain THEN own ELSE AddAsset(own, Chain, key, e)]

CanSetAddress(a, s, e) == ~HasAddress(a, s, e) /\ (s # Chain => ~HasAddress(a, Chain, e))

\* checkCuKeyGenOrder: an order for the CU is under way.
checkCuKeyGenOrder(c) == \E o \in process : korder[o].to = c

\* The key node silent for longest, if it has been silent for too long.
ExcludedKeyNodes(nodes) ==
    {n \in nodes : /\ height - beat[n] >= MaxKeyNodeHeartbeat
                   /\ \A p \in nodes : beat[n] =< beat[p]}

\* The nodes left when getExcludedKeyNode has excluded one, or none.
SigningNodes(nodes) ==
    IF ExcludedKeyNodes(nodes) = {} THEN {nodes} ELSE {nodes \ {n} : n \in ExcludedKeyNodes(nodes)}

NewOrderKeyGen(from, s, nodes, to, fee) ==
    [status |-> "Begin", from |-> from, to |-> to, symbol |-> s, keyNodes |-> nodes,
     key |-> NoKey, epoch |-> 0, openFee |-> fee]

getFeeCoin(c, s) == IF IsOpCU(c) THEN SysOpenFee ELSE OpenFee

KeyGenInit ==
    /\ EpochsInit
    /\ korder = [o \in OrderID |-> NoOrder]
    /\ process = {}
    /\ waitAssign = << >>
    /\ opSymbol = [c \in OpCU |-> IF c \in GenesisOpCU THEN Chain ELSE NoSymbol]
    /\ ast = [c \in CU |-> IF c \in GenesisOpCU
                           THEN setAddressAndPubkeyToCU(NewAsset(TRUE), GenesisKey(c), Chain, 1)
                           ELSE NewAsset(FALSE)]
    /\ coins = [p \in Payer |-> InitialCoins]
    /\ held = [p \in Payer |-> 0]
    /\ feePool = 0
    /\ beat = [n \in KeyNode |-> 1]

-----------------------------------------------------------------------------
\* handleMsgKeyGen up to the three ways to get an address.
KeyGenAllowed(o, from, to, s, fee) ==
    LET a == ast[to] IN
    /\ to \in User \/ IsOpCU(to)
    /\ coins[from] >= fee
    /\ korder[o] = NoOrder
    /\ ~HasAddress(a, s, CurrentIndex)
    /\ IsOpCU(to) => /\ opSymbol[to] = s
                     /\ IsActiveKeyNode(from)
                     /\ a.pubkeyEpoch = 0
    /\ ~checkCuKeyGenOrder(to)

FeeOf(to, s) == IF ast[to].pubkeyEpoch > 0 THEN 0 ELSE getFeeCoin(to, s)

\* The CU has a key of this epoch: the address of one more token is derived from it.
DeriveAddress(to, s) ==
    LET a   == ast[to]
        own == AddAsset(a.assets, s, a.pubkey, CurrentIndex)
    IN  /\ a.pubkeyEpoch = CurrentIndex
        /\ ast' = [ast EXCEPT ![to].assets =
                     IF s = Chain \/ HasAddress(a, Chain, CurrentIndex)
                     THEN own ELSE AddAsset(own, Chain, a.pubkey, CurrentIndex)]
        /\ UNCHANGED <<korder, process, waitAssign, coins, held, feePool>>

\* A key is waiting: it becomes the key of the CU, and the fee is taken at once.
TakePreparedKey(from, to, s, fee) ==
    LET w == waitAssign[1] IN
    /\ ast[to].pubkeyEpoch # CurrentIndex
    /\ waitAssign # << >>
    /\ CanSetAddress(ast[to], s, CurrentIndex)
    /\ ast' = [ast EXCEPT ![to] = setAddressAndPubkeyToCU(@, korder[w].key, s, CurrentIndex)]
    /\ korder' = [korder EXCEPT ![w] = [@ EXCEPT !.from = from, !.symbol = s, !.to = to,
                                                 !.openFee = fee, !.status = "Finish"]]
    /\ waitAssign' = Tail(waitAssign)
    /\ coins' = [coins EXCEPT ![from] = @ - fee]
    /\ feePool' = feePool + fee
    /\ UNCHANGED <<process, held>>

\* No key is waiting: an order is created, and the fee of a first key put on hold.
OrderKey(o, from, to, s, fee) ==
    /\ ast[to].pubkeyEpoch # CurrentIndex
    /\ waitAssign = << >>
    /\ \E nodes \in SigningNodes(CurrentEpoch.keyNodeSet) :
        /\ nodes # {}
        /\ korder' = [korder EXCEPT ![o] = NewOrderKeyGen(from, s, nodes, to, fee)]
    /\ process' = process \cup {o}
    /\ coins' = [coins EXCEPT ![from] = @ - fee]
    /\ held' = [held EXCEPT ![from] = @ + fee]
    /\ ast' = [ast EXCEPT ![to].stored = TRUE]
    /\ UNCHANGED <<waitAssign, feePool>>

MsgKeyGen(o, from, to, s) ==
    /\ KeyGenAllowed(o, from, to, s, FeeOf(to, s))
    /\ \/ DeriveAddress(to, s)
       \/ TakePreparedKey(from, to, s, FeeOf(to, s))
       \/ OrderKey(o, from, to, s, FeeOf(to, s))
    /\ UNCHANGED <<epochVars, opSymbol, beat>>

(***************************************************************************)
(* handleMsgKeyGenWaitSign: all key nodes of the order have signed the key *)
(* and the sender names the current epoch.  Only for an operation CU, or   *)
(* for no CU, the sender has to be a key node itself.                      *)
(***************************************************************************)
MsgKeyGenWaitSign(o, from) ==
    LET k == korder[o] IN
    /\ k # NoOrder
    /\ k.status = "Begin"
    /\ IF k.to # NoCU
       THEN /\ IsOpCU(k.to) => /\ opSymbol[k.to] = k.symbol
                               /\ IsActiveKeyNode(k.from)
                               /\ IsActiveKeyNode(from)
            /\ ~HasAddress(ast[k.to], k.symbol, CurrentIndex)
       ELSE IsActiveKeyNode(from)
    /\ korder' = [korder EXCEPT ![o] = [@ EXCEPT !.epoch = CurrentIndex, !.status = "WaitSign",
                                                 !.key = [order |-> o, nodes |-> k.keyNodes]]]
    /\ UNCHANGED <<epochVars, process, waitAssign, ast, opSymbol, coins, held, feePool, beat>>

\* handleMsgKeyGenFinish for a CU: it gets the address, the fee leaves its hold.
FinishForCU(o) ==
    LET k  == korder[o]
        to == k.to
        a  == setAddressAndPubkeyToCU(ast[to], k.key, k.symbol, k.epoch)
    IN  /\ to # NoCU
        /\ CanSetAddress(ast[to], k.symbol, k.epoch)
        /\ ast' = [ast EXCEPT ![to] =
                     IF IsOpCU(to) /\ a.migration = "KeyGenBegin"
                     THEN [a EXCEPT !.migration = "KeyGenFinish"] ELSE a]
        /\ korder' = [korder EXCEPT ![o].status = "Finish"]
        /\ process' = process \ {o}
        /\ held' = [held EXCEPT ![k.from] = @ - k.openFee]
        /\ feePool' = feePool + k.openFee
        /\ UNCHANGED waitAssign

\* handleMsgKeyGenFinish for no CU: the order leaves the process list, the key waits.
FinishPrepared(o) ==
    /\ korder[o].to = NoCU
    /\ korder' = [korder EXCEPT ![o].status = "SignFinish"]
    /\ process' = process \ {o}
    /\ waitAssign' = Append(waitAssign, o)
    /\ UNCHANGED <<ast, held, feePool>>

MsgKeyGenFinish(o) ==
    /\ korder[o] # NoOrder
    /\ korder[o].status = "WaitSign"
    /\ korder[o].epoch = CurrentIndex
    /\ FinishForCU(o) \/ FinishPrepared(o)
    /\ UNCHANGED <<epochVars, opSymbol, coins, beat>>

\* Keys are prepared only while no order at all is under way.
NothingInProcess == process = {}

\* handleMsgPreKeyGen: orders for keys of no CU.
MsgPreKeyGen(ids, from) ==
    /\ ids # {}
    /\ CurrentEpoch.migrationFinished
    /\ IsActiveKeyNode(from)
    /\ NothingInProcess
    /\ Cardinality(ids) =< MaxPreKeyGenOrders
    /\ Len(waitAssign) + Cardinality(ids) =< MaxWaitAssignKeyOrders
    /\ \A o \in ids : korder[o] = NoOrder
    /\ \E nodes \in SigningNodes(CurrentEpoch.keyNodeSet) :
        /\ nodes # {}
        /\ korder' = [o \in OrderID |-> IF o \in ids THEN NewOrderKeyGen(from, NoSymbol, nodes, NoCU, 0)
                                        ELSE korder[o]]
    /\ process' = process \cup ids
    /\ UNCHANGED <<epochVars, waitAssign, ast, opSymbol, coins, held, feePool, beat>>

(***************************************************************************)
(* handleMsgOpcuMigrationKeyGen: one order for each operation CU, unless   *)
(* one is under way already; id[c] is the order id given for CU c.         *)
(***************************************************************************)
MsgOpcuMigrationKeyGen(id, from) ==
    LET fresh == {c \in OpCUs : ~checkCuKeyGenOrder(c)} IN
    /\ ~CurrentEpoch.migrationFinished
    /\ IsActiveKeyNode(from)
    /\ OpCUs # {}
    /\ \A c \in OpCUs : korder[id[c]] = NoOrder /\ ast[c].migration = "Begin"
    /\ ast' = [c \in CU |-> IF c \in OpCUs THEN [ast[c] EXCEPT !.migration = "KeyGenBegin"] ELSE ast[c]]
    /\ \E nodes \in SigningNodes(CurrentEpoch.keyNodeSet) :
        /\ nodes # {}
        /\ korder' = [o \in OrderID |->
             IF \E c \in fresh : id[c] = o
             THEN LET c == CHOOSE d \in fresh : id[d] = o
                  IN  NewOrderKeyGen(from, opSymbol[c], nodes, c, 0)
             ELSE korder[o]]
    /\ process' = process \cup {id[c] : c \in fresh}
    /\ UNCHANGED <<epochVars, waitAssign, opSymbol, coins, held, feePool, beat>>

\* handleMsgNewOpCU: a key node opens an operation CU for a symbol.
MsgNewOpCU(c, s, from) ==
    /\ CurrentEpoch.migrationFinished
    /\ opSymbol[c] = NoSymbol
    /\ IsActiveKeyNode(from)
    /\ Cardinality({d \in OpCUs : opSymbol[d] = s}) < MaxOpCUNumber
    /\ opSymbol' = [opSymbol EXCEPT ![c] = s]
    /\ ast' = [ast EXCEPT ![c] = NewAsset(TRUE)]
    /\ UNCHANGED <<epochVars, korder, process, waitAssign, coins, held, feePool, beat>>

(***************************************************************************)
(* OrderRetry (x/transfer) when the vote of key nodes on a key generation  *)
(* order is confirmed: the nodes of the current epoch start it again       *)
(* without the one that has been silent for too long.                      *)
(***************************************************************************)
RetryKeyGen(o) ==
    /\ korder[o] # NoOrder
    /\ korder[o].status \in {"Begin", "WaitSign"}
    /\ \E nodes \in SigningNodes(CurrentEpoch.keyNodeSet) :
        korder' = [korder EXCEPT ![o] = [@ EXCEPT !.keyNodes = nodes, !.status = "Begin"]]
    /\ UNCHANGED <<epochVars, process, waitAssign, ast, opSymbol, coins, held, feePool, beat>>

\* MsgKeyNodeHeartbeat.
Heartbeat(n) ==
    /\ beat' = [beat EXCEPT ![n] = height]
    /\ UNCHANGED <<epochVars, korder, process, waitAssign, ast, opSymbol, coins, held, feePool>>

-----------------------------------------------------------------------------
\* startMigrationForAllOpcus.  The flag it sets when there is no operation CU
\* is set in its own copy of the epoch and never stored.
startMigrationForAllOpcus ==
    ast' = [c \in CU |-> IF IsOpCU(c) THEN [ast[c] EXCEPT !.migration = "Begin"] ELSE ast[c]]

\* A slip in delAllWaitAssignKeyGenOrderIDs: the list is kept.
KeepWaitAssign(orders) == waitAssign' = waitAssign /\ korder' = orders

\* delAllWaitAssignKeyGenOrderIDs: waiting keys are void; orders are those reset.
delAllWaitAssignKeyGenOrderIDs(orders) ==
    /\ waitAssign' = << >>
    /\ korder' = [o \in OrderID |-> IF o \in Range(waitAssign)
                                    THEN [orders[o] EXCEPT !.status = "Finish"] ELSE orders[o]]

\* resetKeyGenOrders: open orders are for the new key nodes and start again.
resetKeyGenOrders(nodes) ==
    [o \in OrderID |-> IF o \in process /\ korder[o].status \in {"Begin", "WaitSign"}
                       THEN [korder[o] EXCEPT !.keyNodes = nodes, !.status = "Begin"]
                       ELSE korder[o]]

\* A passed proposal is executed at the end of the block; AfterNewEpoch calls
\* the hooks of x/ibcasset and x/keygen.
NewEpochBlock(remove, add) ==
    /\ UpdateKeyNodes(remove, add)
    /\ startMigrationForAllOpcus
    /\ delAllWaitAssignKeyGenOrderIDs(resetKeyGenOrders((CurrentEpoch.keyNodeSet \ remove) \cup add))
    /\ height' = height + 1
    /\ UNCHANGED <<process, opSymbol, coins, held, feePool, beat>>

(***************************************************************************)
(* OpcuAssetTransfer (x/transfer) has moved the assets of an operation CU  *)
(* to its new address, or there was no old one; checkOpcusMigrationStatus  *)
(* then looks at all of them.  The transfer itself is in Migration.        *)
(***************************************************************************)
OpCUMigrated(c) ==
    LET new == [ast EXCEPT ![c].migration = "Finish"] IN
    /\ ~CurrentEpoch.migrationFinished
    /\ IsOpCU(c)
    /\ HasAddress(ast[c], Chain, CurrentIndex - 1) => HasAddress(ast[c], Chain, CurrentIndex)
    /\ ast' = new
    /\ IF \A d \in OpCUs : new[d].migration = "Finish" THEN SetMigrationFinished ELSE UNCHANGED epochs
    /\ UNCHANGED <<height, korder, process, waitAssign, opSymbol, coins, held, feePool, beat>>

Block ==
    /\ height' = height + 1
    /\ UNCHANGED <<epochs, korder, process, waitAssign, ast, opSymbol, coins, held, feePool, beat>>

KeyGenNext ==
    \/ \E o \in OrderID, from \in Payer, to \in CU, s \in Symbol : MsgKeyGen(o, from, to, s)
    \/ \E o \in OrderID, from \in Payer : MsgKeyGenWaitSign(o, from)
    \/ \E o \in OrderID : MsgKeyGenFinish(o) \/ RetryKeyGen(o)
    \/ \E ids \in SUBSET OrderID, from \in KeyNode : MsgPreKeyGen(ids, from)
    \/ \E id \in {f \in [OpCU -> OrderID] : IsInjective(f)}, from \in KeyNode : MsgOpcuMigrationKeyGen(id, from)
    \/ \E c \in OpCU, s \in Symbol, from \in KeyNode : MsgNewOpCU(c, s, from)
    \/ \E n \in KeyNode : Heartbeat(n)
    \/ \E remove, add \in SUBSET KeyNode : NewEpochBlock(remove, add)
    \/ \E c \in OpCU : OpCUMigrated(c)
    \/ Block

KeyGenSpec == KeyGenInit /\ [][KeyGenNext]_keygenVars

-----------------------------------------------------------------------------
KeyGenTypeOK ==
    /\ korder \in [OrderID -> KeyOrder \cup {NoOrder}]
    /\ process \subseteq OrderID
    /\ waitAssign \in Seq(OrderID)
    /\ ast \in [CU -> Asset]
    /\ coins \in [Payer -> Nat] /\ held \in [Payer -> Nat] /\ feePool \in Nat

\* The nodes are those of all, one at most excepted.
AllButOne(nodes, all) == nodes \subseteq all /\ \A m, n \in all \ nodes : m = n

(***************************************************************************)
(* The key of an address was made by all key nodes of the address's epoch, *)
(* one silent node at most excepted, whatever happened to the order        *)
(* meanwhile: a new epoch between WaitSign and Finish, a retry, a key      *)
(* prepared before the key nodes changed.  So an epoch of two or more key  *)
(* nodes leaves no key without a maker.  Where a sole key node is silent   *)
(* the excepted one is the last: handleMsgKeyGen then refuses the order,   *)
(* OrderRetry goes on with an empty list, and the key has no maker.        *)
(***************************************************************************)
AddressByItsKeyNodes ==
    \A c \in CU : \A x \in ast[c].assets :
        /\ AllButOne(x.key.nodes, epochs[x.epoch].keyNodeSet)
        /\ (\E m, n \in epochs[x.epoch].keyNodeSet : m # n) => x.key.nodes # {}

(***************************************************************************)
(* A key belongs to one CU: no two CUs share one, and a key that waits for *)
(* a CU is nobody's (handleMsgKeyGen, handleMsgKeyGenFinish).              *)
(***************************************************************************)
KeyGivenOnce ==
    /\ \A c, d \in CU : c # d =>
        \A x \in ast[c].assets, y \in ast[d].assets : x.key # y.key
    /\ \A i \in DOMAIN waitAssign : \A c \in CU : \A x \in ast[c].assets :
        x.key # korder[waitAssign[i]].key

(***************************************************************************)
(* Waiting keys are finished orders of the epoch in force, each once, and  *)
(* never more than MaxWaitAssignKeyOrders, although handleMsgPreKeyGen     *)
(* counts only the keys that wait and not the orders that will.            *)
(***************************************************************************)
WaitingKeysUsable ==
    /\ Len(waitAssign) =< MaxWaitAssignKeyOrders
    /\ IsInjective(waitAssign)
    /\ \A i \in DOMAIN waitAssign :
        LET k == korder[waitAssign[i]]
        IN  k.status = "SignFinish" /\ k.to = NoCU /\ k.epoch = CurrentIndex

(***************************************************************************)
(* Opening fees are neither lost nor taken twice: what is on hold is what  *)
(* the open orders hold, and balances, holds and fee pool keep their sum.  *)
(***************************************************************************)
Sum(f) == FoldFunction(+, 0, f)
OpeningFees ==
    /\ \A p \in Payer :
        held[p] = Sum([o \in {x \in process : korder[x].from = p} |-> korder[o].openFee])
    /\ Sum(coins) + Sum(held) + feePool = InitialCoins * Cardinality(Payer)

\* No two open orders make a key for one CU, across retries and epochs.
OneOrderPerCU ==
    \A o, p \in process : o # p /\ korder[o].to # NoCU => korder[o].to # korder[p].to

\* All of this but the fees.
KeysSound == AddressByItsKeyNodes /\ KeyGivenOnce /\ WaitingKeysUsable /\ OneOrderPerCU

=============================================================================
