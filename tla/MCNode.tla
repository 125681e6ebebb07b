------------------------------- MODULE MCNode -------------------------------
(***************************************************************************)
(* Instances of the components of a node: execution of transactions and    *)
(* of the blocks of all modules, the versioned store, upgrades, the key    *)
(* database, the feed of events and the gossip of messages.  A behaviour   *)
(* runs one of them, the one named by part; the others stay as they were   *)
(* at the start.                                                           *)
(***************************************************************************)
EXTENDS Integers, Sequences, FiniteSets

CONSTANTS
    Parts,                              \* components that are run
    MaxHeight, MaxDeliver,              \* bounds on blocks and transactions
    AppHeight, MaxExports,              \* bounds on blocks of modules and exports
    StoreHeight, MaxCrashes,            \* bounds on committed blocks and crashes
    UpgradeNodes, UpgradeNames, UpgradeHeight, MaxSwaps,  \* bounds on upgrades
    MaxCalls,                           \* bound on calls of the key database
    FeedSubs, MaxSends, MaxWrong,       \* bounds on the feed
    MaxReceives, MaxPosts               \* bounds on gossip

VARIABLES
    part, bound,
    committed, height, check, checkHeight, deliver, blockGas, quota, phase, block,
    file, aPhase, todo, aHeight, coins, supply, ready, provider, pending, broken, halted, verified,
    chain, saved, infos, latest, node,
    uChain, uHeight, plan, done, applied, binary, status, uInfo,
    info, addr, opened, job, what, armors, replaced, calls,
    lock, mu, sendCases, inbox, active, pc, pos, val, nsent, st, chan, waiting, sent, sends, wrong,
    peerMap, markedMap, running, rpc, ch, taken, vpc, inMsg, sigs, subs, sending, left, delivered, gSent, has, lost,
    markResets, sigResets, receives, posts

txVars == <<committed, height, check, checkHeight, deliver, blockGas, quota, phase, block>>
appVars == <<file, aPhase, todo, aHeight, coins, supply, ready, provider, pending, broken, halted, verified>>
storeVars == <<chain, saved, infos, latest, node>>
upgradeVars == <<uChain, uHeight, plan, done, applied, binary, status, uInfo>>
keyVars == <<info, addr, opened, job, what, armors, replaced, calls>>
feedVars == <<lock, mu, sendCases, inbox, active, pc, pos, val, nsent, st, chan, waiting, sent, sends, wrong>>
gossipVars == <<peerMap, markedMap, running, rpc, ch, taken, vpc, inMsg, sigs, subs, sending, left, delivered, gSent, has, lost,
                markResets, sigResets, receives, posts>>
vars == <<part, bound, txVars, appVars, storeVars, upgradeVars, keyVars, feedVars, gossipVars>>

-----------------------------------------------------------------------------
(***************************************************************************)
(* Transactions: one message that succeeds, two of which the second fails, *)
(* one that panics, one that runs out of gas, settlements of a key node, a *)
(* message of two signers, one that is not valid, one without a route, and *)
(* messages that verify an invariant.                                      *)
(***************************************************************************)
Sig(u, s) == [by |-> u, sequence |-> s, pubKey |-> TRUE, keys |-> 1]
Tx(msgs, gas, sigs_) == [msgs |-> msgs, fee |-> 3, gas |-> gas, sigs |-> sigs_, memo |-> 0]
M(n, kind, u, gas, does, s) ==
    [id |-> <<n, u, s>>, kind |-> kind, signers |-> <<u>>, gas |-> gas, does |-> does, valid |-> TRUE, routed |-> TRUE]

Txs == UNION {
    {Tx(<<M(1, "plain", "a", 1, "ok", s)>>, 6, <<Sig("a", s)>>) : s \in 0 .. 1},
    {Tx(<<M(2, "plain", "a", 1, "ok", 0), M(3, "plain", "a", 0, "error", 0)>>, 7, <<Sig("a", 0)>>)},
    {Tx(<<M(4, "plain", "a", 1, "panic", 0)>>, 6, <<Sig("a", 0)>>)},
    {Tx(<<M(5, "plain", "a", 9, "ok", 0)>>, 6, <<Sig("a", 0)>>)},
    {Tx(<<M(6, "settle", "n", 1, "ok", s)>>, 5, <<Sig("n", s)>>) : s \in 0 .. 1},
    {Tx(<<M(7, "plain", "a", 1, "ok", 0), M(8, "settle only", "n", 1, "ok", 0)>>, 9, <<Sig("a", 0), Sig("n", 0)>>)},
    {Tx(<<[M(9, "plain", "a", 1, "ok", 0) EXCEPT !.valid = FALSE]>>, 6, <<Sig("a", 0)>>)},
    {Tx(<<[M(10, "plain", "a", 1, "ok", 0) EXCEPT !.routed = FALSE]>>, 6, <<Sig("a", 0)>>)},
    {Tx(<<M(11, "plain", "a", 1, d, 0)>>, 6, <<Sig("a", 0)>>) : d \in {"verify", "verify broken"}}}

Base == INSTANCE BaseApp WITH
    Users <- {"a", "n"}, OpCUs <- {}, KeyNodes <- {"n"}, Precision <- 2, MaxUint64 <- 1000, MinGasPrice <- 0,
    TxSizeGas <- 1, SigGas <- 1, ParamsGas <- 1, ReadGas <- 1, BeginGas <- 1, TxSigLimit <- 3, MaxMemoCharacters <- 2, MaxGasWanted <- 500, SettleQuota <- 8,
    DefaultGasUsedForRefund <- 2, RefundGas <- 1, Txs <- Txs, MaxBlockGas <- 8, HaltHeight <- 2, HaltByTime <- TRUE, ConstantFee <- 1,
    GenesisBalance <- 7

\* bound counts deliveries, checks and restarts.
TxNext ==
    \/ UNCHANGED bound /\ ((height < MaxHeight /\ Base!BeginBlock) \/ Base!Commit \/ Base!Halt)
    \/ bound[1] < MaxDeliver /\ bound' = [bound EXCEPT ![1] = @ + 1] /\ \E tx \in Txs : Base!DeliverTx(tx)
    \/ bound[2] < 1 /\ bound' = [bound EXCEPT ![2] = 1] /\ \E tx \in Txs : Base!CheckTx(tx)
    \/ bound[3] < 1 /\ bound' = [bound EXCEPT ![3] = 1] /\ Base!Restart

-----------------------------------------------------------------------------
(***************************************************************************)
(* Blocks of all modules, from genesis files with and without validators   *)
(* and genesis transactions, on nodes that check invariants never, at      *)
(* every second or at every third block                                    *)
(***************************************************************************)
AppNodes == {0, 2, 3}
Modules ==
    {"genaccounts", "order", "receipt", "token", "keygen", "distr", "staking", "custodianunit", "transfer", "slashing",
     "gov", "ibcasset", "mint", "supply", "crisis", "hrc10", "mapping", "openswap", "genutil"}

App == INSTANCE AppBlocks WITH
    Nodes <- AppNodes, Period <- [n \in AppNodes |-> n], Routes <- {"shares"},
    Files <- [modules : {Modules}, coins : {4}, staked : {0, 1}, gentxs : BOOLEAN, supply : {0}],
    phase <- aPhase, height <- aHeight

AppNext ==
    /\ App!Next /\ aHeight' <= AppHeight
    /\ bound' = [bound EXCEPT ![1] = @ + (IF aPhase = "committed" /\ aPhase' = "genesis" THEN 1 ELSE 0)]
    /\ bound'[1] <= MaxExports

-----------------------------------------------------------------------------
(***************************************************************************)
(* The store: two trees that keep one recent version and every third one   *)
(***************************************************************************)
Store == INSTANCE MultiStore WITH
    Trees <- {"bank", "staking"}, Transient <- "transient", Contents <- {"x", "y"}, Empty <- "empty",
    numRecent <- 1, storeEvery <- 3

\* bound counts crashes.
StoreNext ==
    \/ (latest < StoreHeight /\ Store!Execute) /\ UNCHANGED bound
    \/ (\E t \in {"bank", "staking"} : Store!CommitTree(t)) /\ UNCHANGED bound
    \/ (Store!CommitTransient \/ Store!WriteCommitInfo \/ Store!Restart) /\ UNCHANGED bound
    \/ bound[1] < MaxCrashes /\ bound' = [bound EXCEPT ![1] = @ + 1] /\ Store!Crash

\* A node that stopped is started again, and a running node goes on.
StoreFair ==
    /\ WF_storeVars(part = "store" /\ Store!Restart) /\ WF_storeVars(part = "store" /\ latest < StoreHeight /\ Store!Execute)
    /\ WF_storeVars(part = "store" /\ ((\E t \in {"bank", "staking"} : Store!CommitTree(t)) \/ Store!CommitTransient))
    /\ WF_storeVars(part = "store" /\ Store!WriteCommitInfo)

-----------------------------------------------------------------------------
(***************************************************************************)
(* Upgrades: plans by height and by time, and two proposals                *)
(***************************************************************************)
Up == INSTANCE Upgrade WITH
    Nodes <- UpgradeNodes, Names <- UpgradeNames, skipUpgradeHeights <- {3}, MaxHeight <- UpgradeHeight,
    chain <- uChain, height <- uHeight, info <- uInfo

Plans == [name : UpgradeNames, time : {0}, height : 1 .. UpgradeHeight] \cup [name : UpgradeNames, time : {2}, height : {0}]
Blocks ==
    [time : 1 .. 2, op : {"none"}, plan : {Up!NoPlan}] \cup {Up!CancelSoftwareUpgradeProposal(t) : t \in 1 .. 2}
        \cup {Up!SoftwareUpgradeProposal(t, p) : t \in 1 .. 2, p \in Plans}

\* bound counts changes of the binary that no node asked for.
UpgradeNext ==
    \/ /\ \E n \in UpgradeNodes : uHeight[n] = Len(uChain)
       /\ \E b \in Blocks : Up!NewBlock(b)
       /\ Cardinality({h \in DOMAIN uChain' : uChain'[h].op # "none"}) <= 2
       /\ UNCHANGED bound
    \/ (\E n \in UpgradeNodes : Up!BeginBlocker(n) \/ Up!Install(n)) /\ UNCHANGED bound
    \/ /\ bound[1] < MaxSwaps /\ bound' = [bound EXCEPT ![1] = @ + 1]
       /\ \E n \in UpgradeNodes, s \in SUBSET UpgradeNames : Up!Swap(n, s)

\* Nodes run, and operators read what is written for them.
UpgradeFair ==
    \A n \in UpgradeNodes : WF_upgradeVars(part = "upgrade" /\ Up!BeginBlocker(n)) /\ WF_upgradeVars(part = "upgrade" /\ Up!Install(n))

-----------------------------------------------------------------------------
(***************************************************************************)
(* The key database: two processes, two names, two keys                    *)
(***************************************************************************)
Procs == {"p", "q"}
Keys == INSTANCE Keybase WITH Names <- {"n", "m"}, PrivKeys <- {"k", "l"}, Passwords <- {"s"}

Call(p, n) ==
    \/ \E k \in {"k", "l"} :
        \/ \E pass \in {"s", Keys!NoPass} : Keys!CreateMnemonic(p, n, k, pass)
        \/ Keys!CreateLedger(p, n, k) \/ Keys!CreateOffline(p, n, k) \/ Keys!CreateMulti(p, n, k)
    \/ Keys!Export(p, n) \/ Keys!ExportPubKey(p, n)
    \/ Keys!ExportPrivKey(p, n, "s", "s") \/ Keys!Update(p, n, "s", "s")
    \/ \E skip \in BOOLEAN : Keys!Delete(p, n, "s", skip)
    \/ \E text \in armors : Keys!Import(p, n, text) \/ Keys!ImportPubKey(p, n, text) \/ Keys!ImportPrivKey(p, n, text, "s")

KeyNext ==
    /\ UNCHANGED bound
    /\ \E p \in Procs : \/ Keys!Open(p) \/ Keys!Fail(p) \/ Keys!Write(p) \/ Keys!Close(p) \/ Keys!Crash(p)
                        \/ \E n \in {"n", "m"} : Call(p, n)

\* A process that has the database open goes on.
KeyFair == \A p \in Procs : WF_keyVars(part = "keys" /\ (Keys!Fail(p) \/ Keys!Write(p) \/ Keys!Close(p)))

-----------------------------------------------------------------------------
(***************************************************************************)
(* The feed, with a buffered channel and channels without a buffer, and    *)
(* gossip of two messages with two peers                                   *)
(***************************************************************************)
Senders == {"p", "q"}
Events == INSTANCE Feed WITH Subs <- FeedSubs, Cap <- [s \in FeedSubs |-> IF s = "b" THEN 1 ELSE 0], calls <- sends

FeedFair ==
    /\ \A p \in Senders : WF_feedVars(part = "feed" /\ Events!SendStep(p))
    /\ \A s \in FeedSubs : WF_feedVars(part = "feed" /\ Events!OwnerStep(s))

Peers == {"p1", "p2"}
Messages == {<<1, 2>>, <<3, 4>>}
Reactor == INSTANCE Gossip WITH maxMarkMapSize <- 1, maxCachedSigs <- 2, sent <- gSent

GossipFair ==
    /\ \A p \in Peers : WF_gossipVars(part = "gossip" /\ Reactor!Routine(p)) /\ WF_gossipVars(part = "gossip" /\ Reactor!Receiver(p))
    /\ WF_gossipVars(part = "gossip" /\ Reactor!Sender)

-----------------------------------------------------------------------------
\* What another part would choose at the start is fixed.
Init ==
    /\ part \in Parts /\ bound = <<0, 0, 0>>
    /\ Base!Init /\ App!Init /\ Store!StoreInit /\ Up!Init /\ Keys!Init /\ Events!Init /\ Reactor!Init
    /\ part # "app" => file.staked = 1 /\ ~file.gentxs
    /\ part # "store" => \A t \in {"bank", "staking"} : chain[1][t] = "x"

Next ==
    \/ part = "tx" /\ TxNext /\ UNCHANGED <<part, appVars, storeVars, upgradeVars, keyVars, feedVars, gossipVars>>
    \/ part = "app" /\ AppNext /\ UNCHANGED <<part, txVars, storeVars, upgradeVars, keyVars, feedVars, gossipVars>>
    \/ part = "store" /\ StoreNext /\ UNCHANGED <<part, txVars, appVars, upgradeVars, keyVars, feedVars, gossipVars>>
    \/ part = "upgrade" /\ UpgradeNext /\ UNCHANGED <<part, txVars, appVars, storeVars, keyVars, feedVars, gossipVars>>
    \/ part = "keys" /\ KeyNext /\ UNCHANGED <<part, txVars, appVars, storeVars, upgradeVars, feedVars, gossipVars>>
    \/ part = "feed" /\ Events!Next /\ UNCHANGED <<part, bound, txVars, appVars, storeVars, upgradeVars, keyVars, gossipVars>>
    \/ part = "gossip" /\ Reactor!Next /\ UNCHANGED <<part, bound, txVars, appVars, storeVars, upgradeVars, keyVars, feedVars>>

Spec == Init /\ [][Next]_vars

FairSpec == Spec /\ StoreFair /\ UpgradeFair /\ KeyFair /\ FeedFair /\ GossipFair

-----------------------------------------------------------------------------
(***************************************************************************)
(* Properties                                                              *)
(***************************************************************************)
\* Of a transaction that reports an error nothing is written but fees and sequence numbers, and of one
\* that succeeds every message is, once, however often its bytes are delivered, checked or replayed.  The gas
\* is paid for either way, but for what key nodes settle within their quota.  One error is an exception: a
\* transaction that succeeded and whose gas the block has no room for keeps what its messages wrote
\* (baseapp.go:906-917), all of it or, when an earlier step failed, nothing.
AllOrNothing == [][Base!AllOrNothing /\ Base!NoReplay' /\ Base!GasIsPaid' /\ Base!QuotaKept']_vars

\* Nodes that have executed the same blocks agree, whatever a process remembers of checks and earlier
\* blocks, wherever it crashed between the saving of two trees, and whichever binaries it ran.  A value that is
\* returned for a key and a height, and its proof, are of that height, and a custom query sees the state of
\* its height; a key of a pruned height is answered without a value, and a subspace always as it is now.
NodesAgree ==
    /\ part = "tx" => Base!NodesAgree
    /\ part = "store" => Store!RestartPossible /\ Store!ReplayAgrees /\ Store!Aligned /\ Store!PruningExact /\ Store!QueriesOfHeight
    /\ part = "upgrade" => Up!ReplicasAgree

\* What a block has to do is done in it: fees are given out before validators are slashed, consensus
\* learns of changed validators, a broken invariant stops the nodes that check, an upgrade is executed
\* in the block of its plan; and genesis succeeds in the order of the modules.
DoneInItsBlock ==
    /\ part = "app" => App!GenesisSucceeds /\ App!NothingLeftOver /\ App!UpdatesCurrent /\ App!BreaksFound
    /\ part = "upgrade" => Up!UpgradesOnTime

\* Whatever the calls, and wherever a process dies, an address leads to its key unless the name was given
\* to another key: creating a key under a name that exists replaces the key of that name, as the code does
\* without a check.  Changed passwords and imports leave the keys that are stored.
KeysKept == [][Keys!IndexSound' /\ Keys!UpdateKeeps /\ Keys!ImportsKeep]_vars

\* Every receiver of a feed is given a value once and in order, whatever subscribes, unsubscribes or quits
\* meanwhile: Send serves each channel that is subscribed.  A peer is sent a payload again only when its marks
\* were emptied; a message of peers is handed up at most once for each of them until the signatures are emptied.
GivenOnce == [][/\ Events!SendServesAll /\ Events!SentInOrder' /\ Events!RemoveFindsCase'
                /\ Reactor!SendsBounded' /\ Reactor!DuplicatesBounded']_vars

\* With finitely many crashes every block is committed in the end, and nodes whose operators install what
\* is asked for execute every block.
NodesCatchUp == (part = "store" => <>(latest = StoreHeight)) /\ Up!NodesCatchUp

\* Calls return: Send and Unsubscribe of the feed though a receiver has stopped to receive (as long as no
\* value of another type is sent, on which Send panics with the lock held), the sending of a message to
\* peers of which any may quit, and those that hold the key database.  A message reaches every peer that was
\* there, unless the peer quits or the send to it fails.
CallsReturn == Events!CallsReturn /\ Reactor!LocalSendReturns /\ Reactor!LocalMessagesReachPeers /\ Keys!DatabaseFreed
=============================================================================
