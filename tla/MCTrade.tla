------------------------------ MODULE MCTrade ------------------------------
(***************************************************************************)
(* Instances of the components that trade and govern tokens: mappings,     *)
(* pools, limit orders, the token registry and parameters.  A behaviour    *)
(* runs one of them, the one named by part; the others stay as they were   *)
(* at genesis.                                                             *)
(***************************************************************************)
EXTENDS Integers, Sequences, FiniteSets

CONSTANTS
    Parts,                              \* components that are run
    MapSteps, MapTime,                  \* bounds on steps and block time of mappings
    SwapSteps,                          \* bound on messages and blocks of pools
    OrderSteps, OrderTime, MaxCancels,  \* bounds on limit orders
    PriceHeight,                        \* bound on the height in votes on gas prices
    MaxTokens                           \* bound on registered tokens

VARIABLES
    part, steps,
    mBal, mappings, free, direct, pool, sendEnabled, mNow, fees,
    bal, pairs, liquidity, dexes, referer, funds, burned, sHeight, event,
    node, now, open,
    tokens, ibcSymbols, coins, feePool, minted, boxes, confirmedBy, tHeight,
    phase, spaces, table, kept, store, tstore, before, pending

mapVars == <<mBal, mappings, free, direct, pool, sendEnabled, mNow, fees>>
swapVars == <<bal, pairs, liquidity, dexes, referer, funds, burned, sHeight, event>>
orderVars == <<node, now, open>>
tokenVars == <<tokens, ibcSymbols, coins, feePool, minted, boxes, confirmedBy, tHeight>>
paramVars == <<phase, spaces, table, kept, store, tstore, before, pending>>
vars == <<part, steps, mapVars, swapVars, orderVars, tokenVars, paramVars>>

-----------------------------------------------------------------------------
(***************************************************************************)
(* Mappings: "a" has the tokens that can be issued and the native coins,   *)
(* "b" has the chain token.                                                *)
(***************************************************************************)
MapUsers == {"a", "b"}
MapTokens == {"hbc", "btc", "abtc", "bbtc"}

Map == INSTANCE Mapping WITH
    Users <- MapUsers, Tokens <- MapTokens, Native <- "hbc", ChainTokens <- {"hbc", "btc"},
    TotalSupply <- [t \in MapTokens |-> 2], Unit <- [t \in MapTokens |-> 2],
    Genesis <- [u \in MapUsers |-> [t \in MapTokens |-> IF (u = "b") = (t = "btc") THEN 2 ELSE 0]],
    NewMappingFee <- 1, OrderIds <- {"o"},
    FreeInfos <- [src : {"btc", "abtc"}, target : {"hbc"}, total : {2}, min : {1}, max : {1, 2}, price : {1, 3},
                  expired : {0, 1}],
    DirectInfos <- [src : {"btc"}, target : {"abtc"}, amount : {1}, swap : {1}, receiver : {"a"}, expired : {0, 1}],
    bal <- mBal, now <- mNow

MapNext == steps < MapSteps /\ steps' = steps + 1 /\ Map!Next /\ mNow' <= MapTime

-----------------------------------------------------------------------------
(***************************************************************************)
(* Pools of three tokens, two users and an exchange beside the default one *)
(***************************************************************************)
Swap == INSTANCE OpenSwap WITH
    Precision <- 1, maxBitLen <- 255, Users <- {"a", "b"}, TokenOrder <- <<"btc", "usdt", "hdt">>,
    Sendable <- {"btc", "usdt", "hdt"}, Genesis <- 20, MinimumLiquidity <- 1, LpRewardRate <- 2,
    RepurchaseRate <- 2, RefererBonusRate <- 2, MaxFeeRate <- 8, RepurchaseToken <- "hdt", RepurchaseDuration <- 1,
    Deposits <- {<<9, 4>>, <<6, 7>>}, Amounts <- {1, 5}, Rates <- {<<3, 2>>},
    Paths <- {<<"btc", "usdt">>, <<"usdt", "btc">>, <<"btc", "usdt", "hdt">>}, MaxDex <- 1,
    height <- sHeight

SwapNext == steps < SwapSteps /\ steps' = steps + 1 /\ Swap!Next

-----------------------------------------------------------------------------
(***************************************************************************)
(* Limit orders of one user on two nodes, beside swaps through the pool;   *)
(* two of the four kinds of orders expire.                                 *)
(***************************************************************************)
Info(side, price, amount, expire) == [side |-> side, price |-> price, amount |-> amount, expire |-> expire]

Orders == INSTANCE LimitOrders WITH
    Precision <- 1, maxBitLen <- 255, Nodes <- {"n", "m"}, Users <- {"u"}, OrderIds <- {1, 2},
    Infos <- {Info("sell", 8, 8, -1), Info("sell", 12, 4, 2), Info("buy", 13, 4, 3), Info("buy", 20, 3, -1)},
    Genesis <- 12, InitPair <- [a |-> 6, b |-> 6], FeeRate <- [lp |-> 1, referer |-> 1, repurchase |-> 3],
    Referer <- "u", RepurchaseToken <- "b", RepurchaseDuration <- 2, PoolSwaps <- [inIsA : BOOLEAN, amount : {4}]

Cancelled(s) == {i \in DOMAIN s.orders : s.orders[i].status = "canceled"}

OrdersNext ==
    \/ /\ steps < OrderSteps /\ steps' = steps + 1
       /\ now <= OrderTime - 2 /\ Orders!Message
       /\ \A n \in DOMAIN node : Cardinality(Cancelled(node'[n])) <= MaxCancels
    \/ steps < OrderSteps /\ steps' = steps + 1 /\ \E n \in DOMAIN node : Orders!Restart(n)
    \/ now < OrderTime /\ Orders!EndBlock /\ UNCHANGED steps

-----------------------------------------------------------------------------
(***************************************************************************)
(* The registry: "tokens" proposes, changes, issues, exports and imports   *)
(* tokens, "prices" has key nodes vote on the gas price of one chain.      *)
(***************************************************************************)
TokenKeys == {"send_enabled", "collect_threshold"}
TokenUsers == {"u", "w"}
KeyNodes == {"k1", "k2", "k3", "k4"}

Registry == INSTANCE TokenRegistry WITH
    Chains <- {"btc", "eth"}, Issuers <- {"i"}, Keys <- TokenKeys, Users <- TokenUsers, IssueTokenFee <- 3,
    KeyNodes <- KeyNodes, GasPriceBucketWindow <- 2, NoResult <- 0, height <- tHeight

Par == [k \in TokenKeys |-> IF k = "collect_threshold" THEN 2 ELSE 1]
Token(symbol, chain, issuer) ==
    [symbol |-> symbol, chain |-> chain, issuer |-> issuer, par |-> Par, gasPrice |-> 1, supply |-> 1]

\* Proposed tokens: coins, tokens of a chain, and tokens of tokens.
ChainSymbols == {<<c, "">> : c \in {"btc", "eth", "hbc"}}
Proposed ==
    {Token(c, c, "") : c \in ChainSymbols}
    \cup {Token(Registry!CalSymbol("i", c), c, "i") : c \in ChainSymbols \cup {Registry!CalSymbol("i", d) : d \in ChainSymbols}}

TokensNext ==
    /\ UNCHANGED steps
    /\ \/ Cardinality(DOMAIN tokens) < MaxTokens
          /\ \/ \E t \in Proposed : Registry!handleAddTokenProposal(t)
             \/ \E u, v \in TokenUsers, tx \in {"x", "y"} : Registry!handleMsgNewToken(u, v, tx, 3)
       \/ \E s \in DOMAIN tokens, k \in TokenKeys, v \in {0, 1, 2, 99} :
             Registry!handleTokenParamsChangeProposal(s, [x \in {k} |-> v])
       \/ Registry!InitGenesis

PricesNext ==
    /\ UNCHANGED steps
    /\ \/ \E t \in Proposed : t.chain = <<"eth", "">> /\ Cardinality(DOMAIN tokens) < 3 /\ Registry!handleAddTokenProposal(t)
       \/ \E n \in KeyNodes, h \in 0 .. PriceHeight, g \in {9, 10, 12, 14} : Registry!SynGasPrice(n, h, "eth", g)
       \/ tHeight < PriceHeight /\ Registry!NextBlock

-----------------------------------------------------------------------------
(***************************************************************************)
(* Parameters of two modules; "e" stores its parameters under a subkey, as *)
(* x/evidence does.                                                        *)
(***************************************************************************)
Spaces == {"d", "e"}
Fields == {"a", "b"}

Parameters == INSTANCE Params WITH
    Spaces <- Spaces, Keys <- {"k"}, Subkeys <- {"x"}, Fields <- Fields, Data <- {0, 1, 2},
    Ranged <- {<<"d", "k">>}, InRange <- {0, 1}, MaxPending <- 2

Texts == UNION {[F -> {1}] : F \in SUBSET Fields \ {{}}} \cup {[f \in Fields |-> 2], Parameters!Undecodable}
Changes ==
    {Parameters!NewParamChange(s, "k", sub, text) : s \in Spaces \cup {"unknown"}, sub \in {Parameters!NoSubkey, "x"}, text \in Texts}
Proposals ==
    {<<c>> : c \in Changes}
    \cup {<<c, d>> : c, d \in {x \in Changes : x.space = "d" /\ x.subkey = Parameters!NoSubkey
                                              /\ x.value # Parameters!Undecodable /\ DOMAIN x.value # Fields}}

ParamsNext ==
    /\ UNCHANGED steps
    /\ \/ \E s \in Spaces : Parameters!Subspace(s) \/ Parameters!WithKeyTable(s, {"k"})
       \/ Parameters!InitGenesis([f \in Fields |-> 0], [s \in Spaces |-> IF s = "e" THEN {"x"} ELSE {}])
       \/ \E changes \in Proposals : Parameters!SubmitProposal(changes)
       \/ \E changes \in pending : Parameters!ExecuteProposal(changes) \/ Parameters!RejectProposal(changes)
       \/ Parameters!Commit

-----------------------------------------------------------------------------
Init ==
    /\ part \in Parts /\ steps = 0
    /\ Map!Init /\ Swap!Init /\ Orders!Init /\ Registry!Init /\ Parameters!Init

Next ==
    \/ part = "mapping" /\ MapNext /\ UNCHANGED <<part, swapVars, orderVars, tokenVars, paramVars>>
    \/ part = "swap" /\ SwapNext /\ UNCHANGED <<part, mapVars, orderVars, tokenVars, paramVars>>
    \/ part = "orders" /\ OrdersNext /\ UNCHANGED <<part, mapVars, swapVars, tokenVars, paramVars>>
    \/ part = "tokens" /\ TokensNext /\ UNCHANGED <<part, mapVars, swapVars, orderVars, paramVars>>
    \/ part = "prices" /\ PricesNext /\ UNCHANGED <<part, mapVars, swapVars, orderVars, paramVars>>
    \/ part = "params" /\ ParamsNext /\ UNCHANGED <<part, mapVars, swapVars, orderVars, tokenVars>>

Spec == Init /\ [][Next]_vars

-----------------------------------------------------------------------------
(***************************************************************************)
(* Properties                                                              *)
(***************************************************************************)
\* Every coin is accounted for.  Issue coins in circulation are those drawn from a pledge, against as
\* many target coins given up, and the pool that orders of mappings share has exactly what they owe;
\* balances, reserves, funds and burned coins add up to the genesis amount; what is held of a user is
\* what the open limit orders of the user lock, until one is cancelled in the block in which it expires; an issued token is with one user, whose fee is in the
\* fee pool.  An owner can thus cancel at any time, whatever happened to other orders before.  No coin is
\* issued against coins that are themselves drawn from a pledge, no pair with liquidity runs dry or hides
\* behind a public one, and the registry has the chain of every token.
CoinsAccounted ==
    /\ part = "mapping" => Map!IssueBacked /\ Map!PoolOwesOrders /\ Map!RolesApart
    /\ part = "swap" => Swap!CoinsConserved /\ Swap!PairsNeverDry /\ Swap!PublicPairsEmpty
    /\ part = "orders" => Orders!HoldCoversOrders
    /\ part = "tokens" => Registry!IssueBooked /\ Registry!ListIsIBCTokens /\ Registry!ChainsRegistered

\* Whatever happens, all roundings included, a unit of liquidity never loses value: the product of the
\* reserves over the square of the liquidity does not fall.  A swap along a path that uses no pair twice gives
\* at least what it was estimated to give.
SharesNeverDiluted == [][Swap!SharesNeverDiluted /\ Swap!SwapsHonoured']_vars

\* Matching leaves nothing behind: when it is done no order could swap anything at its price; after the
\* block, across expiries, cancellations and restarts, the book in memory has every open order as the
\* store has it, the nodes agree on all of the store but the marks of expired orders, and no swap was
\* worse than its limit.
NothingLeftToMatch ==
    part = "orders" => /\ Orders!NothingLeftToMatch /\ Orders!BookFollowsStore
                       /\ Orders!LimitHonoured /\ Orders!ReplicasAgree

\* A price that is set lies among the votes of more than two thirds of the key nodes, which differ by a
\* third at most.
PriceSupported == [][Registry!PriceSupported]_vars

\* A proposal that was accepted runs without error or panic when its vote ends, whatever other
\* proposals changed meanwhile; parameters stay in their range, and what a block changed is flagged.
AcceptedExecutes == part = "params" => Parameters!AcceptedExecutes /\ Parameters!RangesKept /\ Parameters!ChangesMarked
=============================================================================
