------------------------------ MODULE OpenSwap ------------------------------
(***************************************************************************)
(* Trading pairs of x/openswap: liquidity, swaps along a path, exchanges   *)
(* (a "dex") with pairs of their own, and the repurchase of one token with *)
(* part of the fees.  Limit orders are in LimitOrders.  A failing message  *)
(* is an action that is not enabled.                                       *)
(***************************************************************************)
EXTENDS Decimal

CONSTANTS
    Users,
    TokenOrder,         \* tokens with a token info, the heaviest first
    Sendable,           \* those that are enabled to send
    Genesis,            \* balance of every user in every token at genesis
    MinimumLiquidity, LpRewardRate, RepurchaseRate, RefererBonusRate, MaxFeeRate,
    RepurchaseToken, RepurchaseDuration,
    Deposits,           \* amounts <<max of A, max of B>> offered to a pair
    Amounts,            \* other amounts in messages
    Rates,              \* rates <<LP reward, referer reward>> set for a pair
    Paths,              \* swap paths that pass ValidateBasic
    MaxDex              \* bound on the exchanges

NoUser == "none"

VARIABLES
    bal,                \* balances
    pairs,              \* TradingPair under <<dex, token A, token B>>
    liquidity,          \* liquidity of a user in a pair
    dexes,              \* sequence of exchanges; exchange 0 is the default one
    referer,            \* referer of a user, bound by the first swap
    funds,              \* repurchase funds
    burned,
    height,
    event               \* what the last swap asked for and did

vars == <<bal, pairs, liquidity, dexes, referer, funds, burned, height, event>>

Tokens == Range(TokenOrder)
Weight(t) == CHOOSE i \in DOMAIN TokenOrder : TokenOrder[i] = t
SortTokens(t, u) == IF Weight(t) < Weight(u) THEN <<t, u>> ELSE <<u, t>>
Key(dex, t, u) == <<dex>> \o SortTokens(t, u)
With(f, k, v) == [x \in DOMAIN f \cup {k} |-> IF x = k THEN v ELSE f[x]]
NoEvent == [kind |-> "none"]

\* Of the parameters at genesis.
Validate ==
    /\ MinimumLiquidity > 0 /\ RepurchaseDuration > 0
    /\ LpRewardRate >= 0 /\ RepurchaseRate >= 0 /\ RefererBonusRate >= 0
    /\ LpRewardRate + RepurchaseRate + RefererBonusRate <= MaxFeeRate /\ MaxFeeRate <= OneDec

Init ==
    /\ Validate
    /\ bal = [u \in Users |-> [t \in Tokens |-> Genesis]]
    /\ pairs = << >>
    /\ liquidity = << >>
    /\ dexes = << >>
    /\ referer = [u \in Users |-> NoUser]
    /\ funds = [t \in Tokens |-> 0]
    /\ burned = 0
    /\ height = 1
    /\ event = NoEvent

CheckSymbols(S) == S \subseteq Sendable

\* An exchange without an id, here 0, gets the next one.
SaveDex(id, d) == dexes' = IF id = 0 THEN Append(dexes, d) ELSE [dexes EXCEPT ![id] = d]

GetTradingPair(dex, t, u) == Key(dex, t, u) \in DOMAIN pairs
SaveTradingPair(k, pair) == pairs' = With(pairs, k, pair)
saveLiquidity(user, k, amount) == liquidity' = With(liquidity, <<user, k>>, amount)
addRepurchaseFunds(coins) == funds' = [t \in Tokens |-> funds[t] + coins[t]]

\* The pair that has the reserves: a public pair of an exchange uses those of the default pair.
Pool(dex, t, u) ==
    LET k == Key(dex, t, u) IN IF dex # 0 /\ k \in DOMAIN pairs /\ pairs[k].public THEN Key(0, t, u) ELSE k

getFeeRates(dex, pair) ==
    NewFeeRate(IF dex = 0 \/ pair.public THEN LpRewardRate ELSE pair.lp, RepurchaseRate,
               IF dex = 0 THEN RefererBonusRate ELSE pair.ref)

canRepurchase(t) == t = RepurchaseToken \/ Key(0, t, RepurchaseToken) \in DOMAIN pairs

NewDefaultTradingPair(total) == [a |-> 0, b |-> 0, total |-> total, public |-> TRUE, lp |-> 0, ref |-> 0]
NewCustomTradingPair(public, lp, ref) == [a |-> 0, b |-> 0, total |-> 0, public |-> public, lp |-> lp, ref |-> ref]

GetLiquidity(user, k) == IF <<user, k>> \in DOMAIN liquidity THEN liquidity[<<user, k>>] ELSE 0

-----------------------------------------------------------------------------
(***************************************************************************)
(* Liquidity                                                               *)
(***************************************************************************)
\* What is taken from a provider who offers up to maxA and maxB, and the liquidity given for it.
First(maxA, maxB) ==
    [a |-> maxA, b |-> maxB, total |-> MinimumLiquidity, minted |-> Sqrt(maxA * maxB) - MinimumLiquidity]

Further(pair, maxA, maxB) ==
    LET needB == mulAndDiv(maxA, pair.b, pair.a)
        a == IF needB > maxB THEN mulAndDiv(maxB, pair.a, pair.b) ELSE maxA
        b == IF needB > maxB THEN maxB ELSE needB
    IN  [a |-> a, b |-> b, total |-> pair.total,
         minted |-> Min({mulAndDiv(a, pair.total, pair.a), mulAndDiv(b, pair.total, pair.b)})]

AddLiquidity(from, dex, t, u, maxA, maxB) ==
    /\ CheckSymbols({t, u})
    /\ dex = 0 \/ GetTradingPair(dex, t, u)
    /\ LET k    == Pool(dex, t, u)
           old  == IF k \in DOMAIN pairs THEN pairs[k] ELSE NewDefaultTradingPair(0)
           need == IF old.total = 0 THEN First(maxA, maxB) ELSE Further(old, maxA, maxB)
       IN  /\ need.a <= maxA /\ need.a > 0 /\ need.b > 0 /\ need.minted > 0
           /\ bal[from][k[2]] >= need.a /\ bal[from][k[3]] >= need.b
           /\ bal' = [bal EXCEPT ![from][k[2]] = @ - need.a, ![from][k[3]] = @ - need.b]
           /\ SaveTradingPair(k, [old EXCEPT !.a = @ + need.a, !.b = @ + need.b, !.total = need.total + need.minted])
           /\ saveLiquidity(from, k, GetLiquidity(from, k) + need.minted)
    /\ event' = NoEvent
    /\ UNCHANGED <<dexes, referer, funds, burned, height>>

RemoveLiquidity(from, dex, t, u, amount) ==
    /\ CheckSymbols({t, u})
    /\ GetTradingPair(dex, t, u)
    /\ LET k == Pool(dex, t, u)
           p == pairs[k]
           a == mulAndDiv(amount, p.a, p.total)
           b == mulAndDiv(amount, p.b, p.total)
       IN  /\ k \in DOMAIN pairs
           /\ GetLiquidity(from, k) >= amount /\ amount <= p.total
           /\ a > 0 /\ b > 0
           /\ bal' = [bal EXCEPT ![from][k[2]] = @ + a, ![from][k[3]] = @ + b]
           /\ SaveTradingPair(k, [p EXCEPT !.a = @ - a, !.b = @ - b, !.total = @ - amount])
           /\ saveLiquidity(from, k, GetLiquidity(from, k) - amount)
    /\ event' = NoEvent
    /\ UNCHANGED <<dexes, referer, funds, burned, height>>

-----------------------------------------------------------------------------
(***************************************************************************)
(* Swaps along a path                                                      *)
(***************************************************************************)
Hops(path) == 1 .. (Len(path) - 1)
ReserveOf(k, t) == IF k \notin DOMAIN pairs THEN 0 ELSE IF k[2] = t THEN pairs[k].a ELSE pairs[k].b
getReserves(dex, t, u) == [in |-> ReserveOf(Pool(dex, t, u), t), out |-> ReserveOf(Pool(dex, t, u), u)]
PathTradable(dex, path) ==
    \A i \in Hops(path) :
        /\ GetTradingPair(dex, path[i], path[i + 1])
        /\ LET r == getReserves(dex, path[i], path[i + 1]) IN r.in > 0 /\ r.out > 0
HopRate(dex, t, u) == getFeeRates(dex, pairs[Key(dex, t, u)])

\* Both estimates look at the pairs as they are before the swap.
getAmountOut(dex, in, path) ==
    FoldLeft(LAMBDA x, i : LET r == getReserves(dex, path[i], path[i + 1])
                           IN  EstimateOut(HopRate(dex, path[i], path[i + 1]), x, r.in, r.out),
             in, [i \in Hops(path) |-> i])

\* -1 when some reserve does not cover what has to come out of it.
getAmountIn(dex, out, path) ==
    FoldRight(LAMBDA i, x : LET r == getReserves(dex, path[i], path[i + 1])
                            IN  IF x = -1 \/ r.out <= x THEN -1
                                ELSE EstimateIn(HopRate(dex, path[i], path[i + 1]), x, r.in, r.out),
              [i \in Hops(path) |-> i], out)

\* One pair of the path: st carries the pairs, the amount that goes into the next one, and the fees.
Hop(st, dex, t, u) ==
    LET k == Pool(dex, t, u)
        r == swap(getFeeRates(dex, st.pairs[Key(dex, t, u)]), st.pairs[k], k[2] = t, st.amount, canRepurchase(t), FALSE)
    IN  [pairs |-> [st.pairs EXCEPT ![k] = r.pair], amount |-> r.out,
         bonus |-> [st.bonus EXCEPT ![t] = @ + r.bonus], fund |-> [st.fund EXCEPT ![t] = @ + r.fund]]

\* A slip in WalkPath: the bonus of the referer is added to the fund as well.
WalkPathBonusTwice(dex, in, path) ==
    FoldLeft(LAMBDA st, i : LET h == Hop(st, dex, path[i], path[i + 1])
                            IN  [h EXCEPT !.fund[path[i]] = @ + h.bonus[path[i]]],
             [pairs |-> pairs, amount |-> in, bonus |-> [t \in Tokens |-> 0], fund |-> [t \in Tokens |-> 0]],
             [i \in Hops(path) |-> i])

WalkPath(dex, in, path) ==
    FoldLeft(LAMBDA st, i : Hop(st, dex, path[i], path[i + 1]),
             [pairs |-> pairs, amount |-> in, bonus |-> [t \in Tokens |-> 0], fund |-> [t \in Tokens |-> 0]],
             [i \in Hops(path) |-> i])

directSwap(dex, from, ref, receiver, in, path) ==
    /\ bal[from][path[1]] >= in
    /\ LET end  == WalkPath(dex, in, path)
           paid == [bal EXCEPT ![from][path[1]] = @ - in]
           got  == [paid EXCEPT ![receiver][path[Len(path)]] = @ + end.amount]
       IN  /\ bal' = [got EXCEPT ![ref] = [t \in Tokens |-> @[t] + end.bonus[t]]]
           /\ pairs' = end.pairs
           /\ addRepurchaseFunds(end.fund)
    /\ UNCHANGED <<liquidity, dexes, burned, height>>

\* The referer of the sender, bound to the one in the message when there is none yet.
DexOrReferer(dex, from, msgReferer) ==
    IF dex # 0 THEN dexes[dex].receiver ELSE IF referer[from] # NoUser THEN referer[from] ELSE msgReferer
BindReferer(dex, from, msgReferer) ==
    referer' = IF dex = 0 /\ referer[from] = NoUser /\ msgReferer # from
               THEN [referer EXCEPT ![from] = msgReferer] ELSE referer

handleMsgSwapExactIn(dex, from, ref, receiver, in, minOut, path) ==
    /\ CheckSymbols(Range(path)) /\ dex <= Len(dexes)
    /\ PathTradable(dex, path)
    /\ getAmountOut(dex, in, path) >= minOut
    /\ BindReferer(dex, from, ref)
    /\ directSwap(dex, from, DexOrReferer(dex, from, ref), receiver, in, path)
    /\ event' = [kind |-> "in", path |-> path, asked |-> minOut, got |-> WalkPath(dex, in, path).amount]

handleMsgSwapExactOut(dex, from, ref, receiver, out, maxIn, path) ==
    /\ CheckSymbols(Range(path)) /\ dex <= Len(dexes)
    /\ PathTradable(dex, path)
    /\ LET in == getAmountIn(dex, out, path) IN
       /\ in # -1 /\ in <= maxIn
       /\ BindReferer(dex, from, ref)
       /\ directSwap(dex, from, DexOrReferer(dex, from, ref), receiver, in, path)
       /\ event' = [kind |-> "out", path |-> path, asked |-> out, got |-> WalkPath(dex, in, path).amount]

-----------------------------------------------------------------------------
(***************************************************************************)
(* Exchanges and their pairs                                               *)
(***************************************************************************)
handleMsgCreateDex(from, receiver) ==
    /\ Len(dexes) < MaxDex
    /\ SaveDex(0, [owner |-> from, receiver |-> receiver])
    /\ event' = NoEvent
    /\ UNCHANGED <<bal, pairs, liquidity, referer, funds, burned, height>>

handleMsgEditDex(from, dex, receiver) ==
    /\ dex \in DOMAIN dexes /\ dexes[dex].owner = from
    /\ SaveDex(dex, [dexes[dex] EXCEPT !.receiver = receiver])
    /\ event' = NoEvent
    /\ UNCHANGED <<bal, pairs, liquidity, referer, funds, burned, height>>

RatesAllowed(pair) ==
    /\ pair.public => pair.ref >= RefererBonusRate
    /\ (IF pair.public THEN LpRewardRate ELSE pair.lp) + pair.ref + RepurchaseRate <= MaxFeeRate

handleMsgCreateTradingPair(from, dex, t, u, public, lp, ref) ==
    /\ dex \in DOMAIN dexes /\ dexes[dex].owner = from
    /\ CheckSymbols({t, u})
    /\ ~GetTradingPair(dex, t, u)
    /\ RatesAllowed(NewCustomTradingPair(public, lp, ref))
    /\ SaveTradingPair(Key(dex, t, u), NewCustomTradingPair(public, lp, ref))
    /\ event' = NoEvent
    /\ UNCHANGED <<bal, liquidity, dexes, referer, funds, burned, height>>

\* A pair with liquidity of its own stays private.
MayPublish(pair) == pair.public \/ pair.total <= 0

\* A message without a value for `public`, here the empty set, leaves it as it is.
handleMsgEditTradingPair(from, dex, t, u, public, lp, ref) ==
    /\ dex \in DOMAIN dexes /\ dexes[dex].owner = from
    /\ CheckSymbols({t, u})
    /\ LET k == Key(dex, t, u)
           b == IF public = {} THEN pairs[k].public ELSE TRUE \in public
       IN
       /\ k \in DOMAIN pairs
       /\ public # {} => MayPublish(pairs[k])
       /\ RatesAllowed([pairs[k] EXCEPT !.public = b, !.lp = lp, !.ref = ref])
       /\ SaveTradingPair(k, [pairs[k] EXCEPT !.public = b, !.lp = lp, !.ref = ref])
    /\ event' = NoEvent
    /\ UNCHANGED <<bal, liquidity, dexes, referer, funds, burned, height>>

-----------------------------------------------------------------------------
(***************************************************************************)
(* The end of a block                                                      *)
(***************************************************************************)
\* The fund of one token is swapped for the repurchase token, without fees.
Repurchased(st, t) ==
    IF funds[t] = 0 THEN st
    ELSE IF t = RepurchaseToken THEN [st EXCEPT !.total = @ + funds[t]]
    ELSE LET k == Key(0, t, RepurchaseToken)
             r == swap(getFeeRates(0, st.pairs[k]), st.pairs[k], k[2] = t, funds[t], TRUE, TRUE)
         IN  IF k \notin DOMAIN st.pairs THEN st
             ELSE [pairs |-> [st.pairs EXCEPT ![k] = r.pair], total |-> st.total + r.out]

RepurchaseAndBurn ==
    IF height % RepurchaseDuration # 0 THEN UNCHANGED <<pairs, funds, burned>>
    ELSE LET end == FoldLeft(Repurchased, [pairs |-> pairs, total |-> 0], TokenOrder)
         IN  /\ pairs' = end.pairs
             /\ burned' = burned + end.total
             /\ funds' = [t \in Tokens |-> 0]

EndBlock ==
    /\ RepurchaseAndBurn
    /\ height' = height + 1
    /\ event' = NoEvent
    /\ UNCHANGED <<bal, liquidity, dexes, referer>>

\* The largest minimum that a message may ask for; a smaller one is honoured when this one is.
StrictestMinimum(dex, n, path) ==
    IF PathTradable(dex, path) /\ getAmountOut(dex, n, path) > 0 THEN {getAmountOut(dex, n, path)} ELSE {}

Next ==
    \/ \E from \in Users, dex \in 0..MaxDex, t, u \in Tokens :
          /\ Weight(t) < Weight(u)
          /\ \/ \E d \in Deposits : AddLiquidity(from, dex, t, u, d[1], d[2])
             \/ \E n \in Amounts : RemoveLiquidity(from, dex, t, u, n)
             \/ \E r \in Rates :
                   \/ \E b \in BOOLEAN : handleMsgCreateTradingPair(from, dex, t, u, b, r[1], r[2])
                   \/ \E b \in {{}, {TRUE}, {FALSE}} : handleMsgEditTradingPair(from, dex, t, u, b, r[1], r[2])
    \/ \E dex \in 0..MaxDex, from, ref \in Users, n \in Amounts, path \in Paths :
          \/ \E limit \in StrictestMinimum(dex, n, path) : handleMsgSwapExactIn(dex, from, ref, from, n, limit, path)
          \/ handleMsgSwapExactOut(dex, from, ref, from, n, Genesis, path)
    \/ \E from, receiver \in Users :
          \/ handleMsgCreateDex(from, receiver)
          \/ \E dex \in 1..MaxDex : handleMsgEditDex(from, dex, receiver)
    \/ EndBlock

Spec == Init /\ [][Next]_vars

-----------------------------------------------------------------------------
(***************************************************************************)
(* Properties                                                              *)
(***************************************************************************)
InPairs(t) == MapThenSumSet(LAMBDA k : ReserveOf(k, t), {k \in DOMAIN pairs : t \in {k[2], k[3]}})

\* Swaps, fees, liquidity and repurchases only move coins: of every token, what users have, the
\* reserves of all pairs, the repurchase funds and what was burned add up to the genesis amount.
CoinsConserved ==
    \A t \in Tokens :
        MapThenSumSet(LAMBDA u : bal[u][t], Users) + InPairs(t) + funds[t]
          + (IF t = RepurchaseToken THEN burned ELSE 0) = Genesis * Cardinality(Users)

\* The liquidity of a pair is what its providers have and the part locked for ever, and a pair
\* with liquidity has coins of both tokens: no swap and no withdrawal empties it, so that prices
\* and shares can always be computed.
PairsNeverDry ==
    \A k \in DOMAIN pairs :
        LET held == MapThenSumSet(LAMBDA u : GetLiquidity(u, k), Users)
        IN  IF pairs[k].total = 0 THEN held = 0
            ELSE /\ pairs[k].total = held + MinimumLiquidity
                 /\ pairs[k].a > 0 /\ pairs[k].b > 0

\* A pair of an exchange that is public has no reserves or liquidity of its own, so that a provider's
\* coins can always be taken out through the pair they were put into.
PublicPairsEmpty ==
    \A k \in DOMAIN pairs : (k[1] # 0 /\ pairs[k].public) => pairs[k].total = 0

\* Whatever happens, all roundings included, a unit of liquidity never loses value: the product of
\* the reserves over the square of the liquidity does not fall.
SharesNeverDiluted ==
    \A k \in DOMAIN pairs :
       pairs[k].total > 0 =>
           pairs'[k].a * pairs'[k].b * pairs[k].total * pairs[k].total
             >= pairs[k].a * pairs[k].b * pairs'[k].total * pairs'[k].total

PairsOf(path) == [i \in Hops(path) |-> {path[i], path[i + 1]}]
SimplePath(path) == IsInjective(PairsOf(path))

\* A swap along a path that uses no pair twice gives at least what it was estimated to give: the
\* minimum of SwapExactIn, the exact amount of SwapExactOut.
SwapsHonoured ==
    (event.kind # "none" /\ SimplePath(event.path)) => event.got >= event.asked

=============================================================================
