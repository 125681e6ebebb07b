------------------------------ MODULE Mapping ------------------------------
(***************************************************************************)
(* Mapped tokens and swap orders (x/mapping).                              *)
(*                                                                         *)
(* A mapping pledges the whole supply of an issue token; from then on one  *)
(* issue coin is drawn from the pledge for each target coin given up, and  *)
(* the other way round.  Swap orders put source coins of their owner into  *)
(* a pool shared by all orders; buyers draw from it, owners cancel.  A     *)
(* message that fails changes nothing, so that a failing handler is an     *)
(* action that is not enabled.                                             *)
(***************************************************************************)
EXTENDS Integers, FiniteSetsExt

CONSTANTS
    Users,            \* addresses of custodian units that exist
    Tokens,           \* symbols with a token info, the native one included
    Native,
    ChainTokens,      \* tokens that are the main coin of their chain
    TotalSupply,      \* of a token, from its token info
    Unit,             \* 10^decimals of a token
    Genesis,          \* balances at genesis
    NewMappingFee,
    OrderIds,
    FreeInfos,        \* terms of free orders that pass ValidateBasic
    DirectInfos       \* terms of direct orders that pass ValidateBasic

VARIABLES
    bal,              \* balance of a user in a token
    mappings,         \* MappingInfo of each issue symbol that has one
    free,             \* FreeSwapOrder under its id
    direct,           \* DirectSwapOrder under its id
    pool,             \* SwapPool.SwapCoins; all zero when its key is absent
    sendEnabled,      \* tokens whose sending is enabled
    now,              \* block time
    fees              \* native coins paid for mappings

vars == <<bal, mappings, free, direct, pool, sendEnabled, now, fees>>
orders == <<free, direct, pool>>

Init ==
    /\ bal = Genesis
    /\ mappings = << >>
    /\ free = << >>
    /\ direct = << >>
    /\ pool = [t \in Tokens |-> 0]
    /\ sendEnabled = Tokens
    /\ now = 1
    /\ fees = 0

With(f, k, v) == [x \in DOMAIN f \cup {k} |-> IF x = k THEN v ELSE f[x]]
Without(f, k) == [x \in DOMAIN f \ {k} |-> f[x]]
Targets == {mappings[s].target : s \in DOMAIN mappings}
PoolExists == \E t \in Tokens : pool[t] > 0

GetMappingInfo(s) == s \in DOMAIN mappings
IsSwapOrderExist(f, id) == id \in DOMAIN f

-----------------------------------------------------------------------------
(***************************************************************************)
(* Mappings                                                                *)
(***************************************************************************)
CanAdd(from, issue, target, total) ==
    /\ ~GetMappingInfo(issue)
    /\ ~GetMappingInfo(target)
    /\ issue \notin Targets
    /\ issue \notin ChainTokens
    /\ TotalSupply[issue] = total
    /\ Unit[issue] = Unit[target]
    /\ bal[from][issue] = total

handleAddMappingProposal(from, issue, target, total) ==
    /\ CanAdd(from, issue, target, total)
    /\ bal[from][Native] >= NewMappingFee
    /\ bal' = [bal EXCEPT ![from][issue] = @ - total, ![from][Native] = @ - NewMappingFee]
    /\ fees' = fees + NewMappingFee
    /\ mappings' = With(mappings, issue, [target |-> target, total |-> total, pool |-> total, enabled |-> TRUE])
    /\ UNCHANGED <<orders, sendEnabled, now>>

handleSwitchMappingProposal(issue, enable) ==
    /\ GetMappingInfo(issue)
    /\ mappings' = [mappings EXCEPT ![issue].enabled = enable]
    /\ UNCHANGED <<bal, orders, sendEnabled, now, fees>>

\* How much leaves the pledge when a user gives amount of one token of the mapping.
IssueChange(issue, given, amount) == IF given = issue THEN -amount ELSE amount

handleMsgMappingSwap(from, issue, given, amount) ==
    /\ GetMappingInfo(issue)
    /\ mappings[issue].enabled
    /\ {issue, mappings[issue].target} \subseteq sendEnabled
    /\ given \in {issue, mappings[issue].target}
    /\ LET got  == IF given = issue THEN mappings[issue].target ELSE issue
           left == mappings[issue].pool - IssueChange(issue, given, amount)
       IN  /\ left > 0 /\ left <= mappings[issue].total
           /\ bal[from][given] >= amount
           /\ mappings' = [mappings EXCEPT ![issue].pool = left]
           /\ bal' = [bal EXCEPT ![from] = [@ EXCEPT ![given] = @ - amount, ![got] = @ + amount]]
    /\ UNCHANGED <<orders, sendEnabled, now, fees>>

-----------------------------------------------------------------------------
(***************************************************************************)
(* Swap orders                                                             *)
(***************************************************************************)
FreeSwapOrder(from, info) == [owner |-> from, info |-> info, remain |-> info.total]
DirectSwapOrder(from, info) == [owner |-> from, info |-> info]

CreateFreeSwapOrder(from, id, info) ==
    /\ bal[from][info.src] >= info.total
    /\ bal' = [bal EXCEPT ![from][info.src] = @ - info.total]
    /\ pool' = [pool EXCEPT ![info.src] = @ + info.total]
    /\ free' = With(free, id, FreeSwapOrder(from, info))
    /\ UNCHANGED <<mappings, direct, sendEnabled, now, fees>>

handleMsgCreateFreeSwap(from, id, info) ==
    /\ ~IsSwapOrderExist(free, id)
    /\ CreateFreeSwapOrder(from, id, info)

CreateDirectSwapOrder(from, id, info) ==
    /\ bal[from][info.src] >= info.amount
    /\ bal' = [bal EXCEPT ![from][info.src] = @ - info.amount]
    /\ pool' = [pool EXCEPT ![info.src] = @ + info.amount]
    /\ direct' = With(direct, id, DirectSwapOrder(from, info))
    /\ UNCHANGED <<mappings, free, sendEnabled, now, fees>>

handleMsgCreateDirectSwap(from, id, info) ==
    /\ ~IsSwapOrderExist(direct, id)
    /\ CreateDirectSwapOrder(from, id, info)

Expired(info) == info.expired # 0 /\ now > info.expired

\* What the buyer of amount source coins pays, in target coins.
NeedAmount(info, amount) == (amount * info.price) \div Unit[info.src]

\* The buyer pays the owner, then gets coins of the pool.  Both may be the same user.
Trade(buyer, owner, paid, target, got, src) ==
    /\ bal[buyer][target] >= paid
    /\ LET sent == [bal EXCEPT ![buyer][target] = @ - paid]
           recv == [sent EXCEPT ![owner][target] = @ + paid]
       IN  bal' = [recv EXCEPT ![buyer][src] = @ + got]
    /\ pool' = [pool EXCEPT ![src] = @ - got]

SwapSymbolFree(from, id, amount) ==
    /\ PoolExists /\ id \in DOMAIN free
    /\ LET o == free[id] IN
       /\ ~Expired(o.info)
       /\ amount >= o.info.min /\ amount <= o.info.max
       /\ o.remain >= amount
       /\ Trade(from, o.owner, NeedAmount(o.info, amount), o.info.target, amount, o.info.src)
       /\ free' = IF o.remain = amount THEN Without(free, id) ELSE [free EXCEPT ![id].remain = @ - amount]
    /\ UNCHANGED <<mappings, direct, sendEnabled, now, fees>>

\* The amount of the message is not looked at.
SwapSymbolDirect(from, id) ==
    /\ PoolExists /\ id \in DOMAIN direct
    /\ LET o == direct[id] IN
       /\ ~Expired(o.info)
       /\ o.info.receiver = from
       /\ Trade(from, o.owner, o.info.swap, o.info.target, o.info.amount, o.info.src)
    /\ direct' = Without(direct, id)
    /\ UNCHANGED <<mappings, free, sendEnabled, now, fees>>

handleMsgSwapSymbol(from, id, amount) == SwapSymbolFree(from, id, amount) \/ SwapSymbolDirect(from, id)

\* What is left of a free order.
Refund(o) == o.remain

CancelSwapFree(from, id) ==
    /\ PoolExists /\ id \in DOMAIN free
    /\ LET o == free[id] IN
       /\ o.owner = from
       /\ bal' = [bal EXCEPT ![from][o.info.src] = @ + Refund(o)]
       /\ pool' = [pool EXCEPT ![o.info.src] = @ - Refund(o)]
    /\ free' = Without(free, id)
    /\ UNCHANGED <<mappings, direct, sendEnabled, now, fees>>

CancelSwapDirect(from, id) ==
    /\ PoolExists /\ id \in DOMAIN direct
    /\ LET o == direct[id] IN
       /\ o.owner = from
       /\ bal' = [bal EXCEPT ![from][o.info.src] = @ + o.info.amount]
       /\ pool' = [pool EXCEPT ![o.info.src] = @ - o.info.amount]
    /\ direct' = Without(direct, id)
    /\ UNCHANGED <<mappings, free, sendEnabled, now, fees>>

handleMsgCancelSwap(from, id) == CancelSwapFree(from, id) \/ CancelSwapDirect(from, id)

-----------------------------------------------------------------------------
(***************************************************************************)
(* The environment: a send between users, sending switched by a proposal   *)
(* of x/token, the clock.                                                  *)
(***************************************************************************)
Send(from, to, t) ==
    /\ from # to /\ bal[from][t] > 0
    /\ bal' = [bal EXCEPT ![from][t] = @ - 1, ![to][t] = @ + 1]
    /\ UNCHANGED <<mappings, orders, sendEnabled, now, fees>>

SwitchSend(t) ==
    /\ sendEnabled' = IF t \in sendEnabled THEN sendEnabled \ {t} ELSE sendEnabled \cup {t}
    /\ UNCHANGED <<bal, mappings, orders, now, fees>>

Tick ==
    /\ now' = now + 1
    /\ UNCHANGED <<bal, mappings, orders, sendEnabled, fees>>

Amounts == 1..Max({TotalSupply[t] : t \in Tokens})

Next ==
    \/ \E u \in Users, i, t \in Tokens, n \in Amounts :
          handleAddMappingProposal(u, i, t, n) \/ handleMsgMappingSwap(u, i, t, n)
    \/ \E i \in Tokens, b \in BOOLEAN : handleSwitchMappingProposal(i, b)
    \/ \E u \in Users, id \in OrderIds :
          \/ \E info \in FreeInfos : handleMsgCreateFreeSwap(u, id, info)
          \/ \E info \in DirectInfos : handleMsgCreateDirectSwap(u, id, info)
          \/ \E n \in Amounts : handleMsgSwapSymbol(u, id, n)
          \/ handleMsgCancelSwap(u, id)
    \/ \E u, v \in Users, t \in Tokens : Send(u, v, t)
    \/ \E t \in Tokens : SwitchSend(t)
    \/ Tick

Spec == Init /\ [][Next]_vars

-----------------------------------------------------------------------------
(***************************************************************************)
(* Properties                                                              *)
(***************************************************************************)
Circulating(t) == MapThenSumSet(LAMBDA u : bal[u][t], Users) + pool[t]
Drawn(i) == mappings[i].total - mappings[i].pool
GivenUp(t) == MapThenSumSet(Drawn, {i \in DOMAIN mappings : mappings[i].target = t /\ i # t})

\* Every issue coin in circulation stands for one target coin given up: the issue coins that users
\* and the swap pool have are those drawn from the pledge, and the target coins that are missing
\* are as many.  A token that is not issued by a mapping keeps its supply.
IssueBacked ==
    \A t \in Tokens :
        LET fee == IF t = Native THEN fees ELSE 0
        IN  IF t \in DOMAIN mappings /\ mappings[t].target # t THEN Circulating(t) = Drawn(t)
            ELSE Circulating(t) + GivenUp(t) + fee
                 + (IF t \in DOMAIN mappings THEN mappings[t].pool ELSE 0) = TotalSupply[t]

\* The pool has, of each token, exactly what the open orders still owe: every owner can
\* cancel at any time, whatever other orders were filled or cancelled before.
PoolOwesOrders ==
    \A t \in Tokens :
        pool[t] = MapThenSumSet(LAMBDA k : free[k].remain, {k \in DOMAIN free : free[k].info.src = t})
                + MapThenSumSet(LAMBDA k : direct[k].info.amount, {k \in DOMAIN direct : direct[k].info.src = t})

\* No token is issued by one mapping and the target of another, in whatever order proposals pass:
\* an issue coin is never backed by coins that are themselves drawn from a pledge.
RolesApart ==
    \A i, j \in DOMAIN mappings : i # j => mappings[i].target # j

=============================================================================
