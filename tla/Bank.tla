-------------------------------- MODULE Bank --------------------------------
(***************************************************************************)
(* Balances, held balances and their flows (x/transfer/keeper/send.go),    *)
(* module accounts and the total supply (x/supply), and minting (x/mint).  *)
(* A list of coins is walked coin by coin, and a coin that cannot be moved *)
(* ends the walk with an error; the transaction is then rolled back.       *)
(***************************************************************************)
EXTENDS Integers, Sequences, SequencesExt, FiniteSetsExt

CONSTANTS Users, Denoms, Native,
          Permissions,            \* of the module accounts, by their names
          CoinLists,              \* amounts: lists of coins, sorted by denomination
          MintPerBlock,
          Genesis                 \* balances at genesis

Modules == DOMAIN Permissions
Accounts == Users \cup Modules

\* flows: the flows of the last message; burned is counted beside the total.
\* taken: native coins taken as fees by KeepFee (history).
VARIABLES bal, hold, total, burned, flows, sendEnabled, taken

vars == <<bal, hold, total, burned, flows, sendEnabled, taken>>

HasPermission(module, p) == p \in Permissions[module]

\* Of the parameters of x/mint at genesis.
ValidateParams == MintPerBlock > 0

Coin(d, n) == [denom |-> d, amount |-> n]
AmountOf(coins, d) == MapThenSumSet(LAMBDA i : coins[i].amount, {i \in DOMAIN coins : coins[i].denom = d})
AsFunction(coins) == [d \in Denoms |-> AmountOf(coins, d)]
Plus(f, g) == [d \in Denoms |-> f[d] + g[d]]
Minus(f, g) == [d \in Denoms |-> f[d] - g[d]]

-----------------------------------------------------------------------------
(***************************************************************************)
(* A store during a message: balances, held balances, flows, error.        *)
(***************************************************************************)
Store == [bal |-> bal, hold |-> hold, flows |-> <<>>, err |-> FALSE]

\* held: whether the flow is one of the held balance; the other fields of a flow are zero.
BalanceFlow(addr, coin, held, before, change) ==
    [addr |-> addr, denom |-> coin.denom, held |-> held, before |-> before, change |-> change]

GetBalance(t, addr, d) == t.bal[addr][d]
GetHoldBalance(t, addr, d) == t.hold[addr][d]

AddCoin(t, addr, coin) ==
    [t EXCEPT !.bal[addr][coin.denom] = @ + coin.amount,
              !.flows = Append(@, BalanceFlow(addr, coin, FALSE, GetBalance(t, addr, coin.denom), coin.amount))]

SubCoin(t, addr, coin) ==
    IF GetBalance(t, addr, coin.denom) < coin.amount THEN [t EXCEPT !.err = TRUE]
    ELSE [t EXCEPT !.bal[addr][coin.denom] = @ - coin.amount,
                   !.flows = Append(@, BalanceFlow(addr, coin, FALSE, GetBalance(t, addr, coin.denom), -coin.amount))]

AddCoinHold(t, addr, coin) ==
    [t EXCEPT !.hold[addr][coin.denom] = @ + coin.amount,
              !.flows = Append(@, BalanceFlow(addr, coin, TRUE, GetHoldBalance(t, addr, coin.denom), coin.amount))]

SubCoinHold(t, addr, coin) ==
    IF GetHoldBalance(t, addr, coin.denom) < coin.amount THEN [t EXCEPT !.err = TRUE]
    ELSE [t EXCEPT !.hold[addr][coin.denom] = @ - coin.amount,
                   !.flows = Append(@, BalanceFlow(addr, coin, TRUE, GetHoldBalance(t, addr, coin.denom), -coin.amount))]

\* What comes after an error is not reached.
AddCoins(t, addr, coins) == FoldLeft(LAMBDA x, c : IF x.err THEN x ELSE AddCoin(x, addr, c), t, coins)
SubCoins(t, addr, coins) == FoldLeft(LAMBDA x, c : IF x.err THEN x ELSE SubCoin(x, addr, c), t, coins)
SubCoinsHold(t, addr, coins) == FoldLeft(LAMBDA x, c : IF x.err THEN x ELSE SubCoinHold(x, addr, c), t, coins)

SendCoin(t, from, to, coin) ==
    LET sub == SubCoin(t, from, coin) IN IF sub.err THEN sub ELSE AddCoin(sub, to, coin)

SendCoins(t, from, to, coins) ==
    FoldLeft(LAMBDA x, c : IF x.err THEN x ELSE SendCoin(x, from, to, c), t, coins)

LockCoin(t, addr, coin) ==
    LET sub == SubCoin(t, addr, coin) IN IF sub.err THEN sub ELSE AddCoinHold(sub, addr, coin)

UnlockCoin(t, addr, coin) ==
    LET sub == SubCoinHold(t, addr, coin) IN IF sub.err THEN sub ELSE AddCoin(sub, addr, coin)

LockCoins(t, addr, coins) == FoldLeft(LAMBDA x, c : IF x.err THEN x ELSE LockCoin(x, addr, c), t, coins)
UnlockCoins(t, addr, coins) == FoldLeft(LAMBDA x, c : IF x.err THEN x ELSE UnlockCoin(x, addr, c), t, coins)

\* All inputs are taken before any output is given.
InputOutputCoins(t, inputs, outputs) ==
    LET sub == FoldLeft(LAMBDA x, i : IF x.err THEN x ELSE SubCoins(x, i.addr, i.coins), t, inputs)
    IN  FoldLeft(LAMBDA x, o : IF x.err THEN x ELSE AddCoins(x, o.addr, o.coins), sub, outputs)

ValidateInputsOutputs(inputs, outputs) ==
    LET Sum(parts) == FoldLeft(LAMBDA f, p : Plus(f, AsFunction(p.coins)), [d \in Denoms |-> 0], parts)
    IN  Sum(inputs) = Sum(outputs)

\* The message ends without an error, and its store is written.
Write(t) == ~t.err /\ bal' = t.bal /\ hold' = t.hold /\ flows' = t.flows

-----------------------------------------------------------------------------
(***************************************************************************)
(* Messages                                                                *)
(***************************************************************************)
handleMsgSend(from, to, coins) ==
    /\ sendEnabled
    /\ Write(SendCoins(Store, from, to, coins))
    /\ UNCHANGED <<total, burned, sendEnabled, taken>>

handleMsgMultiSend(inputs, outputs) ==
    /\ sendEnabled
    /\ ValidateInputsOutputs(inputs, outputs)
    /\ Write(InputOutputCoins(Store, inputs, outputs))
    /\ UNCHANGED <<total, burned, sendEnabled, taken>>

\* The receiver of delegated coins, and the sender of undelegated ones, exist: module accounts do.
DelegateCoins(t, user, module, coins) == SendCoins(t, user, module, coins)
UndelegateCoins(t, module, user, coins) == SendCoins(t, module, user, coins)

\* Without the permission the supply keeper panics, which also rolls the transaction back.
DelegateCoinsFromAccountToModule(user, module, coins) ==
    /\ HasPermission(module, "staking")
    /\ Write(DelegateCoins(Store, user, module, coins))
    /\ UNCHANGED <<total, burned, sendEnabled, taken>>

UndelegateCoinsFromModuleToAccount(module, user, coins) ==
    /\ HasPermission(module, "staking")
    /\ Write(UndelegateCoins(Store, module, user, coins))
    /\ UNCHANGED <<total, burned, sendEnabled, taken>>

\* A payment to a module, a fee for example, is not subject to sendEnabled.
SendCoinsFromAccountToModule(user, module, coins) ==
    /\ Write(SendCoins(Store, user, module, coins))
    /\ UNCHANGED <<total, burned, sendEnabled, taken>>

SendCoinsFromModuleToAccount(module, user, coins) ==
    /\ Write(SendCoins(Store, module, user, coins))
    /\ UNCHANGED <<total, burned, sendEnabled, taken>>

Lock(user, coins) ==
    /\ Write(LockCoins(Store, user, coins))
    /\ UNCHANGED <<total, burned, sendEnabled, taken>>

Unlock(user, coins) ==
    /\ Write(UnlockCoins(Store, user, coins))
    /\ UNCHANGED <<total, burned, sendEnabled, taken>>

\* What was deposited on another chain becomes a balance without entering the supply.
DepositExternal(user, coins) ==
    /\ AmountOf(coins, Native) = 0
    /\ Write(AddCoins(Store, user, coins))
    /\ UNCHANGED <<total, burned, sendEnabled, taken>>

\* A withdrawal that is done takes held coins off the chain.
WithdrawExternal(user, coins) ==
    /\ AmountOf(coins, Native) = 0
    /\ Write(SubCoinsHold(Store, user, coins))
    /\ UNCHANGED <<total, burned, sendEnabled, taken>>

\* The fee of a new key or a new token leaves an account, or what it holds, and is added to the
\* community pool of x/distribution (AddToFeePool); no account gets the coins, and the supply stays.
KeepFee(user, amount, held) ==
    /\ LET fee == Coin(Native, amount)
       IN  Write(IF held THEN SubCoinHold(Store, user, fee) ELSE SubCoin(Store, user, fee))
    /\ taken' = taken + amount
    /\ UNCHANGED <<total, burned, sendEnabled>>

SetSendEnabled == sendEnabled' = ~sendEnabled /\ UNCHANGED <<bal, hold, total, burned, flows, taken>>

-----------------------------------------------------------------------------
(***************************************************************************)
(* Supply                                                                  *)
(***************************************************************************)
Inflate(coins) == total' = Plus(total, AsFunction(coins))

\* Either every coin of the list is covered by the total, or the total stays.
Deflate(coins) ==
    LET c == AsFunction(coins)
    IN  /\ total' = IF \A d \in Denoms : total[d] >= c[d] THEN Minus(total, c) ELSE total
        /\ burned' = Plus(burned, c)

BurnCoins(module, coins) ==
    /\ HasPermission(module, "burner")
    /\ Write(SubCoins(Store, module, coins))
    /\ Deflate(coins)
    /\ UNCHANGED <<sendEnabled, taken>>

MintCoins(t, module, coins) ==
    IF HasPermission(module, "minter") THEN AddCoins(t, module, coins) ELSE [t EXCEPT !.err = TRUE]

SendCoinsFromModuleToModule(t, from, to, coins) == SendCoins(t, from, to, coins)

\* x/mint: the coins of a block are minted to its account and passed on to the fee collector.
BeginBlocker ==
    LET coins == <<Coin(Native, MintPerBlock)>>
    IN  /\ Write(SendCoinsFromModuleToModule(MintCoins(Store, "mint", coins), "mint", "fee_collector", coins))
        /\ Inflate(coins)
        /\ UNCHANGED <<burned, sendEnabled, taken>>

Zero == [d \in Denoms |-> 0]

\* InitGenesis: a genesis without a supply gets the sum of the balances.
Init ==
    /\ ValidateParams
    /\ bal = [a \in Accounts |-> IF a \in Users THEN Genesis ELSE Zero]
    /\ hold = [a \in Accounts |-> Zero]
    /\ total = [d \in Denoms |-> MapThenSumSet(LAMBDA a : bal[a][d], Accounts)]
    /\ burned = Zero
    /\ flows = <<>>
    /\ sendEnabled = TRUE
    /\ taken = 0

Part(a, c) == [addr |-> a, coins |-> c]

Next ==
    \/ \E u, v \in Users, c \in CoinLists : handleMsgSend(u, v, c)
    \/ \E u, v, x \in Users, c, d \in CoinLists :
           handleMsgMultiSend(<<Part(u, c), Part(v, d)>>, <<Part(x, d), Part(u, c)>>)
    \/ \E u, x \in Users, c, d \in CoinLists :
           handleMsgMultiSend(<<Part(u, c)>>, <<Part(x, d)>>)
    \/ \E u \in Users, m \in Modules, c \in CoinLists :
           \/ DelegateCoinsFromAccountToModule(u, m, c)
           \/ UndelegateCoinsFromModuleToAccount(m, u, c)
           \/ SendCoinsFromAccountToModule(u, m, c)
           \/ SendCoinsFromModuleToAccount(m, u, c)
    \/ \E u \in Users, c \in CoinLists :
           Lock(u, c) \/ Unlock(u, c) \/ DepositExternal(u, c) \/ WithdrawExternal(u, c)
    \* its callers (x/staking/keeper/pool.go, x/openswap/keeper/keeper.go) burn the native token only
    \/ \E m \in Modules, c \in CoinLists : AsFunction(c) = [Zero EXCEPT ![Native] = 1] /\ BurnCoins(m, c)
    \/ \E u \in Users, held \in BOOLEAN : KeepFee(u, 1, held)
    \/ SetSendEnabled
    \/ BeginBlocker

Spec == Init /\ [][Next]_vars

-----------------------------------------------------------------------------
\* The supply of the native token is what all accounts have, held coins included, and the fees that
\* were taken for keys and tokens: minting and burning are the only ways to change it, and what was
\* burned is counted once.  Without the fees it is the invariant TotalSupply that
\* x/supply/internal/keeper/invariants.go has switched off.
SupplyExact ==
    total[Native] = taken + MapThenSumSet(LAMBDA a : bal[a][Native] + hold[a][Native], Accounts)

=============================================================================
