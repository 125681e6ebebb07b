----------------------------- MODULE CoinLists ------------------------------
(***************************************************************************)
(* Coins and DecCoins as the code keeps them: lists of coins sorted by     *)
(* denomination (types/coin.go, types/dec_coin.go), and the lists of       *)
(* outputs and deposits of custodian units (types/utxo.go,                 *)
(* types/depositlist.go).  Denominations are numbers, for their order;     *)
(* DecCoins have decimals for amounts.  An output or a deposit has a       *)
(* transaction hash, a number for its order, an index and an amount.       *)
(***************************************************************************)
EXTENDS Decimal

\* validate: an amount is not negative.  A coin of a list is positive.
NewCoin(denom, amount) == [denom |-> denom, amount |-> amount]
IsPositive(coin) == coin.amount > 0

\* Coins.IsValid: positive amounts, denominations ascending without repetition.
IsValid(coins) ==
    \A i \in 1 .. Len(coins) :
        IsPositive(coins[i]) /\ (i > 1 => coins[i].denom > coins[i - 1].denom)

removeZeroCoins(coins) == SelectSeq(coins, LAMBDA c : c.amount # 0)

\* NewCoins: zeros removed, sorted; a denomination twice, or an invalid set, panics.
NewCoins(coins) ==
    SortSeq(removeZeroCoins(coins), LAMBDA c, d : c.denom < d.denom)

findDup(coins) == \E i \in 2 .. Len(coins) : coins[i].denom = coins[i - 1].denom

\* A coin joins the sum unless its amount is zero.
AppendCoin(sum, coin) == IF coin.amount = 0 THEN sum ELSE Append(sum, coin)

\* Coin.Add: two coins of one denomination.
AddCoin(c, d) == NewCoin(c.denom, c.amount + d.amount)

RECURSIVE Merge(_, _, _)
\* The loop of safeAdd: a and b are what is left of the two lists.
Merge(sum, a, b) ==
    IF a = <<>> THEN sum \o removeZeroCoins(b)
    ELSE IF b = <<>> THEN sum \o removeZeroCoins(a)
    ELSE LET c == Head(a)
             d == Head(b)
         IN  IF c.denom < d.denom THEN Merge(AppendCoin(sum, c), Tail(a), b)
             ELSE IF c.denom > d.denom THEN Merge(AppendCoin(sum, d), a, Tail(b))
             ELSE Merge(AppendCoin(sum, AddCoin(c, d)), Tail(a), Tail(b))

safeAdd(a, b) == Merge(<<>>, a, b)

negative(coins) == [i \in 1 .. Len(coins) |-> NewCoin(coins[i].denom, -coins[i].amount)]
IsAnyNegative(coins) == \E i \in 1 .. Len(coins) : coins[i].amount < 0
SafeSub(a, b) == safeAdd(a, negative(b))

LowerHalf(coins, mid) == SubSeq(coins, 1, mid)

RECURSIVE AmountOf(_, _)
\* AmountOf: binary search; mid is the index of the code, which counts from 0.
AmountOf(coins, denom) ==
    LET mid  == Len(coins) \div 2
        coin == coins[mid + 1]
    IN  IF coins = <<>> THEN 0
        ELSE IF Len(coins) = 1 THEN IF coins[1].denom = denom THEN coins[1].amount ELSE 0
        ELSE IF denom < coin.denom THEN AmountOf(LowerHalf(coins, mid), denom)
        ELSE IF denom = coin.denom THEN coin.amount
        ELSE AmountOf(SubSeq(coins, mid + 2, Len(coins)), denom)

DenomsSubsetOf(a, b) ==
    /\ Len(a) =< Len(b)
    /\ \A i \in 1 .. Len(a) : AmountOf(b, a[i].denom) # 0

IsAllGT(a, b) ==
    /\ a # <<>>
    /\ DenomsSubsetOf(b, a)
    /\ \A i \in 1 .. Len(b) : AmountOf(a, b[i].denom) > b[i].amount

IsAllGTE(a, b) == \A i \in 1 .. Len(b) : b[i].amount =< AmountOf(a, b[i].denom)

IsAnyGT(a, b) ==
    \E i \in 1 .. Len(a) : LET amt == AmountOf(b, a[i].denom) IN a[i].amount > amt /\ amt # 0

IsAnyGTE(a, b) ==
    \E i \in 1 .. Len(a) : LET amt == AmountOf(b, a[i].denom) IN a[i].amount >= amt /\ amt # 0

-----------------------------------------------------------------------------
(***************************************************************************)
(* DecCoins: the merge and the search are those of Coins.                  *)
(***************************************************************************)
DecAdd(a, b) == safeAdd(a, b)
DecAmountOf(coins, denom) == AmountOf(coins, denom)

\* NewDecCoins: every coin with its amount as a decimal.
NewDecCoins(coins) == [i \in 1 .. Len(coins) |-> NewCoin(coins[i].denom, ToDec(coins[i].amount))]

Intersect(a, b) ==
    removeZeroCoins([i \in 1 .. Len(a) |->
        NewCoin(a[i].denom, MinDec(a[i].amount, AmountOf(b, a[i].denom)))])

\* MulDec, MulDecTruncate, QuoDec and QuoDecTruncate: coin by coin, zeros dropped.
MulDec(coins, d) ==
    removeZeroCoins([i \in 1 .. Len(coins) |-> NewCoin(coins[i].denom, Mul(coins[i].amount, d))])
MulDecTruncate(coins, d) ==
    removeZeroCoins([i \in 1 .. Len(coins) |-> NewCoin(coins[i].denom, MulTruncate(coins[i].amount, d))])
QuoDec(coins, d) ==
    removeZeroCoins([i \in 1 .. Len(coins) |-> NewCoin(coins[i].denom, Quo(coins[i].amount, d))])
QuoDecTruncate(coins, d) ==
    removeZeroCoins([i \in 1 .. Len(coins) |-> NewCoin(coins[i].denom, QuoTruncate(coins[i].amount, d))])

\* TruncateDecimal: the integer parts, and the change.
Truncated(coins) ==
    removeZeroCoins([i \in 1 .. Len(coins) |-> NewCoin(coins[i].denom, TruncateInt(coins[i].amount))])
Change(coins) == SafeSub(coins, NewDecCoins(Truncated(coins)))

-----------------------------------------------------------------------------
(***************************************************************************)
(* UtxoIns                                                                 *)
(***************************************************************************)
IsSubsetOf(us, others) == \A k \in 1 .. Len(us) : Contains(others, us[k])
UtxoInsEqual(us, others) == IsSubsetOf(us, others) /\ IsSubsetOf(others, us)

UtxoInTotalAmount(us) == FoldLeft(LAMBDA total, u : total + u.amount, 0, us)

\* HasDuplicatedItem: an item is compared with the first one of its hash.
HasDuplicatedItem(us) ==
    \E k \in 1 .. Len(us) :
        \E first \in 1 .. k - 1 :
            /\ us[first] = us[k]
            /\ \A n \in 1 .. first - 1 : us[n].hash # us[k].hash

Cut(us, k) == SubSeq(us, 1, k - 1) \o SubSeq(us, k + 1, Len(us))

RemoveOneUtxoIn(us, u) ==
    IF Contains(us, u)
    THEN Cut(us, CHOOSE k \in 1 .. Len(us) : us[k] = u /\ \A n \in 1 .. k - 1 : us[n] # u)
    ELSE us

RemoveUtxoIns(us, delete) == FoldLeft(LAMBDA rest, d : RemoveOneUtxoIn(rest, d), us, delete)

UtxoInsIsValid(us) == ~HasDuplicatedItem(us) /\ \A k \in 1 .. Len(us) : us[k].amount > 0

-----------------------------------------------------------------------------
(***************************************************************************)
(* DepositList                                                             *)
(***************************************************************************)
\* GetDepositItem: the positions of a hash and index; the first is taken.
Found(ds, hash, index) == {k \in 1 .. Len(ds) : ds[k].hash = hash /\ ds[k].index = index}
FirstFound(ds, hash, index) ==
    CHOOSE k \in Found(ds, hash, index) : \A n \in Found(ds, hash, index) : k =< n

AddDepositItem(ds, d) == IF Found(ds, d.hash, d.index) = {} THEN Append(ds, d) ELSE ds

RemoveDepositItem(ds, hash, index) ==
    IF Found(ds, hash, index) = {} THEN ds
    ELSE LET k == FirstFound(ds, hash, index)
         IN  SubSeq(ds, 1, k - 1) \o SubSeq(ds, k + 1, Len(ds))

UpdateDepositItem(ds, d) ==
    IF Found(ds, d.hash, d.index) = {} THEN ds
    ELSE [ds EXCEPT ![FirstFound(ds, d.hash, d.index)] = d]

DepositSum(ds) == FoldLeft(LAMBDA sum, d : sum + d.amount, 0, ds)

(***************************************************************************)
(* Sort: Less appends the index of its first argument to both hashes, so   *)
(* that hashes of one length decide alone.  A short list is sorted by      *)
(* insertion: deposits of one hash keep their order.                       *)
(***************************************************************************)
Less(d, e) == d.hash < e.hash
Insert(sorted, d) ==
    LET k == Cardinality({n \in 1 .. Len(sorted) : ~Less(d, sorted[n])})
    IN  SubSeq(sorted, 1, k) \o <<d>> \o SubSeq(sorted, k + 1, Len(sorted))
SortDeposits(ds) == FoldLeft(LAMBDA sorted, d : Insert(sorted, d), <<>>, ds)

\* findDupDeposit: neighbours of the sorted list with one hash and index.
findDupDeposit(ds) ==
    LET s == SortDeposits(ds)
    IN  \E k \in 2 .. Len(s) : s[k].hash = s[k - 1].hash /\ s[k].index = s[k - 1].index

=============================================================================
