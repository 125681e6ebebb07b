------------------------------ MODULE MCValues ------------------------------
(***************************************************************************)
(* Instances of the parts that keep and convert values: the cache over a   *)
(* store, the keys of stores, decimals, integers, lists of coins and       *)
(* outputs, addresses and the checks of messages.  A behaviour runs one of *)
(* them, the one named by part.  For what computes a value from others,    *)
(* input goes through all small arguments, one step after the other.       *)
(***************************************************************************)
EXTENDS CacheKV, Integers, FiniteSets, Bags, Functions

CONSTANTS
    Parts,                      \* what is run
    DecBound,                   \* magnitude of decimals
    MaxAmount,                  \* of a coin
    MaxItems,                   \* bound on lists of outputs
    MaxBytes, MaxText,          \* bounds on the bytes and the text of an address
    MaxKeys, MaxList,           \* bounds on the keys of a store and on lists in it
    MaxCached                   \* bound on the keys in the cache

VARIABLES part, input, store, keyCache, books

keyVars == <<store, keyCache, books>>
allVars == <<part, input, iterVars, keyVars>>

-----------------------------------------------------------------------------
(***************************************************************************)
(* Decimals with two digits, and integers of four bits: all pairs          *)
(***************************************************************************)
Dec == INSTANCE Decimal WITH Precision <- 2, maxBitLen <- 4

Pair == [x |-> -DecBound, y |-> -DecBound]
NextPair ==
    \/ input.y < DecBound /\ input' = [input EXCEPT !.y = @ + 1]
    \/ input.y = DecBound /\ input.x < DecBound /\ input' = [x |-> input.x + 1, y |-> -DecBound]

\* Mul gives the nearest decimal of the exact product, and the even one of two that are equally near.
MulNearest(x, y) ==
    LET err == x * y - Dec!Mul(x, y) * Dec!OneDec
    IN  /\ 2 * Dec!Abs(err) =< Dec!OneDec
        /\ 2 * Dec!Abs(err) = Dec!OneDec => Dec!Mul(x, y) % 2 = 0

\* Truncated results never exceed the exact one in magnitude, and miss it by less than the smallest
\* decimal.
TruncatesTowardsZero(x, y) ==
    LET m == x * y - Dec!MulTruncate(x, y) * Dec!OneDec
        q == x * Dec!OneDec - Dec!QuoTruncate(x, y) * y
    IN  /\ Dec!Abs(m) < Dec!OneDec /\ m * (x * y) >= 0
        /\ y # 0 => Dec!Abs(q) < Dec!Abs(y) /\ q * x >= 0

\* Ceil is the least integer that is not below, TruncateDec drops the fraction.
CeilIsLeast(x) ==
    /\ 10 * Dec!NewDecWithPrec(x, 1) = Dec!ToDec(x)
    /\ Dec!Ceil(x) >= x /\ Dec!Ceil(x) - x < Dec!OneDec /\ Dec!IsInteger(Dec!Ceil(x))
    /\ Dec!Abs(Dec!TruncateDec(x)) =< Dec!Abs(x) /\ Dec!Abs(x - Dec!TruncateDec(x)) < Dec!OneDec

\* Quo is nearest but for its two roundings: it misses the exact quotient by half a unit and at most one
\* unit of the wider precision.
QuoNearlyNearest(x, y) ==
    y # 0 => 2 * Dec!OneDec * Dec!Abs(x * Dec!OneDec - Dec!Quo(x, y) * y) =< Dec!Abs(y) * (Dec!OneDec + 2)

\* The median lies between the numbers, half of them on either side.
MedianInside(x, y) ==
    LET ds == <<x, y, 0>>
        m  == Dec!DecMedian(ds)
        n(S) == Len(SelectSeq(ds, LAMBDA d : d \in S))
    IN  /\ n(-DecBound .. m) >= 2 /\ n(m .. DecBound) >= 2
        /\ Dec!DecMedian(<<x, y>>) \in Dec!MinDec(x, y) .. Dec!MaxDec(x, y)

\* Operations on integers panic exactly when the result does not fit, and what Quo and Mod return is an Int
\* again, though they have no check of their own.  Unsigned ones panic also below zero.
IntsFit(i, j) ==
    i \in Dec!Ints /\ j \in Dec!Ints =>
        /\ Dec!MulFits(i, j) <=> i * j \in Dec!Ints
        /\ Dec!AddFits(i, j) <=> i + j \in Dec!Ints
        /\ Dec!SubFits(i, j) <=> i - j \in Dec!Ints
        /\ Dec!MinInt(i, j) + Dec!MaxInt(i, j) = i + j
        /\ Dec!UintFits(i) /\ Dec!UintFits(j) =>
               /\ Dec!UintSubFits(i, j) <=> i >= j
               /\ Dec!UintMulFits(i, j) <=> Dec!MulFits(i, j)
        /\ j # 0 => /\ Dec!IntQuo(i, j) \in Dec!Ints
                    /\ Dec!IntMod(i, j) \in Dec!Ints /\ Dec!IntMod(i, j) >= 0
                    /\ (i - Dec!IntMod(i, j)) % Dec!Abs(j) = 0

\* What does not overflow in integers does not in decimals: every Int is one, and so is what Add, Sub, Mul and
\* Quo make of the decimals of two, if the Int of it fits.
DecsFit(i, j) ==
    i \in Dec!Ints /\ j \in Dec!Ints =>
        LET d == Dec!ToDec(i) e == Dec!ToDec(j)
        IN  /\ Dec!DecFits(d)
            /\ Dec!AddFits(i, j) => Dec!DecAddFits(d, e)
            /\ Dec!SubFits(i, j) => Dec!DecSubFits(d, e)
            /\ Dec!MulFits(i, j) => Dec!DecMulFits(d, e)
            /\ j # 0 => Dec!DecQuoFits(d, e)

-----------------------------------------------------------------------------
(***************************************************************************)
(* Lists of coins of three denominations against functions from            *)
(* denominations to amounts: all pairs                                     *)
(***************************************************************************)
Lists == INSTANCE CoinLists WITH Precision <- 1, maxBitLen <- 4

Denoms == 1 .. 3
NoCoins == [i \in Denoms |-> 0]
NextCoins ==
    \E i \in Denoms : \/ input.g[i] < MaxAmount /\ input' = [input EXCEPT !.g[i] = @ + 1]
                      \/ input.g = NoCoins /\ input.f[i] < MaxAmount /\ input' = [input EXCEPT !.f[i] = @ + 1]

ListOf(h) == Lists!NewCoins([i \in Denoms |-> Lists!NewCoin(i, h[i])])
AmountsOf(coins) == [i \in Denoms |-> Lists!AmountOf(coins, i)]

\* The binary search finds every amount, and NewCoins makes a valid list whatever order its coins come in.
SearchFinds(f) ==
    /\ AmountsOf(ListOf(f)) = f /\ Lists!IsValid(ListOf(f)) /\ ~Lists!findDup(ListOf(f))
    /\ Lists!NewCoins([i \in Denoms |-> Lists!NewCoin(4 - i, f[4 - i])]) = ListOf(f)

\* Add is the sum for every denomination, and its result is a valid list.
AddIsSum(f, g) ==
    LET sum == Lists!safeAdd(ListOf(f), ListOf(g))
    IN  AmountsOf(sum) = [i \in Denoms |-> f[i] + g[i]] /\ Lists!IsValid(sum) /\ sum = Lists!safeAdd(ListOf(g), ListOf(f))

\* SafeSub reports a negative amount exactly when the coins do not cover what is taken, else the difference
\* is a valid list: a balance is not overdrawn by a denomination it does not have.
SubCovers(f, g) ==
    LET diff == Lists!SafeSub(ListOf(f), ListOf(g))
    IN  /\ Lists!IsAnyNegative(diff) <=> \E i \in Denoms : f[i] < g[i]
        /\ ~Lists!IsAnyNegative(diff) => Lists!IsValid(diff) /\ Lists!safeAdd(diff, ListOf(g)) = ListOf(f)

\* The comparisons are those of every denomination.
OrderIsPointwise(f, g) ==
    LET a == ListOf(f) b == ListOf(g)
    IN  /\ Lists!IsAllGTE(a, b) <=> \A i \in Denoms : f[i] >= g[i]
        /\ Lists!IsAllGT(a, b) <=> a # <<>> /\ \A i \in Denoms : g[i] > 0 => f[i] > g[i]
        /\ Lists!IsAnyGTE(a, b) <=> \E i \in Denoms : f[i] > 0 /\ g[i] > 0 /\ f[i] >= g[i]
        /\ Lists!IsAnyGT(a, b) <=> \E i \in Denoms : g[i] > 0 /\ f[i] > g[i]

\* A list cut into two fractions, or divided and multiplied again, never becomes more, and rounding to the
\* nearest gives at most one unit more than truncating.
ScalesNeverGain(f, g) ==
    LET c == ListOf([i \in Denoms |-> 3 * f[i] + g[i]])
        w == 1 + f[1] + g[2]
        Of(coins) == [i \in Denoms |-> Lists!DecAmountOf(coins, i)]
        part1 == Lists!MulDecTruncate(c, w)
        part2 == Lists!MulDecTruncate(c, Lists!OneDec - w)
    IN  \A i \in Denoms :
            /\ Of(Lists!DecAdd(part1, part2))[i] =< Of(c)[i]
            /\ Of(Lists!MulDecTruncate(Lists!QuoDecTruncate(c, w), w))[i] =< Of(c)[i]
            /\ Of(Lists!MulDec(c, w))[i] - Of(part1)[i] \in {0, 1}
            /\ Of(Lists!QuoDec(c, w))[i] - Of(Lists!QuoDecTruncate(c, w))[i] \in {0, 1}

\* Decimal coins split into whole coins and a change below one that add up to them, and Intersect is the
\* minimum for every denomination.
SplitIsExact(f, g) ==
    LET dec == ListOf([i \in Denoms |-> 4 * f[i] + g[i]])
    IN  /\ Lists!DecAdd(Lists!NewDecCoins(Lists!Truncated(dec)), Lists!Change(dec)) = dec
        /\ \A i \in Denoms : Lists!DecAmountOf(Lists!Change(dec), i) \in 0 .. Lists!OneDec - 1
        /\ AmountsOf(Lists!Intersect(ListOf(f), ListOf(g))) = [i \in Denoms |-> Lists!MinDec(f[i], g[i])]

(***************************************************************************)
(* Lists of outputs and deposits, and lists of items to remove; not both   *)
(* are long                                                                *)
(***************************************************************************)
Item == [hash : {1, 2}, index : {0, 1}, amount : {1, 2}]
NextItems ==
    /\ Len(input.us) + Len(input.delete) < 2 * MaxItems - 1
    /\ \E u \in Item : \/ Len(input.us) < MaxItems /\ input' = [input EXCEPT !.us = Append(@, u)]
                       \/ Len(input.delete) < MaxItems /\ input' = [input EXCEPT !.delete = Append(@, u)]

BagOf(s) == [x \in Range(s) |-> Cardinality({k \in DOMAIN s : s[k] = x})]

\* Removing outputs takes away each of them once and no other, and with them exactly their amounts.
RemovalIsDifference(us, delete) ==
    LET rest == Lists!RemoveUtxoIns(us, delete)
    IN  /\ BagOf(rest) = BagOf(us) (-) BagOf(delete)
        /\ BagOf(delete) \sqsubseteq BagOf(us) =>
               Lists!UtxoInTotalAmount(rest) = Lists!UtxoInTotalAmount(us) - Lists!UtxoInTotalAmount(delete)

ThreeOfAHash(us) == \E h \in {1, 2} : Cardinality({k \in DOMAIN us : us[k].hash = h}) > 2

\* An output or a deposit is reported as repeated only if it is, and whenever it is, unless three of the list
\* share a hash.  HasDuplicatedItem looks only at the first output of a hash, and does not see the repeated one
\* of (h, 0), (h, 1), (h, 1); findDupDeposit looks only at neighbours in an order that leaves out the index, and
\* does not see that of (h, 0), (h, 1), (h, 0).
RepeatedIsReported(us) ==
    LET keys == [k \in DOMAIN us |-> <<us[k].hash, us[k].index>>]
    IN  /\ Lists!HasDuplicatedItem(us) => ~IsInjective(us)
        /\ Lists!findDupDeposit(us) => ~IsInjective(keys)
        /\ ~IsInjective(us) => Lists!HasDuplicatedItem(us) \/ ThreeOfAHash(us)
        /\ ~IsInjective(keys) => Lists!findDupDeposit(us) \/ ThreeOfAHash(us)

\* A valid list of outputs all of which a unit has can be removed from it, wherever they are in the list,
\* with the same exception.  A list equals itself in any order.
ValidIsRemovable(us, delete) ==
    /\ Lists!UtxoInsIsValid(delete) /\ Lists!IsSubsetOf(delete, us) =>
           BagOf(delete) \sqsubseteq BagOf(us) \/ ThreeOfAHash(delete)
    /\ Lists!UtxoInsEqual(us, Lists!Reverse(us))

KeysOf(ds) == {<<ds[k].hash, ds[k].index>> : k \in DOMAIN ds}

\* A list of deposits built by AddDepositItem has every deposit once; an update or a removal touches the one
\* deposit of that hash and index.
DepositsKeyed(us, delete) ==
    LET built == FoldLeft(Lists!AddDepositItem, <<>>, us)
    IN  /\ KeysOf(built) = KeysOf(us) /\ Cardinality(KeysOf(us)) = Len(built)
        /\ \A d \in Range(delete) :
               /\ KeysOf(Lists!RemoveDepositItem(built, d.hash, d.index)) = KeysOf(us) \ {<<d.hash, d.index>>}
               /\ KeysOf(Lists!UpdateDepositItem(built, d)) = KeysOf(us)
               /\ d \in Range(built) =>
                      Lists!DepositSum(Lists!RemoveDepositItem(built, d.hash, d.index)) + d.amount = Lists!DepositSum(built)

-----------------------------------------------------------------------------
(***************************************************************************)
(* All short byte strings with their texts, and all short texts with what  *)
(* they are read as                                                        *)
(***************************************************************************)
Msgs == INSTANCE Messages WITH
    ByteRadix <- 5, TextRadix <- 3, AddrLen <- 2, CkLen <- 1, AddrBytePrefix <- <<1, 3>>, AddrStrPrefix <- <<1, 1>>, Space <- 9,
    CUs <- {"u1", "u2"}, OrderIDs <- {"id1", "id2"}, Symbols <- {"hbc", "eth"}, NativeToken <- "hbc", One <- 1

NextText ==
    \/ /\ input.text = <<>> /\ Len(input.bytes) < MaxBytes
       /\ \E b \in Msgs!Bytes : input' = [input EXCEPT !.bytes = Append(@, b)]
    \/ /\ input.bytes = <<>> /\ Len(input.text) < MaxText
       /\ \E c \in Msgs!Alphabet \cup {9} : input' = [input EXCEPT !.text = Append(@, c)]

\* An address of the right length has a text that is valid and is read as that address, by the conversions
\* of JSON and by those for other chains.
AddressReadBack(bytes) ==
    Len(bytes) = 2 =>
        /\ Msgs!IsValidAddr(bytes)
        /\ Msgs!Unmarshal(Msgs!Marshal(bytes)) = Msgs!Parsed(bytes)
        /\ Msgs!HBCAddrToEthAddr(Msgs!EthAddrToHBCAddr(bytes)) = Msgs!Parsed(bytes)
        /\ Msgs!EthAddrToHBCAddr(bytes) = Msgs!CUAddressString(bytes)
        /\ Msgs!CheckDecode(Msgs!CheckEncode(bytes, 1)) = Msgs!Parsed(<<1>> \o bytes)

\* A text that is read as an address is the only text of it, or blank.
OneSpelling(text) ==
    LET p == Msgs!CUAddressFromBase58(text)
    IN  p.ok => IF Msgs!Blank(text) THEN p.addr = <<>>
                ELSE /\ Msgs!IsValidAddr(p.addr) /\ Msgs!CUAddressFromByte(p.addr) = p.addr
                     /\ Msgs!IsValidAddrText(text) /\ Msgs!CUAddressString(p.addr) = text

\* Validators' and consensus nodes' texts of the same bytes are never taken for each other, and each is read
\* back where the length is right.
KindsApart(bytes) ==
    bytes # <<>> =>
        /\ ~Msgs!ValAddressFromBech32(Msgs!ConsAddressString(bytes)).ok
        /\ ~Msgs!ConsAddressFromBech32(Msgs!ValAddressString(bytes)).ok
        /\ Msgs!ValAddressFromBech32(Msgs!ValAddressString(bytes)).ok <=> Len(bytes) = 2
        /\ Len(bytes) = 2 => Msgs!ConsAddressFromBech32(Msgs!ConsAddressString(bytes)) = Msgs!Parsed(bytes)

-----------------------------------------------------------------------------
(***************************************************************************)
(* Every message with every combination of its fields' values, and what    *)
(* ValidateBasic, GetSigners and IsSettleOnlyMsg say of it                 *)
(***************************************************************************)
Bin == {"u1", "nil", "odd"}
Text == {"u1", "", "odd", "junk"}
Id == {"id1", "id2", "", "junk"}
Ids == UNION {[1 .. n -> {"id1", "id2", "junk"}] : n \in 0 .. 2}
Data == {"", "x"}
Num == -1 .. 1
Sym == {"hbc", "eth", ""}
Rate == -1 .. 2
Opt(S) == {<<>>} \cup {<<x>> : x \in S}
CoinKind == {"none", "positive", "zero", "negative"}
Path == UNION {[1 .. n -> Sym] : n \in 0 .. 3}
Vote == {"Yes", "Abstain", "No", "NoWithVeto", "other"}
Rates == [rate : Rate, maxRate : Rate, maxChangeRate : Rate]
Addrs == UNION {[1 .. n -> Bin] : n \in 0 .. 2}

\* The message is kept with the units its handler acts for.
Keep(name, body, result, units) == input' = [type |-> name, msg |-> body, out |-> result, actors |-> units]
Sends(name, body, result) == Keep(name, body, result, Msgs!TransferActors(name, body))
Reads(name, body, result) == Keep(name, body, result, Msgs!TextActors(body))
Is(name, body, result) == Keep(name, body, result, Msgs!OtherActors(body))

Payments ==
    \/ \E m \in [from : Bin, to : Bin, amount : CoinKind] : Sends("MsgSend", m, Msgs!MsgSend(m))
    \/ \E m \in [inputs : Addrs, outputs : Addrs, amount : CoinKind] : Sends("MsgMultiSend", m, Msgs!MsgMultiSend(m))
    \/ \E m \in [orderID : Id, from : Bin, to : Bin, symbol : Sym, txhash : Data, toAddress : Data, amount : Num] :
           Sends("MsgDeposit", m, Msgs!MsgDeposit(m))
    \/ \E m \in [valid : Ids, invalid : Ids, from : Bin] : Sends("MsgConfirmedDeposit", m, Msgs!MsgConfirmedDeposit(m))

Collects ==
    \/ \E m \in [validator : Text, collectToCU : Data, rawData : Data, orderIDs : Ids] :
           Sends("MsgCollectWaitSign", m, Msgs!MsgCollectWaitSign(m))
    \/ \E m \in [validator : Text, signedTx : Data, orderIDs : Ids] :
           \/ Sends("MsgCollectSignFinish", m, Msgs!MsgCollectSignFinish(m))
           \/ Sends("MsgWithdrawalSignFinish", m, Msgs!MsgWithdrawalSignFinish(m))
    \/ \E m \in [validator : Text, costFee : Num, orderIDs : Ids] :
           \/ Sends("MsgCollectFinish", m, Msgs!MsgCollectFinish(m))
           \/ Sends("MsgWithdrawalFinish", m, Msgs!MsgWithdrawalFinish(m))

Withdrawals ==
    \/ \E m \in [fromCU : Text, toAddress : Data, orderID : Id, amount : Num, gasFee : Num] :
           Sends("MsgWithdrawal", m, Msgs!MsgWithdrawal(m))
    \/ \E m \in [fromCU : Text, orderID : Id] :
           \/ Sends("MsgWithdrawalConfirm", m, Msgs!MsgWithdrawalConfirm(m))
           \/ Sends("MsgCancelWithdrawal", m, Msgs!MsgCancelWithdrawal(m))
    \/ \E m \in [opCU : Text, validator : Text, rawData : Data, orderIDs : Ids] :
           Sends("MsgWithdrawalWaitSign", m, Msgs!MsgWithdrawalWaitSign(m))
    \/ \E m \in [from : Text, orderIDs : Ids, evidences : Addrs] : Sends("MsgOrderRetry", m, Msgs!MsgOrderRetry(m))

Transfers ==
    \/ \E m \in [validator : Text, toAddress : Data, orderID : Id, fromCU : Bin, toCU : Bin] :
           Sends("MsgSysTransfer", m, Msgs!MsgSysTransfer(m))
    \/ \E m \in [fromCU : Text, opCU : Text, toAddress : Data, orderID : Id, items : 0 .. 1] :
           Sends("MsgOpcuAssetTransfer", m, Msgs!MsgOpcuAssetTransfer(m))
    \/ \E m \in [validator : Text, rawData : Data] :
           \/ Sends("MsgSysTransferWaitSign", m, Msgs!MsgSysTransferWaitSign(m))
           \/ Sends("MsgOpcuAssetTransferWaitSign", m, Msgs!MsgOpcuAssetTransferWaitSign(m))
    \/ \E m \in [validator : Text, signedTx : Data] :
           \/ Sends("MsgSysTransferSignFinish", m, Msgs!MsgSysTransferSignFinish(m))
           \/ Sends("MsgOpcuAssetTransferSignFinish", m, Msgs!MsgOpcuAssetTransferSignFinish(m))
    \/ \E m \in [validator : Text, costFee : Num] :
           \/ Sends("MsgSysTransferFinish", m, Msgs!MsgSysTransferFinish(m))
           \/ Sends("MsgOpcuAssetTransferFinish", m, Msgs!MsgOpcuAssetTransferFinish(m))

KeyGens ==
    \/ \E m \in [orderID : Id, symbol : Sym, from : Bin, to : Bin] : Is("MsgKeyGen", m, Msgs!MsgKeyGen(m))
    \/ \E m \in [from : Bin, orderID : Id, pubKey : Data, keyNodes : Addrs, keySigs : 0 .. 1, epoch : 0 .. 1] :
           Is("MsgKeyGenWaitSign", m, Msgs!MsgKeyGenWaitSign(m))
    \/ \E m \in [orderIDs : Ids, from : Bin] :
           \/ Is("MsgPreKeyGen", m, Msgs!MsgPreKeyGen(m))
           \/ Is("MsgOpcuMigrationKeyGen", m, Msgs!MsgOpcuMigrationKeyGen(m))
    \/ \E m \in [validator : Bin] : Sends("MsgKeyGenFinish", m, Msgs!MsgKeyGenFinish(m))
    \/ \E m \in [symbol : Sym, opCU : Bin, from : Bin] : Is("MsgNewOpCU", m, Msgs!MsgNewOpCU(m))

Swaps ==
    \/ \E m \in [from : Bin, symbol : Sym, coins : 0 .. 2] : Is("MsgMappingSwap", m, Msgs!MsgMappingSwap(m))
    \/ \E m \in [from : Text, receiveAddr : Text, orderID : Id, srcSymbol : Sym, targetSymbol : Sym, amount : Num,
                 swapAmount : Num, descTooLong : BOOLEAN] : Reads("MsgCreateDirectSwap", m, Msgs!MsgCreateDirectSwap(m))
    \/ \E m \in [from : Text, orderID : Id, srcSymbol : Sym, targetSymbol : Sym, totalAmount : Num,
                 minSwapAmount : Num, maxSwapAmount : Num, descTooLong : BOOLEAN] :
           Reads("MsgCreateFreeSwap", m, Msgs!MsgCreateFreeSwap(m))
    \/ \E m \in [from : Text, swapType : {"free", "direct", "other"}, orderID : Id, amount : Num] :
           Reads("MsgSwapSymbol", m, Msgs!MsgSwapSymbol(m))
    \/ \E m \in [from : Text, swapType : {"free", "direct", "other"}, orderID : Id] :
           Reads("MsgCancelSwap", m, Msgs!MsgCancelSwap(m))

Dexes ==
    \/ \E m \in [from : Bin, incomeReceiver : Bin, name : {"", "short", "long"}] :
           Is("MsgCreateDex", m, Msgs!MsgCreateDex(m))
    \/ \E m \in [from : Bin, incomeReceiver : Bin \cup {"none"}, name : {"", "short", "long"}] :
           Is("MsgEditDex", m, Msgs!MsgEditDex(m))
    \/ \E m \in [from : Bin, dexID : 0 .. 1, tokenA : Sym, tokenB : Sym, lpRewardRate : Rate, refererRewardRate : Rate] :
           Is("MsgCreateTradingPair", m, Msgs!MsgCreateTradingPair(m))
    \/ \E m \in [from : Bin, dexID : 0 .. 1, tokenA : Sym, tokenB : Sym, lpRewardRate : Opt(Rate),
                 refererRewardRate : Opt(Rate)] : Is("MsgEditTradingPair", m, Msgs!MsgEditTradingPair(m))
    \/ \E m \in [from : Bin, tokenA : Sym, tokenB : Sym, maxTokenA : Num, maxTokenB : Num] :
           Is("MsgAddLiquidity", m, Msgs!MsgAddLiquidity(m))
    \/ \E m \in [from : Bin, tokenA : Sym, tokenB : Sym, liquidity : Num] :
           Is("MsgRemoveLiquidity", m, Msgs!MsgRemoveLiquidity(m))
    \/ \E m \in [from : Bin, tokenA : Sym, tokenB : Sym] : Is("MsgClaimEarning", m, Msgs!MsgClaimEarning(m))

Trades ==
    \/ \E m \in [from : Bin, referer : Bin, receiver : Bin, swapPath : Path, amountIn : Num, minAmountOut : Num] :
           Is("MsgSwapExactIn", m, Msgs!MsgSwapExactIn(m))
    \/ \E m \in [from : Bin, referer : Bin, receiver : Bin, swapPath : Path, maxAmountIn : Num, amountOut : Num] :
           Is("MsgSwapExactOut", m, Msgs!MsgSwapExactOut(m))
    \/ \E m \in [from : Bin, orderID : Id, referer : Bin, receiver : Bin, baseSymbol : Sym, quoteSymbol : Sym,
                 amountIn : Num, price : Num, side : {"buy", "sell", "other"}] : Is("MsgLimitSwap", m, Msgs!MsgLimitSwap(m))
    \/ \E m \in [from : Bin, orderIDs : Ids] : Is("MsgCancelLimitSwap", m, Msgs!MsgCancelLimitSwap(m))

Stakes ==
    \/ \E m \in [delegator : Bin, validator : Bin, value : 0 .. 2, description : Data, commission : Rates,
                 minSelfDelegation : 0 .. 2] : Is("MsgCreateValidator", m, Msgs!MsgCreateValidator(m))
    \/ \E m \in [validator : Bin, description : Data, minSelfDelegation : Opt(Num), rate : Opt(Rate)] :
           Is("MsgEditValidator", m, Msgs!MsgEditValidator(m))
    \/ \E m \in [validator : Bin, height : 0 .. 1] : Is("MsgKeyNodeHeartbeat", m, Msgs!MsgKeyNodeHeartbeat(m))
    \/ \E m \in [delegator : Bin, validator : Bin, amount : Num] :
           \/ Is("MsgDelegate", m, Msgs!MsgDelegate(m))
           \/ Is("MsgUndelegate", m, Msgs!MsgUndelegate(m))
    \/ \E m \in [delegator : Bin, src : Bin, dst : Bin, amount : Num] : Is("MsgBeginRedelegate", m, Msgs!MsgBeginRedelegate(m))

Votes ==
    \/ \E m \in [content : {"", "bad", "good"}, proposer : Bin, deposit : CoinKind] :
           Is("MsgSubmitProposal", m, Msgs!MsgSubmitProposal(m))
    \/ \E m \in [depositor : Bin, amount : CoinKind] : Is("MsgGovDeposit", m, Msgs!MsgGovDeposit(m))
    \/ \E m \in [voter : Bin, option : Vote] : Is("MsgVote", m, Msgs!MsgVote(m))
    \/ \E m \in [voter : Bin, amount : CoinKind, option : Vote] : Is("MsgDaoVote", m, Msgs!MsgDaoVote(m))
    \/ \E m \in [voter : Bin] : Is("MsgCancelDaoVote", m, Msgs!MsgCancelDaoVote(m))

Others ==
    \/ \E m \in [delegator : Bin, withdraw : Bin] : Is("MsgSetWithdrawAddress", m, Msgs!MsgSetWithdrawAddress(m))
    \/ \E m \in [delegator : Bin, validator : Bin] :
           Is("MsgWithdrawDelegatorReward", m, Msgs!MsgWithdrawDelegatorReward(m))
    \/ \E m \in [validator : Bin] :
           \/ Is("MsgWithdrawValidatorCommission", m, Msgs!MsgWithdrawValidatorCommission(m))
           \/ Is("MsgUnjail", m, Msgs!MsgUnjail(m))
    \/ \E m \in [sender : Bin] : Is("MsgVerifyInvariant", m, Msgs!MsgVerifyInvariant(m))
    \/ \E m \in [evidence : {"", "bad", "good"}, submitter : Bin] : Is("MsgSubmitEvidence", m, Msgs!MsgSubmitEvidence(m))
    \/ \E m \in [from : Bin, to : Bin, name : Data, decimals : 0 .. 3, totalSupply : Num] :
           Is("MsgNewToken", m, Msgs!MsgNewToken(m))
    \/ \E m \in [from : Text, prices : 0 .. 1] : Reads("MsgSynGasPrice", m, Msgs!MsgSynGasPrice(m))

NextMessage ==
    /\ input.type = "none"
    /\ \/ Payments \/ Collects \/ Withdrawals \/ Transfers \/ KeyGens \/ Swaps
       \/ Dexes \/ Trades \/ Stakes \/ Votes \/ Others

\* Another message in the same transaction: by another unit; by an address of no unit, in bytes, in text or
\* empty; and by a text that is accepted but names no one.
Companions ==
    {<<Msgs!MsgSend([from |-> "u2", to |-> "u1", amount |-> "positive"]), {"u2"}>>,
     <<Msgs!MsgDelegate([delegator |-> "odd", validator |-> "u1", amount |-> 1]), {"odd"}>>,
     <<Msgs!MsgWithdrawalConfirm([fromCU |-> "", orderID |-> "id1"]), {"nil"}>>,
     <<Msgs!MsgCancelSwap([from |-> "odd", swapType |-> "free", orderID |-> "id1"]), {}>>}

-----------------------------------------------------------------------------
(***************************************************************************)
(* Records and their keys: bonds, ranks of validators, rewards, custodian  *)
(* units.  Addresses and symbols begin and end with bytes of others.       *)
(***************************************************************************)
Stored == INSTANCE StoreKeys WITH
    Base <- 2, Width <- 2, ReadCostPerByte <- 3, IterNextCostFlat <- 2, AddrLen <- 2,
    Delegators <- {<<0, 1>>, <<1, 1>>}, Validators <- {<<0, 1>>, <<1, 0>>}, Tokens <- {}, PowerReduction <- 1, Heights <- {}, AminoCacheSize <- 1,
    Numbers <- 0 .. 2, Kinds <- {"outstanding", "current"},
    Addresses <- {<<1, 1>>, <<1, 3>>, <<4, 1>>}, Symbols <- {<<3>>, <<3, 4>>}, Chains <- {<<3>>, <<3, 5>>},
    ExtAddress <- (<<1, 1>> :> <<5, 6>>) @@ (<<1, 3>> :> <<6>>) @@ (<<4, 1>> :> <<7>>),
    ModuleAddresses <- {<<4, 1>>}, cache <- keyCache

Ranks == INSTANCE StoreKeys WITH
    Base <- 2, Width <- 3, ReadCostPerByte <- 3, IterNextCostFlat <- 2, AddrLen <- 2,
    Delegators <- {}, Validators <- {<<0, 1>>, <<1, 0>>}, Tokens <- 2 .. 4, PowerReduction <- 2, Heights <- {3, 4}, AminoCacheSize <- 2,
    Numbers <- {}, Kinds <- {}, Addresses <- {}, Symbols <- {}, Chains <- {}, ExtAddress <- <<>>, ModuleAddresses <- {},
    cache <- keyCache

NextRecord ==
    \/ part = "bonds" /\ Stored!StakingStep
    \/ part = "ranks" /\ Ranks!StakingStep
    \/ part = "rewards" /\ Stored!DistributionStep /\ Cardinality(DOMAIN store') =< MaxKeys
    \/ part = "units" /\ Stored!CUStep /\ books'.restarts =< 1 /\ \A cu \in Stored!GetAllCUs(store') : cu.seq =< 2

(***************************************************************************)
(* All stores with few short keys, grown key by key, and a list that is    *)
(* given the numbers 1, 2, ... and loses any of them                       *)
(***************************************************************************)
Bytes == INSTANCE StoreKeys WITH
    Base <- 3, Width <- 3, ReadCostPerByte <- 3, IterNextCostFlat <- 2, AddrLen <- 2,
    Delegators <- {}, Validators <- {}, Tokens <- {}, PowerReduction <- 1, Heights <- {}, AminoCacheSize <- 2,
    Numbers <- {}, Kinds <- {}, Addresses <- {}, Symbols <- {}, Chains <- {}, ExtAddress <- <<>>, ModuleAddresses <- {},
    cache <- keyCache

Short == {<<>>} \cup {<<b>> : b \in 0 .. 2}
ByteKeys == Short \cup {<<a, b>> : a, b \in 0 .. 2}
ByteBounds == Short \cup {nil}

NextStore ==
    \/ /\ input.model = <<>> /\ Cardinality(DOMAIN input.st) < MaxKeys
       /\ \E k \in ByteKeys \ DOMAIN input.st, v \in 0 .. 1 : input' = [input EXCEPT !.st = Bytes!Put(@, Bytes!One(k, v))]
    \/ /\ input.st = <<>> /\ Bytes!ListLen(input.list) < MaxList
       /\ input' = [input EXCEPT !.list = Bytes!ListPush(@, Bytes!ListLen(@) + 1), !.model = Append(@, Bytes!ListLen(input.list) + 1)]
    \/ /\ Len(input.model) > MaxList - 2
       /\ \E i \in DOMAIN input.model :
              input' = [input EXCEPT !.list = Bytes!ListDelete(@, input.model[i] - 1), !.model = RemoveAt(@, i)]

\* The range that ends at PrefixEndBytes holds the keys with the prefix and no others, also when the prefix
\* ends in bytes 255; that up to InclusiveEndBytes has the key and nothing after it.
RangesExact(st) ==
    \A p \in ByteKeys :
        /\ Range(Bytes!KVStorePrefixIterator(st, p)) = {k \in DOMAIN st : Bytes!HasPrefix(k, p)}
        /\ Range(Bytes!Iterator(st, nil, Bytes!InclusiveEndBytes(p))) = {k \in DOMAIN st : ~Bytes!Before(p, k)}

\* A prefix store shows the keys below its prefix, without the prefix, in order in both directions and cut
\* at any start and end.
PrefixStoreIsView(st) ==
    \A p \in Short, start \in ByteBounds, end \in ByteBounds :
        LET inside == {k \in ByteKeys : p \o k \in DOMAIN st /\ Bytes!InDomain(k, start, end)}
            keys == Bytes!Sorted(inside)
        IN  /\ Bytes!PrefixIterator(st, p, start, end) = keys
            /\ Bytes!PrefixReverse(st, p, start, end) = Reverse(keys)

\* The values that an iterator of a gas store passed by have been paid, byte for byte.
PassedValuesPaid(st) ==
    LET keys == Bytes!Iterator(st, nil, nil)
    IN  \A n \in 0 .. Len(keys) :
            Bytes!IterationGas(st, keys, n) >= FoldLeft(LAMBDA sum, k : sum + 3 * st[k], 0, SubSeq(keys, 1, n))

\* Two stores are found equal exactly when they are the same outside of the prefixes to skip, if no key is
\* shorter than a prefix; the empty key panics, and alone, without a value, is taken for no key.
DiffFindsDifference(st) ==
    \A k \in ByteKeys, skip \in {{}, {<<0>>}} :
        LET without == [x \in DOMAIN st \ {k} |-> st[x]]
            other == [x \in DOMAIN st |-> IF x = k THEN st[x] + 1 ELSE st[x]]
            short == <<>> \in DOMAIN st /\ skip # {}
            none == st = Bytes!One(<<>>, 0)
        IN  /\ Bytes!DiffKVStores(st, st, skip) = IF short THEN "panic" ELSE "equal"
            /\ k \in DOMAIN st =>
                  /\ ~none => Bytes!DiffKVStores(st, without, skip) # "equal" /\ Bytes!DiffKVStores(without, st, skip) # "equal"
                  /\ none => Bytes!DiffKVStores(st, without, {}) = "equal"
                  /\ ~short => (Bytes!DiffKVStores(st, other, skip) = "equal" <=> \E p \in skip : Bytes!HasPrefix(k, p))

-----------------------------------------------------------------------------
Start ==
    [decimals |-> Pair, coins |-> [f |-> NoCoins, g |-> NoCoins], items |-> [us |-> <<>>, delete |-> <<>>],
     texts |-> [bytes |-> <<>>, text |-> <<>>], messages |-> [type |-> "none", msg |-> <<>>, out |-> Msgs!Accept(FALSE, <<>>, Msgs!User), actors |-> {}],
     layers |-> [st |-> <<>>, list |-> <<>>, model |-> <<>>]]

Records == {"bonds", "ranks", "rewards", "units"}

\* For what is not run the parent of the cache is fixed.
ValuesInit ==
    /\ part \in Parts
    /\ input = IF part \in DOMAIN Start THEN Start[part] ELSE <<>>
    /\ IterInit /\ (part # "cache" => \A k \in Keys : parent[k] = nil)
    /\ IF part = "ranks" THEN Ranks!Init ELSE Stored!Init

ValuesNext ==
    \/ part = "cache" /\ IterNext /\ Cardinality({k \in Keys : cache'[k] # NotCached}) =< MaxCached /\ UNCHANGED <<part, input, keyVars>>
    \/ part \in Records /\ NextRecord /\ UNCHANGED <<part, input, iterVars>>
    \/ part = "decimals" /\ NextPair /\ UNCHANGED <<part, iterVars, keyVars>>
    \/ part = "coins" /\ NextCoins /\ UNCHANGED <<part, iterVars, keyVars>>
    \/ part = "items" /\ NextItems /\ UNCHANGED <<part, iterVars, keyVars>>
    \/ part = "texts" /\ NextText /\ UNCHANGED <<part, iterVars, keyVars>>
    \/ part = "messages" /\ NextMessage /\ UNCHANGED <<part, iterVars, keyVars>>
    \/ part = "layers" /\ NextStore /\ UNCHANGED <<part, iterVars, keyVars>>

ValuesSpec == ValuesInit /\ [][ValuesNext]_allVars

-----------------------------------------------------------------------------
(***************************************************************************)
(* Properties                                                              *)
(***************************************************************************)
\* Amounts are computed exactly, up to the rounding that an operation promises: decimals, integers at the
\* limit of their width, lists of coins, and lists of outputs and deposits (types/decimal.go, int.go,
\* coin.go, dec_coin.go, utxo.go, depositlist.go).  What utxo.go:116 and depositlist.go:221 say of repeated
\* items holds of lists in which no three items have one hash.
AmountsExact ==
    /\ part = "decimals" =>
           LET x == input.x y == input.y
           IN  /\ MulNearest(x, y) /\ TruncatesTowardsZero(x, y) /\ CeilIsLeast(x)
               /\ QuoNearlyNearest(x, y) /\ MedianInside(x, y) /\ IntsFit(x, y) /\ DecsFit(x, y)
    /\ part = "coins" =>
           LET f == input.f g == input.g
           IN  /\ SearchFinds(f) /\ AddIsSum(f, g) /\ SubCovers(f, g)
               /\ OrderIsPointwise(f, g) /\ SplitIsExact(f, g) /\ ScalesNeverGain(f, g)
    /\ part = "items" => /\ RemovalIsDifference(input.us, input.delete) /\ DepositsKeyed(input.us, input.delete)
                         /\ ValidIsRemovable(input.us, input.delete) /\ RepeatedIsReported(input.us)

\* A text reads back as what it was made of: decimals, base58 with leading zeros, and addresses.  Bytes in
\* base58 and addresses have one text each, so that a custodian unit is not spelled in two ways; a decimal may
\* be written in several, as 1 and 1.0 (types/decimal.go:116-128, types/address.go, base58).
TextsReadBack ==
    /\ part = "decimals" => Dec!Parses(Dec!String(input.x)) /\ Dec!NewDecFromStr(Dec!String(input.x)) = input.x
    /\ part = "texts" =>
           /\ Msgs!Decode(Msgs!Encode(input.bytes)) = input.bytes
           /\ (\A i \in DOMAIN input.text : input.text[i] # 9) => Msgs!Encode(Msgs!Decode(input.text)) = input.text
           /\ AddressReadBack(input.bytes) /\ OneSpelling(input.text) /\ KindsApart(input.bytes)

\* A handler acts only for units that signed the transaction, although signers are told apart by their texts,
\* addresses of another length have the same text, and a message may be accepted that has no signer and goes
\* along with one that has (x/custodianunit/types/stdtx.go:98-115, ante.go:150-166, x/mapping/types/msgs.go:106).
ActsForSigners ==
    part = "messages" /\ input.out.ok =>
        \A c \in Companions : \A msgs \in {<<input.out>>, <<input.out, c[1]>>, <<c[1], input.out>>} :
            LET signers == Range(Msgs!GetSigners(msgs))
                actors == input.actors \cup (IF Len(msgs) = 2 THEN c[2] ELSE {})
            IN  Msgs!CanBeSigned(msgs) => actors \subseteq signers

\* Whatever way records are looked up, by key, by iteration in any range or through an index, what is found is
\* what was recorded and not removed; also where a number or a name is the beginning of another one.  Of the
\* units an export keeps the addresses and sequences, and loses which are operation units and the addresses on
\* other chains (x/genaccounts): these are found only if they were recorded after it.
RecordsFound ==
    /\ part = "bonds" => Stored!BondsFound /\ Stored!RedelegationsFound
    /\ part = "ranks" => Ranks!RankedByPower /\ Ranks!BondedFound /\ Ranks!CacheCurrent /\ Ranks!EpochFound
    /\ part = "rewards" => Stored!SlashEventsBetween /\ Stored!HistoricalFound /\ Stored!RecordsFound
    /\ part = "units" => Stored!OpCUsExact /\ Stored!ExtAddressesLeadBack /\ Stored!SequencesKept
    /\ part = "layers" => /\ RangesExact(input.st) /\ PrefixStoreIsView(input.st) /\ PassedValuesPaid(input.st)
                          /\ DiffFindsDifference(input.st) /\ Bytes!ListIterate(input.list) = input.model
=============================================================================
