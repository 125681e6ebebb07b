------------------------------ MODULE Decimal -------------------------------
(***************************************************************************)
(* Fixed-point decimals (types/decimal.go), and the integers of amounts    *)
(* (types/int.go, types/uint.go).  A Dec is the integer it wraps in units  *)
(* of 10^-Precision; Precision is 18 in the code and a constant here, so   *)
(* that models with small numbers meet every rounding case.  The last part *)
(* is the arithmetic of swaps.                                             *)
(***************************************************************************)
EXTENDS Integers, Sequences, SequencesExt, FiniteSetsExt

CONSTANTS Precision,
          maxBitLen     \* 255 for Int, 256 for Uint

Abs(n) == IF n < 0 THEN -n ELSE n
Sign(n) == IF n < 0 THEN -1 ELSE 1

\* big.Int.Quo and big.Int.Rem: division that truncates towards zero.
BigQuo(a, b) == Sign(a) * Sign(b) * (Abs(a) \div Abs(b))
BigRem(a, b) == a - b * BigQuo(a, b)

\* The precision multiplier 10^Precision, also the decimal one.
OneDec == 10 ^ Precision
ToDec(i) == i * OneDec
NewDecWithPrec(i, prec) == i * 10 ^ (Precision - prec)

\* A slip in chopPrecisionAndRound: halves always go up.
ChopHalfUp(d) ==
    LET quo == Abs(d) \div OneDec
    IN  Sign(d) * (IF 2 * (Abs(d) % OneDec) >= OneDec THEN quo + 1 ELSE quo)

\* Bankers' rounding of the magnitude: a half goes to the even neighbour.
chopPrecisionAndRound(d) ==
    LET quo == Abs(d) \div OneDec
        rem == Abs(d) % OneDec
        up  == 2 * rem > OneDec \/ (2 * rem = OneDec /\ quo % 2 = 1)
    IN  Sign(d) * (IF up THEN quo + 1 ELSE quo)

\* Rounds up a positive number; a negative one is truncated.
chopPrecisionAndRoundUp(d) ==
    IF d >= 0 /\ d % OneDec # 0 THEN d \div OneDec + 1 ELSE BigQuo(d, OneDec)

chopPrecisionAndTruncate(d) == BigQuo(d, OneDec)

Mul(d, e) == chopPrecisionAndRound(d * e)
MulTruncate(d, e) == chopPrecisionAndTruncate(d * e)
MulInt(d, i) == d * i

\* Quotients keep twice the precision, then chop it: two roundings in a row.
Wide(d, e) == BigQuo(d * OneDec * OneDec, e)

Quo(d, e) == chopPrecisionAndRound(Wide(d, e))
QuoTruncate(d, e) == chopPrecisionAndTruncate(Wide(d, e))
QuoRoundUp(d, e) == chopPrecisionAndRoundUp(Wide(d, e))
QuoInt(d, i) == BigQuo(d, i)

RoundInt(d) == chopPrecisionAndRound(d)
TruncateInt(d) == chopPrecisionAndTruncate(d)
TruncateDec(d) == ToDec(TruncateInt(d))
IsInteger(d) == BigRem(d, OneDec) = 0

Ceil(d) == ToDec(BigQuo(d, OneDec) + (IF BigRem(d, OneDec) > 0 THEN 1 ELSE 0))

MinDec(d, e) == IF d < e THEN d ELSE e
MaxDec(d, e) == IF d < e THEN e ELSE d

\* DecMedian of a non-empty list.
DecMedian(ds) ==
    LET s == SortSeq(ds, <)
        l == Len(ds)
        h == l \div 2
    IN  IF l % 2 = 1 THEN s[h + 1] ELSE Quo(s[h] + s[h + 1], ToDec(2))

-----------------------------------------------------------------------------
(***************************************************************************)
(* The text of a decimal is a sign and the digits between the periods.     *)
(***************************************************************************)
NumDigits(n) == Min({k \in 1 .. 8 : n < 10 ^ k})
Digits(n) == [k \in 1 .. NumDigits(n) |-> (n \div 10 ^ (NumDigits(n) - k)) % 10]
Value(s) == FoldLeft(LAMBDA v, c : 10 * v + c, 0, s)
Zeros(k) == [j \in 1 .. k |-> 0]

\* Dec.String: at least one digit before the period, exactly Precision after it.
String(d) ==
    LET b == Digits(Abs(d))
        k == Len(b) - Precision
    IN  [neg |-> d < 0, parts |-> IF k =< 0 THEN << <<0>>, Zeros(-k) \o b >>
                                  ELSE <<SubSeq(b, 1, k), SubSeq(b, k + 1, Len(b))>>]

\* What NewDecFromStr accepts.
Parses(t) ==
    /\ Len(t.parts) \in 1 .. 2
    /\ \A i \in 1 .. Len(t.parts) : t.parts[i] # <<>>
    /\ Len(t.parts) = 2 => Len(t.parts[2]) =< Precision

NewDecFromStr(t) ==
    LET frac == IF Len(t.parts) = 2 THEN t.parts[2] ELSE <<>>
        n    == Value(t.parts[1] \o frac \o Zeros(Precision - Len(frac)))
    IN  IF t.neg THEN -n ELSE n

-----------------------------------------------------------------------------
(***************************************************************************)
(* Int and Uint wrap big integers and panic when a result has more than    *)
(* maxBitLen bits, and decimals when it has more than these and those of   *)
(* the multiplier.  XFits says that operation X does not panic.            *)
(***************************************************************************)
\* BitLen of a big integer: the bits of its magnitude, none for zero.
BitLen(n) == CHOOSE k \in 0 .. 30 : Abs(n) < 2 ^ k /\ (k > 0 => Abs(n) >= 2 ^ (k - 1))

\* NewIntFromBigInt, and the decoders: out of bound beyond maxBitLen bits.
InBound(n) == BitLen(n) =< maxBitLen
Ints == {n \in -(2 ^ maxBitLen) .. 2 ^ maxBitLen : InBound(n)}

AddFits(i, j) == InBound(i + j)
SubFits(i, j) == InBound(i - j)

\* Mul: the first check saves the multiplication of what cannot fit.
MulFits(i, j) == BitLen(i) + BitLen(j) - 1 =< maxBitLen /\ InBound(i * j)

\* Quo of big integers truncates towards zero; Mod is Euclidean.
IntQuo(i, j) == BigQuo(i, j)

IntMod(i, j) == i % Abs(j)

MinInt(i, j) == IF i > j THEN j ELSE i
MaxInt(i, j) == IF i < j THEN j ELSE i

\* UintOverflow, checkNewUint: neither negative nor too long.
UintFits(n) == n >= 0 /\ BitLen(n) =< maxBitLen
UintSubFits(u, v) == UintFits(u - v)
UintMulFits(u, v) == UintFits(u * v)

DecimalPrecisionBits == BitLen(OneDec)
DecFits(d) == BitLen(d) =< maxBitLen + DecimalPrecisionBits
DecAddFits(d, e) == DecFits(d + e)
DecSubFits(d, e) == DecFits(d - e)
DecMulFits(d, e) == DecFits(Mul(d, e))
DecQuoFits(d, e) == DecFits(Quo(d, e))

-----------------------------------------------------------------------------
(***************************************************************************)
(* x/openswap: a pair of reserves whose product a swap keeps, the fees     *)
(* taken from what goes in, and the amount a limit order may swap.  A pair *)
(* is a record with reserves a and b; fee rates are decimals.              *)
(***************************************************************************)
\* A slip in mulAndDiv: the quotient is rounded up.
MulAndDivUp(x, y, z) == (x * y + z - 1) \div z

mulAndDiv(x, y, z) == BigQuo(x * y, z)

Sqrt(n) == Max({k \in 0..n : k * k <= n})

NewFeeRate(lp, repurchase, referer) == [lp |-> lp, repurchase |-> repurchase, referer |-> referer]
TotalFeeRate(f) == f.lp + f.referer + f.repurchase
RealInCoeff(f) == OneDec - TotalFeeRate(f)

Price(pair) == IF pair.a = 0 THEN 0 ELSE Quo(ToDec(pair.b), ToDec(pair.a))

\* What swapping `in` coins of token A (or of token B) gives, and the pair it leaves.  Where the
\* repurchase part cannot be used it goes to the liquidity providers; a repurchase pays no fee.
swap(rate, pair, inIsA, in, canRepurchase, isRepurchasing) ==
    LET part(r) == IF isRepurchasing THEN 0 ELSE TruncateInt(Mul(ToDec(in), r))
        fund    == IF canRepurchase THEN part(rate.repurchase) ELSE 0
        lp      == part(rate.lp) + (IF canRepurchase THEN 0 ELSE part(rate.repurchase))
        bonus   == part(rate.referer)
        real    == in - lp - bonus - fund
        out     == IF inIsA THEN mulAndDiv(real, pair.b, real + pair.a)
                            ELSE mulAndDiv(real, pair.a, real + pair.b)
    IN  [out |-> out, bonus |-> bonus, fund |-> fund, real |-> real,
         pair |-> IF inIsA THEN [pair EXCEPT !.a = @ + real + lp, !.b = @ - out]
                           ELSE [pair EXCEPT !.b = @ + real + lp, !.a = @ - out]]

\* The estimates made before a swap, for one pair with these reserves.
EstimateOut(rate, in, reserveIn, reserveOut) ==
    LET real == TruncateInt(Mul(ToDec(in), RealInCoeff(rate)))
    IN  mulAndDiv(real, reserveOut, reserveIn + real)

EstimateIn(rate, out, reserveIn, reserveOut) ==
    TruncateInt(Quo(ToDec(mulAndDiv(out, reserveIn, reserveOut - out)), RealInCoeff(rate))) + 1

\* How much an order may swap before its average price would be worse than its limit.
calLimitSwapAmount(side, price, pair) ==
    IF pair.a <= 0 \/ pair.b <= 0 THEN [amount |-> 0, suitable |-> FALSE]
    ELSE LET suitable == IF side = "buy" THEN price > Price(pair) ELSE price < Price(pair)
             amount   == IF side = "buy" THEN TruncateInt(Mul(ToDec(pair.a), price)) - pair.b
                                         ELSE TruncateInt(Quo(ToDec(pair.b), price)) - pair.a
         IN  [amount |-> IF suitable /\ amount > 0 THEN amount ELSE 0, suitable |-> suitable]

=============================================================================
