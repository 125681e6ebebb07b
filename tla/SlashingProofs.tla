--------------------------- MODULE SlashingProofs ---------------------------
(***************************************************************************)
(* Proofs about Slashing.  The inductive invariant says of each validator  *)
(* that its bits are a ring of its last votes and that the counter counts  *)
(* them; that a slash for a double sign left a tombstone; and that a       *)
(* validator whose votes may still arrive is bonded, or has been unbonding *)
(* for less than the unbonding time, so that nothing of it is removed yet. *)
(***************************************************************************)
EXTENDS Slashing, FiniteSetTheorems, TLAPS

W == SignedBlocksWindow

-----------------------------------------------------------------------------
(* The ring of bits.                                                       *)

\* The bits hold the last votes, each at its place, and no other miss.
RingOf(seen, bits) ==
    /\ bits \subseteq 0 .. W - 1
    /\ \A j \in 1 .. Len(seen) : j > Len(seen) - W => ((j - 1) % W \in bits <=> seen[j])
    /\ \A i \in bits : i < Len(seen)

NewBits(bits, index, missed) == IF missed THEN bits \cup {index} ELSE bits \ {index}

LEMMA DivMod ==
    ASSUME NEW N \in Nat \ {0}, NEW a \in Nat
    PROVE  a = N * (a \div N) + (a % N) /\ a \div N \in Nat /\ a % N \in 0 .. N - 1
<1>1. a \div N \in Int /\ a % N \in 0 .. N - 1
  OBVIOUS
<1>2. a = N * (a \div N) + (a % N)
  OBVIOUS
<1>3. a \div N >= 0
  OBVIOUS
<1> QED
  BY <1>1, <1>2, <1>3

LEMMA SmallMultiple ==
    ASSUME NEW N \in Nat \ {0}, NEW d \in Int, N * d < N, - N < N * d
    PROVE  d = 0
OBVIOUS

LEMMA FirstRound ==
    ASSUME NEW N \in Nat \ {0}, NEW a \in Nat, a < N
    PROVE  a % N = a
OBVIOUS

\* Votes less than a window apart have different places in the ring.
LEMMA ApartInWindow ==
    ASSUME NEW N \in Nat \ {0}, NEW a \in Nat, NEW b \in Nat, a < b, b - a < N
    PROVE  a % N # b % N
<1> DEFINE p == a \div N
           q == b \div N
           r == a % N
           s == b % N
<1>1. a = N * p + r /\ b = N * q + s /\ p \in Nat /\ q \in Nat /\ r \in Nat /\ s \in Nat
  BY DivMod
<1> HIDE DEF p, q, r, s
<1>2. ASSUME r = s
      PROVE  FALSE
  <2>1. N * (q - p) = b - a
    BY <1>1, <1>2
  <2>2. q - p = 0
    BY <1>1, <2>1, SmallMultiple
  <2> QED
    BY <2>1, <2>2
<1> QED
  BY <1>2 DEF r, s

\* A vote replaces the one of a window before.
LEMMA WindowBefore ==
    ASSUME NEW N \in Nat \ {0}, NEW a \in Nat, a >= N
    PROVE  (a - N) % N = a % N
<1> DEFINE d == a - N
           p == d \div N
           q == a \div N
           r == d % N
           s == a % N
<1>1. d \in Nat /\ d = a - N
  OBVIOUS
<1>2. d = N * p + r /\ a = N * q + s /\ p \in Nat /\ q \in Nat /\ r \in 0 .. N - 1 /\ s \in 0 .. N - 1
  BY <1>1, DivMod
<1> HIDE DEF d, p, q, r, s
<1>3. N * (q - p - 1) = r - s
  BY <1>1, <1>2
<1>4. q - p - 1 = 0
  BY <1>2, <1>3, SmallMultiple
<1>5. r = s
  BY <1>2, <1>3, <1>4
<1> QED
  BY <1>5 DEF r, s, d

LEMMA PartOfInterval ==
    ASSUME NEW n \in Nat, NEW S \in SUBSET (1 .. n)
    PROVE  IsFiniteSet(S) /\ Cardinality(S) \in Nat
<1>1. IsFiniteSet(1 .. n)
  BY FS_Interval
<1>2. IsFiniteSet(S)
  BY <1>1, FS_Subset
<1> QED
  BY <1>2, FS_CardinalityType

\* The bit that is overwritten is the vote that leaves the window.
LEMMA BitOfLeaving ==
    ASSUME W \in Nat \ {0}, NEW seen \in Seq(BOOLEAN), NEW bits, RingOf(seen, bits)
    PROVE  Len(seen) % W \in bits <=> Len(seen) - W + 1 \in InWindow(seen)
<1> DEFINE n == Len(seen)
<1>1. /\ n \in Nat /\ DOMAIN seen = 1 .. n
      /\ bits \subseteq 0 .. W - 1
      /\ \A j \in 1 .. n : j > n - W => ((j - 1) % W \in bits <=> seen[j])
      /\ \A i \in bits : i < n
  BY DEF RingOf
<1>2. InWindow(seen) = {i \in 1 .. n : i > n - W /\ seen[i]}
  BY <1>1 DEF InWindow, W
<1> HIDE DEF n, W
<1>3. CASE n < W
  <2>1. n % W = n
    BY <1>1, <1>3, FirstRound
  <2>2. n \notin bits
    BY <1>1
  <2>3. n - W + 1 \notin InWindow(seen)
    BY <1>1, <1>2, <1>3
  <2> QED
    BY <2>1, <2>2, <2>3 DEF n
<1>4. CASE n >= W
  <2>1. (n - W) % W = n % W
    BY <1>1, <1>4, WindowBefore
  <2>2. n - W + 1 \in 1 .. n /\ n - W + 1 > n - W /\ (n - W + 1) - 1 = n - W
    BY <1>1, <1>4
  <2>3. n % W \in bits <=> seen[n - W + 1]
    BY <1>1, <2>1, <2>2
  <2>4. n - W + 1 \in InWindow(seen) <=> seen[n - W + 1]
    BY <1>2, <2>2
  <2> QED
    BY <2>3, <2>4 DEF n
<1> QED
  BY <1>1, <1>3, <1>4

LEMMA WindowIsFinite ==
    ASSUME NEW seen \in Seq(BOOLEAN)
    PROVE  IsFiniteSet(InWindow(seen)) /\ Cardinality(InWindow(seen)) \in Nat
<1>1. InWindow(seen) \subseteq 1 .. Len(seen) /\ Len(seen) \in Nat
  BY DEF InWindow
<1> QED
  BY <1>1, PartOfInterval

\* What a vote does to the number of misses in the window.
LEMMA WindowMoves ==
    ASSUME W \in Nat \ {0}, NEW seen \in Seq(BOOLEAN), NEW bits, RingOf(seen, bits), NEW m \in BOOLEAN
    PROVE  Cardinality(InWindow(Append(seen, m)))
             = Cardinality(InWindow(seen)) + MissedChange(Len(seen) % W \in bits, m)
<1> DEFINE n == Len(seen)
           old == n % W \in bits
           S == InWindow(seen)
           T == S \ {n - W + 1}
<1>1. n \in Nat /\ DOMAIN seen = 1 .. n
  OBVIOUS
<1>2. S = {i \in 1 .. n : i > n - W /\ seen[i]}
  BY <1>1 DEF InWindow, W
<1>3. IsFiniteSet(S) /\ Cardinality(S) \in Nat
  BY WindowIsFinite
<1>4. IsFiniteSet(T) /\ Cardinality(T) = IF old THEN Cardinality(S) - 1 ELSE Cardinality(S)
  <2>1. old <=> n - W + 1 \in S
    BY BitOfLeaving
  <2> QED
    BY <1>3, <2>1, FS_RemoveElement
<1>5. /\ Len(Append(seen, m)) = n + 1 /\ DOMAIN Append(seen, m) = 1 .. n + 1
      /\ \A i \in 1 .. n : Append(seen, m)[i] = seen[i]
      /\ Append(seen, m)[n + 1] = m
  BY <1>1
<1>6. InWindow(Append(seen, m)) = {i \in 1 .. n + 1 : i > n + 1 - W /\ Append(seen, m)[i]}
  BY <1>1, <1>5 DEF InWindow, W
<1>7. old = TRUE \/ old = FALSE
  OBVIOUS
<1> HIDE DEF n, W, old, S
<1>8. CASE m = TRUE
  <2>1. InWindow(Append(seen, m)) = T \cup {n + 1}
    BY <1>1, <1>2, <1>5, <1>6, <1>8
  <2>2. n + 1 \notin T
    BY <1>1, <1>2
  <2>3. Cardinality(T \cup {n + 1}) = Cardinality(T) + 1
    BY <1>4, <2>2, FS_AddElement
  <2>4. Cardinality(T) + 1 = Cardinality(S) + MissedChange(old, m)
    BY <1>3, <1>4, <1>7, <1>8 DEF MissedChange
  <2> QED
    BY <2>1, <2>3, <2>4 DEF old, n, S
<1>9. CASE m = FALSE
  <2>1. InWindow(Append(seen, m)) = T
    BY <1>1, <1>2, <1>5, <1>6, <1>9
  <2>2. Cardinality(T) = Cardinality(S) + MissedChange(old, m)
    BY <1>3, <1>4, <1>7, <1>9 DEF MissedChange
  <2> QED
    BY <2>1, <2>2 DEF old, n, S
<1> QED
  BY <1>8, <1>9

\* A vote keeps the ring.
LEMMA RingMoves ==
    ASSUME W \in Nat \ {0}, NEW seen \in Seq(BOOLEAN), NEW bits, RingOf(seen, bits), NEW m \in BOOLEAN
    PROVE  RingOf(Append(seen, m), NewBits(bits, Len(seen) % W, m))
<1> DEFINE n == Len(seen)
           index == n % W
           new == NewBits(bits, index, m)
           log == Append(seen, m)
<1>1. /\ n \in Nat /\ bits \subseteq 0 .. W - 1
      /\ \A j \in 1 .. n : j > n - W => ((j - 1) % W \in bits <=> seen[j])
      /\ \A i \in bits : i < n
  BY DEF RingOf
<1>2. index \in 0 .. W - 1
  BY <1>1, DivMod
<1>3. new \subseteq 0 .. W - 1 /\ (index \in new <=> m) /\ \A i : i # index => (i \in new <=> i \in bits)
  BY <1>1, <1>2 DEF NewBits
<1>4. Len(log) = n + 1 /\ log[n + 1] = m /\ \A j \in 1 .. n : log[j] = seen[j]
  BY <1>1
<1> HIDE DEF W, new, log, index, n
<1>5. ASSUME NEW j \in 1 .. n + 1, j > n + 1 - W
      PROVE  (j - 1) % W \in new <=> log[j]
  <2>1. CASE j = n + 1
    <3>1. j - 1 = n
      BY <1>1, <2>1
    <3> QED
      BY <1>3, <1>4, <2>1, <3>1 DEF index
  <2>2. CASE j # n + 1
    <3>1. j \in 1 .. n /\ j > n - W /\ j - 1 \in Nat /\ j - 1 < n /\ n - (j - 1) < W
      BY <1>1, <1>5, <2>2
    <3>2. (j - 1) % W # index
      BY <1>1, <3>1, ApartInWindow DEF index
    <3> QED
      BY <1>1, <1>3, <1>4, <3>1, <3>2
  <2> QED
    BY <2>1, <2>2
<1>6. ASSUME NEW i \in new
      PROVE  i < n + 1
  <2>1. CASE i = index
    <3>1. CASE n < W
      BY <1>1, <2>1, <3>1, FirstRound DEF index
    <3>2. CASE n >= W
      BY <1>1, <1>2, <2>1, <3>2
    <3> QED
      BY <1>1, <3>1, <3>2
  <2>2. CASE i # index
    <3>1. i \in bits
      BY <1>3, <1>6, <2>2
    <3> QED
      BY <1>1, <3>1
  <2> QED
    BY <2>1, <2>2
<1>7. RingOf(log, new)
  BY <1>1, <1>3, <1>4, <1>5, <1>6 DEF RingOf
<1> QED
  BY <1>7 DEF log, new, index, n

-----------------------------------------------------------------------------
(* The record of a validator.                                              *)

SigningInfo == [found : BOOLEAN, start : Nat, offset : Nat, until : Nat, tombstoned : BOOLEAN, missed : Int]

ValidatorRecord ==
    [found : BOOLEAN, status : {"Unbonded", "Unbonding", "Bonded"}, jailed : BOOLEAN, time : Int, empty : BOOLEAN,
     pubkey : BOOLEAN, info : SigningInfo, bits : SUBSET (0 .. W - 1), seen : Seq(BOOLEAN), voted : Nat, doubles : Nat]

WindowInv(r) ==
    /\ RingOf(r.seen, r.bits)
    /\ r.info.offset = Len(r.seen)
    /\ r.info.missed = Cardinality(InWindow(r.seen))
    /\ ~r.info.found => r.info.offset = 0

SlashedOnce(r) ==
    /\ r.doubles \in 0 .. 1
    /\ r.doubles = 1 => r.info.tombstoned
    /\ r.info.tombstoned => r.info.found

Known(r) ==
    /\ r.pubkey = r.found
    /\ r.status # "Unbonded" => r.found /\ r.info.found

ValidatorInv(r) == r \in ValidatorRecord /\ WindowInv(r) /\ SlashedOnce(r) /\ Known(r)

\* What votes and evidence leave alone.
SameStatus(r, s) == s.status = r.status /\ s.time = r.time

\* An empty window.
LEMMA CleanWindow ==
    ASSUME SlashingConstants
    PROVE  RingOf(<< >>, {}) /\ Len(<< >>) = 0 /\ Cardinality(InWindow(<< >>)) = 0 /\ << >> \in Seq(BOOLEAN)
<1>1. InWindow(<< >>) = {}
  BY DEF InWindow
<1> QED
  BY <1>1, FS_EmptySet DEF RingOf

\* A vote is recorded.
LEMMA RecordKeeps ==
    ASSUME SlashingConstants, height \in Nat, NEW r, ValidatorInv(r), r.info.found, NEW signed \in BOOLEAN
    PROVE  ValidatorInv(Record(r, signed)) /\ SameStatus(r, Record(r, signed)) /\ Record(r, signed).info.found
<1> DEFINE m == ~signed
           n == Len(r.seen)
           bits == NewBits(r.bits, n % W, m)
           seen == Append(r.seen, m)
           missed == r.info.missed + MissedChange(n % W \in r.bits, m)
           info == [r.info EXCEPT !.offset = n + 1, !.missed = missed]
           s == [r EXCEPT !.bits = bits, !.info = info, !.seen = seen, !.voted = height]
<1>1. /\ W \in Nat \ {0} /\ n \in Nat /\ m \in BOOLEAN /\ r.seen \in Seq(BOOLEAN)
      /\ r.info \in SigningInfo /\ r.info.offset = n /\ r.bits \in SUBSET (0 .. W - 1)
      /\ RingOf(r.seen, r.bits)
  BY DEF ValidatorInv, ValidatorRecord, WindowInv, SlashingConstants, W
<1>2. RingOf(seen, bits) /\ bits \in SUBSET (0 .. W - 1)
  <2>1. RingOf(seen, bits)
    BY <1>1, RingMoves
  <2> QED
    BY <2>1 DEF RingOf
<1>3. missed = Cardinality(InWindow(seen))
  <2>1. Cardinality(InWindow(seen)) = Cardinality(InWindow(r.seen)) + MissedChange(n % W \in r.bits, m)
    BY <1>1, WindowMoves
  <2>2. r.info.missed = Cardinality(InWindow(r.seen))
    BY DEF ValidatorInv, WindowInv
  <2> QED
    BY <2>1, <2>2, Zenon
<1>4. seen \in Seq(BOOLEAN) /\ Len(seen) = n + 1 /\ n + 1 \in Nat
  BY <1>1
<1>5. missed \in Int
  <2>1. Cardinality(InWindow(seen)) \in Nat
    BY <1>4, WindowIsFinite
  <2> HIDE DEF missed
  <2> QED
    BY <1>3, <2>1
<1>6. Record(r, signed) = s
  BY <1>1 DEF Record, Index, NewBits, W
<1> HIDE DEF m, bits, seen, missed, n
<1>7. /\ info \in SigningInfo /\ info.found = r.info.found /\ info.tombstoned = r.info.tombstoned
      /\ info.offset = n + 1 /\ info.missed = missed
  BY <1>1, <1>4, <1>5 DEF SigningInfo
<1> HIDE DEF info
<1>8. /\ s \in ValidatorRecord /\ s.info = info /\ s.bits = bits /\ s.seen = seen
      /\ s.found = r.found /\ s.pubkey = r.pubkey /\ s.status = r.status /\ s.time = r.time /\ s.doubles = r.doubles
  BY <1>2, <1>4, <1>7 DEF ValidatorInv, ValidatorRecord
<1> HIDE DEF s
<1>9. WindowInv(s)
  BY <1>2, <1>3, <1>4, <1>7, <1>8 DEF WindowInv
<1>10. SlashedOnce(s) /\ Known(s) /\ SameStatus(r, s) /\ s.info.found
  BY <1>7, <1>8 DEF ValidatorInv, SlashedOnce, Known, SameStatus
<1> QED
  BY <1>6, <1>8, <1>9, <1>10 DEF ValidatorInv

\* Downtime jails and resets the window.
LEMMA PunishKeeps ==
    ASSUME SlashingConstants, NEW now \in Nat, NEW r, ValidatorInv(r), r.info.found
    PROVE  ValidatorInv(PunishDowntime(r, now)) /\ SameStatus(r, PunishDowntime(r, now))
             /\ PunishDowntime(r, now).info.found
<1> DEFINE until == now + DowntimeJailDuration
           zero == 0
           info == [r.info EXCEPT !.until = until, !.missed = zero, !.offset = zero]
           s == [r EXCEPT !.jailed = TRUE, !.bits = {}, !.seen = << >>, !.info = info]
<1>1. PunishDowntime(r, now) = s
  BY DEF PunishDowntime
<1>2. r.info \in SigningInfo /\ until \in Nat /\ zero \in Nat /\ zero \in Int
  BY DEF ValidatorInv, ValidatorRecord, SlashingConstants
<1> HIDE DEF until, zero
<1>3. /\ info \in SigningInfo /\ info.found = r.info.found /\ info.tombstoned = r.info.tombstoned
      /\ info.offset = zero /\ info.missed = zero
  BY <1>2 DEF SigningInfo
<1> HIDE DEF info
<1>4. {} \in SUBSET (0 .. W - 1) /\ << >> \in Seq(BOOLEAN)
  OBVIOUS
<1>5. /\ s \in ValidatorRecord /\ s.info = info /\ s.bits = {} /\ s.seen = << >>
      /\ s.found = r.found /\ s.pubkey = r.pubkey /\ s.status = r.status /\ s.time = r.time /\ s.doubles = r.doubles
  BY <1>3, <1>4 DEF ValidatorInv, ValidatorRecord
<1> HIDE DEF s
<1>6. WindowInv(s)
  BY <1>3, <1>5, CleanWindow DEF WindowInv, zero
<1>7. SlashedOnce(s) /\ Known(s) /\ SameStatus(r, s) /\ s.info.found
  BY <1>3, <1>5 DEF ValidatorInv, SlashedOnce, Known, SameStatus
<1> QED
  BY <1>1, <1>5, <1>6, <1>7 DEF ValidatorInv

LEMMA SignatureKeeps ==
    ASSUME SlashingConstants, height \in Nat, NEW now \in Nat, NEW r, ValidatorInv(r), r.info.found,
           NEW signed \in BOOLEAN
    PROVE  ValidatorInv(HandleValidatorSignature(r, signed, now))
             /\ SameStatus(r, HandleValidatorSignature(r, signed, now))
<1> DEFINE n == Record(r, signed)
<1>1. ValidatorInv(n) /\ SameStatus(r, n) /\ n.info.found
  BY RecordKeeps
<1> HIDE DEF n
<1>2. ValidatorInv(PunishDowntime(n, now)) /\ SameStatus(n, PunishDowntime(n, now))
  BY <1>1, PunishKeeps
<1>3. HandleValidatorSignature(r, signed, now) = n \/ HandleValidatorSignature(r, signed, now) = PunishDowntime(n, now)
  BY DEF HandleValidatorSignature, n
<1> QED
  BY <1>1, <1>2, <1>3 DEF SameStatus

\* Evidence slashes a validator that has no tombstone, and leaves one.
LEMMA DoubleSignKeeps ==
    ASSUME SlashingConstants, NEW now, NEW at, NEW r, ValidatorInv(r)
    PROVE  ValidatorInv(HandleDoubleSign(r, at, now)) /\ SameStatus(r, HandleDoubleSign(r, at, now))
<1> DEFINE info == [r.info EXCEPT !.tombstoned = TRUE, !.until = Forever]
           k == r.doubles + 1
           s == [r EXCEPT !.jailed = TRUE, !.info = info, !.doubles = k]
<1>1. CASE HandleDoubleSign(r, at, now) = r
  BY <1>1 DEF SameStatus
<1>2. CASE HandleDoubleSign(r, at, now) = s /\ r.status # "Unbonded" /\ ~r.info.tombstoned
  <2>1. r.info \in SigningInfo /\ Forever \in Nat /\ r.info.found
    BY <1>2 DEF ValidatorInv, ValidatorRecord, Known, SlashingConstants
  <2>2. /\ info \in SigningInfo /\ info.found = r.info.found /\ info.tombstoned = TRUE
        /\ info.offset = r.info.offset /\ info.missed = r.info.missed
    BY <2>1 DEF SigningInfo
  <2>3. k = 1
    BY <1>2 DEF ValidatorInv, SlashedOnce
  <2>4. k \in Nat
    BY <2>3
  <2> HIDE DEF info, k
  <2>5. /\ s \in ValidatorRecord /\ s.info = info /\ s.bits = r.bits /\ s.seen = r.seen /\ s.doubles = k
        /\ s.found = r.found /\ s.pubkey = r.pubkey /\ s.status = r.status /\ s.time = r.time
    BY <2>2, <2>4 DEF ValidatorInv, ValidatorRecord
  <2> HIDE DEF s
  <2>6. WindowInv(s)
    BY <2>2, <2>5 DEF ValidatorInv, WindowInv
  <2>7. SlashedOnce(s)
    <3>1. s.doubles \in 0 .. 1
      BY <2>3, <2>5
    <3>2. s.info.tombstoned /\ s.info.found
      BY <2>1, <2>2, <2>5, Zenon
    <3> QED
      BY <3>1, <3>2, Zenon DEF SlashedOnce
  <2>8. Known(s) /\ SameStatus(r, s)
    BY <2>1, <2>2, <2>5 DEF ValidatorInv, Known, SameStatus
  <2> QED
    BY <1>2, <2>5, <2>6, <2>7, <2>8 DEF ValidatorInv
<1> QED
  BY <1>1, <1>2 DEF HandleDoubleSign

\* A message that changes found, jailed and empty of a validator, and its key
\* with found.
LEMMA MessageKeeps ==
    ASSUME NEW r, ValidatorInv(r), NEW s \in ValidatorRecord,
           s.info = r.info, s.bits = r.bits, s.seen = r.seen, s.doubles = r.doubles,
           SameStatus(r, s), s.pubkey = s.found, s.found \/ r.status = "Unbonded"
    PROVE  ValidatorInv(s)
<1>1. WindowInv(s)
  BY DEF ValidatorInv, WindowInv
<1>2. SlashedOnce(s)
  BY Zenon DEF ValidatorInv, SlashedOnce
<1>3. Known(s)
  BY Zenon DEF ValidatorInv, Known, SameStatus
<1> QED
  BY <1>1, <1>2, <1>3 DEF ValidatorInv

\* The first bonding of a validator writes its signing info, and a later one
\* finds the old one.
LEMMA BondedKeeps ==
    ASSUME SlashingConstants, height \in Nat, NEW r, ValidatorInv(r), r.found
    PROVE  /\ ValidatorInv(AfterValidatorBonded([r EXCEPT !.status = "Bonded"]))
           /\ AfterValidatorBonded([r EXCEPT !.status = "Bonded"]).status = "Bonded"
<1> DEFINE b == [r EXCEPT !.status = "Bonded"]
           new == NewValidatorSigningInfo(height)
           s == [b EXCEPT !.info = new]
<1>1. /\ b \in ValidatorRecord /\ b.status = "Bonded" /\ b.info = r.info /\ b.bits = r.bits /\ b.seen = r.seen
      /\ b.found = r.found /\ b.pubkey = r.pubkey /\ b.doubles = r.doubles
  BY DEF ValidatorInv, ValidatorRecord
<1> HIDE DEF b
<1>2. CASE r.info.found
  <2>1. AfterValidatorBonded(b) = b
    BY <1>1, <1>2 DEF AfterValidatorBonded
  <2>2. WindowInv(b) /\ SlashedOnce(b)
    BY <1>1 DEF ValidatorInv, WindowInv, SlashedOnce
  <2>3. Known(b)
    BY <1>1, <1>2 DEF ValidatorInv, Known
  <2> QED
    BY <1>1, <2>1, <2>2, <2>3 DEF ValidatorInv, b
<1>3. CASE ~r.info.found
  <2>1. AfterValidatorBonded(b) = s
    BY <1>1, <1>3 DEF AfterValidatorBonded
  <2>2. new \in SigningInfo /\ new.found /\ ~new.tombstoned /\ new.offset = 0 /\ new.missed = 0
    <3>1. new = [found |-> TRUE, start |-> height, offset |-> 0, until |-> 0, tombstoned |-> FALSE, missed |-> 0]
      BY DEF NewValidatorSigningInfo
    <3>2. 0 \in Nat /\ 0 \in Int
      OBVIOUS
    <3> HIDE DEF new
    <3> QED
      BY <3>1, <3>2 DEF SigningInfo
  <2> HIDE DEF new
  <2>3. /\ s \in ValidatorRecord /\ s.status = "Bonded" /\ s.info = new /\ s.bits = r.bits /\ s.seen = r.seen
        /\ s.found = r.found /\ s.pubkey = r.pubkey /\ s.doubles = r.doubles
    BY <1>1, <2>2 DEF ValidatorRecord
  <2> HIDE DEF s
  <2>4. Len(r.seen) = 0 /\ RingOf(r.seen, r.bits) /\ r.seen \in Seq(BOOLEAN)
    BY <1>3 DEF ValidatorInv, ValidatorRecord, WindowInv
  <2>5. InWindow(r.seen) = {}
    BY <2>4 DEF InWindow
  <2>6. WindowInv(s)
    BY <2>2, <2>3, <2>4, <2>5, FS_EmptySet DEF WindowInv
  <2>7. SlashedOnce(s)
    <3>1. ~r.info.tombstoned /\ r.doubles # 1 /\ r.doubles \in 0 .. 1
      BY <1>3, Zenon DEF ValidatorInv, SlashedOnce
    <3> QED
      BY <2>2, <2>3, <3>1, Zenon DEF SlashedOnce
  <2>8. Known(s)
    BY <2>2, <2>3, Zenon DEF ValidatorInv, Known
  <2> QED
    BY <2>1, <2>3, <2>6, <2>7, <2>8 DEF ValidatorInv, b
<1> QED
  BY <1>2, <1>3

\* A change of status that keeps, or gives up, what is known of the validator.
LEMMA StatusKeeps ==
    ASSUME NEW r, ValidatorInv(r), NEW s \in ValidatorRecord,
           s.info = r.info, s.bits = r.bits, s.seen = r.seen, s.doubles = r.doubles,
           s.pubkey = s.found, s.status # "Unbonded" => r.status # "Unbonded" /\ s.found
    PROVE  ValidatorInv(s)
<1>1. WindowInv(s) /\ SlashedOnce(s)
  BY Zenon DEF ValidatorInv, WindowInv, SlashedOnce
<1>2. Known(s)
  BY Zenon DEF ValidatorInv, Known
<1> QED
  BY <1>1, <1>2 DEF ValidatorInv

LEMMA BeginUnbondingKeeps ==
    ASSUME SlashingConstants, height \in Nat, NEW r, ValidatorInv(r), r.status = "Bonded"
    PROVE  /\ ValidatorInv(BeginUnbonding(r))
           /\ BeginUnbonding(r).status = "Unbonding" /\ BeginUnbonding(r).time = height + UnbondingTime
<1> DEFINE t == height + UnbondingTime
           s == [r EXCEPT !.status = "Unbonding", !.time = t]
<1>1. t \in Int
  BY DEF SlashingConstants
<1>2. BeginUnbonding(r) = s
  BY DEF BeginUnbonding
<1> HIDE DEF t
<1>3. /\ s \in ValidatorRecord /\ s.status = "Unbonding" /\ s.info = r.info /\ s.bits = r.bits /\ s.seen = r.seen
      /\ s.found = r.found /\ s.pubkey = r.pubkey /\ s.doubles = r.doubles /\ s.time = t
  BY <1>1 DEF ValidatorInv, ValidatorRecord
<1>4. s.found /\ s.pubkey = s.found
  BY <1>3, Zenon DEF ValidatorInv, Known
<1> HIDE DEF s
<1>5. ValidatorInv(s)
  BY <1>3, <1>4, StatusKeeps, Zenon
<1> QED
  BY <1>2, <1>3, <1>5 DEF t

LEMMA MaturedKeeps ==
    ASSUME NEW r, ValidatorInv(r)
    PROVE  /\ ValidatorInv(Matured(r))
           /\ r.status # "Unbonding" \/ r.time > height => Matured(r) = r
           /\ Matured(r).status = "Bonded" <=> r.status = "Bonded"
<1> DEFINE u == [r EXCEPT !.status = "Unbonded"]
           x == [u EXCEPT !.found = FALSE]
           y == [x EXCEPT !.pubkey = FALSE]
<1>1. CASE r.status # "Unbonding" \/ r.time > height
  BY <1>1 DEF Matured
<1>2. CASE ~(r.status # "Unbonding" \/ r.time > height)
  <2>1. /\ u \in ValidatorRecord /\ u.status = "Unbonded" /\ u.info = r.info /\ u.bits = r.bits /\ u.seen = r.seen
        /\ u.found = r.found /\ u.pubkey = r.pubkey /\ u.doubles = r.doubles
    BY DEF ValidatorInv, ValidatorRecord
  <2>2. u.pubkey = u.found
    BY <2>1, Zenon DEF ValidatorInv, Known
  <2>3. Matured(r) = IF r.empty THEN y ELSE u
    BY <1>2 DEF Matured, Removed, AfterValidatorRemoved
  <2> HIDE DEF u
  <2>4. ValidatorInv(u)
    BY <2>1, <2>2, StatusKeeps, Zenon
  <2>5. /\ y \in ValidatorRecord /\ y.status = "Unbonded" /\ y.info = r.info /\ y.bits = r.bits /\ y.seen = r.seen
        /\ y.found = FALSE /\ y.pubkey = FALSE /\ y.doubles = r.doubles
    BY <2>1 DEF ValidatorRecord
  <2> HIDE DEF y
  <2>6. ValidatorInv(y)
    BY <2>5, StatusKeeps, Zenon
  <2>7. Matured(r) = y \/ Matured(r) = u
    BY <2>3, Zenon
  <2>8. r.status # "Bonded" /\ u.status # "Bonded" /\ y.status # "Bonded"
    BY <1>2, <2>1, <2>5
  <2> QED
    BY <1>2, <2>4, <2>6, <2>7, <2>8, Zenon
<1> QED
  BY <1>1, <1>2

\* The end of a block.
LEMMA AtEndKeeps ==
    ASSUME SlashingConstants, height \in Nat, NEW r, ValidatorInv(r), NEW bonded \in BOOLEAN, bonded => r.found
    PROVE  /\ ValidatorInv(AtEnd(r, bonded))
           /\ AtEnd(r, bonded).status = "Bonded" <=> bonded
           /\ ~bonded /\ r.status = "Bonded" =>
                  AtEnd(r, bonded).status = "Unbonding" /\ AtEnd(r, bonded).time = height + UnbondingTime
           /\ ~bonded /\ r.status = "Unbonding" /\ r.time > height => AtEnd(r, bonded) = r
<1>1. CASE bonded /\ r.status # "Bonded"
  <2> DEFINE s == AfterValidatorBonded([r EXCEPT !.status = "Bonded"])
  <2>1. AtEnd(r, bonded) = Matured(s)
    BY <1>1, Zenon DEF AtEnd
  <2>2. ValidatorInv(s) /\ s.status = "Bonded"
    BY <1>1, BondedKeeps, Zenon
  <2> HIDE DEF s
  <2>3. Matured(s) = s
    BY <2>2 DEF Matured
  <2> QED
    BY <1>1, <2>1, <2>2, <2>3, Zenon
<1>2. CASE ~bonded /\ r.status = "Bonded"
  <2> DEFINE s == BeginUnbonding(r)
  <2>1. AtEnd(r, bonded) = Matured(s)
    BY <1>2, Zenon DEF AtEnd
  <2>2. ValidatorInv(s) /\ s.status = "Unbonding" /\ s.time = height + UnbondingTime
    BY <1>2, BeginUnbondingKeeps, Zenon
  <2>3. height + UnbondingTime > height
    BY DEF SlashingConstants
  <2> HIDE DEF s
  <2>4. Matured(s) = s
    BY <2>2, <2>3, Zenon DEF Matured
  <2>5. AtEnd(r, bonded).status # "Bonded"
    BY <2>1, <2>2, <2>4
  <2> QED
    BY <1>2, <2>1, <2>2, <2>4, <2>5
<1>3. CASE (bonded /\ r.status = "Bonded") \/ (~bonded /\ r.status # "Bonded")
  <2>1. AtEnd(r, bonded) = Matured(r)
    BY <1>3, Zenon DEF AtEnd
  <2>2. /\ ValidatorInv(Matured(r)) /\ (Matured(r).status = "Bonded" <=> r.status = "Bonded")
        /\ r.status # "Unbonding" \/ r.time > height => Matured(r) = r
    BY MaturedKeeps, Zenon
  <2> QED
    BY <1>3, <2>1, <2>2, Zenon
<1> QED
  BY <1>1, <1>2, <1>3

\* An export and an import give back the record.
LEMMA RestartIsIdentity ==
    ASSUME NEW r, ValidatorInv(r)
    PROVE  InitGenesis([r EXCEPT !.pubkey = FALSE, !.info = NoInfo, !.bits = {}], ExportGenesis(r)) = r
<1> DEFINE e == ExportGenesis(r)
           x == [r EXCEPT !.pubkey = FALSE, !.info = NoInfo, !.bits = {}]
           back == {i \in DOMAIN e.missed : e.missed[i]}
<1>1. r \in ValidatorRecord /\ r.bits \subseteq 0 .. W - 1 /\ r.pubkey = r.found
  BY DEF ValidatorInv, ValidatorRecord, Known
<1>2. e.info = r.info /\ back = r.bits
  BY <1>1 DEF ExportGenesis, W
<1>3. x.found = r.found
  BY <1>1 DEF ValidatorRecord
<1>4. InitGenesis(x, e) = [x EXCEPT !.pubkey = r.pubkey, !.info = r.info, !.bits = r.bits]
  BY <1>1, <1>2, <1>3 DEF InitGenesis
<1>5. [x EXCEPT !.pubkey = r.pubkey, !.info = r.info, !.bits = r.bits] = r
  BY <1>1 DEF ValidatorRecord
<1> QED
  BY <1>4, <1>5

-----------------------------------------------------------------------------
(* All validators, and the sets that still vote.                           *)

\* The last block that has ended.
Last == IF phase = "begin" THEN height ELSE height - 1

\* A validator of the newest set is bonded; one that left it with the last
\* block, or with the one before, has been unbonding since then.
Voting(v, r, s1, s2, s3, last) ==
    /\ v \in s3 <=> r.status = "Bonded"
    /\ v \in s2 \ s3 => r.status = "Unbonding" /\ r.time >= last + UnbondingTime
    /\ v \in s1 \ (s2 \cup s3) => r.status = "Unbonding" /\ r.time >= last + UnbondingTime - 1

SlashingInv ==
    /\ height \in Nat /\ phase \in {"begin", "deliver"} /\ panic = FALSE
    /\ \A i \in 1 .. 3 : valsets[i] \subseteq Validators
    /\ c = [v \in Validators |-> c[v]]
    /\ \A v \in Validators : ValidatorInv(c[v])
    /\ \A v \in Validators : Voting(v, c[v], valsets[1], valsets[2], valsets[3], Last)

LEMMA SameVoting ==
    ASSUME NEW v, NEW r, NEW s, NEW s1, NEW s2, NEW s3, NEW last, Voting(v, r, s1, s2, s3, last), SameStatus(r, s)
    PROVE  Voting(v, s, s1, s2, s3, last)
BY Zenon DEF Voting, SameStatus

\* A validator whose vote arrives is known.
LEMMA VoterKnown ==
    ASSUME SlashingInv, NEW v \in valsets[1]
    PROVE  v \in Validators /\ c[v].pubkey /\ c[v].info.found
<1>1. v \in Validators
  BY DEF SlashingInv
<1>2. Voting(v, c[v], valsets[1], valsets[2], valsets[3], Last) /\ ValidatorInv(c[v])
  BY <1>1 DEF SlashingInv
<1>3. c[v].status # "Unbonded"
  BY <1>2 DEF Voting
<1> QED
  BY <1>1, <1>2, <1>3, Zenon DEF ValidatorInv, Known

LEMMA SlashingInitially == ASSUME SlashingConstants, Init PROVE SlashingInv
<1> DEFINE info == NewValidatorSigningInfo(0)
           r == [Unknown EXCEPT !.found = TRUE, !.status = "Bonded", !.pubkey = TRUE, !.info = info]
<1>1. /\ height = 0 /\ phase = "begin" /\ panic = FALSE /\ c = [v \in Validators |-> r]
      /\ valsets = <<Validators, Validators, Validators>>
  BY DEF Init
<1>2. info = [found |-> TRUE, start |-> 0, offset |-> 0, until |-> 0, tombstoned |-> FALSE, missed |-> 0]
  BY DEF NewValidatorSigningInfo
<1>3. info \in SigningInfo /\ info.found /\ ~info.tombstoned /\ info.offset = 0 /\ info.missed = 0
  <2>1. 0 \in Nat /\ 0 \in Int
    OBVIOUS
  <2> HIDE DEF info
  <2> QED
    BY <1>2, <2>1 DEF SigningInfo
<1>4. Unknown \in ValidatorRecord /\ Unknown.bits = {} /\ Unknown.seen = << >> /\ Unknown.doubles = 0
  <2>1. 0 \in Nat /\ 0 \in Int /\ {} \in SUBSET (0 .. W - 1) /\ << >> \in Seq(BOOLEAN)
    OBVIOUS
  <2>2. NoInfo \in SigningInfo
    BY <2>1, Zenon DEF NoInfo, SigningInfo
  <2>3. Unknown \in ValidatorRecord
    BY <2>1, <2>2, Zenon DEF Unknown, ValidatorRecord
  <2> QED
    BY <2>3 DEF Unknown
<1> HIDE DEF info
<1>5. /\ r \in ValidatorRecord
      /\ r.found = TRUE /\ r.status = "Bonded" /\ r.pubkey = TRUE /\ r.info = info /\ r.bits = {} /\ r.seen = << >>
      /\ r.doubles = 0
  BY <1>3, <1>4 DEF ValidatorRecord
<1> HIDE DEF r
<1>7. WindowInv(r)
  BY <1>3, <1>5, CleanWindow DEF WindowInv
<1>8. SlashedOnce(r) /\ Known(r)
  <2>1. r.doubles \in 0 .. 1 /\ r.doubles # 1
    BY <1>5
  <2> QED
    BY <1>3, <1>5, <2>1, Zenon DEF SlashedOnce, Known
<1>9. ValidatorInv(r)
  BY <1>5, <1>7, <1>8 DEF ValidatorInv
<1>10. \A v \in Validators : Voting(v, r, Validators, Validators, Validators, Last)
  BY <1>5 DEF Voting
<1>11. \A v \in Validators : c[v] = r
  BY <1>1
<1>12. /\ \A i \in 1 .. 3 : valsets[i] \subseteq Validators
       /\ valsets[1] = Validators /\ valsets[2] = Validators /\ valsets[3] = Validators
  BY <1>1
<1>13. c = [v \in Validators |-> c[v]] /\ height \in Nat
  BY <1>1
<1> QED
  BY <1>1, <1>9, <1>10, <1>11, <1>12, <1>13, Zenon DEF SlashingInv

LEMMA BeginBlockerKeeps ==
    ASSUME SlashingConstants, SlashingInv, NEW absent, NEW accused, NEW at, BeginBlocker(absent, accused, at)
    PROVE  SlashingInv'
<1> DEFINE now == height + 1
           Voted(v) == IF v \in valsets[1] THEN HandleValidatorSignature(c[v], v \notin absent, now) ELSE c[v]
           Then(v) == IF v \in accused THEN HandleDoubleSign(Voted(v), at, now) ELSE Voted(v)
<1>1. ~ \E v \in valsets[1] : ~c[v].pubkey \/ ~c[v].info.found
  BY VoterKnown, Zenon
<1>2. /\ phase = "begin" /\ height' = height + 1 /\ phase' = "deliver" /\ valsets' = valsets
      /\ panic' = panic /\ c' = [v \in Validators |-> Then(v)]
  BY <1>1, Zenon DEF BeginBlocker
<1>3. height \in Nat /\ now \in Nat /\ \A v \in Validators : ValidatorInv(c[v])
  BY DEF SlashingInv
<1>4. Last' = Last
  BY <1>2, <1>3 DEF Last
<1> HIDE DEF now
<1>5. ASSUME NEW v \in Validators
      PROVE  ValidatorInv(Then(v)) /\ SameStatus(c[v], Then(v))
  <2>1. ValidatorInv(Voted(v)) /\ SameStatus(c[v], Voted(v))
    <3>1. CASE v \in valsets[1]
      <4>1. c[v].info.found
        BY <3>1, VoterKnown
      <4>2. (v \notin absent) \in BOOLEAN
        OBVIOUS
      <4>3. ValidatorInv(HandleValidatorSignature(c[v], v \notin absent, now))
              /\ SameStatus(c[v], HandleValidatorSignature(c[v], v \notin absent, now))
        BY <1>3, <4>1, <4>2, SignatureKeeps
      <4> QED
        BY <3>1, <4>3
    <3>2. CASE v \notin valsets[1]
      BY <1>3, <3>2 DEF SameStatus
    <3> QED
      BY <3>1, <3>2
  <2> HIDE DEF Voted
  <2>2. ValidatorInv(HandleDoubleSign(Voted(v), at, now)) /\ SameStatus(Voted(v), HandleDoubleSign(Voted(v), at, now))
    BY <2>1, DoubleSignKeeps
  <2>3. Then(v) = Voted(v) \/ Then(v) = HandleDoubleSign(Voted(v), at, now)
    OBVIOUS
  <2> QED
    BY <2>1, <2>2, <2>3, Zenon DEF SameStatus
<1> HIDE DEF Then
<1>6. c' = [v \in Validators |-> c'[v]] /\ \A v \in Validators : c'[v] = Then(v)
  BY <1>2
<1>7. \A v \in Validators : Voting(v, c'[v], valsets'[1], valsets'[2], valsets'[3], Last')
  BY <1>2, <1>4, <1>5, <1>6, SameVoting, Zenon DEF SlashingInv
<1>8. \A v \in Validators : ValidatorInv(c[v])'
  <2>1. \A v \in Validators : ValidatorInv(c'[v])
    BY <1>5, <1>6, Zenon
  <2> QED
    BY <2>1, Zenon DEF ValidatorInv, WindowInv, SlashedOnce, Known, RingOf, InWindow, ValidatorRecord, SigningInfo, W
<1>9. height' \in Nat /\ panic' = FALSE /\ \A i \in 1 .. 3 : valsets'[i] \subseteq Validators
  BY <1>2, <1>3 DEF SlashingInv
<1> QED
  BY <1>2, <1>6, <1>7, <1>8, <1>9, Zenon DEF SlashingInv, Voting

\* A message on one validator.
LEMMA DeliverKeeps ==
    ASSUME SlashingInv, NEW v \in Validators, NEW r, Deliver(v, r), ValidatorInv(r), SameStatus(c[v], r)
    PROVE  SlashingInv'
<1>1. /\ c' = [c EXCEPT ![v] = r] /\ height' = height /\ phase' = phase /\ valsets' = valsets /\ panic' = panic
      /\ c = [w \in Validators |-> c[w]]
  BY DEF Deliver, SlashingInv
<1>2. c' = [w \in Validators |-> c'[w]] /\ c'[v] = r /\ \A w \in Validators \ {v} : c'[w] = c[w]
  BY <1>1
<1>3. ASSUME NEW w \in Validators
      PROVE  ValidatorInv(c'[w]) /\ Voting(w, c'[w], valsets[1], valsets[2], valsets[3], Last)
  <2>1. ValidatorInv(c[w]) /\ Voting(w, c[w], valsets[1], valsets[2], valsets[3], Last)
    BY DEF SlashingInv
  <2>2. CASE w = v
    BY <1>2, <2>1, <2>2, SameVoting, Zenon
  <2>3. CASE w # v
    BY <1>2, <2>1, <2>3, Zenon
  <2> QED
    BY <2>2, <2>3
<1>4. Last' = Last
  BY <1>1 DEF Last
<1>5. \A w \in Validators : ValidatorInv(c[w])'
  BY <1>3, Zenon DEF ValidatorInv, WindowInv, SlashedOnce, Known, RingOf, InWindow, ValidatorRecord, SigningInfo, W
<1>6. \A w \in Validators : Voting(w, c[w], valsets[1], valsets[2], valsets[3], Last)'
  BY <1>1, <1>3, <1>4, Zenon DEF Voting
<1> QED
  BY <1>1, <1>2, <1>5, <1>6, Zenon DEF SlashingInv

LEMMA MsgUnjailKeeps == ASSUME SlashingInv, NEW v \in Validators, MsgUnjail(v) PROVE SlashingInv'
<1> DEFINE r == c[v]
           s == [r EXCEPT !.jailed = FALSE]
<1>1. ValidatorInv(r) /\ r.found /\ Deliver(v, s)
  BY DEF SlashingInv, MsgUnjail
<1>2. /\ s \in ValidatorRecord /\ s.info = r.info /\ s.bits = r.bits /\ s.seen = r.seen /\ s.doubles = r.doubles
      /\ s.found = r.found /\ s.pubkey = r.pubkey /\ s.status = r.status /\ s.time = r.time
  BY <1>1 DEF ValidatorInv, ValidatorRecord
<1> HIDE DEF s
<1>3. ValidatorInv(s)
  BY <1>1, <1>2, MessageKeeps, Zenon DEF SameStatus, ValidatorInv, Known
<1> QED
  BY <1>1, <1>2, <1>3, DeliverKeeps, Zenon DEF SameStatus

LEMMA CreateValidatorKeeps == ASSUME SlashingInv, NEW v \in Validators, CreateValidator(v) PROVE SlashingInv'
<1> DEFINE r == c[v]
           t == [r EXCEPT !.found = TRUE, !.status = "Unbonded", !.jailed = FALSE, !.empty = FALSE]
           s == [t EXCEPT !.pubkey = TRUE]
<1>1. ValidatorInv(r) /\ ~r.found /\ Deliver(v, s)
  BY DEF SlashingInv, CreateValidator, AfterValidatorCreated
<1>2. r.status = "Unbonded"
  BY <1>1, Zenon DEF ValidatorInv, Known
<1>3. /\ t \in ValidatorRecord /\ t.info = r.info /\ t.bits = r.bits /\ t.seen = r.seen /\ t.doubles = r.doubles
      /\ t.found = TRUE /\ t.status = "Unbonded" /\ t.time = r.time
  BY <1>1 DEF ValidatorInv, ValidatorRecord
<1> HIDE DEF t
<1>4. /\ s \in ValidatorRecord /\ s.info = r.info /\ s.bits = r.bits /\ s.seen = r.seen /\ s.doubles = r.doubles
      /\ s.found = TRUE /\ s.pubkey = TRUE /\ s.status = "Unbonded" /\ s.time = r.time
  BY <1>3 DEF ValidatorRecord
<1> HIDE DEF s
<1>5. ValidatorInv(s) /\ SameStatus(r, s)
  BY <1>1, <1>2, <1>4, MessageKeeps, Zenon DEF SameStatus
<1> QED
  BY <1>1, <1>5, DeliverKeeps, Zenon

LEMMA UndelegateAllKeeps == ASSUME SlashingInv, NEW v \in Validators, UndelegateAll(v) PROVE SlashingInv'
<1> DEFINE r == c[v]
           s == [r EXCEPT !.empty = TRUE, !.jailed = TRUE]
           x == [s EXCEPT !.found = FALSE]
           y == [x EXCEPT !.pubkey = FALSE]
<1>1. ValidatorInv(r) /\ r.found /\ Deliver(v, IF s.status = "Unbonded" THEN y ELSE s)
  BY DEF SlashingInv, UndelegateAll, Removed, AfterValidatorRemoved
<1>2. /\ s \in ValidatorRecord /\ s.info = r.info /\ s.bits = r.bits /\ s.seen = r.seen /\ s.doubles = r.doubles
      /\ s.found = r.found /\ s.pubkey = r.pubkey /\ s.status = r.status /\ s.time = r.time
  BY <1>1 DEF ValidatorInv, ValidatorRecord
<1> HIDE DEF s
<1>3. ValidatorInv(s) /\ SameStatus(r, s)
  BY <1>1, <1>2, MessageKeeps, Zenon DEF SameStatus, ValidatorInv, Known
<1>4. /\ y \in ValidatorRecord /\ y.info = r.info /\ y.bits = r.bits /\ y.seen = r.seen /\ y.doubles = r.doubles
      /\ y.found = FALSE /\ y.pubkey = FALSE /\ y.status = r.status /\ y.time = r.time
  BY <1>2 DEF ValidatorRecord
<1> HIDE DEF y
<1>5. r.status = "Unbonded" => ValidatorInv(y) /\ SameStatus(r, y)
  BY <1>1, <1>4, MessageKeeps, Zenon DEF SameStatus
<1>6. CASE r.status = "Unbonded"
  BY <1>1, <1>2, <1>5, <1>6, DeliverKeeps, Zenon
<1>7. CASE r.status # "Unbonded"
  BY <1>1, <1>2, <1>3, <1>7, DeliverKeeps, Zenon
<1> QED
  BY <1>6, <1>7

LEMMA JailByOperatorKeeps == ASSUME SlashingInv, NEW v \in Validators, JailByOperator(v) PROVE SlashingInv'
<1> DEFINE r == c[v]
           s == [r EXCEPT !.jailed = TRUE]
<1>1. ValidatorInv(r) /\ r.found /\ Deliver(v, s)
  BY DEF SlashingInv, JailByOperator
<1>2. /\ s \in ValidatorRecord /\ s.info = r.info /\ s.bits = r.bits /\ s.seen = r.seen /\ s.doubles = r.doubles
      /\ s.found = r.found /\ s.pubkey = r.pubkey /\ s.status = r.status /\ s.time = r.time
  BY <1>1 DEF ValidatorInv, ValidatorRecord
<1> HIDE DEF s
<1>3. ValidatorInv(s)
  BY <1>1, <1>2, MessageKeeps, Zenon DEF SameStatus, ValidatorInv, Known
<1> QED
  BY <1>1, <1>2, <1>3, DeliverKeeps, Zenon DEF SameStatus

\* The sets move by one, and a validator that leaves the newest one starts to
\* unbond.
LEMMA EndBlockKeeps ==
    ASSUME SlashingConstants, SlashingInv, NEW B \in SUBSET Validators, EndBlock(B)
    PROVE  SlashingInv'
<1> DEFINE End(v) == AtEnd(c[v], v \in B)
<1>1. /\ phase = "deliver" /\ phase' = "begin" /\ height' = height /\ panic' = panic
      /\ c' = [v \in Validators |-> End(v)] /\ valsets' = <<valsets[2], valsets[3], B>>
      /\ \A v \in B : c[v].found
  BY DEF EndBlock
<1>2. /\ height \in Nat /\ valsets[2] \subseteq Validators /\ valsets[3] \subseteq Validators
      /\ UnbondingTime \in Nat /\ UnbondingTime >= 2
  BY DEF SlashingInv, SlashingConstants
<1>3. valsets'[1] = valsets[2] /\ valsets'[2] = valsets[3] /\ valsets'[3] = B
  BY <1>1
<1>4. Last = height - 1 /\ Last' = height
  BY <1>1 DEF Last
<1>5. ASSUME NEW v \in Validators
      PROVE  ValidatorInv(End(v)) /\ Voting(v, End(v), valsets[2], valsets[3], B, height)
  <2> DEFINE r == c[v]
             s == End(v)
  <2>1. ValidatorInv(r) /\ Voting(v, r, valsets[1], valsets[2], valsets[3], height - 1) /\ (v \in B => r.found)
    BY <1>1, <1>4 DEF SlashingInv
  <2>2. (v \in B) \in BOOLEAN
    OBVIOUS
  <2>3. /\ ValidatorInv(s)
        /\ s.status = "Bonded" <=> v \in B
        /\ v \notin B /\ r.status = "Bonded" => s.status = "Unbonding" /\ s.time = height + UnbondingTime
        /\ v \notin B /\ r.status = "Unbonding" /\ r.time > height => s = r
    BY <1>2, <2>1, <2>2, AtEndKeeps, Zenon
  <2>4. r.time \in Int
    BY <2>1 DEF ValidatorInv, ValidatorRecord
  <2> HIDE DEF r, s
  <2>5. v \in valsets[3] \ B => s.status = "Unbonding" /\ s.time >= height + UnbondingTime
    BY <1>2, <2>1, <2>3 DEF Voting
  <2>6. v \in valsets[2] \ (valsets[3] \cup B) => s.status = "Unbonding" /\ s.time >= height + UnbondingTime - 1
    <3>1. SUFFICES ASSUME v \in valsets[2], v \notin valsets[3], v \notin B
                   PROVE  s.status = "Unbonding" /\ s.time >= height + UnbondingTime - 1
      OBVIOUS
    <3>2. r.status = "Unbonding" /\ r.time >= height - 1 + UnbondingTime
      BY <2>1, <3>1 DEF Voting
    <3>3. r.time > height /\ r.time >= height + UnbondingTime - 1
      BY <1>2, <2>4, <3>2
    <3>4. s = r
      BY <2>3, <3>1, <3>2, <3>3, Zenon
    <3> QED
      BY <3>2, <3>3, <3>4, Zenon
  <2>7. Voting(v, s, valsets[2], valsets[3], B, height)
    BY <2>3, <2>5, <2>6, Zenon DEF Voting
  <2> QED
    BY <2>3, <2>7 DEF s
<1> HIDE DEF End
<1>6. c' = [v \in Validators |-> c'[v]] /\ \A v \in Validators : c'[v] = End(v)
  BY <1>1
<1>7. \A v \in Validators : ValidatorInv(c'[v]) /\ Voting(v, c'[v], valsets'[1], valsets'[2], valsets'[3], Last')
  BY <1>3, <1>4, <1>5, <1>6, Zenon
<1>8. \A v \in Validators : ValidatorInv(c[v])'
  BY <1>7, Zenon DEF ValidatorInv, WindowInv, SlashedOnce, Known, RingOf, InWindow, ValidatorRecord, SigningInfo, W
<1>9. \A v \in Validators : Voting(v, c[v], valsets[1], valsets[2], valsets[3], Last)'
  BY <1>7, Zenon DEF Voting
<1>10. height' \in Nat /\ panic' = FALSE /\ \A i \in 1 .. 3 : valsets'[i] \subseteq Validators
  BY <1>1, <1>2, <1>3 DEF SlashingInv
<1> QED
  BY <1>1, <1>6, <1>8, <1>9, <1>10, Zenon DEF SlashingInv

LEMMA SameSlashingKeeps ==
    ASSUME SlashingInv, UNCHANGED vars
    PROVE  SlashingInv'
<1>1. height' = height /\ phase' = phase /\ c' = c /\ valsets' = valsets /\ panic' = panic
  BY DEF vars
<1>2. Last' = Last
  BY <1>1 DEF Last
<1>3. \A v \in Validators : ValidatorInv(c[v])'
  <2>1. \A v \in Validators : ValidatorInv(c'[v])
    BY <1>1, Zenon DEF SlashingInv
  <2> QED
    BY <2>1, Zenon DEF ValidatorInv, WindowInv, SlashedOnce, Known, RingOf, InWindow, ValidatorRecord, SigningInfo, W
<1>4. \A v \in Validators : Voting(v, c[v], valsets[1], valsets[2], valsets[3], Last)'
  <2>1. \A v \in Validators : Voting(v, c'[v], valsets'[1], valsets'[2], valsets'[3], Last')
    BY <1>1, <1>2, Zenon DEF SlashingInv
  <2> QED
    BY <2>1, Zenon DEF Voting
<1> QED
  BY <1>1, <1>3, <1>4, Zenon DEF SlashingInv

LEMMA RestartKeepsAll ==
    ASSUME SlashingInv, Restart
    PROVE  UNCHANGED vars
<1> DEFINE Back(v) == InitGenesis([c[v] EXCEPT !.pubkey = FALSE, !.info = NoInfo, !.bits = {}], ExportGenesis(c[v]))
<1>1. c' = [v \in Validators |-> Back(v)] /\ UNCHANGED <<height, phase, valsets, panic>>
  BY DEF Restart
<1>2. \A v \in Validators : Back(v) = c[v]
  BY RestartIsIdentity DEF SlashingInv
<1>3. c = [v \in Validators |-> c[v]]
  BY DEF SlashingInv
<1> HIDE DEF Back
<1>4. c' = c
  BY <1>1, <1>2, <1>3
<1> QED
  BY <1>1, <1>4 DEF vars

LEMMA SlashingStep ==
    ASSUME SlashingConstants, SlashingInv, [Next]_vars
    PROVE  SlashingInv'
<1>1. CASE \E absent, accused \in SUBSET Validators, at \in 0..height : BeginBlocker(absent, accused, at)
  BY <1>1, BeginBlockerKeeps, Zenon
<1>2. CASE \E v \in Validators : MsgUnjail(v) \/ CreateValidator(v) \/ UndelegateAll(v) \/ JailByOperator(v)
  BY <1>2, MsgUnjailKeeps, CreateValidatorKeeps, UndelegateAllKeeps, JailByOperatorKeeps, Zenon
<1>3. CASE \E B \in SUBSET Validators : EndBlock(B)
  BY <1>3, EndBlockKeeps, Zenon
<1>4. CASE Restart
  BY <1>4, RestartKeepsAll, SameSlashingKeeps, Zenon
<1>5. CASE UNCHANGED vars
  BY <1>5, SameSlashingKeeps, Zenon
<1> QED
  BY <1>1, <1>2, <1>3, <1>4, <1>5, Zenon DEF Next

(***************************************************************************)
(* However votes, jails, removals, new validators and restarts of the      *)
(* chain follow each other, the counter of HandleValidatorSignature is the *)
(* number of misses among the last SignedBlocksWindow votes since the last *)
(* reset, and a vote of the last commit always finds the key and the       *)
(* signing info of its validator.                                          *)
(***************************************************************************)
THEOREM MissedIsAlwaysWindow ==
    ASSUME SlashingConstants
    PROVE  Spec => [](MissedIsWindow /\ VotesFound)
<1>1. Init => SlashingInv
  BY SlashingInitially
<1>2. SlashingInv /\ [Next]_vars => SlashingInv'
  BY SlashingStep
<1>3. SlashingInv => MissedIsWindow /\ VotesFound
  BY DEF SlashingInv, ValidatorInv, WindowInv, MissedIsWindow, VotesFound
<1> QED
  BY <1>1, <1>2, <1>3, PTL DEF Spec

(***************************************************************************)
(* HandleDoubleSign slashes a validator at most once, whatever evidence    *)
(* arrives and whatever happens to the validator in between.               *)
(***************************************************************************)
THEOREM DoubleSignsAreSlashedOnce ==
    ASSUME SlashingConstants
    PROVE  Spec => []DoubleSignSlashedOnce
<1>1. Init => SlashingInv
  BY SlashingInitially
<1>2. SlashingInv /\ [Next]_vars => SlashingInv'
  BY SlashingStep
<1>3. SlashingInv => DoubleSignSlashedOnce
  BY DEF SlashingInv, ValidatorInv, SlashedOnce, DoubleSignSlashedOnce
<1> QED
  BY <1>1, <1>2, <1>3, PTL DEF Spec

=============================================================================
