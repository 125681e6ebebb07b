----------------------------- MODULE StoreKeys ------------------------------
(***************************************************************************)
(* How records are found in a store by the bytes of their keys: the ranges *)
(* of keys (store/types/utils.go), the stores that wrap another store      *)
(* (store/prefix, store/gaskv, store/list, store/firstlast.go), and the    *)
(* key layouts of the keepers of staking, distribution and custodian       *)
(* units.  Indexes hold no value of their own: what is asked for is found  *)
(* by iterating over the keys with a prefix, in their order.  The modules  *)
(* of the keepers work on the records; here is how they are found again.   *)
(*                                                                         *)
(* A key is a sequence of bytes 0 .. Base - 1, ordered as bytes.Compare    *)
(* does; Base - 1 is the byte 255 of the code.  A store is a function from *)
(* its keys to what is stored.                                             *)
(***************************************************************************)
EXTENDS Integers, FiniteSets, SequencesExt

CONSTANTS Base,
          Width,        \* bytes of a number in a key
          nil,          \* the nil slice
          ReadCostPerByte, IterNextCostFlat,
          AddrLen,      \* bytes of an address
          Delegators, Validators,   \* addresses
          Tokens,       \* tokens a validator may have
          PowerReduction, \* tokens of one unit of consensus power
          Heights,      \* heights at which epochs may start
          AminoCacheSize,
          Numbers,      \* heights and periods of distribution
          Kinds,        \* "outstanding", "current", "commission"
          Addresses,    \* of custodian units
          Symbols,      \* strings of bytes without the separator
          Chains,
          ExtAddress,     \* the address made of the custody key of a unit, on every chain
          ModuleAddresses \* addresses of module accounts

VARIABLES store,        \* from keys to what is stored
          cache,        \* encoded validators of validatorCache, the oldest first
          books         \* what was recorded, and how often the store was exported

vars == <<store, cache, books>>

LittleEndian(n) == [i \in 1 .. Width |-> (n \div Base^(i - 1)) % Base]
BigEndian(n) == [i \in 1 .. Width |-> (n \div Base^(Width - i)) % Base]

Before(k1, k2) ==
    \/ IsStrictPrefix(k1, k2)
    \/ \E i \in 1 .. Len(k1) : /\ i =< Len(k2) /\ k1[i] < k2[i]
                               /\ SubSeq(k1, 1, i - 1) = SubSeq(k2, 1, i - 1)

Sorted(keys) == SetToSortSeq(keys, Before)
PrefixKeys(s, prefix) == Sorted({k \in DOMAIN s : IsPrefix(prefix, k)})
RangeKeys(s, from, to) == Sorted({k \in DOMAIN s : ~Before(k, from) /\ Before(k, to)})

One(key, value) == [k \in {key} |-> value]
Put(s, entries) == [k \in DOMAIN s \cup DOMAIN entries |-> IF k \in DOMAIN entries THEN entries[k] ELSE s[k]]
Drop(s, keys) == [k \in DOMAIN s \ keys |-> s[k]]

\* Domains are half open, and a nil end is no end.
InDomain(k, start, end) == (start = nil \/ ~Before(k, start)) /\ (end = nil \/ Before(k, end))

Iterator(st, start, end) == SetToSortSeq({k \in DOMAIN st : InDomain(k, start, end)}, Before)

ReverseIterator(st, start, end) == Reverse(Iterator(st, start, end))

-----------------------------------------------------------------------------
(* store/types/utils.go *)

\* The bytes 255 at the end are cut off and the byte before them is increased.
PrefixEndBytes(prefix) ==
    LET small == {i \in 1..Len(prefix) : prefix[i] # Base - 1}
        last == CHOOSE i \in small : \A j \in small : j <= i
    IN  IF small = {} THEN nil
        ELSE [SubSeq(prefix, 1, last) EXCEPT ![last] = @ + 1]

KVStorePrefixIterator(st, prefix) == Iterator(st, prefix, PrefixEndBytes(prefix))

InclusiveEndBytes(k) == Append(k, 0)

HasPrefix(k, prefix) == IsPrefix(prefix, k)

(***************************************************************************)
(* The last result of DiffKVStores, for values that are numbers of bytes:  *)
(* the stores, walked side by side, are "equal" when they agree in their   *)
(* keys, and in their values except below the prefixes to skip.  A store   *)
(* that is at its end has a nil key and a nil value, which equal empty     *)
(* ones.  The key is cut to the length of a prefix: a shorter one panics.  *)
(***************************************************************************)
KeyAt(keys, i) == IF i =< Len(keys) THEN keys[i] ELSE <<>>
ValueAt(s, keys, i) == IF i =< Len(keys) THEN s[keys[i]] ELSE 0

DiffKVStores(a, b, skip) ==
    LET ka == Iterator(a, nil, nil)
        kb == Iterator(b, nil, nil)
        sameKey(i) == KeyAt(ka, i) = KeyAt(kb, i)
        tooShort(i) == \E p \in skip : Len(KeyAt(ka, i)) < Len(p)
        skipped(i) == \E p \in skip : HasPrefix(KeyAt(ka, i), p)
        stops == {i \in DOMAIN ka \cup DOMAIN kb :
                      \/ ~sameKey(i) \/ tooShort(i)
                      \/ ~skipped(i) /\ ValueAt(a, ka, i) # ValueAt(b, kb, i)}
    IN  IF stops = {} THEN "equal"
        ELSE LET i == Min(stops) IN IF sameKey(i) /\ tooShort(i) THEN "panic" ELSE "different"

-----------------------------------------------------------------------------
(* store/prefix *)

cloneAppend(prefix, k) == IF k = nil THEN prefix ELSE prefix \o k

stripPrefix(k, prefix) == SubSeq(k, Len(prefix) + 1, Len(k))

\* The keys that prefixIterator passes: it ends at the first key without the prefix.
prefixIterator(prefix, keys) ==
    LET n == CHOOSE n \in 0..Len(keys) :
                 /\ \A i \in 1..n : HasPrefix(keys[i], prefix)
                 /\ n = Len(keys) \/ ~HasPrefix(keys[n + 1], prefix)
    IN  [i \in 1..n |-> stripPrefix(keys[i], prefix)]

NewEnd(prefix, end) == IF end = nil THEN PrefixEndBytes(prefix) ELSE cloneAppend(prefix, end)

PrefixIterator(st, prefix, start, end) ==
    prefixIterator(prefix, Iterator(st, cloneAppend(prefix, start), NewEnd(prefix, end)))

PrefixReverse(st, prefix, start, end) ==
    prefixIterator(prefix, ReverseIterator(st, cloneAppend(prefix, start), NewEnd(prefix, end)))

-----------------------------------------------------------------------------
(* store/gaskv *)

consumeSeekGas(length) == ReadCostPerByte * length + IterNextCostFlat

Total(Gas(_), keys) == FoldLeft(LAMBDA sum, k : sum + Gas(k), 0, keys)

\* The gas of opening an iterator over keys and calling Next n times: opening
\* charges for the first item, and Next for the item it leaves.
IterationGas(st, keys, n) ==
    IF keys = <<>> THEN 0
    ELSE consumeSeekGas(st[keys[1]]) + Total(LAMBDA k : consumeSeekGas(st[k]), SubSeq(keys, 1, n))

-----------------------------------------------------------------------------
(* store/list *)

LengthKey == <<0>>

\* The index in Width digits, with leading zeros, so that the keys are in the order of the indices.
ElemKey(index) == <<1>> \o [d \in 1..Width |-> (index \div Base^(Width - d)) % Base]

ListLen(st) == IF LengthKey \in DOMAIN st THEN st[LengthKey] ELSE 0

ListPush(st, v) == Put(Put(st, One(ElemKey(ListLen(st)), v)), One(LengthKey, ListLen(st) + 1))

ListDelete(st, index) == [x \in DOMAIN st \ {ElemKey(index)} |-> st[x]]

\* The values that Iterate passes to its callback, in order.
ListIterate(st) ==
    LET keys == KVStorePrefixIterator(st, <<1>>) IN [i \in DOMAIN keys |-> st[keys[i]]]

-----------------------------------------------------------------------------
(* store/firstlast.go *)

First(st, start, end) ==
    LET keys == Iterator(st, start, end) IN IF keys = <<>> THEN nil ELSE keys[1]

-----------------------------------------------------------------------------
(***************************************************************************)
(* x/staking                                                               *)
(***************************************************************************)
LastValidatorPowerKey == <<17>>
ValidatorsKey == <<33>>
ValidatorsByPowerIndexKey == <<35>>
DelegationKey == <<49>>
UnbondingDelegationKey == <<50>>
UnbondingDelegationByValIndexKey == <<51>>
RedelegationKey == <<52>>
RedelegationByValSrcIndexKey == <<53>>
RedelegationByValDstIndexKey == <<54>>
EpochByHeightKey == <<98>>

\* A slip in Uint64ToBigEndian: the lowest byte comes first.
LowestFirst(n) == LittleEndian(n)

Uint64ToBigEndian(n) == BigEndian(n)

Part(key, i) == SubSeq(key, 2 + (i - 1) * AddrLen, 1 + i * AddrLen)
Inverted(address) == [i \in 1 .. Len(address) |-> Base - 1 - address[i]]

GetLastValidatorPowerKey(v) == LastValidatorPowerKey \o v
AddressFromLastValidatorPowerKey(key) == Tail(key)
GetValidatorKey(v) == ValidatorsKey \o v

TokensToConsensusPower(tokens) == tokens \div PowerReduction

\* The power of a validator, then its address with all bits turned: of two
\* validators of one power the lower address ranks higher.
getValidatorPowerRank(v, tokens) ==
    ValidatorsByPowerIndexKey \o Uint64ToBigEndian(TokensToConsensusPower(tokens)) \o Inverted(v)
ParseValidatorPowerRankKey(key) == Inverted(SubSeq(key, 2 + Width, Len(key)))

GetDelegationsKey(d) == DelegationKey \o d
GetDelegationKey(d, v) == GetDelegationsKey(d) \o v

GetUBDsKey(d) == UnbondingDelegationKey \o d
GetUBDKey(d, v) == GetUBDsKey(d) \o v
GetUBDsByValIndexKey(v) == UnbondingDelegationByValIndexKey \o v
GetUBDByValIndexKey(d, v) == GetUBDsByValIndexKey(v) \o d

GetUBDKeyFromValIndexKey(key) == GetUBDKey(Part(key, 2), Part(key, 1))

GetREDsKey(d) == RedelegationKey \o d
GetREDKey(d, src, dst) == GetREDsKey(d) \o src \o dst
GetREDsFromValSrcIndexKey(src) == RedelegationByValSrcIndexKey \o src
GetREDByValSrcIndexKey(d, src, dst) == GetREDsFromValSrcIndexKey(src) \o d \o dst
GetREDsToValDstIndexKey(dst) == RedelegationByValDstIndexKey \o dst
GetREDByValDstIndexKey(d, src, dst) == GetREDsToValDstIndexKey(dst) \o d \o src
GetREDsByDelToValDstIndexKey(d, dst) == GetREDsToValDstIndexKey(dst) \o d
GetREDKeyFromValSrcIndexKey(key) == GetREDKey(Part(key, 2), Part(key, 1), Part(key, 3))

GetEpochByHeightKey(height) == EpochByHeightKey \o Uint64ToBigEndian(height)

-----------------------------------------------------------------------------
(***************************************************************************)
(* The store and its iterators                                             *)
(***************************************************************************)
\* What is not there has no addresses: the reader would panic on it.
Missing == [del |-> <<>>, val |-> <<>>, src |-> <<>>, dst |-> <<>>]

ValuesAt(keys) == [i \in DOMAIN keys |-> IF keys[i] \in DOMAIN store THEN store[keys[i]] ELSE Missing]
FirstOf(list, max) == SubSeq(list, 1, IF Len(list) < max THEN Len(list) ELSE max)

GetDelegatorDelegations(d, max) == FirstOf(ValuesAt(PrefixKeys(store, GetDelegationsKey(d))), max)
GetAllDelegations == ValuesAt(PrefixKeys(store, DelegationKey))
GetValidatorDelegations(v) == SelectSeq(GetAllDelegations, LAMBDA del : del.val = v)
GetUnbondingDelegations(d, max) == FirstOf(ValuesAt(PrefixKeys(store, GetUBDsKey(d))), max)

\* The index is read, and the record of each of its keys; a missing record panics.
ThroughUBDIndex(keys) == [i \in DOMAIN keys |-> GetUBDKeyFromValIndexKey(keys[i])]
GetUnbondingDelegationsFromValidator(v) == ValuesAt(ThroughUBDIndex(PrefixKeys(store, GetUBDsByValIndexKey(v))))

GetRedelegations(d, max) == FirstOf(ValuesAt(PrefixKeys(store, GetREDsKey(d))), max)
ThroughREDIndex(keys) == [i \in DOMAIN keys |-> GetREDKeyFromValSrcIndexKey(keys[i])]
GetRedelegationsFromSrcValidator(v) == ValuesAt(ThroughREDIndex(PrefixKeys(store, GetREDsFromValSrcIndexKey(v))))
HasReceivingRedelegation(d, v) == PrefixKeys(store, GetREDsByDelToValDstIndexKey(d, v)) /= <<>>

ValidatorsPowerStoreIterator == Reverse(PrefixKeys(store, ValidatorsByPowerIndexKey))
GetAllValidators == ValuesAt(PrefixKeys(store, ValidatorsKey))
GetLastValidators == LET keys == PrefixKeys(store, LastValidatorPowerKey)
                     IN  [i \in DOMAIN keys |-> store[GetValidatorKey(AddressFromLastValidatorPowerKey(keys[i]))]]
GetBondedValidatorsByPower(max) ==
    LET ranked == ValuesAt(ValidatorsPowerStoreIterator)
        found == [i \in DOMAIN ranked |-> store[GetValidatorKey(ranked[i])]]
    IN  FirstOf(SelectSeq(found, LAMBDA val : val.bonded), max)

\* GetEpochByHeight: the last key before that of the next height; 1 when there is none.
GetEpochByHeight(height) ==
    LET keys == RangeKeys(store, EpochByHeightKey, GetEpochByHeightKey(height + 1))
    IN  IF keys = <<>> THEN 1 ELSE store[keys[Len(keys)]]

-----------------------------------------------------------------------------
(***************************************************************************)
(* Delegations, unbondings and redelegations                               *)
(***************************************************************************)
Record(s, name, value) == store' = s /\ books' = [books EXCEPT ![name] = value] /\ UNCHANGED cache

SetDelegation(d, v) ==
    Record(Put(store, One(GetDelegationKey(d, v), [del |-> d, val |-> v])), "dels", books.dels \cup {<<d, v>>})
RemoveDelegation(d, v) ==
    <<d, v>> \in books.dels /\ Record(Drop(store, {GetDelegationKey(d, v)}), "dels", books.dels \ {<<d, v>>})

SetUnbondingDelegation(d, v) ==
    Record(Put(Put(store, One(GetUBDKey(d, v), [del |-> d, val |-> v])), One(GetUBDByValIndexKey(d, v), <<>>)),
           "ubds", books.ubds \cup {<<d, v>>})
RemoveUnbondingDelegation(d, v) ==
    /\ <<d, v>> \in books.ubds
    /\ Record(Drop(store, {GetUBDKey(d, v), GetUBDByValIndexKey(d, v)}), "ubds", books.ubds \ {<<d, v>>})

REDIndexKeys(d, src, dst) == {GetREDByValSrcIndexKey(d, src, dst), GetREDByValDstIndexKey(d, src, dst)}
SetRedelegation(d, src, dst) ==
    Record(Put(Put(store, One(GetREDKey(d, src, dst), [del |-> d, src |-> src, dst |-> dst])),
               [k \in REDIndexKeys(d, src, dst) |-> <<>>]),
           "reds", books.reds \cup {<<d, src, dst>>})

RemoveRedelegation(d, src, dst) ==
    /\ <<d, src, dst>> \in books.reds
    /\ Record(Drop(store, {GetREDKey(d, src, dst)} \cup REDIndexKeys(d, src, dst)),
              "reds", books.reds \ {<<d, src, dst>>})

-----------------------------------------------------------------------------
(***************************************************************************)
(* Validators, the powers of the last block, and epochs                    *)
(***************************************************************************)
Indexed(s, val) == Put(Put(s, One(GetValidatorKey(val.address), val)),
                       One(getValidatorPowerRank(val.address, val.tokens), val.address))
Known(v) == GetValidatorKey(v) \in DOMAIN store
Stored(v) == store[GetValidatorKey(v)]

\* A validator is created, or its tokens change: the old place in the index is given up first.
UpdateTokens(v, tokens) ==
    LET old == IF Known(v) THEN {getValidatorPowerRank(v, Stored(v).tokens)} ELSE {}
        val == [address |-> v, tokens |-> tokens, bonded |-> Known(v) /\ Stored(v).bonded]
    IN  Record(Indexed(Drop(store, old), val), "vals", Put(books.vals, One(v, val)))

\* At the end of a block a validator is bonded with its power, or leaves.
SetLastValidatorPower(v) ==
    LET val == [Stored(v) EXCEPT !.bonded = TRUE]
    IN  /\ Known(v)
        /\ Record(Put(Put(store, One(GetValidatorKey(v), val)), One(GetLastValidatorPowerKey(v), TokensToConsensusPower(val.tokens))),
                  "vals", [books.vals EXCEPT ![v] = val])

DeleteLastValidatorPower(v) ==
    LET val == [Stored(v) EXCEPT !.bonded = FALSE]
    IN  /\ Known(v)
        /\ Record(Put(Drop(store, {GetLastValidatorPowerKey(v)}), One(GetValidatorKey(v), val)),
                  "vals", [books.vals EXCEPT ![v] = val])

SetEpochByHeight(height) ==
    /\ \A e \in books.epochs : e < height
    /\ Record(Put(store, One(GetEpochByHeightKey(height), Cardinality(books.epochs) + 1)),
              "epochs", books.epochs \cup {height})

\* Decoded validators are kept by their encoding, which stands for all of the record.
CacheKey(val) == val

InCache(list, val) == {i \in DOMAIN list : CacheKey(list[i]) = CacheKey(val)}

\* GetValidator: what it returns, and the cache after it.  The list and the map
\* of the cache hold the same validators, so that the list stands for both.
Returned(v) == LET hit == InCache(cache, Stored(v))
               IN  IF hit = {} THEN Stored(v) ELSE cache[CHOOSE i \in hit : TRUE]
GetValidator(v) ==
    LET added == Append(cache, Stored(v))
    IN  /\ Known(v) /\ InCache(cache, Stored(v)) = {}
        /\ cache' = IF Len(added) > AminoCacheSize THEN Tail(added) ELSE added
        /\ UNCHANGED <<store, books>>

StakingStep ==
    \/ \E d \in Delegators, v \in Validators :
        \/ SetDelegation(d, v) \/ RemoveDelegation(d, v)
        \/ SetUnbondingDelegation(d, v) \/ RemoveUnbondingDelegation(d, v)
        \/ \E dst \in Validators \ {v} : SetRedelegation(d, v, dst) \/ RemoveRedelegation(d, v, dst)
    \/ \E v \in Validators :
        \/ \E tokens \in Tokens : UpdateTokens(v, tokens)
        \/ SetLastValidatorPower(v) \/ DeleteLastValidatorPower(v) \/ GetValidator(v)
    \/ \E height \in Heights : SetEpochByHeight(height)

-----------------------------------------------------------------------------
Pairs(list) == {<<list[i].del, list[i].val>> : i \in DOMAIN list}
Triples(list) == {<<list[i].del, list[i].src, list[i].dst>> : i \in DOMAIN list}
Many == 9

(***************************************************************************)
(* Whatever way delegations and unbondings are looked up, by delegator, by *)
(* validator through a scan or through an index, what is found is what was *)
(* recorded.                                                               *)
(***************************************************************************)
BondsFound ==
    /\ \A d \in Delegators :
        /\ Pairs(GetDelegatorDelegations(d, Many)) = {p \in books.dels : p[1] = d}
        /\ Pairs(GetUnbondingDelegations(d, Many)) = {p \in books.ubds : p[1] = d}
        /\ Len(GetDelegatorDelegations(d, 1)) =< 1
    /\ \A v \in Validators :
        /\ Pairs(GetValidatorDelegations(v)) = {p \in books.dels : p[2] = v}
        /\ Pairs(GetUnbondingDelegationsFromValidator(v)) = {p \in books.ubds : p[2] = v}

(***************************************************************************)
(* Redelegations are found by delegator, by source and by destination; a   *)
(* redelegation that is over leaves no trace in either index, which would  *)
(* forbid its delegator the next one.                                      *)
(***************************************************************************)
RedelegationsFound ==
    /\ \A d \in Delegators : Triples(GetRedelegations(d, Many)) = {r \in books.reds : r[1] = d}
    /\ \A v \in Validators :
        /\ Triples(GetRedelegationsFromSrcValidator(v)) = {r \in books.reds : r[2] = v}
        /\ \A d \in Delegators : HasReceivingRedelegation(d, v) <=> \E r \in books.reds : r[1] = d /\ r[3] = v

(***************************************************************************)
(* Iterating backwards over the power index meets every validator once, by *)
(* falling power, and of equal power the lower address first, whatever     *)
(* tokens they have above it; also when tokens change and power does not.  *)
(***************************************************************************)
RankedByPower ==
    LET ranked == ValidatorsPowerStoreIterator
        address(i) == ParseValidatorPowerRankKey(ranked[i])
        power(i) == TokensToConsensusPower(books.vals[address(i)].tokens)
    IN  /\ {address(i) : i \in DOMAIN ranked} = DOMAIN books.vals
        /\ Len(ranked) = Cardinality(DOMAIN books.vals)
        /\ \A i, j \in DOMAIN ranked : i < j =>
            power(i) > power(j) \/ (power(i) = power(j) /\ Before(address(i), address(j)))

(***************************************************************************)
(* The validators of the last block, those bonded in the order of power,   *)
(* and all of them, are the records as they were last written.             *)
(***************************************************************************)
BondedFound ==
    LET bonded == {val \in Range(books.vals) : val.bonded}
    IN  /\ Range(GetLastValidators) = bonded
        /\ Range(GetBondedValidatorsByPower(Many)) = bonded
        /\ Range(GetAllValidators) = Range(books.vals)

(***************************************************************************)
(* GetValidator returns the record as it is stored, from the cache or not, *)
(* and the cache never outgrows its size.                                  *)
(***************************************************************************)
CacheCurrent ==
    /\ \A v \in DOMAIN books.vals : Returned(v) = books.vals[v]
    /\ Len(cache) =< AminoCacheSize

(***************************************************************************)
(* The epoch of a height is the last one that started by then, across the  *)
(* heights at which a higher byte changes.                                 *)
(***************************************************************************)
EpochFound ==
    \A height \in 0 .. Base^Width - 2 :
        LET begun == {e \in books.epochs : e =< height}
        IN  GetEpochByHeight(height) = IF begun = {} THEN 1 ELSE Cardinality(begun)

-----------------------------------------------------------------------------
(***************************************************************************)
(* x/distribution: slash events in the order of heights, historical        *)
(* rewards by period, records of validators, and withdraw addresses.       *)
(***************************************************************************)
KindPrefix == [outstanding |-> <<2>>, current |-> <<6>>, commission |-> <<7>>]
DelegatorWithdrawAddrPrefix == <<3>>
ValidatorHistoricalRewardsPrefix == <<5>>
ValidatorSlashEventPrefix == <<8>>

\* GetValidatorOutstandingRewardsKey, GetValidatorCurrentRewardsKey and
\* GetValidatorAccumulatedCommissionKey, and the address in such a key.
GetRecordKey(kind, v) == KindPrefix[kind] \o v
RecordAddress(key) == Tail(key)

GetDelegatorWithdrawAddrKey(d) == DelegatorWithdrawAddrPrefix \o d
GetDelegatorWithdrawInfoAddress(key) == Tail(key)

\* Periods of historical rewards are little endian, on both ways.
GetValidatorHistoricalRewardsPrefix(v) == ValidatorHistoricalRewardsPrefix \o v
GetValidatorHistoricalRewardsKey(v, period) == GetValidatorHistoricalRewardsPrefix(v) \o LittleEndian(period)

Number(bytes) == CHOOSE n \in 0 .. Base^Width - 1 : BigEndian(n) = bytes

GetValidatorHistoricalRewardsAddressPeriod(key) ==
    <<SubSeq(key, 2, 1 + AddrLen), Number(Reverse(SubSeq(key, 2 + AddrLen, Len(key))))>>

GetValidatorSlashEventPrefix(v) == ValidatorSlashEventPrefix \o v
GetValidatorSlashEventKeyPrefix(v, height) == ValidatorSlashEventPrefix \o v \o BigEndian(height)
GetValidatorSlashEventKey(v, height, period) == GetValidatorSlashEventKeyPrefix(v, height) \o BigEndian(period)
GetValidatorSlashEventAddressHeight(key) ==
    <<SubSeq(key, 2, 1 + AddrLen), Number(SubSeq(key, 2 + AddrLen, 1 + AddrLen + Width))>>

-----------------------------------------------------------------------------
(***************************************************************************)
(* Reading                                                                 *)
(***************************************************************************)
IterateRecords(kind) == {RecordAddress(k) : k \in Range(PrefixKeys(store, KindPrefix[kind]))}

GetDelegatorWithdrawAddr(d) ==
    IF GetDelegatorWithdrawAddrKey(d) \in DOMAIN store THEN store[GetDelegatorWithdrawAddrKey(d)] ELSE d
IterateDelegatorWithdrawAddrs ==
    {<<GetDelegatorWithdrawInfoAddress(k), store[k]>> : k \in Range(PrefixKeys(store, DelegatorWithdrawAddrPrefix))}

IterateValidatorHistoricalRewards ==
    {GetValidatorHistoricalRewardsAddressPeriod(k) : k \in Range(PrefixKeys(store, ValidatorHistoricalRewardsPrefix))}

IterateValidatorSlashEventsBetween(v, from, to) ==
    RangeKeys(store, GetValidatorSlashEventKeyPrefix(v, from), GetValidatorSlashEventKeyPrefix(v, to + 1))

IterateValidatorSlashEvents == PrefixKeys(store, ValidatorSlashEventPrefix)

-----------------------------------------------------------------------------
(***************************************************************************)
(* Writing                                                                 *)
(***************************************************************************)
SetRecord(kind, v) ==
    Record(Put(store, One(GetRecordKey(kind, v), kind)), "records", books.records \cup {<<kind, v>>})
DeleteRecord(kind, v) == Record(Drop(store, {GetRecordKey(kind, v)}), "records", books.records \ {<<kind, v>>})

SetDelegatorWithdrawAddr(d, to) ==
    Record(Put(store, One(GetDelegatorWithdrawAddrKey(d), to)), "withdraw", [books.withdraw EXCEPT ![d] = to])

SetValidatorHistoricalRewards(v, period) ==
    Record(Put(store, One(GetValidatorHistoricalRewardsKey(v, period), "rewards")),
           "historical", books.historical \cup {<<v, period>>})
DeleteValidatorHistoricalReward(v, period) ==
    Record(Drop(store, {GetValidatorHistoricalRewardsKey(v, period)}),
           "historical", books.historical \ {<<v, period>>})

DeleteValidatorHistoricalRewards(v) ==
    Record(Drop(store, Range(PrefixKeys(store, GetValidatorHistoricalRewardsPrefix(v)))),
           "historical", {h \in books.historical : h[1] /= v})
DeleteAllValidatorHistoricalRewards ==
    Record(Drop(store, Range(PrefixKeys(store, ValidatorHistoricalRewardsPrefix))), "historical", {})

SetValidatorSlashEvent(v, height, period) ==
    Record(Put(store, One(GetValidatorSlashEventKey(v, height, period), period)),
           "events", books.events \cup {<<v, height, period>>})
DeleteValidatorSlashEvents(v) ==
    Record(Drop(store, Range(PrefixKeys(store, GetValidatorSlashEventPrefix(v)))),
           "events", {e \in books.events : e[1] /= v})
DeleteAllValidatorSlashEvents ==
    Record(Drop(store, Range(PrefixKeys(store, ValidatorSlashEventPrefix))), "events", {})

DistributionStep ==
    \/ \E v \in Validators :
        \/ \E kind \in Kinds : SetRecord(kind, v) \/ DeleteRecord(kind, v)
        \/ \E period \in Numbers :
            \/ SetValidatorHistoricalRewards(v, period) \/ DeleteValidatorHistoricalReward(v, period)
            \/ \E height \in Numbers : SetValidatorSlashEvent(v, height, period)
        \/ DeleteValidatorHistoricalRewards(v) \/ DeleteValidatorSlashEvents(v)
    \/ \E d, to \in Delegators : SetDelegatorWithdrawAddr(d, to)
    \/ DeleteAllValidatorHistoricalRewards \/ DeleteAllValidatorSlashEvents

-----------------------------------------------------------------------------
(***************************************************************************)
(* The slash events of a validator between two heights, both included, are *)
(* found, no other, in the order of height and then period, which is the   *)
(* order in which rewards have to be cut.                                  *)
(***************************************************************************)
SlashEventsBetween ==
    \A v \in Validators : \A from, to \in Numbers :
        LET keys == IterateValidatorSlashEventsBetween(v, from, to)
            height(i) == GetValidatorSlashEventAddressHeight(keys[i])[2]
            period(i) == store[keys[i]]
        IN  /\ {<<v, height(i), period(i)>> : i \in DOMAIN keys}
                   = {e \in books.events : e[1] = v /\ from =< e[2] /\ e[2] =< to}
            /\ \A i, j \in DOMAIN keys : i < j =>
                height(i) < height(j) \/ (height(i) = height(j) /\ period(i) < period(j))

(***************************************************************************)
(* Historical rewards are found with the validator and the period they     *)
(* were recorded for, and go one by one, by validator or all together.     *)
(***************************************************************************)
HistoricalFound == IterateValidatorHistoricalRewards = books.historical

(***************************************************************************)
(* Records of one kind are not met among those of another, and a delegator *)
(* without a withdraw address of its own withdraws to itself.              *)
(***************************************************************************)
RecordsFound ==
    /\ \A kind \in Kinds : IterateRecords(kind) = {v \in Validators : <<kind, v>> \in books.records}
    /\ \A d \in Delegators : GetDelegatorWithdrawAddr(d) = books.withdraw[d]
    /\ \A pair \in IterateDelegatorWithdrawAddrs : books.withdraw[pair[1]] = pair[2]
    /\ Len(IterateValidatorSlashEvents) = Cardinality(books.events)

-----------------------------------------------------------------------------
(***************************************************************************)
(* x/custodianunit: units by address, the index of operation units by      *)
(* symbol, and addresses on other chains; and x/genaccounts.               *)
(***************************************************************************)
Sep == <<1>>
AddressStoreKeyPrefix == <<1>>
OpCUPrefix == <<2>>
ExtAddressPrefix == <<9>>

AddressStoreKey(a) == AddressStoreKeyPrefix \o a

OpCUKeyPrefix(symbol) == OpCUPrefix \o symbol \o Sep
OpCUKey(symbol, a) == OpCUKeyPrefix(symbol) \o a
AddressFromOpCUKey(k) == SubSeq(k, Len(k) - AddrLen + 1, Len(k))

ExtAddressKey(chain, ext) == ExtAddressPrefix \o chain \o Sep \o ext

-----------------------------------------------------------------------------
(***************************************************************************)
(* BaseCU and the keeper                                                   *)
(***************************************************************************)
BaseCU(type, a) == [type |-> type, address |-> a, pub |-> FALSE, seq |-> 0, symbol |-> <<>>, module |-> FALSE]

WithPrefix(s, p) == {k \in DOMAIN s : IsPrefix(p, k)}

KnownCU(s, a) == AddressStoreKey(a) \in DOMAIN s
getCU(s, a) == s[AddressStoreKey(a)]
GetOrNewCU(s, a) == IF KnownCU(s, a) THEN getCU(s, a) ELSE BaseCU("user", a)

\* SetCU: an operation unit is put into the index of its symbol.
SetCU(s, cu) ==
    LET indexed == IF cu.type = "op" THEN Put(s, One(OpCUKey(cu.symbol, cu.address), cu.address)) ELSE s
    IN  Put(indexed, One(AddressStoreKey(cu.address), cu))

\* getOpAddresses and GetOpCUs; without a symbol, all of them.
getOpAddresses(s, prefix) == {AddressFromOpCUKey(k) : k \in WithPrefix(s, prefix)}
GetOpCUs(s, symbol) ==
    {getCU(s, a) : a \in getOpAddresses(s, IF symbol = <<>> THEN OpCUPrefix ELSE OpCUKeyPrefix(symbol))}

GetAllCUs(s) == {s[k] : k \in WithPrefix(s, AddressStoreKeyPrefix)}

-----------------------------------------------------------------------------
(***************************************************************************)
(* What handlers do with it                                                *)
(***************************************************************************)
\* Of each unit the book has how often it signed; it also has the operation units
\* and the addresses on other chains that were recorded since the last export.
Signed(a) == IF a \in DOMAIN books.units THEN books.units[a] ELSE 0
WriteCU(s, a, signed) == Record(s, "units", Put(books.units, One(a, signed)))
WriteAlso(s, a, name, what) ==
    /\ store' = s /\ UNCHANGED cache
    /\ books' = [books EXCEPT !.units = Put(@, One(a, Signed(a))), ![name] = @ \cup {<<what, a>>}]

\* The ante handler: the public key of the signer is set and the sequence goes
\* up.  Operation units cannot sign; nobody has a key for the address of a module.
CheckCUType(a) == KnownCU(store, a) => getCU(store, a).type /= "op"
Sign(a) ==
    LET cu == GetOrNewCU(store, a)
    IN  /\ CheckCUType(a) /\ a \notin ModuleAddresses
        /\ WriteCU(SetCU(store, [cu EXCEPT !.pub = TRUE, !.seq = @ + 1]), a, Signed(a) + 1)

\* MsgKeyGen creates the unit it is for when it is not there.
CreateToCU(a) == ~KnownCU(store, a) /\ WriteCU(SetCU(store, GetOrNewCU(store, a)), a, 0)

NewOpCUWithAddress(symbol, a) ==
    ~KnownCU(store, a) /\ WriteAlso(SetCU(store, [BaseCU("op", a) EXCEPT !.symbol = symbol]), a, "ops", symbol)

\* Keys are generated for one unit each, and their addresses are written over what is there.
GetCUFromExtAddress(s, chain, ext) ==
    IF ExtAddressKey(chain, ext) \in DOMAIN s THEN s[ExtAddressKey(chain, ext)] ELSE nil
SetExtAddressWithCU(chain, a) ==
    KnownCU(store, a) /\ WriteAlso(Put(store, One(ExtAddressKey(chain, ExtAddress[a]), a)), a, "exts", chain)

\* GetModuleAccount of x/supply creates the account of a module at its first use.
GetModuleAccountAndPermissions(a) ==
    /\ a \in ModuleAddresses /\ ~KnownCU(store, a)
    /\ WriteCU(SetCU(store, [BaseCU("user", a) EXCEPT !.module = TRUE]), a, 0)

-----------------------------------------------------------------------------
(***************************************************************************)
(* ExportGenesis and InitGenesis of x/genaccounts: an address, a sequence, *)
(* and whose module account it is.                                         *)
(***************************************************************************)
NewGenesisCUI(cu) == [address |-> cu.address, seq |-> cu.seq, module |-> cu.module]
ToCU(ga) == [BaseCU("user", ga.address) EXCEPT !.seq = ga.seq, !.module = ga.module]

ValidateGenesis(gas) == \A x, y \in gas : x.address = y.address => x = y

Restart ==
    LET gas == {NewGenesisCUI(cu) : cu \in GetAllCUs(store)}
    IN  /\ ValidateGenesis(gas)
        /\ store' = FoldSet(LAMBDA ga, s : SetCU(s, ToCU(ga)), <<>>, gas)
        /\ books' = [books EXCEPT !.restarts = @ + 1, !.ops = {}, !.exts = {}] /\ UNCHANGED cache

CUStep ==
    \/ \E a \in Addresses :
        \/ Sign(a) \/ CreateToCU(a) \/ GetModuleAccountAndPermissions(a)
        \/ \E symbol \in Symbols : NewOpCUWithAddress(symbol, a)
        \/ \E chain \in Chains : SetExtAddressWithCU(chain, a)
    \/ Restart

-----------------------------------------------------------------------------
Init ==
    /\ store = <<>> /\ cache = <<>>
    /\ books = [dels |-> {}, ubds |-> {}, reds |-> {}, vals |-> <<>>, epochs |-> {},
                records |-> {}, withdraw |-> [d \in Delegators |-> d], historical |-> {}, events |-> {},
                units |-> <<>>, ops |-> {}, exts |-> {}, restarts |-> 0]

\* Every keeper has a store of its own: the steps of one keeper.
StakingSpec == Init /\ [][StakingStep]_vars
DistributionSpec == Init /\ [][DistributionStep]_vars
CUSpec == Init /\ [][CUStep]_vars

-----------------------------------------------------------------------------
(***************************************************************************)
(* GetOpCUs returns the operation units that were created for a symbol on  *)
(* this chain, all of them and no other, also when a symbol is the         *)
(* beginning of another one.  Those created before an export are gone:     *)
(* NewGenesisCUI leaves their type out, and ToCU makes user units of them. *)
(***************************************************************************)
OpCUsExact ==
    LET found(symbol) == {cu.address : cu \in GetOpCUs(store, symbol)}
    IN  /\ \A symbol \in Symbols : found(symbol) = {a \in Addresses : <<symbol, a>> \in books.ops}
        /\ found(<<>>) = {op[2] : op \in books.ops}
        /\ \A cu \in GetAllCUs(store) : cu.type = "op" <=> cu.address \in found(<<>>)

(***************************************************************************)
(* The address of a unit on another chain leads back to that unit when it  *)
(* was recorded since the last export, and to none otherwise, whatever the *)
(* names of the chains: an export leaves these addresses out.              *)
(***************************************************************************)
ExtAddressesLeadBack ==
    \A chain \in Chains, a \in Addresses :
        GetCUFromExtAddress(store, chain, ExtAddress[a]) =
            IF <<chain, a>> \in books.exts THEN a ELSE nil

(***************************************************************************)
(* The sequence of a unit is how often it signed, and a unit that was      *)
(* created is known, also on a chain started from an export: a transaction *)
(* that was executed is not valid again.                                   *)
(***************************************************************************)
SequencesKept ==
    \A a \in Addresses :
        /\ KnownCU(store, a) <=> a \in DOMAIN books.units
        /\ KnownCU(store, a) => getCU(store, a).seq = books.units[a]
=============================================================================
