------------------------------ MODULE Staking -------------------------------
(***************************************************************************)
(* Delegation and the validator set (x/staking).  The handlers are         *)
(* operators on the store, a record; the actions apply them.  A user's     *)
(* address is also the address of the validator the user operates.  One    *)
(* counter is block height and block time.  Restart exports the state for  *)
(* a new chain at height zero and imports it again: time goes on, a height *)
(* of the new chain is counted from the block of the export, and heights   *)
(* from before it are zero.                                                *)
(***************************************************************************)
EXTENDS Decimal

CONSTANTS Users,                    \* numbers, for the order of addresses
          Amounts,                  \* amounts of messages
          InitialCoins, GenesisStake, GenesisValidators,
          PowerReduction,           \* tokens per unit of consensus power
          MaxValidators, MinValidatorDelegation, UnbondingTime, MaxEntries,
          SlashFactor,              \* a decimal
          SelfMinima,               \* values of MinSelfDelegation
          KeyNodes,                 \* validators that evidence of misbehaviour may name
          WhiteLists                \* sets of validators that an export does not jail; {} jails nobody

VARIABLES now, store,
          hist,       \* powers at the end of each block, as consensus knows them
          panic,      \* an assertion of the code that failed; the chain has halted
          committed,  \* nothing has happened since the last block ended
          import      \* how often a state was imported, and whether the import went well

vars == <<now, store, hist, panic, committed, import>>

NoValidator == [found |-> FALSE, jailed |-> FALSE, status |-> "Unbonded", tokens |-> 0,
                shares |-> 0, min |-> 0, time |-> 0, height |-> 0]

NewValidator(min) == [NoValidator EXCEPT !.found = TRUE, !.min = min]

-----------------------------------------------------------------------------
(***************************************************************************)
(* Validators: tokens, shares and the index by power                       *)
(***************************************************************************)
Power(va) == va.tokens \div PowerReduction
Key(va, v) == [power |-> Power(va), val |-> v]
IsBonded(va) == va.status = "Bonded"
InvalidExRate(va) == va.tokens = 0 /\ va.shares > 0

TokensFromShares(va, shares) == Quo(MulInt(shares, va.tokens), va.shares)
SharesFromTokens(va, amt) == QuoInt(MulInt(va.shares, amt), va.tokens)
SharesFromTokensTruncated(va, amt) == QuoTruncate(MulInt(va.shares, amt), ToDec(va.tokens))

\* DeleteValidatorByPowerIndex, SetValidator, SetValidatorByPowerIndex.
SetValidator(s, v, va) ==
    [s EXCEPT !.val[v] = va,
              !.index = (@ \ {Key(s.val[v], v)}) \cup {k \in {Key(va, v)} : ~va.jailed}]

IssuedShares(va, amt) == IF va.shares = 0 THEN ToDec(amt) ELSE SharesFromTokens(va, amt)
AddTokensFromDel(va, amt) ==
    [va EXCEPT !.tokens = @ + amt, !.shares = @ + IssuedShares(va, amt)]

\* RemoveDelShares: the last shares take all tokens.
RemovedTokens(va, shares) ==
    IF va.shares = shares THEN va.tokens ELSE TruncateInt(TokensFromShares(va, shares))
RemoveDelShares(va, shares) ==
    [va EXCEPT !.tokens = @ - RemovedTokens(va, shares), !.shares = @ - shares]

jailValidator(s, v) == SetValidator(s, v, [s.val[v] EXCEPT !.jailed = TRUE])
unjailValidator(s, v) == SetValidator(s, v, [s.val[v] EXCEPT !.jailed = FALSE])

\* RemoveValidator, once unbonded and without shares.
RemoveValidator(s, v) ==
    [s EXCEPT !.val[v] = NoValidator, !.index = @ \ {Key(s.val[v], v)}]

\* bondedTokensToNotBonded; a negative amount is notBondedTokensToBonded.
bondedTokensToNotBonded(s, amt) == [s EXCEPT !.bonded = @ - amt, !.notBonded = @ + amt]

-----------------------------------------------------------------------------
(***************************************************************************)
(* Entries and queues: a queue has slots, each a time and what is due.     *)
(***************************************************************************)
\* AddEntry of an UnbondingDelegation and of a Redelegation.
AddUnbondingEntry(entries, height, time, amt) ==
    Append(entries, [creation |-> height, time |-> time, initial |-> amt, balance |-> amt])
AddRedelegationEntry(entries, height, time, amt, shares) ==
    Append(entries, [creation |-> height, time |-> time, initial |-> amt, sharesDst |-> shares])
IsMature(e) == e.time =< now

HasMaxUnbondingDelegationEntries(s, d, v) == Len(s.ubd[d, v]) >= MaxEntries
SetUnbondingDelegationEntry(s, d, v, amt) ==
    [s EXCEPT !.ubd[d, v] = AddUnbondingEntry(@, now, now + UnbondingTime, amt)]
InsertUBDQueue(s, d, v, time) == [s EXCEPT !.ubdQ = @ \cup {<<time, d, v>>}]
MatureUBD(s) == {q \in s.ubdQ : q[1] =< now}

HasMaxRedelegationEntries(s, d, src, dst) == Len(s.red[d, src, dst]) >= MaxEntries
SetRedelegationEntry(s, d, src, dst, height, time, amt, shares) ==
    [s EXCEPT !.red[d, src, dst] = AddRedelegationEntry(@, height, time, amt, shares)]
InsertRedelegationQueue(s, d, src, dst, time) == [s EXCEPT !.redQ = @ \cup {<<time, d, src, dst>>}]
MatureRedelegations(s) == {q \in s.redQ : q[1] =< now}

InsertValidatorQueue(s, v, time) == [s EXCEPT !.valQ = @ \cup {<<time, v>>}]
DeleteValidatorQueue(s, v, time) == [s EXCEPT !.valQ = @ \ {<<time, v>>}]
MatureValidators(s) == {q \in s.valQ : q[1] =< now}

-----------------------------------------------------------------------------
(***************************************************************************)
(* Delegate, unbond and their messages                                     *)
(***************************************************************************)
\* Delegate, once the coins are in the pool of the validator's status.
Credit(s, d, v, amt) ==
    SetValidator([s EXCEPT !.del[d, v] = @ + IssuedShares(s.val[v], amt)],
                 v, AddTokensFromDel(s.val[v], amt))
DelegateCoins(s, d, v, amt) ==
    Credit([s EXCEPT !.bal[d] = @ - amt,
                     !.bonded = @ + (IF IsBonded(s.val[v]) THEN amt ELSE 0),
                     !.notBonded = @ + (IF IsBonded(s.val[v]) THEN 0 ELSE amt)], d, v, amt)


RedelegateCoins(s, d, v, amt, srcBonded) ==
    Credit(CASE srcBonded = IsBonded(s.val[v]) -> s
             [] srcBonded -> bondedTokensToNotBonded(s, amt)
             [] OTHER -> bondedTokensToNotBonded(s, -amt), d, v, amt)

\* An operator who keeps less than the minimum is jailed.
JailIfBelowMinimum(s, d, v, left) ==
    IF /\ d = v /\ ~s.val[v].jailed
       /\ TruncateInt(TokensFromShares(s.val[v], left)) < s.val[v].min
    THEN jailValidator(s, v) ELSE s

\* unbond: shares leave the delegation; an empty unbonded validator goes.
unbond(s, d, v, shares) ==
    LET left == s.del[d, v] - shares
        j    == JailIfBelowMinimum(s, d, v, left)
        r    == SetValidator([j EXCEPT !.del[d, v] = left], v, RemoveDelShares(j.val[v], shares))
    IN  IF r.val[v].shares = 0 /\ r.val[v].status = "Unbonded" THEN RemoveValidator(r, v) ELSE r

\* ValidateUnbondAmount: amt in shares, capped at the delegation.
UnbondAmountValid(s, d, v, amt) ==
    /\ s.val[v].found /\ s.del[d, v] > 0 /\ s.val[v].tokens > 0
    /\ SharesFromTokensTruncated(s.val[v], amt) =< s.del[d, v]
SharesOf(s, d, v, amt) == MinDec(SharesFromTokens(s.val[v], amt), s.del[d, v])

CreateValidatorOK(s, v, amt, min) == ~s.val[v].found /\ amt >= min /\ amt =< s.bal[v]
CreateValidator(s, v, amt, min) ==
    DelegateCoins(SetValidator(s, v, NewValidator(min)), v, v, amt)

DelegateOK(s, d, v, amt) == s.val[v].found /\ ~InvalidExRate(s.val[v]) /\ amt =< s.bal[d]

\* Undelegate: an entry that matures after the unbonding time, and its queue slot.
UndelegateOK(s, d, v, amt) == UnbondAmountValid(s, d, v, amt) /\ ~HasMaxUnbondingDelegationEntries(s, d, v)
Undelegate(s, d, v, amt) ==
    LET shares   == SharesOf(s, d, v, amt)
        returned == RemovedTokens(s.val[v], shares)
        u        == unbond(s, d, v, shares)
        p        == IF IsBonded(s.val[v]) THEN bondedTokensToNotBonded(u, returned) ELSE u
    IN  InsertUBDQueue(SetUnbondingDelegationEntry(p, d, v, returned), d, v, now + UnbondingTime)

HasReceivingRedelegation(s, d, v) == \E src \in Users : s.red[d, src, v] # <<>>

\* getBeginInfo, after the source may have been removed.
BeginTime(va) == IF ~va.found \/ IsBonded(va) THEN now + UnbondingTime ELSE va.time
BeginHeight(va) == IF ~va.found \/ IsBonded(va) THEN now ELSE va.height

BeginRedelegateOK(s, d, src, dst, amt) ==
    /\ src # dst /\ s.val[dst].found
    /\ UnbondAmountValid(s, d, src, amt)
    /\ ~HasReceivingRedelegation(s, d, src)
    /\ ~HasMaxRedelegationEntries(s, d, src, dst)
    /\ RemovedTokens(s.val[src], SharesOf(s, d, src, amt)) > 0
    /\ ~InvalidExRate(s.val[dst])
BeginRedelegate(s, d, src, dst, amt) ==
    LET shares   == SharesOf(s, d, src, amt)
        returned == RemovedTokens(s.val[src], shares)
        created  == IssuedShares(s.val[dst], returned)
        t        == RedelegateCoins(unbond(s, d, src, shares), d, dst, returned, IsBonded(s.val[src]))
        va       == t.val[src]
    IN  IF va.found /\ va.status = "Unbonded" THEN t
        ELSE InsertRedelegationQueue(
                 SetRedelegationEntry(t, d, src, dst, BeginHeight(va), BeginTime(va), returned, created),
                 d, src, dst, BeginTime(va))

-----------------------------------------------------------------------------
(***************************************************************************)
(* Slashing stake: unbonding entries, redelegations, then the validator    *)
(***************************************************************************)
Fraction(amt) == TruncateInt(MulInt(SlashFactor, amt))

\* Entries begun before the infraction, or mature, did not contribute.
Liable(e, height) == e.creation >= height /\ ~IsMature(e)

\* slashUnbondingDelegation of every delegator: burned, and what should have been.
SlashedEntry(e, height) ==
    IF Liable(e, height) THEN [e EXCEPT !.balance = @ - MinDec(Fraction(e.initial), @)] ELSE e
SlashUnbondings(s, v, height) ==
    LET after  == [p \in DOMAIN s.ubd |->
                      IF p[2] = v THEN [i \in 1 .. Len(s.ubd[p]) |-> SlashedEntry(s.ubd[p][i], height)]
                      ELSE s.ubd[p]]
        Sum(f) == MapThenSumSet(LAMBDA p : FoldLeft(LAMBDA n, e : n + e.balance, 0, f[p]), DOMAIN f)
    IN  [s EXCEPT !.ubd = after, !.notBonded = @ - (Sum(s.ubd) - Sum(after))]
UnbondingsOwe(s, v, height) ==
    MapThenSumSet(LAMBDA d : FoldLeft(LAMBDA n, e : n + (IF Liable(e, height) THEN Fraction(e.initial) ELSE 0),
                                      0, s.ubd[d, v]), Users)

\* slashRedelegation: the shares of an entry are unbonded from its destination.
SlashRedEntry(s, d, dst, e, height) ==
    LET shares == MinDec(Mul(SlashFactor, e.sharesDst), s.del[d, dst])
        burned == RemovedTokens(s.val[dst], shares)
        u      == unbond(s, d, dst, shares)
    IN  IF ~Liable(e, height) \/ Mul(SlashFactor, e.sharesDst) = 0 \/ s.del[d, dst] = 0 THEN s
        ELSE IF ~u.val[dst].found THEN [u EXCEPT !.dstGone = TRUE]
        ELSE IF IsBonded(u.val[dst]) THEN [u EXCEPT !.bonded = @ - burned]
        ELSE [u EXCEPT !.notBonded = @ - burned]
RedKeys(v) == SetToSortSeq({<<d, dst>> : d \in Users, dst \in Users \ {v}},
                           LAMBDA p, q : p[1] < q[1] \/ (p[1] = q[1] /\ p[2] < q[2]))
SlashRedelegations(s, v, height) ==
    FoldLeft(LAMBDA t, p : FoldLeft(LAMBDA w, e : SlashRedEntry(w, p[1], p[2], e, height),
                                    t, s.red[p[1], v, p[2]]), s, RedKeys(v))
RedelegationsOwe(s, v, height) ==
    MapThenSumSet(LAMBDA p : FoldLeft(LAMBDA n, e : n + (IF Liable(e, height) THEN Fraction(e.initial) ELSE 0),
                                      0, s.red[p[1], v, p[2]]), Users \X (Users \ {v}))

Remaining(s, v, height, power) ==
    Fraction(power * PowerReduction)
        - (IF height < now THEN UnbondingsOwe(s, v, height) + RedelegationsOwe(s, v, height) ELSE 0)

\* slashValidator, of a validator that is bonded or unbonding.
slashValidator(s, v, height, power) ==
    LET t     == IF height < now THEN SlashRedelegations(SlashUnbondings(s, v, height), v, height) ELSE s
        burn  == MaxDec(MinDec(Remaining(s, v, height, power), s.val[v].tokens), 0)
        r     == SetValidator(t, v, [t.val[v] EXCEPT !.tokens = @ - burn])
    IN  IF IsBonded(s.val[v]) THEN [r EXCEPT !.bonded = @ - burn] ELSE [r EXCEPT !.notBonded = @ - burn]

-----------------------------------------------------------------------------
(***************************************************************************)
(* EndBlocker                                                              *)
(***************************************************************************)
\* The first of the index by power that may be bonded.
Ranked(s) == SetToSortSeq(s.index, LAMBDA a, b : a.power > b.power \/ (a.power = b.power /\ a.val < b.val))
Eligible(s, k) == s.val[k.val].tokens >= MinValidatorDelegation /\ k.power > 0
Bondable(s) ==
    LET r == Ranked(s)
    IN  {r[i].val : i \in {n \in 1 .. MinDec(Len(r), MaxValidators) : \A j \in 1 .. n : Eligible(s, r[j])}}

\* A slip in bondValidator: the validator stays in the queue of unbonding ones.
BondInQueue(s, v) == SetValidator(s, v, [s.val[v] EXCEPT !.status = "Bonded"])

\* bondValidator leaves the queue of unbonding validators.
bondValidator(s, v) ==
    DeleteValidatorQueue(SetValidator(s, v, [s.val[v] EXCEPT !.status = "Bonded"]), v, s.val[v].time)
beginUnbondingValidator(s, v) ==
    InsertValidatorQueue(
        SetValidator(s, v, [s.val[v] EXCEPT !.status = "Unbonding", !.time = now + UnbondingTime, !.height = now]),
        v, now + UnbondingTime)

ApplyAndReturnValidatorSetUpdates(s) ==
    LET chosen  == Bondable(s)
        joining == {v \in chosen : ~IsBonded(s.val[v])}
        leaving == {v \in Users : s.last[v] > 0} \ chosen
        Tokens(V) == MapThenSumSet(LAMBDA v : s.val[v].tokens, V)
        moved   == FoldSet(LAMBDA v, t : beginUnbondingValidator(t, v),
                           FoldSet(LAMBDA v, t : bondValidator(t, v), s, joining), leaving)
        powers  == [v \in Users |-> IF v \in chosen THEN Power(s.val[v]) ELSE 0]
    IN  [bondedTokensToNotBonded(moved, Tokens(leaving) - Tokens(joining))
            EXCEPT !.last = powers,
                   !.lastTotal = IF powers = s.last THEN @ ELSE MapThenSumSet(LAMBDA v : powers[v], Users)]

\* UnbondAllMatureValidatorQueue; a validator without shares is removed.
UnbondMatureValidators(s) ==
    LET mature == MatureValidators(s)
        One(v, t) == LET u == [t EXCEPT !.val[v].status = "Unbonded"]
                     IN  IF u.val[v].shares = 0 THEN RemoveValidator(u, v) ELSE u
    IN  FoldSet(One, [s EXCEPT !.valQ = @ \ mature], {q[2] : q \in mature})

Immature(entries) == SelectSeq(entries, LAMBDA e : ~IsMature(e))
Paid(entries) == FoldLeft(LAMBDA n, e : n + (IF IsMature(e) THEN e.balance ELSE 0), 0, entries)

\* UnbondAllMatureDelegation, CompleteUnbonding: mature entries of the slots that are due.
CompleteUnbondings(s) ==
    LET due  == {p \in DOMAIN s.ubd : \E q \in MatureUBD(s) : <<q[2], q[3]>> = p}
        paid == [d \in Users |-> MapThenSumSet(LAMBDA p : Paid(s.ubd[p]), {p \in due : p[1] = d})]
    IN  [s EXCEPT !.ubd = [p \in DOMAIN @ |-> IF p \in due THEN Immature(@[p]) ELSE @[p]],
                  !.ubdQ = @ \ MatureUBD(s),
                  !.bal = [d \in Users |-> @[d] + paid[d]],
                  !.notBonded = @ - MapThenSumSet(LAMBDA d : paid[d], Users)]

\* CompleteRedelegation: the mature entries of a redelegation go, and with the last one the record.
CompleteRedelegation(entries) == Immature(entries)

\* RemoveAllMatureRedelegation.
CompleteRedelegations(s) ==
    LET due == {p \in DOMAIN s.red : \E q \in MatureRedelegations(s) : <<q[2], q[3], q[4]>> = p}
    IN  [s EXCEPT !.red = [p \in DOMAIN @ |-> IF p \in due THEN CompleteRedelegation(@[p]) ELSE @[p]],
                  !.redQ = @ \ MatureRedelegations(s)]

EndBlocker(s) ==
    CompleteRedelegations(CompleteUnbondings(UnbondMatureValidators(ApplyAndReturnValidatorSetUpdates(s))))

-----------------------------------------------------------------------------
EmptyStore ==
    [val |-> [v \in Users |-> NoValidator], index |-> {}, del |-> [p \in Users \X Users |-> 0],
     ubd |-> [p \in Users \X Users |-> <<>>], ubdQ |-> {},
     red |-> [p \in Users \X Users \X Users |-> <<>>], redQ |-> {}, valQ |-> {},
     last |-> [v \in Users |-> 0], lastTotal |-> 0, bonded |-> 0, notBonded |-> 0,
     bal |-> [d \in Users |-> InitialCoins], dstGone |-> FALSE]

\* The messages of genesis create the first validators, which are then bonded.
GenesisStore ==
    ApplyAndReturnValidatorSetUpdates(
        FoldSet(LAMBDA v, s : CreateValidator(s, v, GenesisStake, Min(SelfMinima)), EmptyStore, GenesisValidators))

\* Of the parameters.
Validate == MaxValidators > 0 /\ MinValidatorDelegation >= 0

Init ==
    /\ Validate
    /\ now = 1
    /\ store = GenesisStore
    /\ hist = [h \in {0} |-> GenesisStore.last]
    /\ panic = "none"
    /\ committed = FALSE /\ import = [count |-> 0, ok |-> TRUE]

\* A message that succeeds.
Deliver(s) == store' = s /\ UNCHANGED <<now, hist, panic>>

MsgCreateValidator(v, amt, min) == CreateValidatorOK(store, v, amt, min) /\ Deliver(CreateValidator(store, v, amt, min))
MsgDelegate(d, v, amt) == DelegateOK(store, d, v, amt) /\ Deliver(DelegateCoins(store, d, v, amt))
MsgUndelegate(d, v, amt) == UndelegateOK(store, d, v, amt) /\ Deliver(Undelegate(store, d, v, amt))
MsgBeginRedelegate(d, src, dst, amt) ==
    BeginRedelegateOK(store, d, src, dst, amt) /\ Deliver(BeginRedelegate(store, d, src, dst, amt))

\* The minimum may rise, to the validator's tokens.
MsgEditValidator(v, min) ==
    /\ store.val[v].found /\ min > store.val[v].min /\ min =< store.val[v].tokens
    /\ Deliver([store EXCEPT !.val[v].min = min])

\* MsgUnjail, of x/slashing, for a validator with enough self-delegation.
MsgUnjail(v) ==
    /\ store.val[v].jailed /\ store.del[v, v] > 0
    /\ TruncateInt(TokensFromShares(store.val[v], store.del[v, v])) >= store.val[v].min
    /\ Deliver(unjailValidator(store, v))

\* The block is not committed when an assertion fails.
Slashed(s, v) ==
    /\ IF s.dstGone THEN panic' = "destination" /\ UNCHANGED store
       ELSE store' = jailValidator(s, v) /\ UNCHANGED panic
    /\ UNCHANGED <<now, hist>>

(***************************************************************************)
(* Slash and Jail for a block signed by the validators of two blocks       *)
(* before; x/slashing passes over unbonded validators.                     *)
(***************************************************************************)
SlashForInfraction(v, height) ==
    /\ height =< now /\ now - height =< UnbondingTime
    /\ height - 1 \in DOMAIN hist /\ hist[height - 1][v] > 0
    /\ store.val[v].found /\ store.val[v].status # "Unbonded"
    /\ Slashed(slashValidator(store, v, height, hist[height - 1][v]), v)

\* SlashByOperator and JailByOperator, for evidence on a key node; only the second panics on a removed one.
SlashByOperator(v, height) ==
    /\ v \in KeyNodes /\ height =< now
    /\ IF store.val[v].status = "Unbonded"
       THEN panic' = (IF store.val[v].found THEN "unbonded" ELSE "missing") /\ UNCHANGED <<now, store, hist>>
       ELSE Slashed(slashValidator(store, v, height, Power(store.val[v])), v)

EndBlock ==
    /\ now' = now + 1
    /\ store' = EndBlocker(store)
    /\ hist' = [h \in 0 .. now |-> IF h = now THEN store'.last ELSE hist[h]]
    /\ UNCHANGED panic

-----------------------------------------------------------------------------
(***************************************************************************)
(* Export for a new chain at height zero, and InitGenesis of that chain    *)
(***************************************************************************)
TokensIn(s, status) == MapThenSumSet(LAMBDA v : s.val[v].tokens, {v \in Users : s.val[v].status \in status})
Balances(s) == MapThenSumSet(LAMBDA p : FoldLeft(LAMBDA n, e : n + e.balance, 0, s.ubd[p]), Users \X Users)

ResetCreation(entries) == [i \in DOMAIN entries |-> [entries[i] EXCEPT !.creation = 0]]

\* Jailing here leaves the index by power as it is.
ResetValidator(va, v, white) ==
    IF ~va.found THEN va
    ELSE [va EXCEPT !.height = 0, !.jailed = @ \/ (white # {} /\ v \notin white)]

prepForZeroHeightGenesis(s, white) ==
    ApplyAndReturnValidatorSetUpdates(
        [s EXCEPT !.red = [p \in DOMAIN @ |-> ResetCreation(@[p])],
                  !.ubd = [p \in DOMAIN @ |-> ResetCreation(@[p])],
                  !.val = [v \in Users |-> ResetValidator(@[v], v, white)]])

\* Neither balances nor indices nor queues are exported.
ExportGenesis(s) ==
    [val |-> s.val, del |-> s.del, ubd |-> s.ubd, red |-> s.red, last |-> s.last, lastTotal |-> s.lastTotal]

\* WriteValidators: the validators of the new chain's genesis document.
WriteValidators(s) ==
    [v \in {u \in Users : s.last[u] > 0} |-> IF IsBonded(s.val[v]) THEN Power(s.val[v]) ELSE 0]

validateGenesisStateValidators(g) ==
    \A v \in Users : g.val[v].found => g.val[v].shares # 0 \/ g.val[v].status = "Unbonding"

Indexed(g) == {Key(g.val[v], v) : v \in {u \in Users : g.val[u].found /\ ~g.val[u].jailed}}

UnbondingQueue(g) == {<<g.val[v].time, v>> : v \in {u \in Users : g.val[u].status = "Unbonding"}}

\* A slip in InitGenesis: a queue gets the first entry of a pair only.
FirstSlots(entries) == {entries[i].time : i \in DOMAIN entries \cap {1}}

Slots(entries) == {entries[i].time : i \in DOMAIN entries}

\* The balances of the pools are zero, and the pools get what the records add up to.
Imported(g) ==
    [EmptyStore EXCEPT
        !.val = g.val, !.del = g.del, !.ubd = g.ubd, !.red = g.red, !.last = g.last, !.lastTotal = g.lastTotal,
        !.index = Indexed(g), !.valQ = UnbondingQueue(g),
        !.ubdQ = UNION {{<<t, p[1], p[2]>> : t \in Slots(g.ubd[p])} : p \in DOMAIN g.ubd},
        !.redQ = UNION {{<<t, p[1], p[2], p[3]>> : t \in Slots(g.red[p])} : p \in DOMAIN g.red},
        !.bal = [d \in Users |-> 0]]
InitGenesis(g) ==
    LET i == Imported(g)
    IN  [i EXCEPT !.bonded = TokensIn(i, {"Bonded"}),
                  !.notBonded = TokensIn(i, {"Unbonding", "Unbonded"}) + Balances(i)]

\* The updates that InitGenesis returns, for which InitChain wants those of the document.
Returned(g) == [v \in {u \in Users : g.last[u] > 0} |-> g.last[v]]

Restart(white) ==
    /\ panic = "none" /\ committed
    /\ LET s == prepForZeroHeightGenesis(store, white)
           g == ExportGenesis(s)
       IN  /\ store' = InitGenesis(g)
           /\ import' = [count |-> import.count + 1,
                         ok |-> validateGenesisStateValidators(g) /\ WriteValidators(s) = Returned(g)]
           /\ hist' = [h \in 0 .. now - 1 |-> IF h = now - 1 THEN g.last ELSE [v \in Users |-> 0]]
    /\ committed' = FALSE
    /\ UNCHANGED <<now, panic>>

-----------------------------------------------------------------------------
Message ==
    /\ panic = "none"
    /\ \/ \E v \in Users, amt \in Amounts, min \in SelfMinima : MsgCreateValidator(v, amt, min)
       \/ \E d, v \in Users, amt \in Amounts : MsgDelegate(d, v, amt) \/ MsgUndelegate(d, v, amt)
       \/ \E d, src, dst \in Users, amt \in Amounts : MsgBeginRedelegate(d, src, dst, amt)
       \/ \E v \in Users, min \in SelfMinima : MsgEditValidator(v, min)
       \/ \E v \in Users : MsgUnjail(v)
       \/ \E v \in Users, height \in 1 .. now : SlashForInfraction(v, height) \/ SlashByOperator(v, height)
    /\ committed' = FALSE /\ UNCHANGED import

Block == panic = "none" /\ EndBlock /\ committed' = TRUE /\ UNCHANGED import

Export == \E white \in WhiteLists : Restart(white)

Next == Message \/ Block \/ Export

Spec == Init /\ [][Next]_vars

-----------------------------------------------------------------------------
(***************************************************************************)
(* The registered invariants; true is broken.  Delegations without shares  *)
(* are those that are not stored.                                          *)
(***************************************************************************)
ModuleAccountInvariants(s) ==
    \/ s.bonded # TokensIn(s, {"Bonded"})
    \/ s.notBonded # TokensIn(s, {"Unbonding", "Unbonded"}) + Balances(s)
NonNegativePowerInvariant(s) ==
    \E k \in s.index : ~s.val[k.val].found \/ k # Key(s.val[k.val], k.val) \/ s.val[k.val].tokens < 0
PositiveDelegationInvariant(s) == \E p \in Users \X Users : s.del[p] < 0
DelegatorSharesInvariant(s) ==
    \E v \in Users : s.val[v].found /\ s.val[v].shares # MapThenSumSet(LAMBDA d : s.del[d, v], Users)

(***************************************************************************)
(* The pools hold what is accounted to them: the bonded pool the tokens of *)
(* bonded validators, the other pool those of the others and the balances  *)
(* of unbonding delegations, whatever is delegated, redelegated, slashed   *)
(* and bonded or unbonded meanwhile.                                       *)
(***************************************************************************)
PoolsBacked == ~ModuleAccountInvariants(store)

(***************************************************************************)
(* The shares of a validator are the sum of its delegations, also after    *)
(* slashing through redelegations, and delegations outlive no validator.   *)
(***************************************************************************)
SharesAddUp ==
    /\ ~PositiveDelegationInvariant(store) /\ ~DelegatorSharesInvariant(store)
    /\ \A d, v \in Users : store.del[d, v] > 0 => store.val[v].found

(***************************************************************************)
(* The index by power lists every validator that is not jailed once, under *)
(* its present power; the validators of the last block are those with      *)
(* status bonded, of which at most MaxValidators.  Otherwise EndBlock      *)
(* would panic or leave a validator in the set for ever.                   *)
(***************************************************************************)
IndexCurrent ==
    /\ ~NonNegativePowerInvariant(store)
    /\ store.index = {Key(store.val[v], v) : v \in {u \in Users : store.val[u].found /\ ~store.val[u].jailed}}
    /\ \A v \in Users : store.last[v] > 0 <=> IsBonded(store.val[v])
    /\ Cardinality({v \in Users : store.last[v] > 0}) =< MaxValidators
    /\ store.lastTotal = MapThenSumSet(LAMBDA v : store.last[v], Users)

(***************************************************************************)
(* Whatever unbonds has a slot in its queue at its time, validators that   *)
(* wait in the queue are unbonding, and nothing that was due at the last   *)
(* block is still there: no stake is stuck, none is released early.        *)
(***************************************************************************)
QueuesCover ==
    /\ \A p \in Users \X Users : \A i \in 1 .. Len(store.ubd[p]) :
           <<store.ubd[p][i].time, p[1], p[2]>> \in store.ubdQ /\ store.ubd[p][i].time >= now
    /\ \A p \in DOMAIN store.red : \A i \in 1 .. Len(store.red[p]) :
           <<store.red[p][i].time, p[1], p[2], p[3]>> \in store.redQ
    /\ store.valQ = {<<store.val[v].time, v>> : v \in {u \in Users : store.val[u].status = "Unbonding"}}
    /\ \A v \in Users : store.val[v].status = "Unbonding" => store.val[v].time >= now

(***************************************************************************)
(* What is exported can be imported: the genesis file is valid, and the    *)
(* validators written to it are those that InitGenesis returns, without    *)
(* which InitChain panics, also for validators jailed by the export.       *)
(***************************************************************************)
ImportAccepted == import.ok

(***************************************************************************)
(* The new chain has the stake of the old one: the same delegations,       *)
(* tokens, shares and statuses, the pools hold the same amounts, and the   *)
(* queues and the index, built anew, have every slot they had.             *)
(***************************************************************************)
RestartKeeps ==
    import'.count > import.count =>
       /\ \A f \in {"del", "ubdQ", "redQ", "valQ", "last", "lastTotal", "bonded", "notBonded"} :
              store'[f] = store[f]
       /\ \A v \in Users : \A f \in {"found", "status", "tokens", "shares", "min", "time"} :
              store'.val[v][f] = store.val[v][f]
       /\ \A k \in store.index : k \notin store'.index => store'.val[k.val].jailed

=============================================================================
