---------------------------- MODULE Distribution ----------------------------
(***************************************************************************)
(* Rewards of validators and delegators (x/distribution).  One             *)
(* denomination: a DecCoins is a decimal, a Coins an integer.  The store   *)
(* is a record s; s.panic names the assertion that failed.  The hooks are  *)
(* called in the order in which x/staking calls them.                      *)
(***************************************************************************)
EXTENDS Decimal

CONSTANTS Validators, Delegators,
          Fees,                  \* fees of a block
          Amounts,               \* tokens of a delegation, an unbonding or a slash
          PowerOf,               \* power of the votes of a validator
          Commits,               \* voters of a last commit, those who signed, the new proposer
          KeyNodes, KeyNodeReward, BaseProposerReward, Commission,
          GenesisTokens          \* tokens of the validators at genesis

VARIABLES height, proposer, s

vars == <<height, proposer, s>>

NoInfo == [found |-> FALSE, period |-> 0, stake |-> 0, height |-> 0]
NoValidator == [found |-> FALSE, jailed |-> FALSE, tokens |-> 0, shares |-> 0]

TokensFromShares(va, shares) == Quo(MulInt(shares, va.tokens), va.shares)
TokensFromSharesTruncated(va, shares) == QuoTruncate(MulInt(shares, va.tokens), va.shares)
SharesFromTokens(va, amt) == QuoInt(MulInt(va.shares, amt), va.tokens)

Panic(t, what) == [t EXCEPT !.panic = @ \cup {what}]
Check(t, ok, what) == IF ok THEN t ELSE Panic(t, what)

-----------------------------------------------------------------------------
(***************************************************************************)
(* Periods of a validator: hist maps a period that has ended and is still  *)
(* referenced to its cumulative ratio and reference count.                 *)
(***************************************************************************)
initializeValidator(t, v) ==
    [t EXCEPT !.hist[v] = [p \in {0} |-> [ratio |-> 0, rc |-> 1]],
              !.cur[v] = [rewards |-> 0, period |-> 1],
              !.comm[v] = 0, !.out[v] = 0]

incrementReferenceCount(t, v, p) ==
    IF p \notin DOMAIN t.hist[v] \/ t.hist[v][p].rc > 2 THEN Panic(t, "reference count")
    ELSE [t EXCEPT !.hist[v][p].rc = @ + 1]

decrementReferenceCount(t, v, p) ==
    IF p \notin DOMAIN t.hist[v] THEN Panic(t, "reference count")
    ELSE IF t.hist[v][p].rc = 1
    THEN [t EXCEPT !.hist[v] = [q \in DOMAIN @ \ {p} |-> @[q]]]
    ELSE [t EXCEPT !.hist[v][p].rc = @ - 1]

\* Rewards of a validator without tokens go to the community pool.
RewardsToPool(t, v) ==
    [t EXCEPT !.pool = @ + t.cur[v].rewards, !.out[v] = @ - t.cur[v].rewards]

\* A slip in incrementValidatorPeriod: the ratio of the period is rounded.
RatioRounded(t, v) == IF t.val[v].tokens = 0 THEN 0 ELSE Quo(t.cur[v].rewards, ToDec(t.val[v].tokens))

PeriodRatio(t, v) == IF t.val[v].tokens = 0 THEN 0 ELSE QuoTruncate(t.cur[v].rewards, ToDec(t.val[v].tokens))

incrementValidatorPeriod(t, v) ==
    LET p     == t.cur[v].period
        ratio == t.hist[v][p - 1].ratio + PeriodRatio(t, v)
        paid  == IF t.val[v].tokens = 0 THEN RewardsToPool(t, v) ELSE t
        freed == decrementReferenceCount(paid, v, p - 1)
    IN  [freed EXCEPT !.hist[v] = [q \in DOMAIN @ \cup {p} |-> IF q = p THEN [ratio |-> ratio, rc |-> 1] ELSE @[q]],
                      !.cur[v] = [rewards |-> 0, period |-> p + 1]]

\* BeforeValidatorSlashed: a slash ends a period, and its event refers to it.
updateValidatorSlashFraction(t, v, fraction) ==
    [incrementReferenceCount(incrementValidatorPeriod(t, v), v, t.cur[v].period) EXCEPT
        !.slashes[v] = Append(@, [height |-> height, period |-> t.cur[v].period, fraction |-> fraction])]

-----------------------------------------------------------------------------
(***************************************************************************)
(* Rewards of a delegation                                                 *)
(***************************************************************************)
initializeDelegation(t, d, v) ==
    LET p == t.cur[v].period - 1
    IN  [incrementReferenceCount(t, v, p) EXCEPT
            !.start[d, v] = [found |-> TRUE, period |-> p, height |-> height,
                             stake |-> TokensFromSharesTruncated(t.val[v], t.del[d, v])]]

Between(t, v, from, to, stake) ==
    MulTruncate(t.hist[v][to].ratio - t.hist[v][from].ratio, stake)

\* The rewards up to the last slash, the stake that is left, and the period the slash ended.
AcrossSlashes(t, d, v) ==
    LET Step(a, e) ==
            IF e.period =< a.period THEN a
            ELSE [rewards |-> a.rewards + Between(t, v, a.period, e.period, a.stake),
                  stake |-> MulTruncate(a.stake, OneDec - e.fraction),
                  period |-> e.period]
        i == t.start[d, v]
    IN  FoldLeft(Step, [rewards |-> 0, stake |-> i.stake, period |-> i.period],
                 SelectSeq(t.slashes[v], LAMBDA e : e.height \in i.height..height))

\* The sanity check: what is left of the stake is at most the current stake, up to three last digits.
StakeSane(t, d, v) ==
    \/ t.start[d, v].height = height
    \/ AcrossSlashes(t, d, v).stake =< TokensFromShares(t.val[v], t.del[d, v]) + 3

calculateDelegationRewards(t, d, v, ending) ==
    IF t.start[d, v].height = height THEN 0
    ELSE LET a == AcrossSlashes(t, d, v)
         IN  a.rewards + Between(t, v, a.period, ending,
                                 MinDec(a.stake, TokensFromShares(t.val[v], t.del[d, v])))

\* SendCoinsFromModuleToAccount fails when the module account has too little.
Send(t, coins) == IF t.module >= coins THEN [t EXCEPT !.module = @ - coins] ELSE [t EXCEPT !.err = TRUE]

PayOut(t, v, amount) ==
    [Send(t, TruncateInt(amount)) EXCEPT !.out[v] = @ - amount, !.pool = @ + (amount - TruncateDec(amount))]

\* After a payment that failed nothing more is written.
StartingInfoEnded(t, paid, d, v) ==
    IF paid.err THEN [t EXCEPT !.err = TRUE]
    ELSE [decrementReferenceCount(paid, v, t.start[d, v].period) EXCEPT !.start[d, v] = NoInfo]

withdrawDelegationRewards(t, d, v) ==
    LET ended == incrementValidatorPeriod(t, v)
        sane  == Check(ended, StakeSane(ended, d, v), "stake")
        raw   == calculateDelegationRewards(sane, d, v, t.cur[v].period)
    IN  StartingInfoEnded(sane, PayOut(sane, v, MinDec(raw, sane.out[v])), d, v)

-----------------------------------------------------------------------------
(***************************************************************************)
(* Fees of a block                                                         *)
(***************************************************************************)
AllocateTokensToValidator(t, v, tokens) ==
    LET commission == Mul(tokens, Commission)
    IN  [t EXCEPT !.comm[v] = @ + commission, !.cur[v].rewards = @ + (tokens - commission), !.out[v] = @ + tokens]

AvailableKeyNodes(t) == {v \in KeyNodes : t.val[v].found /\ ~t.val[v].jailed}
PerKeyNode(t, fees) ==
    IF AvailableKeyNodes(t) = {} \/ KeyNodeReward = 0 THEN 0
    ELSE Quo(MulTruncate(fees, KeyNodeReward), ToDec(Cardinality(AvailableKeyNodes(t))))

Allocate(t, who, Share(_)) == FoldSet(LAMBDA v, u : AllocateTokensToValidator(u, v, Share(v)), t, who)
SumOf(who, Share(_)) == MapThenSumSet(Share, who)

\* AllocateTokens: key nodes, the previous proposer, the voters, and the rest to the pool.
AllocateTokens(t, collected, voters, signers, prev) ==
    LET fees       == ToDec(collected)
        base       == [t EXCEPT !.module = @ + collected]
        Node(v)    == PerKeyNode(t, fees)
        ByNode     == Allocate(base, AvailableKeyNodes(t), Node)
        prop       == {v \in prev : t.val[v].found}
        Bonus(v)   == MulTruncate(fees, BaseProposerReward)
        ByProposer == Allocate(ByNode, prop, Bonus)
        left       == fees - SumOf(AvailableKeyNodes(t), Node) - SumOf(prop, Bonus)
        total      == MapThenSumSet(LAMBDA v : PowerOf[v], signers)
        Vote(v)    == MulTruncate(left, QuoTruncate(ToDec(PowerOf[v]), ToDec(total)))
        paid       == {v \in signers : t.val[v].found}
        ByVote     == Allocate(ByProposer, paid, Vote)
    IN  IF voters = {} THEN [base EXCEPT !.pool = @ + fees]
        ELSE [ByVote EXCEPT !.pool = @ + (left - SumOf(paid, Vote))]

\* BeginBlocker; there is nothing to allocate in the first block.
BeginBlocker(collected, voters, signers, next) ==
    /\ s.panic = {}
    /\ height' = height + 1 /\ proposer' = {next}
    /\ s' = IF height + 1 > 1 THEN AllocateTokens(s, collected, voters, signers, proposer) ELSE s

-----------------------------------------------------------------------------
(***************************************************************************)
(* Staking with its hooks                                                  *)
(***************************************************************************)
\* A payment that fails is an error, in a hook a panic, and the transaction is rolled back.
Deliver(t) == s.panic = {} /\ height > 0 /\ ~t.err /\ s' = t /\ UNCHANGED <<height, proposer>>

AddTokens(t, d, v, amt) ==
    LET shares == IF t.val[v].shares = 0 THEN ToDec(amt) ELSE SharesFromTokens(t.val[v], amt)
    IN  [t EXCEPT !.val[v].tokens = @ + amt, !.val[v].shares = @ + shares, !.del[d, v] = @ + shares]

\* BeforeDelegationCreated or BeforeDelegationSharesModified, then AfterDelegationModified.
Delegated(t, d, v, amt) ==
    LET before == IF t.del[d, v] = 0 THEN incrementValidatorPeriod(t, v) ELSE withdrawDelegationRewards(t, d, v)
    IN  initializeDelegation(AddTokens(before, d, v, amt), d, v)

CanDelegate(t, v) == t.val[v].found /\ ~(t.val[v].tokens = 0 /\ t.val[v].shares > 0)
Delegate(d, v, amt) == CanDelegate(s, v) /\ Deliver(Delegated(s, d, v, amt))

Create(t, v) == initializeValidator([t EXCEPT !.val[v] = [NoValidator EXCEPT !.found = TRUE]], v)
CreateValidator(d, v, amt) == ~s.val[v].found /\ Deliver(Delegated(Create(s, v), d, v, amt))

\* AfterValidatorRemoved: the commission is paid, everything else goes to the pool.
AfterValidatorRemoved(t, v) ==
    LET paid == IF t.comm[v] = 0 THEN t ELSE PayOut(t, v, t.comm[v])
        kept == Check(paid, paid.out[v] >= 0, "outstanding")
    IN  [kept EXCEPT !.pool = @ + kept.out[v], !.out[v] = 0, !.comm[v] = 0, !.slashes[v] = <<>>,
                     !.hist[v] = <<>>, !.cur[v] = [rewards |-> 0, period |-> 0]]

\* Unbonding shares: the hook after the change runs before the validator loses the tokens.
Unbonded(t, d, v, shares) ==
    LET before == withdrawDelegationRewards(t, d, v)
        taken  == [before EXCEPT !.del[d, v] = @ - shares]
        after  == IF taken.del[d, v] = 0 THEN taken ELSE initializeDelegation(taken, d, v)
        va     == t.val[v]
        tokens == IF va.shares = shares THEN va.tokens ELSE TruncateInt(TokensFromShares(va, shares))
        left   == [after EXCEPT !.val[v].tokens = @ - tokens, !.val[v].shares = @ - shares]
    IN  IF left.val[v].shares > 0 THEN left
        ELSE [AfterValidatorRemoved(left, v) EXCEPT !.val[v] = NoValidator]

Undelegate(d, v, amt) ==
    /\ s.val[v].found /\ s.val[v].tokens >= amt
    /\ LET shares == MinDec(SharesFromTokens(s.val[v], amt), s.del[d, v])
       IN  shares > 0 /\ Deliver(Unbonded(s, d, v, shares))

\* A slash that burns amt tokens, with the fraction rounded up.
Slash(v, amt) ==
    /\ s.val[v].found /\ s.val[v].tokens >= amt
    /\ LET fraction == QuoRoundUp(ToDec(amt), ToDec(s.val[v].tokens))
       IN  Deliver([updateValidatorSlashFraction(s, v, MinDec(fraction, OneDec)) EXCEPT
                        !.val[v].tokens = @ - amt, !.val[v].jailed = TRUE])

-----------------------------------------------------------------------------
(***************************************************************************)
(* Messages and the proposal                                               *)
(***************************************************************************)
Reinitialized(t, d, v) == IF t.err THEN t ELSE initializeDelegation(t, d, v)
RewardWithdrawn(t, d, v) == Reinitialized(withdrawDelegationRewards(t, d, v), d, v)
WithdrawDelegationRewards(d, v) ==
    s.val[v].found /\ s.start[d, v].found /\ Deliver(RewardWithdrawn(s, d, v))

\* The remainder stays as commission.
CommissionPaid(t, v) ==
    LET whole == TruncateInt(t.comm[v])
        kept  == [t EXCEPT !.comm[v] = @ - ToDec(whole), !.out[v] = @ - ToDec(whole)]
    IN  Send(Check(kept, t.out[v] >= ToDec(whole), "outstanding"), whole)
WithdrawValidatorCommission(v) == s.comm[v] # 0 /\ Deliver(CommissionPaid(s, v))

DistributeFromFeePool(amt) ==
    /\ s.pool >= ToDec(amt)
    /\ Deliver([Send(s, amt) EXCEPT !.pool = @ - ToDec(amt)])

\* Burned deposits (x/gov) and the fees of keys and tokens (x/keygen, x/hrc10) are added to the pool;
\* the module account gets no coins.  unbacked: how much that is (history).
AddToFeePool(amt) == Deliver([s EXCEPT !.pool = @ + ToDec(amt), !.unbacked = @ + amt])

(***************************************************************************)
(* ExportGenesis and InitGenesis: every record is copied; balances are not *)
(* exported, and the module account gets what the records add up to.       *)
(***************************************************************************)
ExportGenesis(t) == [t EXCEPT !.module = 0]
InitGenesis(data) ==
    LET holdings == TruncateInt(data.pool + MapThenSumSet(LAMBDA v : data.out[v], Validators))
    IN  IF data.module = 0 THEN [data EXCEPT !.module = holdings, !.unbacked = 0] ELSE data
Restart == Deliver(InitGenesis(ExportGenesis(s)))

(***************************************************************************)
(* The registered invariants; true is broken.                              *)
(***************************************************************************)
Found(t) == {v \in Validators : t.val[v].found}
Delegations(t) == {p \in Delegators \X Validators : t.del[p] > 0}

NonNegativeOutstandingInvariant(t) == \E v \in Validators : t.out[v] < 0

\* The error of a commission of zero, or of one the account cannot pay, is passed over; the latter
\* comes after the records were reduced.
PassOver(t, whole) == IF t.err THEN [t EXCEPT !.err = FALSE, !.unbacked = @ - whole] ELSE t
CommissionWithdrawn(t, v) ==
    IF t.comm[v] = 0 THEN t ELSE PassOver(CommissionPaid(t, v), TruncateInt(t.comm[v]))

\* Validator by validator the commission, then the rewards; err: a reward that cannot be paid.
AllWithdrawn(t) ==
    LET Rewards(u, v) == FoldSet(LAMBDA d, w : IF w.err THEN w ELSE RewardWithdrawn(w, d, v), u,
                                 {d \in Delegators : t.del[d, v] > 0})
    IN  FoldSet(LAMBDA v, u : IF u.err THEN u ELSE Rewards(CommissionWithdrawn(u, v), v), t, Found(t))
Overdrawn(t) == t.panic # {} \/ \E v \in Found(t) : t.out[v] < 0
CanWithdrawInvariant(t) == Overdrawn(AllWithdrawn(t))

ReferenceCountInvariant(t) ==
    LET Counts(v) == MapThenSumSet(LAMBDA p : t.hist[v][p].rc, DOMAIN t.hist[v])
    IN  MapThenSumSet(Counts, Validators)
        # Cardinality(Found(t)) + Cardinality(Delegations(t)) + MapThenSumSet(LAMBDA v : Len(t.slashes[v]), Validators)

AllInvariants(t) == CanWithdrawInvariant(t) \/ NonNegativeOutstandingInvariant(t) \/ ReferenceCountInvariant(t)

(***************************************************************************)
(* prepForZeroHeightGenesis: everything is paid, all commissions first and *)
(* passing over errors; the records of the past are deleted, what is left  *)
(* over goes to the pool, and validators and delegations start again at    *)
(* height zero.                                                            *)
(***************************************************************************)
DonateScraps(t, v) == initializeValidator([t EXCEPT !.pool = @ + t.out[v]], v)

Reinitialize(t, d, v) ==
    [initializeDelegation(incrementValidatorPeriod(t, v), d, v) EXCEPT !.start[d, v].height = 0]

prepForZeroHeightGenesis(t) ==
    LET asserted == Check(t, ~AllInvariants(t), "invariant")
        comms    == FoldSet(LAMBDA v, u : CommissionWithdrawn(u, v), asserted, Found(t))
        paid     == FoldSet(LAMBDA p, u : [RewardWithdrawn(u, p[1], p[2]) EXCEPT !.err = FALSE], comms, Delegations(t))
        cleared  == [paid EXCEPT !.slashes = [v \in Validators |-> <<>>], !.hist = [v \in Validators |-> <<>>]]
        vals     == FoldSet(LAMBDA v, u : DonateScraps(u, v), cleared, Found(t))
    IN  FoldSet(LAMBDA p, u : Reinitialize(u, p[1], p[2]), vals, Delegations(t))

\* A reward that cannot be paid is a panic of CanWithdrawInvariant, and nothing is exported.
RestartAtZero ==
    /\ s.panic = {} /\ height > 0 /\ ~AllWithdrawn(s).err
    /\ s' = InitGenesis(ExportGenesis(prepForZeroHeightGenesis(s)))
    /\ height' = 0
    /\ UNCHANGED proposer

Empty ==
    [val |-> [v \in Validators |-> NoValidator],
     del |-> [p \in Delegators \X Validators |-> 0],
     hist |-> [v \in Validators |-> <<>>],
     cur |-> [v \in Validators |-> [rewards |-> 0, period |-> 0]],
     comm |-> [v \in Validators |-> 0], out |-> [v \in Validators |-> 0],
     start |-> [p \in Delegators \X Validators |-> NoInfo],
     slashes |-> [v \in Validators |-> <<>>],
     pool |-> 0, module |-> 0, unbacked |-> 0, panic |-> {}, err |-> FALSE]

Operator(v) == CHOOSE d \in Delegators : TRUE
Init ==
    /\ height = 0 /\ proposer = {}
    /\ s = FoldSet(LAMBDA v, t : Delegated(Create(t, v), Operator(v), v, GenesisTokens[v]), Empty,
                   {v \in Validators : GenesisTokens[v] > 0})

Block == \E f \in Fees, commit \in Commits : BeginBlocker(f, commit[1], commit[2], commit[3])

Step ==
    \/ \E v \in Validators :
        \/ \E d \in Delegators :
            \/ \E amt \in Amounts : Delegate(d, v, amt) \/ CreateValidator(d, v, amt) \/ Undelegate(d, v, amt)
            \/ WithdrawDelegationRewards(d, v)
        \/ \E amt \in Amounts : Slash(v, amt)
        \/ WithdrawValidatorCommission(v)
    \/ \E amt \in Amounts : DistributeFromFeePool(amt) \/ AddToFeePool(amt)
    \/ Restart \/ RestartAtZero

Next == Block \/ Step

Spec == Init /\ [][Next]_vars

-----------------------------------------------------------------------------
\* No delegator, commission or removal finds a reference count, a stake or an
\* outstanding amount that the code asserts to be impossible.  (A module account
\* that cannot pay is not among these: see Deliver and RestartAtZero.)
NoPanic == s.panic = {}

\* The module account holds exactly the outstanding rewards and the community
\* pool but for what AddToFeePool credited since the last genesis, through every
\* truncation (ModuleAccountInvariant of keeper/invariants.go, the check without
\* that amount, is switched off).
HoldingsExact ==
    ToDec(s.module + s.unbacked) = s.pool + MapThenSumSet(LAMBDA v : s.out[v], Validators)

\* A period is referenced by the delegations and slashes that ended it and by
\* the current period that follows it, and is deleted with its last reference
\* (ReferenceCount in types/validator.go, here for every period).
ReferencesExact ==
    \A v \in Validators : s.val[v].found =>
        \A p \in 0..s.cur[v].period :
            LET refs == Cardinality({d \in Delegators : s.start[d, v].found /\ s.start[d, v].period = p})
                        + Len(SelectSeq(s.slashes[v], LAMBDA e : e.period = p))
                        + (IF p = s.cur[v].period - 1 THEN 1 ELSE 0)
            IN  IF refs = 0 THEN p \notin DOMAIN s.hist[v]
                ELSE p \in DOMAIN s.hist[v] /\ s.hist[v][p].rc = refs

\* All delegators together with the commission can never claim more than what
\* is outstanding: no rounding of ratios and stakes favours a delegator.
ClaimsCovered ==
    \A v \in Validators : s.val[v].found =>
        LET ended     == incrementValidatorPeriod(s, v)
            Claim(d)  == IF s.start[d, v].found THEN calculateDelegationRewards(ended, d, v, s.cur[v].period) ELSE 0
        IN  s.comm[v] + MapThenSumSet(Claim, Delegators) =< ended.out[v]

\* A chain that starts again at height zero is given exactly what the account
\* of the old one holds once all rewards are paid, and the coins that its
\* records had without backing: scraps are neither lost nor counted twice by
\* prepForZeroHeightGenesis and InitGenesis.
OnRecord(t) == t.module + t.unbacked
ScrapsKept == height' < height => s'.module = OnRecord(prepForZeroHeightGenesis(s))
=============================================================================
