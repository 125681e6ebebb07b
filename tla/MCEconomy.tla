----------------------------- MODULE MCEconomy -----------------------------
(***************************************************************************)
(* Instances of the components of the staking economy: validators and      *)
(* delegations, slashing, rewards, governance with its tally, and the      *)
(* bank.  A behaviour runs one of them, the one named by part; the others  *)
(* stay as they were at genesis.                                           *)
(***************************************************************************)
EXTENDS Integers, Sequences, FiniteSets, FiniteSetsExt

CONSTANTS
    Parts,                              \* components that are run
    MaxTime, StakingSteps, MaxImports,  \* bounds on blocks, on messages and slashes, and on imports
    SlashingHeight,                     \* bound on blocks of slashing
    RewardHeight, RewardSteps,          \* bounds on blocks, and on steps between them
    MaxProposals, MaxMessages,          \* bounds on proposals and on messages about them
    LastMessage,                        \* time of the last block with messages
    BankSteps                           \* bound on messages of the bank

VARIABLES
    part, steps,
    now, store, hist, stakePanic, committed, import,
    height, phase, c, valsets, panic,
    rHeight, proposer, rewards,
    gov, restarts,
    stake, votes,
    bal, hold, total, burned, flows, sendEnabled, taken

stakeVars == <<now, store, hist, stakePanic, committed, import>>
slashVars == <<height, phase, c, valsets, panic>>
rewardVars == <<rHeight, proposer, rewards>>
govVars == <<gov, restarts>>
tallyVars == <<stake, votes>>
bankVars == <<bal, hold, total, burned, flows, sendEnabled, taken>>
vars == <<part, steps, stakeVars, slashVars, rewardVars, govVars, tallyVars, bankVars>>

-----------------------------------------------------------------------------
(***************************************************************************)
(* Two users who may be validators, one of whom is at genesis, for one     *)
(* place in the set.  An export jails nobody, or everybody but 2.          *)
(***************************************************************************)
Stake == INSTANCE Staking WITH
    Precision <- 1, maxBitLen <- 255, Users <- {1, 2}, Amounts <- {1, 2}, InitialCoins <- 4, GenesisStake <- 3,
    GenesisValidators <- {1}, PowerReduction <- 1, MaxValidators <- 1, MinValidatorDelegation <- 1,
    UnbondingTime <- 2, MaxEntries <- 2, SlashFactor <- 5, SelfMinima <- {1}, KeyNodes <- {1},
    WhiteLists <- {{}, {2}}, panic <- stakePanic

\* Blocks and imports are not counted as steps.
StakeNext ==
    \/ steps < StakingSteps /\ Stake!Message /\ steps' = steps + 1
    \/ now < MaxTime /\ Stake!Block /\ UNCHANGED steps
    \/ import.count < MaxImports /\ Stake!Export /\ UNCHANGED steps

-----------------------------------------------------------------------------
(***************************************************************************)
(* A validator over nine blocks with a window of three                     *)
(***************************************************************************)
Slash == INSTANCE Slashing WITH
    Validators <- {"a"}, SignedBlocksWindow <- 3, MinSignedPerWindow <- Stake!RoundInt(Stake!MulInt(5, 3)),
    DowntimeJailDuration <- 2, MaxEvidenceAge <- 3, UnbondingTime <- 3, Forever <- 99

ASSUME SlashConstants == Slash!SlashingConstants

SlashNext == ~panic /\ Slash!Next /\ height' =< SlashingHeight /\ UNCHANGED steps

-----------------------------------------------------------------------------
(***************************************************************************)
(* Two validators, two delegators, and decimals of one digit, so that      *)
(* every rounding shows                                                    *)
(***************************************************************************)
Reward == INSTANCE Distribution WITH
    Precision <- 1, maxBitLen <- 255, Validators <- {1, 2}, Delegators <- {"a", "b"}, Fees <- {7}, Amounts <- {2},
    PowerOf <- [v \in {1, 2} |-> v], Commits <- {<<{1, 2}, {1, 2}, 1>>, <<{}, {}, 2>>}, KeyNodes <- {1, 2},
    KeyNodeReward <- 3, BaseProposerReward <- 1, Commission <- 3,
    GenesisTokens <- [v \in {1, 2} |-> IF v = 1 THEN 5 ELSE 0],
    height <- rHeight, s <- rewards

RewardNext ==
    \/ rHeight < RewardHeight /\ Reward!Block /\ UNCHANGED steps
    \/ steps < RewardSteps /\ Reward!Step /\ steps' = steps + 1

-----------------------------------------------------------------------------
(***************************************************************************)
(* Proposals of either token by two users; "a" is also a validator, with   *)
(* half of its shares delegated by "b".                                    *)
(***************************************************************************)
GovUsers == {"a", "b"}
Denoms == {"hbc", "dao"}
Each(n) == [d \in Denoms |-> n]
Only(d, n) == [Each(0) EXCEPT ![d] = n]

Govern == INSTANCE Gov WITH
    Precision <- 1, maxBitLen <- 255, Users <- GovUsers, Denoms <- Denoms, Native <- "hbc", Tokens <- Denoms,
    MinInitDeposit <- Each(1), MinDeposit <- Each(2), MaxDepositPeriod <- 1, VotingPeriod <- 2,
    Quorum <- 4, Threshold <- 5, Veto <- 4, VoteTimes <- {0, 1},
    Amounts <- {Only("hbc", 1), Only("hbc", 2), Only("dao", 2)},
    Stakes <- {[tokens |-> [v \in {"a"} |-> 2], shares |-> [v \in {"a"} |-> 20],
                del |-> [u \in GovUsers |-> [v \in {"a"} |-> 10]], pool |-> 2]},
    DaoSupply <- Each(4), Genesis <- [u \in GovUsers |-> Each(4)], Width <- 8, s <- gov

GovMessage ==
    /\ ~gov.panic /\ gov.now =< LastMessage /\ steps < MaxMessages
    /\ Govern!Message
    /\ gov'.next =< MaxProposals + 1
    /\ \A k \in DOMAIN gov'.votes : gov'.votes[k] \in {"Yes", "NoWithVeto"}
    /\ \A k \in DOMAIN gov'.daoVotes : gov'.daoVotes[k].option \in {"Yes", "No"}
    /\ steps' = steps + 1 /\ UNCHANGED restarts

GovEndBlock ==
    /\ ~gov.panic /\ gov.now =< LastMessage + 3
    /\ Govern!EndBlock
    /\ UNCHANGED <<steps, restarts>>

GovRestart ==
    /\ ~gov.panic /\ restarts = 0
    /\ Govern!Restart
    /\ restarts' = 1 /\ UNCHANGED steps

GovNext == GovMessage \/ GovEndBlock \/ GovRestart

-----------------------------------------------------------------------------
(***************************************************************************)
(* The tally on every stake of two validators and a delegator, and every   *)
(* set of their votes                                                      *)
(***************************************************************************)
Vals == {"v", "w"}
Voters == Vals \cup {"d"}

Tally == INSTANCE Gov WITH
    Precision <- 2, maxBitLen <- 255, Users <- Voters, Denoms <- {"hbc"}, Native <- "hbc", Tokens <- {"hbc"},
    MinInitDeposit <- 0, MinDeposit <- 0, MaxDepositPeriod <- 1, VotingPeriod <- 1, Quorum <- 40, Threshold <- 50,
    Veto <- 30, VoteTimes <- {}, Amounts <- {}, Stakes <- {}, DaoSupply <- 0, Genesis <- 0, Width <- 8, s <- gov

StakeOf(del, tokens) ==
    [tokens |-> tokens, del |-> del, shares |-> [v \in Vals |-> MapThenSumSet(LAMBDA u : del[u][v], Voters)],
     pool |-> MapThenSumSet(LAMBDA v : tokens[v], Vals)]

TallyInit ==
    \E del \in [Voters -> [Vals -> {0, 100, 250}]], tokens \in [Vals -> {3, 5}] :
        /\ \A v \in Vals : del[v][v] > 0
        /\ stake = StakeOf(del, tokens)

\* Another voter votes.
TallyNext ==
    /\ \E u \in Voters \ DOMAIN votes, o \in Tally!Options : votes' = Tally!Put(votes, u, o)
    /\ UNCHANGED <<stake, steps>>

\* The shares of validator v that count for option o: those of delegators who chose it, and those of
\* everybody else if the validator did.  A bonded validator has no other voice than its own.
SharesFor(v, o) ==
    MapThenSumSet(LAMBDA u : stake.del[u][v],
                  {u \in Voters : LET own == u \in DOMAIN votes /\ u \notin Vals
                                  IN  \/ own /\ votes[u] = o
                                      \/ ~own /\ v \in DOMAIN votes /\ votes[v] = o})

VotingPower(o) ==
    MapThenSumSet(LAMBDA v : (stake.tokens[v] * SharesFor(v, o) * Tally!OneDec) \div stake.shares[v], Vals)

\* A quotient is off by half a unit at most, once per delegator and once per validator.
Slack == MapThenSumSet(LAMBDA v : stake.tokens[v] * (Cardinality(Voters) + 1) + 1, Vals)

-----------------------------------------------------------------------------
(***************************************************************************)
(* The bank: two users, three module accounts, lists of one or two coins   *)
(***************************************************************************)
OneCoin(d, n) == [denom |-> d, amount |-> n]

Bank == INSTANCE Bank WITH
    Users <- {"a", "b"}, Denoms <- {"btc", "hbc"}, Native <- "hbc",
    Permissions <- [m \in {"mint", "pool", "fee_collector"} |->
                       CASE m = "mint" -> {"minter"} [] m = "pool" -> {"burner", "staking"} [] OTHER -> {}],
    CoinLists <- {<<OneCoin("hbc", 1)>>, <<OneCoin("btc", 1), OneCoin("hbc", 1)>>, <<OneCoin("btc", 2)>>},
    MintPerBlock <- 1, Genesis <- [d \in {"btc", "hbc"} |-> 2]

BankNext == steps < BankSteps /\ steps' = steps + 1 /\ Bank!Next

-----------------------------------------------------------------------------
Init ==
    /\ part \in Parts /\ steps = 0
    /\ Stake!Init /\ Slash!Init /\ Reward!Init /\ Govern!Init /\ Bank!Init
    /\ restarts = 0 /\ votes = << >>
    /\ IF part = "tally" THEN TallyInit ELSE stake = << >>

Next ==
    \/ part = "staking" /\ StakeNext /\ UNCHANGED <<part, slashVars, rewardVars, govVars, tallyVars, bankVars>>
    \/ part = "slashing" /\ SlashNext /\ UNCHANGED <<part, stakeVars, rewardVars, govVars, tallyVars, bankVars>>
    \/ part = "rewards" /\ RewardNext /\ UNCHANGED <<part, stakeVars, slashVars, govVars, tallyVars, bankVars>>
    \/ part = "gov" /\ GovNext /\ UNCHANGED <<part, stakeVars, slashVars, rewardVars, tallyVars, bankVars>>
    \/ part = "tally" /\ TallyNext /\ UNCHANGED <<part, stakeVars, slashVars, rewardVars, govVars, bankVars>>
    \/ part = "bank" /\ BankNext /\ UNCHANGED <<part, stakeVars, slashVars, rewardVars, govVars, tallyVars>>

Spec == Init /\ [][Next]_vars

-----------------------------------------------------------------------------

\* Whatever has to end has its slot in a queue at its time, and nothing that was due is still there:
\* unbonding delegations, redelegations and validators, and the periods of proposals, across slashes,
\* jails, activation, lapse and import.
QueuesExact ==
    /\ part = "staking" => Stake!QueuesCover /\ Stake!IndexCurrent
    /\ part = "gov" => Govern!QueuesExact /\ Govern!PeriodsEnd

\* A chain that starts again from its export at height zero has the stake of the old one: the same
\* delegations, tokens, statuses, pools, queues and index.  What the distribution account holds once
\* all rewards are paid is neither lost nor counted twice.
RestartKeeps ==
    [][/\ part = "staking" => Stake!RestartKeeps /\ Stake!ImportAccepted'
       /\ part = "rewards" => Reward!ScrapsKept]_vars

\* All delegators together with the commission can never claim more than what is outstanding, and each
\* period of rewards is kept exactly as long as something refers to it: no rounding of ratios and
\* stakes favours a delegator, and no withdrawal or removal finds a count, a stake or an amount that
\* the code asserts to be impossible, whatever slashes and withdrawals came between.
ClaimsCovered == part = "rewards" => Reward!ClaimsCovered /\ Reward!ReferencesExact /\ Reward!NoPanic

\* A validator is slashed for double signing at most once, however much evidence arrives and whatever
\* it does in between, though it is removed and created anew with the same key.
DoubleSignSlashedOnce == part = "slashing" => Slash!DoubleSignSlashedOnce

\* The counter of missed blocks, kept step by step beside an array that is overwritten in a circle, is
\* the number of misses among the last votes since the last reset; and a vote of the last commit always finds
\* the key and the signing info of its validator, though it was removed or created anew.
MissedIsWindow == part = "slashing" => Slash!MissedIsWindow /\ Slash!VotesFound

\* The tally gives every share of a bonded validator to exactly one option, the delegator's own or the
\* inherited one, up to the rounding of its quotients.
EachShareOnce ==
    part = "tally" =>
        LET r == Tally!TallyResults(stake, votes)
        IN  \A o \in Tally!Options : Tally!Abs(2 * r[o] - 2 * VotingPower(o)) =< Slack
=============================================================================
