CONSTANTS
    Parts = {"staking", "slashing", "rewards", "gov", "tally", "bank"}
    MaxTime = 4
    StakingSteps = 3
    MaxImports = 1
    SlashingHeight = 9
    RewardHeight = 3
    RewardSteps = 3
    MaxProposals = 2
    MaxMessages = 3
    LastMessage = 2
    BankSteps = 3
SPECIFICATION Spec
INVARIANTS  QueuesExact ClaimsCovered DoubleSignSlashedOnce MissedIsWindow EachShareOnce
PROPERTIES RestartKeeps
CHECK_DEADLOCK FALSE
