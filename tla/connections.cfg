SPECIFICATION FairSpec
CONSTANTS
    alice = alice
    crook = crook
    Clients = {alice, crook}
    Banned = {crook}
    NumIds = 2
    Limits = {1, 2}
    Budgets <- MCBudgets
INVARIANTS IdsAreConserved
PROPERTIES AttemptsEnd SlotsAreUsed
CHECK_DEADLOCK FALSE
