SPECIFICATION TraceFairSpec
CONSTANTS
    Tids = {1, 2, 3}
INVARIANTS NoForgottenStop LeavesNothingRunning
PROPERTIES RunEnds
