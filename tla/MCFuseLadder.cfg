SPECIFICATION Spec
CONSTANTS
    Ladder <- MCLadder
    Thresholds = {1, 2, 3, 4, 5, 6, 7, 8, 9}
    InFlight = 2
INVARIANTS CulpritLogged ClearLadderSurvives SettledNamesCulprit
PROPERTY LadderEnds
CHECK_DEADLOCK FALSE
