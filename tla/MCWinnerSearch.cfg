SPECIFICATION Spec
CONSTANTS
    Sizes = {1, 2, 3}
INVARIANTS AnswerIsRight FilledBoardHasOneWinner
PROPERTY SearchStops
CHECK_DEADLOCK FALSE
