CONSTANTS
    p1 = p1
    p2 = p2
    Places <- MCPlaces
    MaxGuesses = 4
SPECIFICATION Spec
INVARIANTS StrictGuessesNothing NeverSilent StatusTellsTheTruth
CHECK_DEADLOCK FALSE
