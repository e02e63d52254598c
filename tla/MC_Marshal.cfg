CONSTANTS
    Data <- MCData
    Graphs <- MCGraphs
    Foreign <- MCForeign
    MaxSteps = 60
    SlicesHash = FALSE
SPECIFICATION TripSpec
INVARIANTS TypeOK SlotsNest NamesInPlace
PROPERTIES FinishedStay ReadsBack
CHECK_DEADLOCK FALSE
