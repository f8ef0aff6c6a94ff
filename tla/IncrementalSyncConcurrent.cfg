SPECIFICATION Spec
CONSTANTS
    Event = {e1, e2}
    StateEvent = {e2}
    Change = {c1}
    Writer = {w1, w2}
    Nothing = Nothing
    TimelineLimit = 2
SYMMETRY Symmetry
INVARIANTS
    StateHasEvent
PROPERTIES
    OrderingNeverMoves
    TokenCoversSnapshot
    TokenAdvances
CHECK_DEADLOCK FALSE
