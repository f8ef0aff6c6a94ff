SPECIFICATION SteadySpec
CONSTANTS
    Event = {e1, e2}
    StateEvent = {}
    Change = {}
    Writer = {w1, w2}
    Nothing = Nothing
    TimelineLimit = 2
INVARIANTS
    NothingSkipped
CHECK_DEADLOCK FALSE
