SPECIFICATION FairSpec
CONSTANTS
    Event = {e1, e2, e3}
    StateEvent = {}
    Change = {}
    Writer = {w1}
    Nothing = Nothing
    TimelineLimit = 3
INVARIANTS
    NothingSkipped
PROPERTIES
    EventsArrive
CHECK_DEADLOCK FALSE
