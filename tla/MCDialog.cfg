CONSTANTS
    Tasks = {t1, t2, t3}
    MayBeEmpty = FALSE
SPECIFICATION Spec
INVARIANTS
    RefsExact
    ButtonsMatchTask
    ClosedAtRest
PROPERTIES
    OwnDone
    EventuallyToldDone
CHECK_DEADLOCK FALSE
