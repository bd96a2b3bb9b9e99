CONSTANTS
    Tasks = {t1}
    MayBeEmpty = TRUE
SPECIFICATION Spec
PROPERTY EventuallyToldDone
CHECK_DEADLOCK FALSE
