CONSTANTS
    Threads = {t1, t2, t3}
    v_init <- MCv_init
SPECIFICATION Spec
INVARIANTS
    TypeOK
    ValueCountsHolders
    NoUseAfterComplete
PROPERTIES
    ImplementsGate
CHECK_DEADLOCK FALSE
