CONSTANTS
    Procs = {p1, p2, p3}
    Intr = Intr
    Nobody = Nobody
    b1 = b1
    v0 = v0
    Blocks = {b1, b2}
    Vals = {v0, v1}
    Retries = 6
    Cards <- MCCards
SPECIFICATION MCSpec
INVARIANTS SdrwSynced ControllerInStep CardReady FailsOnlyOnFault
PROPERTIES RequestServed BootEnds
CHECK_DEADLOCK FALSE
