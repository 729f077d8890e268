CONSTANTS
    Readers = {p1, p2}
    Cpus <- MCCpus
    INPUT_BUF = 2
    Chars = {"x"}
    Sizes <- MCSizes
    MaxIn = 4
    MaxOut = 3
SPECIFICATION Spec
INVARIANTS InputInOrder NoForgottenReader PanicWhole
CHECK_DEADLOCK FALSE
