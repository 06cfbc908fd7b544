SPECIFICATION Spec
CONSTANTS
    a1 = a1
    a2 = a2
    a3 = a3
    Attempts = {a1, a2, a3}
    None = None
    Bodies = {b1, b2}
    Lease = 1
    Retention = 3
    MaxRun = 2
    MaxNow = 5
SYMMETRY AttemptSymmetry
CHECK_DEADLOCK FALSE
INVARIANTS
    OneEffect
    ReplayTruth
    ReceiptTruth
    RetryAdmitted
PROPERTIES
    TerminalIsFinal
    ImplementsKeyedWrite
