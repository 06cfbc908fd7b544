SPECIFICATION Spec
CONSTANTS
    w1 = w1
    w2 = w2
    Workers = {w1, w2}
    None = None
    MaxDeliveries = 2
    MaxCopies = 1
    MaxEffects = 1
    MaxReplays = 0
    MaxResets = 0
    Deployments <- DeferringDeployments
SYMMETRY WorkerSymmetry
CHECK_DEADLOCK FALSE
INVARIANT NoLoss
