SPECIFICATION FairSpec
CONSTANTS
    w1 = w1
    w2 = w2
    Workers = {w1, w2}
    None = None
    MaxDeliveries = 2
    MaxCopies = 2
    MaxEffects = 2
    MaxReplays = 1
    MaxResets = 1
    Deployments <- SoundDeployments
CHECK_DEADLOCK FALSE
INVARIANT NoLoss
INVARIANT HandledOnce
INVARIANT LetterMeansUnhandled
PROPERTY ImplementsFate
