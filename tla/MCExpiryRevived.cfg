SPECIFICATION Spec
CONSTANTS
    None = None
    Contexts = {c1}
    Retention = 2
    MaximumOutboxBatches = 2
    MaximumLossContexts = 1
    MaximumRevoked = 1
    MaximumSequence = 3
    LastTime = 5
    MaxBodies = 2
    MaxMishaps = 4
    MaxSetbacks = 1
    MaxOps = 0
    Statuses = {}
INVARIANT ExpiredNeverRevived
CHECK_DEADLOCK FALSE
