SPECIFICATION Spec
CONSTANTS
    None = None
    Contexts = {c1, c2}
    Retention = 1
    MaximumOutboxBatches = 2
    MaximumLossContexts = 1
    MaximumRevoked = 1
    MaximumSequence = 3
    LastTime = 2
    MaxBodies = 2
    MaxMishaps = 1
    MaxSetbacks = 1
    MaxOps = 8
    Statuses = {"accepted", "rejected"}
SYMMETRY Symmetry
INVARIANT NothingSentLate IdentityNeverReused OwnFilesOpen LossesCounted
