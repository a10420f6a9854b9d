\* Without a job or without scalers the controllers have nothing to do.
CONSTANTS
    Scalers = {First}
    First = First
    Kind <- Single
    NoScaler = NoScaler
    MaxJobs = 2
    MaxVersion = 3
    Faults = {"crash", "apiError"}
    MaxFaults = 1

SPECIFICATION FairSpec
INVARIANT TypeOK
INVARIANT OwnedByItsJob
PROPERTY BindingSpec
PROPERTY SubmittedIsOwned
CHECK_DEADLOCK FALSE
