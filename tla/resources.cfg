\* A suspended job whose objects are gone has nothing left to do.
CONSTANTS
    Jobs = {First}
    First = First
    Second = Second
    Name <- OwnNames
    MaxWorker = 2
    Replicas = 1
    CleanPodPolicy = "Running"
    BackoffLimit = 1
    Lagging = {"pod", "service"}
    Faults = {"crash", "apiError"}
    MaxFaults = 1

SPECIFICATION Spec
INVARIANT TypeOK
INVARIANT Serviced
INVARIANT Equipped
INVARIANT CleanedUp
CHECK_DEADLOCK FALSE
