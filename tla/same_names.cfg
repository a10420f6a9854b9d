CONSTANTS
    Jobs = {First, Second}
    First = First
    Second = Second
    Name <- OneName
    MaxWorker = 1
    Replicas = 1
    CleanPodPolicy = "Running"
    BackoffLimit = 0
    Lagging = {"service"}
    Faults = {}
    MaxFaults = 0

SPECIFICATION Spec
PROPERTY JobsApart
