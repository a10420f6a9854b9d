\* The model stops at the bound MaxWorker, where the system would go on.
CONSTANTS
    Replicas = 1
    JobPolicy = "OnFailure"
    BackoffLimit = 1
    LauncherPolicy = "Never"
    WorkerPolicy = "Always"
    CleanPodPolicy = "Running"
    Scalers = {}
    Out = Out
    In = In
    ScalerSpec <- NoScalers
    NoScaler = NoScaler
    Lagging = {"pods"}
    Faults = {"crash", "workerEnds", "workerLost", "launcherLost"}
    WorkerFates = {"Failed"}
    ExitCodes = {1}
    LauncherFates = {"Succeeded", "Failed"}
    CanSuspend = FALSE
    MaxWorker = 2
    MaxCopies = 1
    MaxFaults = 1

SPECIFICATION Spec
INVARIANT HostsComplete
INVARIANT NoLostWakeup
PROPERTY LifecycleSpec
CHECK_DEADLOCK FALSE
