CONSTANTS
    Replicas = 2
    JobPolicy = "OnFailure"
    BackoffLimit = 0
    LauncherPolicy = "Never"
    WorkerPolicy = "Always"
    CleanPodPolicy = "Running"
    Scalers = {}
    Out = Out
    In = In
    ScalerSpec <- NoScalers
    NoScaler = NoScaler
    Lagging = {}
    Faults = {"workerEnds", "workerLost", "execError"}
    WorkerFates = {"Failed", "Succeeded", "Unknown"}
    ExitCodes = {1}
    LauncherFates = {"Succeeded", "Failed"}
    CanSuspend = TRUE
    MaxWorker = 4
    MaxCopies = 1
    MaxFaults = 3

SPECIFICATION Spec
INVARIANT NoOrphans
INVARIANT FullStrength
INVARIANT HostfileUpToDate
