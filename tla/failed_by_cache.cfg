CONSTANTS
    Replicas = 1
    JobPolicy = "OnFailure"
    BackoffLimit = 0
    LauncherPolicy = "Never"
    WorkerPolicy = "Never"
    CleanPodPolicy = "Running"
    Scalers = {}
    Out = Out
    In = In
    ScalerSpec <- NoScalers
    NoScaler = NoScaler
    Lagging = {"job", "pods"}
    Faults = {}
    WorkerFates = {"Failed"}
    ExitCodes = {1}
    LauncherFates = {"Succeeded", "Failed"}
    CanSuspend = FALSE
    MaxWorker = 2
    MaxCopies = 1
    MaxFaults = 0

SPECIFICATION Spec
PROPERTY FailedByFailure
