CONSTANTS
    Replicas = 1
    JobPolicy = "OnFailure"
    BackoffLimit = 0
    LauncherPolicy = "Never"
    WorkerPolicy = "Never"
    CleanPodPolicy = "Running"
    Scalers = {Out, In}
    Out = Out
    In = In
    ScalerSpec <- OutThenIn
    NoScaler = NoScaler
    Lagging = {Out, In}
    Faults = {"crash", "scalerDeleted", "execError", "apiError"}
    WorkerFates = {"Failed"}
    ExitCodes = {1}
    LauncherFates = {"Succeeded", "Failed"}
    CanSuspend = FALSE
    MaxWorker = 2
    MaxCopies = 1
    MaxFaults = 1

SPECIFICATION Spec
INVARIANT ScalingScaler
PROPERTY ScalerProgress
