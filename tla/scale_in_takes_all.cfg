CONSTANTS
    Replicas = 2
    JobPolicy = "OnFailure"
    BackoffLimit = 0
    LauncherPolicy = "Never"
    WorkerPolicy = "Never"
    CleanPodPolicy = "Running"
    Scalers = {In}
    Out = Out
    In = In
    ScalerSpec <- InByName
    NoScaler = NoScaler
    Lagging = {}
    Faults = {"crash"}
    WorkerFates = {"Failed"}
    ExitCodes = {1}
    LauncherFates = {"Succeeded", "Failed"}
    CanSuspend = FALSE
    MaxWorker = 2
    MaxCopies = 1
    MaxFaults = 1

SPECIFICATION Spec
PROPERTY ScaleInTakesOnlyNamed
