CONSTANTS
    Replicas = 1
    JobPolicy = "OnFailure"
    BackoffLimit = 0
    LauncherPolicy = "Never"
    WorkerPolicy = "Never"
    CleanPodPolicy = "Running"
    Scalers = {Out, In}
    Out = Out
    In = In
    ScalerSpec <- OutThenScripted
    NoScaler = NoScaler
    Lagging = {"pods"}
    Faults = {}
    WorkerFates = {"Failed"}
    ExitCodes = {1}
    LauncherFates = {"Succeeded", "Failed"}
    CanSuspend = TRUE
    MaxWorker = 2
    MaxCopies = 1
    MaxFaults = 0

SPECIFICATION FairSpec
PROPERTY SuspendedIsTornDown
PROPERTY SucceededIsCleaned
PROPERTY StartupEnds
PROPERTY ScalersEnd
