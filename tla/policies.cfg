CONSTANTS
    Replicas = 2
    JobPolicy = "OnFailure"
    BackoffLimit = 1
    LauncherPolicy = "Always"
    WorkerPolicy = "ExitCode"
    CleanPodPolicy = "None"
    Scalers = {In}
    Out = Out
    In = In
    ScalerSpec <- InByName
    NoScaler = NoScaler
    Lagging = {}
    Faults = {"launcherLost", "workerEnds"}
    WorkerFates = {"Failed"}
    ExitCodes = {1, 137}
    LauncherFates = {"Succeeded", "Failed"}
    CanSuspend = FALSE
    MaxWorker = 3
    MaxCopies = 1
    MaxFaults = 2

SPECIFICATION Spec
INVARIANT NoLostWakeup
PROPERTY ScaleInTakesOnlyNamed
