CONSTANTS
    Replicas = 2
    JobPolicy = "OnFailure"
    BackoffLimit = 0
    LauncherPolicy = "Never"
    WorkerPolicy = "Always"
    CleanPodPolicy = "Running"
    Scalers = {Out, In}
    Out = Out
    In = In
    ScalerSpec <- OutThenIn
    NoScaler = NoScaler
    Lagging = {}
    Faults = {"workerEnds", "workerLost", "execError"}
    WorkerFates = {"Failed", "Unknown"}
    ExitCodes = {1}
    LauncherFates = {"Succeeded", "Failed"}
    CanSuspend = FALSE
    MaxWorker = 4
    MaxCopies = 1
    MaxFaults = 2

SPECIFICATION Spec
INVARIANT SerialScaling
INVARIANT FullStrength
INVARIANT ScaleOutAddsItsCount
INVARIANT NoLostWakeup
PROPERTY ScaledInAfterHostfile
PROPERTY HostfileAfterRunning
