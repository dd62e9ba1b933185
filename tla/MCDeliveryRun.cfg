\* Every call but those with colliding keys, two workers.
CONSTANTS
    Path <- MCPath
    Key <- MCKey
    LegalKey <- MCLegalKey
    NoObject = NoObject
    MaxConcurrentUploads = 2
    OsErrorRetries = 2
    NoAnchor = NoAnchor
    EndsInDots = {".."}
    EndsInColon = {"C:"}
    Disk <- MCDisk
    UnitsPerMB = 2
    MaxNumberOfFiles = 3
    MaxDeliverySize = 8
    MaxFileSize = 6
    Products <- MCProducts
    DeliveryId = "did"
    DryRunTag = DryRunTag
    Request <- MCUniqueCalls
SPECIFICATION FairRunSpec
INVARIANTS
    RunTypeOK
    ManifestBacked
    FilesCheckedFirst
    LimitsKept
    OutcomeTold
    OrderKept
    RaisingIsAllOrNothing
    ResponseAgrees
    CountsAgree
    IncompleteIsWarned
    VolumeDeclared
PROPERTIES
    PromiseKept
    OperationsEnd
    CallEnds
CHECK_DEADLOCK FALSE
