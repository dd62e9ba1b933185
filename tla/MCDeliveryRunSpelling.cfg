\* A path that is not spelled as pathlib spells it.
CONSTANTS
    Path <- MCPath
    Key <- MCKey
    LegalKey <- MCLegalKey
    NoObject = NoObject
    MaxConcurrentUploads = 2
    OsErrorRetries = 3
    NoAnchor = NoAnchor
    EndsInDots = {".."}
    EndsInColon = {"C:"}
    Disk <- MCDisk
    UnitsPerMB = 2
    MaxNumberOfFiles = 3
    MaxDeliverySize = 8
    MaxFileSize = 6
    Products <- MCProducts
    DeliveryId = "did"
    DryRunTag = DryRunTag
    Request <- MCCalls
SPECIFICATION RunSpec
INVARIANT UploadedIsDelivered
CHECK_DEADLOCK FALSE
