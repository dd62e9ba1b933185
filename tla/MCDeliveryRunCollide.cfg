\* Two local files of one delivery with one key.
CONSTANTS
    Path <- MCPath
    Key <- MCKey
    LegalKey <- MCLegalKey
    NoObject = NoObject
    MaxConcurrentUploads = 2
    OsErrorRetries = 3
    NoAnchor = NoAnchor
    EndsInDots = {".."}
    EndsInColon = {"C:"}
    Disk <- MCDisk
    UnitsPerMB = 2
    MaxNumberOfFiles = 3
    MaxDeliverySize = 8
    MaxFileSize = 6
    Products <- MCProducts
    DeliveryId = "did"
    DryRunTag = DryRunTag
    Request <- MCCollidingCalls
SPECIFICATION RunSpec
INVARIANT ManifestAlwaysBacked
CHECK_DEADLOCK FALSE
