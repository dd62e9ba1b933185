\* The documented stop of the upload at the first failure.
CONSTANTS
    Path = {p1, p2}
    Key = {k1, k2}
    LegalKey = {k1, k2}
    NoObject = NoObject
    MaxConcurrentUploads = 1
    OsErrorRetries = 3
SPECIFICATION PoolSpec
PROPERTY StopsOnFailure
CHECK_DEADLOCK FALSE
