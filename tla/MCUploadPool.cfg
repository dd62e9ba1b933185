\* Three files, three keys (one illegal), two workers: collisions of two and
\* of three paths, a queue behind busy workers, retries up to the limit and
\* repeated calls, four files sent to a key in all.
CONSTANTS
    Path = {p1, p2, p3}
    Key = {k1, k2, k3}
    LegalKey = {k1, k2}
    NoObject = NoObject
    MaxConcurrentUploads = 2
    OsErrorRetries = 2
SYMMETRY PoolSymmetry
CONSTRAINT FewSent
SPECIFICATION PoolSpec
INVARIANTS
    PoolTypeOK
    StoredIntact
    NoneLost
    RaisesForAFailure
    QuietAfterTheCall
PROPERTY DryRunWritesNothing
CHECK_DEADLOCK FALSE
