\* Two workers; tokens and credentials that expire several times over.  As in
\* the code, an attempt may take as long as the threshold, the retries twice.
CONSTANTS
    Caller = {w1, w2}
    Margin = 2
    Lifetime = {1, 4}
    MaxClock = 10
    RefreshThreshold = 2
    GetTimeout = 1
    RequestTimeout = 2
    RetryTimeout = 4
    CredentialLifetime = {4, 5}
    NoOne = NoOne
SYMMETRY WorkerSymmetry
SPECIFICATION CredentialsSpec
INVARIANTS
    TokenTypeOK
    ExpiryConservative
    HitsAreFresh
    RefreshIsFresh
    SignedInTime
CHECK_DEADLOCK FALSE
