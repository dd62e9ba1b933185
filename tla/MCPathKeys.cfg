\* Every path of up to five of seven segments; the dataset itself, a segment
\* that ends in ".." or in ":", and the segments pathlib drops are among them.
CONSTANTS
    NoAnchor = NoAnchor
    EndsInDots = {"..", "v.."}
    EndsInColon = {"C:"}
    MaxSegments = 5
    Segment = {"", ".", "..", "v..", "C:", "ds", "f.nc"}
    Anchor = {"ds", "f.nc"}
    DatasetId = {"ds", "other", "prod"}
    ProductId = "prod"
    DeliveryId = "did"
SPECIFICATION Spec
INVARIANTS
    SuffixRoundTrip
    AnchoredSuffixIsClean
    AcceptedStaysAccepted
    ResponseShowsTheDestination
CHECK_DEADLOCK FALSE
