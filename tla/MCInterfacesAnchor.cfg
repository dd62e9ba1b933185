\* Uploads with an anchor, given to the object or to submit.
CONSTANTS
    shell = shell
    script = script
    Client = {shell, script}
    NoEntity = NoEntity
    OwnEntity = "own"
    OnBehalfOf <- MCOnBehalfOf
    NoId = NoId
    Product = {1}
    RandomNumber = {1}
    Offset = {0, 1}
    TimeframeMapping <- MCTimeframeMapping
    MaxUtc = 2
    Interface <- MCInterface
    Operation <- MCAnchoredOperation
    Anchor = {"ds"}
    NoAnchor = NoAnchor
    MaxOperations = 1
    MaxCommands = 3
SPECIFICATION InterfacesSpec
INVARIANT AnchorUsed
CHECK_DEADLOCK FALSE
