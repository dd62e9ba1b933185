\* Three commands of two clients of different entities, within three seconds.
CONSTANTS
    shell = shell
    script = script
    Client = {shell, script}
    NoEntity = NoEntity
    OwnEntity = "own"
    OnBehalfOf <- MCOnBehalfOf
    NoId = NoId
    Product = {1}
    RandomNumber = {1}
    Offset = {0}
    TimeframeMapping <- MCTimeframeMapping
    MaxUtc = 2
    Interface <- MCInterface
    Operation <- MCOperation
    Anchor = {}
    NoAnchor = NoAnchor
    MaxOperations = 1
    MaxCommands = 3
SPECIFICATION InterfacesSpec
INVARIANTS
    ExitTold
    SavedIsRegistered
    FoundAgain
CHECK_DEADLOCK FALSE
