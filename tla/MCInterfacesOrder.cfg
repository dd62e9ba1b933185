\* The documented order of the list; clocks two units apart.
CONSTANTS
    shell = shell
    script = script
    Client = {shell, script}
    NoEntity = NoEntity
    OwnEntity = "own"
    OnBehalfOf <- MCOnBehalfOf
    NoId = NoId
    Product = {1}
    RandomNumber = {1}
    Offset = {0, 2}
    TimeframeMapping <- MCTimeframeMapping
    MaxUtc = 2
    Interface <- MCInterface
    Operation <- MCOperation
    Anchor = {}
    NoAnchor = NoAnchor
    MaxOperations = 1
    MaxCommands = 3
SPECIFICATION InterfacesSpec
INVARIANT MostRecentFirst
CHECK_DEADLOCK FALSE
