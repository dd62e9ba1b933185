\* Two clients of one entity, on clocks that differ, whose deliveries may be
\* registered in the other order than they were begun in.
CONSTANTS
    shell = shell
    script = script
    Client = {shell, script}
    NoEntity = NoEntity
    OwnEntity = "own"
    OnBehalfOf <- MCOneEntity
    NoId = NoId
    Product = {1}
    RandomNumber = {1}
    Offset = {0, 1}
    TimeframeMapping <- MCTimeframeMapping
    MaxUtc = 2
    Interface <- MCInterface
    Operation <- MCDelete
    Anchor = {}
    NoAnchor = NoAnchor
    MaxOperations = 1
    MaxCommands = 3
SPECIFICATION InterfacesSpec
INVARIANTS
    ListedInOrder
    TimeframeKept
CHECK_DEADLOCK FALSE
