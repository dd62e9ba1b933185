---------------------------- MODULE MCInterfaces ----------------------------
(***************************************************************************)
(* One user of the command line and one of the Python interface, either on *)
(* behalf of different entities or both of the one.                        *)
(***************************************************************************)
EXTENDS Interfaces

CONSTANTS shell, script     \* the clients

MCInterface == shell :> "cli" @@ script :> "python"
MCOnBehalfOf == shell :> "other" @@ script :> NoEntity
MCOneEntity == shell :> NoEntity @@ script :> NoEntity
MCTimeframeMapping == [s |-> 1]

Op(operation, files, anchor) ==
    [operation |-> operation, files |-> files, anchor |-> anchor]

MCDelete == {Op("delete", <<"f">>, NoAnchor)}

MCOperation == {Op("upload", <<>>, NoAnchor)} \cup MCDelete

MCAnchoredOperation ==
    {Op("upload", <<"f">>, anchor) : anchor \in {NoAnchor, "ds"}}
    \cup MCDelete
=============================================================================
