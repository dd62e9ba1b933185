--------------------------- MODULE MCDeliveryRun ----------------------------
(***************************************************************************)
(* DeliveryRun over a set of calls chosen for the cases of the code: every *)
(* reason to refuse a file, the limits, an operation without files, paths  *)
(* that are not normalised, colliding keys, a late refusal of a key suffix.*)
(***************************************************************************)
EXTENDS DeliveryReport

Plain  == <<"f3.nc">>
First  == <<"data", "ds", "f1.nc">>
Second == <<"data", "ds", "ds", "f2.nc">>   \* the dataset twice
Other  == <<"old", "ds", "f1.nc">>          \* another file, First's suffix
Dotted == <<".", "data", "ds", "f1.nc">>    \* First, spelled otherwise
Rooted == <<"", "home", "ds", "f4.nc">>
Away   == <<"", "home", "f4.nc">>
Colon  == <<"data", "ds", "C:", "f5.nc">>
Parent == <<"..", "f6.nc">>
Middle == <<"f7.nc">>
Big    == <<"f8.nc">>
Empty  == <<"f9.nc">>
Absent == <<"f0.nc">>
Named  == <<"data", "ds">>                  \* nothing after the anchor

MCFiles == {Plain, First, Second, Other, Dotted, Rooted, Away, Colon, Parent,
            Middle, Big, Empty, Absent, Named}
MCPath == MCFiles \ {Dotted}

MCDisk == Plain :> 4 @@ First :> 3 @@ Second :> 1 @@ Other :> 2 @@
          Rooted :> 1 @@ Away :> 1 @@ Colon :> 1 @@ Parent :> 1 @@ Middle :> 5 @@
          Big :> 7 @@ Empty :> 0 @@ Named :> 1

MCProducts == "prod" :> {"ds"}
MCSuffix ==
    {LocalPathToKeySuffix(f, NoAnchor) : f \in MCFiles} \cup
    {LocalPathToKeySuffix(f, "ds") : f \in {g \in MCFiles : HasPart(g, "ds")}}
MCKey == {S3Key("did", "prod", d, s) : d \in {"ds", "nope"}, s \in MCSuffix}
MCLegalKey ==
    {k \in MCKey : \A i \in DOMAIN k : k[i] \notin {"", ".", ".."}}

-----------------------------------------------------------------------------
Up(files, anchor) == [kind |-> "upload", files |-> files, anchor |-> anchor]
Del(files) == [kind |-> "delete", files |-> files]

Call(entry, ops, raising, dry) ==
    [entry |-> entry, product |-> "prod", dataset |-> "ds",
     operations |-> ops, raising |-> raising, dry |-> dry]

Both == Up(<<Second, First>>, "ds")
Gone == Del(<<<<"old.nc">>, <<"sub", "gone.nc">>>>)

\* Deliveries that the validation lets through, with keys all different.
MCOperations ==
    {<<Both, Gone>>,
     <<Gone, Up(<<Plain>>, NoAnchor), Up(<<First, Rooted>>, "ds")>>,
     <<Up(<<First>>, "ds"), Both>>,
     <<Up(<<Dotted, Second>>, "ds")>>,
     <<Up(<<Second, Rooted, First>>, "ds")>>,
     <<Up(<<First>>, "ds"), Up(<<>>, NoAnchor)>>,
     <<Up(<<Named, First>>, "ds")>>,
     <<>>}

\* Deliveries to refuse.
MCRefused ==
    {<<Up(<<f>>, NoAnchor), Both>> : f \in {Empty, Absent, First, Rooted, Away,
                                          Parent}}
    \cup {<<Up(<<Plain>>, "ds"), Gone>>,
          <<Up(<<Plain>>, ""), Gone>>,
          <<Up(<<Plain, Middle, Plain>>, NoAnchor), Both>>,
          <<Both, Del(<<<<"x">>, <<"y">>, <<"x">>>>)>>,
          <<Both, Del(<<<<"..", "x">>>>)>>,
          <<Both, Up(<<Plain, Other>>, "ds")>>,
          <<Both, Up(<<Rooted, Colon>>, "ds")>>,
          <<Up(<<Plain>>, NoAnchor), Up(<<Middle>>, NoAnchor)>>,
          <<Up(<<Big>>, NoAnchor), Gone>>}

\* Deliveries of which two files have one key: ManifestBacked and PromiseKept
\* do not hold of them.
MCColliding ==
    {<<Up(<<First, Other>>, "ds")>>,
     <<Up(<<First>>, "ds"), Up(<<Other>>, "ds")>>}

MCCalls ==
    {Call("delivery", ops, raising, dry) :
        ops \in MCOperations \cup MCRefused, raising, dry \in BOOLEAN}
    \cup {Call("upload", <<Up(<<First, Dotted, Second>>, "ds")>>, raising, dry) :
            raising, dry \in BOOLEAN}
    \cup {Call("upload", <<Both>>, raising, FALSE) : raising \in BOOLEAN}
    \cup {Call("delete", <<Gone>>, FALSE, dry) : dry \in BOOLEAN}
    \cup {[Call("delivery", <<Gone>>, FALSE, FALSE) EXCEPT !.dataset = "nope"]}

MCCollidingCalls == {Call("delivery", ops, FALSE, FALSE) : ops \in MCColliding}

MCLateCalls ==
    {Call("delivery", <<Up(<<First>>, "ds"), Up(<<Colon>>, "ds")>>,
          raising, FALSE) : raising \in BOOLEAN}

MCUniqueCalls == MCCalls \cup MCLateCalls
=============================================================================
