----------------------------- MODULE MCPathKeys -----------------------------
(***************************************************************************)
(* PathKeys over every path of at most MaxSegments segments, grown one     *)
(* segment at a time, with and without an anchor.                          *)
(***************************************************************************)
EXTENDS PathKeys

CONSTANTS MaxSegments, Segment, Anchor, DatasetId, ProductId, DeliveryId

\* IDs are segments of a key; those of products and deliveries do not end in
\* ".." or ":".
ASSUME InputAssumption ==
    /\ Segment \cup Anchor \cup {""} \subseteq STRING
    /\ DatasetId \cup {"data", ProductId, DeliveryId} \subseteq Meaningful
    /\ NoAnchor \notin DatasetId
    /\ {"data", ProductId, DeliveryId} \cap (EndsInDots \cup EndsInColon) = {}

VARIABLES raw, anchor, datasetId

vars == <<raw, anchor, datasetId>>

Init ==
    /\ raw \in {<<s>> : s \in Segment \ {""}} \cup {<<"", s>> : s \in Segment \ {""}}
    /\ anchor \in Anchor \cup {NoAnchor}
    /\ datasetId \in DatasetId

Grow ==
    /\ Len(raw) < MaxSegments
    /\ \E s \in Segment : raw' = Append(raw, s)
    /\ UNCHANGED <<anchor, datasetId>>

Spec == Init /\ [][Grow]_vars

-----------------------------------------------------------------------------
Anchored == anchor # NoAnchor /\ HasPart(raw, anchor)

\* What validate_upload_files lets through, as far as the shape goes.
Accepted ==
    \/ Anchored
    \/ anchor = NoAnchor /\ ~IsAbsolute(raw) /\ ~WrongKeySuffix(raw)

Suffix == LocalPathToKeySuffix(raw, anchor)
UploadKey == S3Key(DeliveryId, ProductId, datasetId, Suffix)

\* build_upload_operation_from_put_results finds the key_suffix again by
\* taking the dataset as the anchor of the S3 key: it gets back the suffix
\* the file was uploaded under, also when the path repeats the dataset.  It
\* takes a dataset whose ID is not one of the segments before it in the key.
SuffixRoundTrip ==
    Accepted /\ datasetId \notin {"data", DeliveryId, ProductId} =>
        ManifestSuffix(UploadKey, datasetId) = PathOf(Suffix)

\* An anchored file is uploaded under a relative key without empty or "."
\* segments, whatever the path looked like, and nothing up to the anchor
\* shows in it.
AnchoredSuffixIsClean ==
    Anchored =>
        \/ Suffix = <<".">>
        \/ /\ \A i \in DOMAIN Suffix : Suffix[i] \notin {"", "."}
           /\ \E before \in DOMAIN PathOf(raw) :
                 /\ PathOf(raw)[before] = anchor
                 /\ Len(Suffix) = Len(PathOf(raw)) - before
                 /\ \A i \in 1..(before - 1) : PathOf(raw)[i] # anchor

\* A file the validation accepted without an anchor is not refused after its
\* upload by the validator of UploadFile.
AcceptedStaysAccepted ==
    Accepted /\ anchor = NoAnchor =>
        ~WrongKeySuffix(ManifestSuffix(UploadKey, datasetId))

\* What the response shows of a file is the place in the Marine datastore
\* that the DeliveryFile comment promises: product, dataset, key_suffix.
ResponseShowsTheDestination ==
    Accepted /\ Suffix = PathOf(Suffix)
             /\ datasetId \notin {"data", DeliveryId, ProductId} =>
        ResponseSuffix(UploadKey) =
            <<ProductId, datasetId>> \o ManifestSuffix(UploadKey, datasetId)
=============================================================================
