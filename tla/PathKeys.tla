------------------------------ MODULE PathKeys ------------------------------
(***************************************************************************)
(* How a local path becomes a key of the ingestion bucket and how the key  *)
(* becomes the key_suffix of the delivery that is registered:              *)
(* core_functions/utils, the key format of core_functions/constants, and   *)
(* the key_suffix validator of delivery_common/domain.                     *)
(*                                                                         *)
(* A string with slashes is the sequence of what stands between them:      *)
(* "/home/x" is <<"", "home", "x">> and "./a" is <<".", "a">>.  The same   *)
(* form serves raw arguments, keys, key suffixes and str(Path(...)).  Only *)
(* POSIX paths are modelled; no path is the root or starts with exactly    *)
(* two slashes.                                                            *)
(***************************************************************************)
EXTENDS Naturals, Sequences

CONSTANTS
    NoAnchor,       \* anchor is None
    EndsInDots,     \* the segments that end in ".."
    EndsInColon     \* the segments that end in ":"

ASSUME SegmentAssumption == "" \notin EndsInDots \cup EndsInColon

\* Literals are strings, which the provers of TLAPS have to be told.
ASSUME StringAssumption == {".", "data"} \subseteq STRING

-----------------------------------------------------------------------------
(***************************************************************************)
(* pathlib.                                                                *)
(***************************************************************************)
IsAbsolute(raw) == Len(raw) > 1 /\ raw[1] = ""

\* The elements of a sequence that are wanted, in their order.
Only(seq, wanted) ==
    LET Kept[n \in 0..Len(seq)] ==
            IF n = 0 THEN <<>>
            ELSE IF seq[n] \in wanted THEN Append(Kept[n - 1], seq[n])
            ELSE Kept[n - 1]
    IN  Kept[Len(seq)]

Meaningful == STRING \ {"", "."}

\* str(Path(raw)): empty and "." segments go, ".." stays, nothing is ".".
PathOf(raw) ==
    LET rest == Only(raw, Meaningful)
    IN  IF IsAbsolute(raw) THEN <<"">> \o rest
        ELSE IF rest = <<>> THEN <<".">> ELSE rest

\* anchor in Path(raw).parts, for an anchor that names a segment.
HasPart(raw, anchor) ==
    \E i \in DOMAIN PathOf(raw) : PathOf(raw)[i] = anchor

-----------------------------------------------------------------------------
\* Mutant of IndexOf: the last occurrence.
LastIndexOf(parts, anchor) ==
    CHOOSE i \in DOMAIN parts :
        parts[i] = anchor /\ \A j \in (i + 1)..Len(parts) : parts[j] # anchor

\* parts.index(anchor): the first occurrence.
IndexOf(parts, anchor) ==
    CHOOSE i \in DOMAIN parts :
        parts[i] = anchor /\ \A j \in 1..(i - 1) : parts[j] # anchor

\* Mutant of AfterAnchor: off by one, the anchor is kept.
FromAnchor(parts, anchor) ==
    SubSeq(parts, IndexOf(parts, anchor), Len(parts))

\* str(Path(*parts[idx + 1:])); a path that ends in the anchor leaves ".".
AfterAnchor(parts, anchor) ==
    LET rest == SubSeq(parts, IndexOf(parts, anchor) + 1, Len(parts))
    IN  IF rest = <<>> THEN <<".">> ELSE rest

\* Mutant of LocalPathToKeySuffix: the path is not normalised first.
RawPathToKeySuffix(raw, anchor) ==
    IF anchor = NoAnchor THEN raw ELSE AfterAnchor(raw, anchor)

LocalPathToKeySuffix(raw, anchor) ==
    IF anchor = NoAnchor THEN raw ELSE AfterAnchor(PathOf(raw), anchor)

\* Mutant of WrongKeySuffix: "../" is looked for at the start only.
WrongKeySuffixAtStart(suffix) ==
    \/ IsAbsolute(suffix)
    \/ Len(suffix) > 1 /\ suffix[1] \in EndsInDots \cup EndsInColon
    \/ \E i \in 2..(Len(suffix) - 1) : suffix[i] = ""

\* What raise_on_wrong_key_suffix rejects: an absolute path, and a path with
\* "../", ":/" or "//" in it.
WrongKeySuffix(suffix) ==
    \/ IsAbsolute(suffix)
    \/ \E i \in 1..(Len(suffix) - 1) :
          suffix[i] \in EndsInDots \cup EndsInColon
    \/ \E i \in 2..(Len(suffix) - 1) : suffix[i] = ""

-----------------------------------------------------------------------------
\* NEW_DATA_BUCKET_PATH.
S3Key(deliveryId, productId, datasetId, suffix) ==
    <<"data", deliveryId, productId, datasetId>> \o suffix

\* get_s3_key_suffix: what a response shows, product and dataset included.
ResponseSuffix(key) == SubSeq(key, 3, Len(key))

\* The key_suffix of the registered file: the dataset is the anchor.
ManifestSuffix(key, datasetId) == LocalPathToKeySuffix(key, datasetId)
=============================================================================
