-------------------------- MODULE RoundTripProofs --------------------------
(***************************************************************************)
(* What MCPathKeys checks of the paths of a few segments, proved for paths *)
(* of any length and segments of any kind: the key_suffix that is          *)
(* registered, the one the response shows, and what the validators let     *)
(* through.                                                                *)
(***************************************************************************)
EXTENDS MCPathKeys, PathKeysProofs

\* What Grow builds.
RawTypeOK ==
    /\ raw \in Seq(STRING)
    /\ Len(raw) > 0
    /\ datasetId \in DatasetId

\* (Stated for any set: tlapm does not type a sequence that is built of strings.)
LEMMA FirstSegments ==
  ASSUME NEW S, NEW s \in S, NEW t \in S
  PROVE  /\ <<s>> \in Seq(S) /\ Len(<<s>>) > 0
         /\ <<s, t>> \in Seq(S) /\ Len(<<s, t>>) > 0
OBVIOUS

\* The same of a path that grows.
LEMMA OneMoreSegment ==
  ASSUME NEW S, NEW path \in Seq(S), NEW s \in S
  PROVE  Append(path, s) \in Seq(S) /\ Len(Append(path, s)) > 0
OBVIOUS

\* The paths and IDs of MCPathKeys are what the lemmas below are about.
LEMMA RawTyped == Spec => []RawTypeOK
<1>1. Init => RawTypeOK
  <2> SUFFICES ASSUME Init PROVE RawTypeOK
    OBVIOUS
  <2>1. \E s, t \in STRING : raw = <<s>> \/ raw = <<s, t>>
    BY InputAssumption, Zenon DEF Init
  <2>2. PICK s \in STRING, t \in STRING : raw = <<s>> \/ raw = <<s, t>>
    BY <2>1
  <2>3. raw \in Seq(STRING) /\ Len(raw) > 0
    <3>1. /\ <<s>> \in Seq(STRING) /\ Len(<<s>>) > 0
          /\ <<s, t>> \in Seq(STRING) /\ Len(<<s, t>>) > 0
      BY FirstSegments, Zenon
    <3>2. CASE raw = <<s>>
      BY <3>1, <3>2, Zenon
    <3>3. CASE raw = <<s, t>>
      BY <3>1, <3>3, Zenon
    <3> QED
      BY <2>2, <3>2, <3>3
  <2>4. datasetId \in DatasetId
    BY Zenon DEF Init
  <2> QED
    BY <2>3, <2>4 DEF RawTypeOK
<1>2. RawTypeOK /\ [Grow]_vars => RawTypeOK'
  <2> SUFFICES ASSUME RawTypeOK, [Grow]_vars PROVE RawTypeOK'
    OBVIOUS
  <2>0. raw \in Seq(STRING) /\ Len(raw) > 0 /\ datasetId \in DatasetId
    BY DEF RawTypeOK
  <2>1. CASE Grow
    <3>1. PICK s \in Segment : raw' = Append(raw, s)
      BY <2>1 DEF Grow
    <3>2. s \in STRING
      BY InputAssumption, Zenon
    <3>3. raw' \in Seq(STRING) /\ Len(raw') > 0
      BY <2>0, <3>1, <3>2, OneMoreSegment, Zenon
    <3> QED
      BY <2>0, <2>1, <3>3 DEF Grow, RawTypeOK
  <2>2. CASE UNCHANGED vars
    BY <2>0, <2>2 DEF vars, RawTypeOK
  <2> QED
    BY <2>1, <2>2
<1> QED
  BY <1>1, <1>2, PTL DEF Spec

-----------------------------------------------------------------------------
\* However the user wrote the path, nothing up to the anchor and nothing
\* empty shows in the key of an anchored file.
THEOREM AnchoredSuffixes == Spec => []AnchoredSuffixIsClean
<1>1. RawTypeOK => AnchoredSuffixIsClean
  <2> SUFFICES ASSUME RawTypeOK, Anchored PROVE AnchoredSuffixIsClean
    BY DEF AnchoredSuffixIsClean
  <2> DEFINE parts == PathOf(raw)
  <2>1. raw \in Seq(STRING) /\ anchor # NoAnchor /\ HasPart(raw, anchor)
    BY DEF RawTypeOK, Anchored
  <2>2. \/ Suffix = <<".">>
        \/ \E at \in DOMAIN parts :
              /\ parts[at] = anchor
              /\ \A i \in 1..(at - 1) : parts[i] # anchor
              /\ Len(Suffix) = Len(parts) - at
              /\ Len(Suffix) > 0
              /\ \A i \in DOMAIN Suffix : Suffix[i] \in Meaningful
    BY <2>1, BehindAnchor, Zenon DEF Suffix
  <2>3. CASE Suffix = <<".">>
    BY <2>3, Zenon DEF AnchoredSuffixIsClean
  <2>4. CASE Suffix # <<".">>
    <3>1. PICK at \in DOMAIN parts :
             /\ parts[at] = anchor
             /\ \A i \in 1..(at - 1) : parts[i] # anchor
             /\ Len(Suffix) = Len(parts) - at
             /\ \A i \in DOMAIN Suffix : Suffix[i] \in Meaningful
      BY <2>2, <2>4, Zenon
    <3>2. \A i \in DOMAIN Suffix : Suffix[i] \notin {"", "."}
      BY <3>1, MeaningfulIs, Zenon
    <3> QED
      BY <3>1, <3>2, Zenon DEF AnchoredSuffixIsClean
  <2> QED
    BY <2>3, <2>4
<1> QED
  BY <1>1, RawTyped, PTL

\* What the validation lets through is uploaded under a relative suffix.
LEMMA AcceptedSuffix ==
  ASSUME RawTypeOK, Accepted
  PROVE  Suffix \in Seq(STRING) \ {<<>>} /\ ~IsAbsolute(Suffix)
<1>1. raw \in Seq(STRING) /\ raw \in Seq(STRING) \ {<<>>}
  BY DEF RawTypeOK
<1>2. CASE Anchored
  <2>1. anchor # NoAnchor /\ HasPart(raw, anchor)
    BY <1>2 DEF Anchored
  <2>2. Suffix \in Seq(STRING) \ {<<>>}
    BY <1>1, <2>1, KeySuffixType DEF Suffix
  <2>3. \/ Suffix = <<".">>
        \/ \A i \in DOMAIN Suffix : Suffix[i] \in Meaningful
    BY <1>1, <2>1, BehindAnchor, Zenon DEF Suffix
  <2>4. CASE Suffix = <<".">>
    <3>1. \A e : ~(Len(<<e>>) > 1)
      OBVIOUS
    <3> QED
      BY <2>2, <2>4, <3>1, Zenon DEF IsAbsolute
  <2>5. CASE \A i \in DOMAIN Suffix : Suffix[i] \in Meaningful
    <3>1. Len(Suffix) > 1 => 1 \in DOMAIN Suffix
      BY <2>2
    <3> QED
      BY <2>2, <2>5, <3>1, MeaningfulIs, Zenon DEF IsAbsolute
  <2> QED
    BY <2>3, <2>4, <2>5
<1>3. CASE anchor = NoAnchor /\ ~IsAbsolute(raw)
  BY <1>1, <1>3 DEF Suffix, LocalPathToKeySuffix
<1> QED
  BY <1>2, <1>3 DEF Accepted

\* What InputAssumption says of the IDs of a key.
LEMMA IDsAre ==
  ASSUME RawTypeOK
  PROVE  /\ "data" \in Meaningful /\ ProductId \in Meaningful
         /\ DeliveryId \in Meaningful
         /\ datasetId \in Meaningful /\ datasetId # NoAnchor
<1>1. datasetId \in DatasetId
  BY DEF RawTypeOK
<1> QED
  BY <1>1, InputAssumption, Zenon

\* The key_suffix that is registered for an uploaded file is the one it was
\* uploaded under, as pathlib writes it.
LEMMA RegisteredSuffix ==
  ASSUME RawTypeOK, Accepted, datasetId \notin {"data", DeliveryId, ProductId}
  PROVE  ManifestSuffix(UploadKey, datasetId) = PathOf(Suffix)
<1>1. Suffix \in Seq(STRING) /\ ~IsAbsolute(Suffix)
  BY AcceptedSuffix
<1>2. datasetId \notin {"data", DeliveryId, ProductId, NoAnchor}
  BY IDsAre
<1> HIDE DEF Suffix
<1> QED
  BY <1>1, <1>2, IDsAre, SuffixBack, Zenon DEF UploadKey

\* That holds in every state of MCPathKeys, with paths of any length.
THEOREM SuffixesRoundTrip == Spec => []SuffixRoundTrip
<1>1. RawTypeOK => SuffixRoundTrip
  BY RegisteredSuffix, Zenon DEF SuffixRoundTrip
<1> QED
  BY <1>1, RawTyped, PTL

\* The response shows the place in the Marine datastore the file went to.
THEOREM DestinationsShown == Spec => []ResponseShowsTheDestination
<1>1. RawTypeOK => ResponseShowsTheDestination
  <2> SUFFICES ASSUME RawTypeOK, Accepted, Suffix = PathOf(Suffix),
                      datasetId \notin {"data", DeliveryId, ProductId}
               PROVE  ResponseSuffix(UploadKey) = <<ProductId, datasetId>>
                          \o ManifestSuffix(UploadKey, datasetId)
    BY Zenon DEF ResponseShowsTheDestination
  <2>1. ManifestSuffix(UploadKey, datasetId) = Suffix
    BY RegisteredSuffix, Zenon
  <2>2. /\ "data" \in STRING /\ ProductId \in STRING /\ DeliveryId \in STRING
        /\ datasetId \in STRING
    BY IDsAre, MeaningfulIs, Zenon
  <2>3. Suffix \in Seq(STRING)
    BY AcceptedSuffix
  <2> HIDE DEF Suffix
  <2>4. ResponseSuffix(UploadKey) = <<ProductId, datasetId>> \o Suffix
    <3>1. UploadKey = S3Key(DeliveryId, ProductId, datasetId, Suffix)
      BY Zenon DEF UploadKey
    <3>2. ResponseSuffix(S3Key(DeliveryId, ProductId, datasetId, Suffix)) =
              <<ProductId, datasetId>> \o Suffix
      BY <2>2, <2>3, ResponseSuffixOfKey
    <3> QED
      BY <3>1, <3>2, Zenon
  <2> QED
    BY <2>1, <2>4, Zenon
<1> QED
  BY <1>1, RawTyped, PTL

-----------------------------------------------------------------------------
(***************************************************************************)
(* The two validators of a suffix agree.                                   *)
(***************************************************************************)
\* A suffix that raise_on_wrong_key_suffix takes.
LEMMA NotWrong ==
  ASSUME NEW path \in Seq(Meaningful),
         \A i \in 1..(Len(path) - 1) : path[i] \notin EndsInDots \cup EndsInColon
  PROVE  ~WrongKeySuffix(path)
<1>1. \A i \in DOMAIN path : path[i] \in Meaningful
  OBVIOUS
<1>2. Len(path) > 1 => 1 \in DOMAIN path
  OBVIOUS
<1>3. \A i \in 2..(Len(path) - 1) : i \in DOMAIN path
  OBVIOUS
<1> QED
  BY <1>1, <1>2, <1>3, MeaningfulIs, Zenon DEF WrongKeySuffix, IsAbsolute

\* Of what pathlib keeps of a path, only the last segment can be one that the
\* validator would not take before a slash.
LEMMA KeptBeforeLast ==
  ASSUME NEW path \in Seq(STRING), ~WrongKeySuffix(path)
  PROVE  \A j \in 1..(Len(Only(path, Meaningful)) - 1) :
             Only(path, Meaningful)[j] \notin EndsInDots \cup EndsInColon
<1> DEFINE rest == Only(path, Meaningful)
<1>1. rest \in Seq(STRING)
  BY KeptSegments
<1>2. \A i \in 1..(Len(path) - 1) : path[i] \notin EndsInDots \cup EndsInColon
  BY Zenon DEF WrongKeySuffix
<1> SUFFICES ASSUME NEW j \in 1..(Len(rest) - 1)
             PROVE  rest[j] \notin EndsInDots \cup EndsInColon
  OBVIOUS
<1> HIDE DEF rest
<1>3. j \in DOMAIN rest /\ Len(rest) \in DOMAIN rest /\ j < Len(rest)
  BY <1>1
<1>4. \E l, m \in DOMAIN path :
         l < m /\ path[l] = rest[j] /\ path[m] = rest[Len(rest)]
  BY <1>3, OnlyOrder DEF rest
<1>5. PICK l \in DOMAIN path : rest[j] = path[l] /\ l \in 1..(Len(path) - 1)
  BY <1>4
<1> QED
  BY <1>2, <1>5

\* The suffix that is found again behind the first segment of the key that is
\* the dataset, whichever that is.
LEMMA FoundSuffix ==
  ASSUME NEW did \in Meaningful, NEW pid \in Meaningful, NEW ds \in Meaningful,
         "data" \in Meaningful, ds # NoAnchor,
         {"data", did, pid} \cap (EndsInDots \cup EndsInColon) = {},
         NEW suffix \in Seq(STRING), ~WrongKeySuffix(suffix)
  PROVE  ~WrongKeySuffix(ManifestSuffix(S3Key(did, pid, ds, suffix), ds))
<1> DEFINE rest == Only(suffix, Meaningful)
           key == S3Key(did, pid, ds, rest)
           at == IndexOf(key, ds)
           tail == SubSeq(key, at + 1, Len(key))
           Ends == EndsInDots \cup EndsInColon
<1>1. /\ rest \in Seq(STRING)
      /\ \A j \in DOMAIN rest : rest[j] \in Meaningful
  BY KeptSegments
<1>2. \A j \in 1..(Len(rest) - 1) : rest[j] \notin Ends
  BY KeptBeforeLast
<1>3. ManifestSuffix(S3Key(did, pid, ds, suffix), ds) = AfterAnchor(key, ds)
  BY PathOfKey DEF ManifestSuffix, LocalPathToKeySuffix
<1> HIDE DEF rest
<1>4. rest \in Seq(Meaningful)
  BY <1>1
<1>5. /\ key \in Seq(Meaningful) /\ Len(key) = Len(rest) + 4
      /\ key[1] = "data" /\ key[2] = did /\ key[3] = pid /\ key[4] = ds
      /\ \A i \in 1..Len(rest) : key[i + 4] = rest[i]
  BY <1>4, KeyShape
<1> HIDE DEF key
<1>6. /\ at \in DOMAIN key /\ key[at] = ds
      /\ \A j \in 1..(at - 1) : key[j] # ds
  <2>1. 4 \in DOMAIN key
    BY <1>4, <1>5
  <2> QED
    BY <1>5, <2>1, IndexOfPart
<1> HIDE DEF at
<1>7. /\ tail \in Seq(Meaningful) /\ Len(tail) = Len(key) - at
      /\ \A i \in 1..Len(tail) : tail[i] = key[at + i]
  <2>1. key \in Seq(Meaningful) /\ at \in DOMAIN key
    BY <1>5, <1>6
  <2> QED
    BY <2>1, TailOf
<1> HIDE DEF tail
<1>8. \A i \in 1..(Len(tail) - 1) : tail[i] \notin Ends
  <2> SUFFICES ASSUME NEW i \in 1..(Len(tail) - 1) PROVE tail[i] \notin Ends
    OBVIOUS
  <2> HIDE DEF Ends
  <2>1. /\ at \in 1..4
        /\ at + i \in 2..(Len(key) - 1)
        /\ tail[i] = key[at + i]
        /\ Len(rest) \in Nat
    BY <1>4, <1>5, <1>6, <1>7
  <2>2. "data" \notin Ends /\ did \notin Ends /\ pid \notin Ends
    BY Zenon DEF Ends
  <2>3. CASE at + i \in 2..3
    BY <1>5, <2>1, <2>2, <2>3
  <2>4. CASE at + i = 4
    BY <1>5, <1>6, <2>1, <2>2, <2>4
  <2>5. CASE at + i > 4
    <3>1. /\ (at + i) - 4 \in 1..(Len(rest) - 1)
          /\ ((at + i) - 4) + 4 = at + i
          /\ (at + i) - 4 \in 1..Len(rest)
      BY <1>5, <2>1, <2>5
    <3>2. key[at + i] = rest[(at + i) - 4]
      BY <1>5, <3>1
    <3> QED
      BY <1>2, <2>1, <3>1, <3>2
  <2> QED
    BY <2>1, <2>3, <2>4, <2>5
<1>9. ~WrongKeySuffix(tail)
  BY <1>7, <1>8, NotWrong
<1>10. ~WrongKeySuffix(<<".">>)
  <2>1. \A e : ~(Len(<<e>>) > 1) /\ 1..(Len(<<e>>) - 1) = {}
               /\ 2..(Len(<<e>>) - 1) = {}
    OBVIOUS
  <2> QED
    BY <2>1, Zenon DEF WrongKeySuffix, IsAbsolute
<1>11. AfterAnchor(key, ds) = IF tail = <<>> THEN <<".">> ELSE tail
  BY Zenon DEF AfterAnchor, tail, at
<1> QED
  BY <1>3, <1>9, <1>10, <1>11, Zenon

\* UploadFile does not refuse, after the upload, the suffix of a file that
\* the validation let through.
THEOREM ValidatorsAgree == Spec => []AcceptedStaysAccepted
<1>1. RawTypeOK => AcceptedStaysAccepted
  <2> SUFFICES ASSUME RawTypeOK, Accepted, anchor = NoAnchor
               PROVE  ~WrongKeySuffix(ManifestSuffix(UploadKey, datasetId))
    BY Zenon DEF AcceptedStaysAccepted
  <2>1. raw \in Seq(STRING) /\ ~WrongKeySuffix(raw)
    BY DEF RawTypeOK, Accepted, Anchored
  <2>2. UploadKey = S3Key(DeliveryId, ProductId, datasetId, raw)
    BY Zenon DEF UploadKey, Suffix, LocalPathToKeySuffix
  <2>3. {"data", DeliveryId, ProductId} \cap (EndsInDots \cup EndsInColon) = {}
    BY InputAssumption, Zenon
  <2> QED
    BY <2>1, <2>2, <2>3, IDsAre, FoundSuffix, Zenon
<1> QED
  BY <1>1, RawTyped, PTL
=============================================================================
