------------------------- MODULE DeliveryValidator --------------------------
(***************************************************************************)
(* The checks made before anything is sent: core_functions/                *)
(* delivery_validator, the key_suffix validator as it applies to deletes,  *)
(* and delivery_common/validation.                                         *)
(*                                                                         *)
(* An operation is a record of its kind, its files (raw paths, or key      *)
(* suffixes for a delete) and its anchor.  Sizes are counted in units of   *)
(* which UnitsPerMB make a megabyte; float rounding is left out.           *)
(***************************************************************************)
EXTENDS PathKeys, SequencesExt

CONSTANTS
    Disk,               \* the local files: str(Path) -> size, 0 if empty
    UnitsPerMB,
    MaxNumberOfFiles,   \* api_limits.max_number_of_files_per_delivery
    MaxDeliverySize,    \* api_limits.max_delivery_size_gb, in units
    MaxFileSize,        \* api_limits.max_file_size_gb, in units
    Products            \* pushing entity's products: product -> datasets

ASSUME LimitAssumption ==
    /\ UnitsPerMB \in Nat \ {0}
    /\ {MaxNumberOfFiles, MaxDeliverySize, MaxFileSize} \subseteq Nat
    /\ \A path \in DOMAIN Disk : Disk[path] \in Nat

SizeOf(file) == Disk[PathOf(file)]

-----------------------------------------------------------------------------
(***************************************************************************)
(* validate_upload_files and validate_delete_files.                        *)
(***************************************************************************)
FileExists(file) == PathOf(file) \in DOMAIN Disk

\* An empty string is a false anchor for the validation, but an anchor (that
\* no path contains) for local_path_to_key_suffix.
AnchorGiven(anchor) == anchor \notin {NoAnchor, ""}

AcceptableKeySuffix(file, anchor) ==
    anchor # "" /\ ~WrongKeySuffix(LocalPathToKeySuffix(file, anchor))

\* The reason each file is refused for: the first that applies.
InvalidReason(file, anchor, productId, datasetId) ==
    CASE ~FileExists(file) -> "missing"
      [] FileExists(file) /\ SizeOf(file) = 0 -> "empty"
      [] OTHER ->
            IF AnchorGiven(anchor)
            THEN IF HasPart(file, anchor) THEN "none" ELSE "anchor not found"
            ELSE CASE HasPart(file, datasetId) \/ HasPart(file, productId)
                        -> "ID in path"
                   [] IsAbsolute(file) -> "absolute"
                   [] ~AcceptableKeySuffix(file, anchor) -> "bad suffix"
                   [] OTHER -> "none"

\* Mutant of HasDuplicates: each file is compared with the next one only.
HasAdjacentDuplicates(files) ==
    \E i \in DOMAIN files : i + 1 \in DOMAIN files /\ files[i] = files[i + 1]

\* duplicate_files: the same string twice.
HasDuplicates(files) ==
    \E i, j \in DOMAIN files : i # j /\ files[i] = files[j]

ValidUploadFiles(op, productId, datasetId) ==
    /\ \A i \in DOMAIN op.files :
          InvalidReason(op.files[i], op.anchor, productId, datasetId) = "none"
    /\ ~HasDuplicates(op.files)

\* create_and_validate_delete_operation: duplicates, then each DeleteFile.
ValidDeleteFiles(op) ==
    /\ ~HasDuplicates(op.files)
    /\ \A i \in DOMAIN op.files : ~WrongKeySuffix(op.files[i])

ValidOperation(op, productId, datasetId) ==
    IF op.kind = "upload"
    THEN ValidUploadFiles(op, productId, datasetId)
    ELSE ValidDeleteFiles(op)

ValidOperations(operations, productId, datasetId) ==
    \A i \in DOMAIN operations :
        ValidOperation(operations[i], productId, datasetId)

-----------------------------------------------------------------------------
(***************************************************************************)
(* validate_delivery_sizes, over the upload operations of a delivery.      *)
(***************************************************************************)
\* sum(numbers).
Total(numbers) ==
    LET Upto[n \in 0..Len(numbers)] ==
            IF n = 0 THEN 0 ELSE Upto[n - 1] + numbers[n]
    IN  Upto[Len(numbers)]

\* What is added up over the operations of one kind: number[i] for the ith.
TotalOfKind(kind, operations, number) ==
    Total([i \in DOMAIN operations |->
              IF operations[i].kind = kind THEN number[i] ELSE 0])

FileCounts(operations) ==
    [i \in DOMAIN operations |-> Len(operations[i].files)]

TotalSize(files) == Total([j \in DOMAIN files |-> SizeOf(files[j])])

\* Mutant of ValidSizes: the limits hold of each operation by itself.
ValidSizesEach(operations) ==
    \A i \in DOMAIN operations :
        operations[i].kind = "upload" =>
            /\ Len(operations[i].files) <= MaxNumberOfFiles
            /\ TotalSize(operations[i].files) <= MaxDeliverySize
            /\ \A j \in DOMAIN operations[i].files :
                  SizeOf(operations[i].files[j]) <= MaxFileSize

ValidSizes(operations) ==
    /\ TotalOfKind("upload", operations, FileCounts(operations))
          <= MaxNumberOfFiles
    /\ TotalOfKind("upload", operations,
                   [i \in DOMAIN operations |-> TotalSize(operations[i].files)])
          <= MaxDeliverySize
    /\ \A i \in DOMAIN operations : operations[i].kind = "upload" =>
          \A j \in DOMAIN operations[i].files :
              SizeOf(operations[i].files[j]) <= MaxFileSize

-----------------------------------------------------------------------------
\* validate_delivery_ids.
ValidDeliveryIds(productId, datasetId) ==
    productId \in DOMAIN Products /\ datasetId \in Products[productId]
=============================================================================
