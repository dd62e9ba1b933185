---------------------------- MODULE DeliveryRun -----------------------------
(***************************************************************************)
(* One call of upload, delivery or delete of core_functions/               *)
(* core_functions: the calls to the ingestion service and to S3 in the     *)
(* order the code makes them, the validation between them, one upload pool *)
(* per upload operation, and the POST that registers the delivery.         *)
(*                                                                         *)
(* Abstractions.  A remote call before the POST either answers or raises   *)
(* (http_client's retries are inside the call); the POST has a third       *)
(* outcome, the delivery registered and the answer lost.  The local disk   *)
(* does not change, but os.path.getsize may fail on a vanished file.  The  *)
(* delivery ID is a constant of the call; upload times are left out.       *)
(***************************************************************************)
EXTENDS UploadPool, DeliveryValidator

CONSTANTS
    Request,        \* the calls that may be made
    DeliveryId,     \* create_delivery_id, the same for the whole call
    DryRunTag       \* the e_tag of a dry run

\* A path or a key suffix as the user writes it.
RawPath == Seq(STRING) \ {<<>>}

PendingOperation ==
    [kind : {"upload"}, files : Seq(RawPath), anchor : STRING \cup {NoAnchor}]
    \cup [kind : {"delete"}, files : Seq(RawPath)]

\* upload and delete are calls with one operation of that kind; Path and Key
\* have the paths and keys that the calls name.
ASSUME RequestAssumption ==
    /\ DeliveryId \in STRING
    /\ \A r \in Request :
        /\ r.entry \in {"upload", "delivery", "delete"}
        /\ r.raising \in BOOLEAN /\ r.dry \in BOOLEAN
        /\ r.product \in STRING /\ r.dataset \in STRING /\ r.dataset # NoAnchor
        /\ r.operations \in Seq(PendingOperation)
        /\ r.entry # "delivery" =>
              Len(r.operations) = 1 /\ r.operations[1].kind = r.entry
        /\ \A i \in DOMAIN r.operations : r.operations[i].kind = "upload" =>
              \A file \in ToSet(r.operations[i].files) :
                  LET anchor == r.operations[i].anchor
                  IN  /\ PathOf(file) \in Path
                      /\ anchor = NoAnchor \/ HasPart(file, anchor) =>
                            S3Key(DeliveryId, r.product, r.dataset,
                                  LocalPathToKeySuffix(file, anchor)) \in Key

\* The path of an object has no segment that pathlib would drop.
ASSUME LegalKeyAssumption ==
    \A key \in LegalKey : \A i \in DOMAIN key : key[i] \in Meaningful

VARIABLES
    request,        \* the arguments of the call
    step,           \* the position in the call's stages
    index,          \* how many pending operations have been done
    uploading,      \* inside upload_multiple_files, or just after it
    operations,     \* all_operations
    responses,      \* all_responses
    registered,     \* the deliveries the ingestion service has registered
    outcome,        \* of the call
    error           \* what the call raised

ownVars == <<request, step, index, uploading, operations, responses,
             registered, outcome, error>>
runVars == <<poolVars, ownVars>>

-----------------------------------------------------------------------------
Stages ==
    [upload   |-> <<"config", "token", "entity", "ids", "validate", "sizes",
                    "client", "operations", "post_token", "post">>,
     delivery |-> <<"config", "token", "entity", "ids", "client", "validate",
                    "sizes", "operations", "post_token", "post">>,
     delete   |-> <<"config", "token", "entity", "ids", "validate",
                    "operations", "post_token", "post">>]

Stage == Stages[request.entry][step]

RemoteStage == {"config", "token", "entity", "client", "post_token"}

At(stage) == outcome = "running" /\ Stage = stage

KeyOf(suffix) ==
    S3Key(DeliveryId, request.product, request.dataset, suffix)

\* get_local_path_s3_keys_mapping: of raw paths that are one Path, the last.
MappingOf(op) ==
    LET LastFile(p) ==
            op.files[CHOOSE i \in DOMAIN op.files :
                        /\ PathOf(op.files[i]) = p
                        /\ \A j \in (i + 1)..Len(op.files) :
                              PathOf(op.files[j]) # p]
    IN  [p \in {PathOf(op.files[i]) : i \in DOMAIN op.files} |->
            KeyOf(LocalPathToKeySuffix(LastFile(p), op.anchor))]

Operation == request.operations[index + 1]

Errors == {"none"} \cup RemoteStage \cup
          {"ids", "validate", "vanished", "sizes", "upload",
           "no successful upload", "key suffix", "post"}

RunTypeOK ==
    /\ PoolTypeOK
    /\ request \in Request
    /\ step \in DOMAIN Stages[request.entry]
    /\ index \in 0..Len(request.operations)
    /\ uploading \in BOOLEAN
    /\ Len(operations) = index
    /\ Len(responses) = index
    /\ outcome \in {"running", "done", "failed", "crashed"}
    /\ error \in Errors

RunInit ==
    /\ PoolInit
    /\ request \in Request
    /\ step = 1
    /\ index = 0
    /\ uploading = FALSE
    /\ operations = <<>>
    /\ responses = <<>>
    /\ registered = <<>>
    /\ outcome = "running"
    /\ error = "none"

-----------------------------------------------------------------------------
Advance ==
    /\ step' = step + 1
    /\ UNCHANGED <<poolVars, request, index, uploading, operations, responses,
                   registered, outcome, error>>

\* An exception leaves the call.
Raise(e) ==
    /\ outcome' = "failed"
    /\ error' = e
    /\ UNCHANGED <<request, step, index, operations, responses>>

\* get_config, fetch_keycloak_token, get_pushing_entity_config,
\* get_s3_ingestion_client; a dry run makes them too, but not the last.
RemoteCall ==
    /\ outcome = "running"
    /\ Stage \in RemoteStage
    /\ ~(Stage = "post_token" /\ request.dry)
    /\ \/ Advance
       \/ Raise(Stage) /\ UNCHANGED <<poolVars, uploading, registered>>

CheckIds ==
    /\ At("ids")
    /\ IF ValidDeliveryIds(request.product, request.dataset)
       THEN Advance
       ELSE Raise("ids") /\ UNCHANGED <<poolVars, uploading, registered>>

\* The files of every operation are checked before any operation is done.
Validate ==
    /\ At("validate")
    /\ \/ /\ ValidOperations(request.operations, request.product,
                             request.dataset)
          /\ Advance
       \/ /\ ~ValidOperations(request.operations, request.product,
                              request.dataset)
          /\ Raise("validate")
          /\ UNCHANGED <<poolVars, uploading, registered>>
       \/ /\ \E i \in DOMAIN request.operations :
                request.operations[i].kind = "upload"
          /\ Raise("vanished")
          /\ UNCHANGED <<poolVars, uploading, registered>>

CheckSizes ==
    /\ At("sizes")
    /\ IF ValidSizes(request.operations)
       THEN Advance
       ELSE Raise("sizes") /\ UNCHANGED <<poolVars, uploading, registered>>

-----------------------------------------------------------------------------
(***************************************************************************)
(* The loop over the pending operations.                                   *)
(***************************************************************************)
\* One operation is done: its manifest entry and its response.
AddOperation(operation, response) ==
    /\ operations' = Append(operations, operation)
    /\ responses' = Append(responses, response)
    /\ index' = index + 1
    /\ uploading' = FALSE
    /\ UNCHANGED <<request, step, registered, outcome, error>>

DeleteOperation(op) ==
    [kind |-> "delete",
     files |-> [i \in DOMAIN op.files |-> [key_suffix |-> op.files[i]]]]

\* Mutant of AddDelete: the deletes of a delivery are put first.
AddDeleteFirst ==
    /\ At("operations")
    /\ index < Len(request.operations)
    /\ Operation.kind = "delete"
    /\ operations' = <<DeleteOperation(Operation)>> \o operations
    /\ responses' = <<DeleteOperation(Operation)>> \o responses
    /\ index' = index + 1
    /\ UNCHANGED <<poolVars, request, step, uploading, registered, outcome,
                   error>>

AddDelete ==
    /\ At("operations")
    /\ index < Len(request.operations)
    /\ Operation.kind = "delete"
    /\ AddOperation(DeleteOperation(Operation), DeleteOperation(Operation))
    /\ UNCHANGED poolVars

BeginUpload ==
    /\ At("operations")
    /\ index < Len(request.operations)
    /\ Operation.kind = "upload"
    /\ ~uploading
    /\ uploading' = TRUE
    /\ \E m \in {MappingOf(Operation)} : Start(m, request.raising, request.dry)
    /\ UNCHANGED <<request, step, index, operations, responses, registered,
                   outcome, error>>

\* A turn of the caller, of a worker or of S3 inside upload_multiple_files.
PoolTurns ==
    /\ outcome = "running"
    /\ uploading
    /\ PoolTurn
    /\ UNCHANGED ownVars

\* Mutant of UploadFile: sizes are rounded up.
UploadFileRoundedUp(file) ==
    [key_suffix |-> ManifestSuffix(mapping[file], request.dataset),
     file_size_mb |-> (SizeOf(file) + UnitsPerMB - 1) \div UnitsPerMB,
     checksum |-> IF dryRun THEN DryRunTag ELSE file]

\* The UploadFile of a raw path whose Path is among the successful files.
UploadFile(file) ==
    [key_suffix |-> ManifestSuffix(mapping[file], request.dataset),
     file_size_mb |-> SizeOf(file) \div UnitsPerMB,
     checksum |-> IF dryRun THEN DryRunTag ELSE file]

\* Mutant of UploadFiles: files that failed are not dropped.
UploadFilesWithErrored ==
    LET files == Only(Operation.files, DOMAIN mapping)
    IN  [i \in DOMAIN files |-> UploadFile(files[i])]

\* build_upload_operation_from_put_results: the results are looked up by
\* str(local_path), so a file is kept when its raw path is spelled that way.
UploadFiles ==
    LET files == Only(Operation.files, success)
    IN  [i \in DOMAIN files |-> UploadFile(files[i])]

ResponseUpload ==
    [kind |-> "upload",
     uploaded |-> {<<p, ResponseSuffix(mapping[p])>> : p \in success},
     failed |-> failed]

\* upload_multiple_files returned: nothing uploaded, a key_suffix that the
\* validator of UploadFile refuses, or a finished operation.
EndUpload ==
    /\ At("operations")
    /\ uploading
    /\ main = "returned"
    /\ \/ /\ success = {}
          /\ Raise("no successful upload")
          /\ uploading' = FALSE
          /\ UNCHANGED registered
       \/ /\ success # {}
          /\ \E i \in DOMAIN UploadFiles :
                WrongKeySuffix(UploadFiles[i].key_suffix)
          /\ Raise("key suffix")
          /\ uploading' = FALSE
          /\ UNCHANGED registered
       \/ /\ success # {}
          /\ \A i \in DOMAIN UploadFiles :
                ~WrongKeySuffix(UploadFiles[i].key_suffix)
          /\ AddOperation([kind |-> "upload", files |-> UploadFiles],
                          ResponseUpload)
    /\ UNCHANGED poolVars

UploadRaises ==
    /\ At("operations")
    /\ uploading
    /\ main = "raised"
    /\ Raise("upload")
    /\ uploading' = FALSE
    /\ UNCHANGED <<poolVars, registered>>

OperationsDone ==
    /\ At("operations")
    /\ index = Len(request.operations)
    /\ Advance

-----------------------------------------------------------------------------
(***************************************************************************)
(* create_and_upload_delivery and the return.                              *)
(***************************************************************************)
\* Mutant of Post: a POST without an answer is sent again.
PostAgain ==
    /\ At("post")
    /\ \/ /\ registered' = Append(registered, operations)
          /\ outcome' = "done"
       \/ /\ registered' = Append(registered, operations)
          /\ Len(registered) < 2
          /\ UNCHANGED outcome
    /\ UNCHANGED <<poolVars, request, step, index, uploading, operations,
                   responses, error>>

\* The service registers the delivery and answers, registers it and the
\* answer is lost or bad or the process killed before it, or refuses it.
\* http_client sends no POST twice.
Post ==
    /\ At("post")
    /\ \/ /\ registered' = Append(registered, operations)
          /\ outcome' = "done"
          /\ UNCHANGED <<request, step, index, operations, responses, error>>
       \/ /\ registered' = Append(registered, operations)
          /\ Raise("post")
       \/ /\ registered' = Append(registered, operations)
          /\ outcome' = "crashed"
          /\ UNCHANGED <<request, step, index, operations, responses, error>>
       \/ /\ UNCHANGED registered
          /\ Raise("post")
    /\ UNCHANGED <<poolVars, uploading>>

\* A dry run returns the delivery it would have posted.
ReturnDryRun ==
    /\ At("post_token")
    /\ request.dry
    /\ outcome' = "done"
    /\ UNCHANGED <<poolVars, request, step, index, uploading, operations,
                   responses, registered, error>>

\* The process is killed, at any point of the call.
Die ==
    /\ outcome = "running"
    /\ outcome' = "crashed"
    /\ IF Working THEN Crash ELSE UNCHANGED poolVars
    /\ UNCHANGED <<request, step, index, uploading, operations, responses,
                   registered, error>>

\* A put that lands late, during the call or after it.
LatePutLands ==
    /\ \E p \in Path, key \in Key : PutLandsLate(p, key)
    /\ UNCHANGED ownVars

RunNext ==
    \/ RemoteCall
    \/ CheckIds
    \/ Validate
    \/ CheckSizes
    \/ AddDelete
    \/ BeginUpload
    \/ PoolTurns
    \/ EndUpload
    \/ UploadRaises
    \/ OperationsDone
    \/ Post
    \/ ReturnDryRun
    \/ Die
    \/ LatePutLands

RunSpec == RunInit /\ [][RunNext]_runVars

\* The caller's own steps are scheduled; a remote call may hang for ever.
FairRunSpec ==
    /\ RunSpec
    /\ PoolFairness
    /\ WF_runVars(AddDelete)
    /\ WF_runVars(BeginUpload)
    /\ WF_runVars(EndUpload)
    /\ WF_runVars(UploadRaises)
    /\ WF_runVars(OperationsDone)
-----------------------------------------------------------------------------
(***************************************************************************)
(* Properties.                                                             *)
(***************************************************************************)
\* The upload operations a list of operations contains.
Uploads(ops) == {i \in DOMAIN ops : ops[i].kind = "upload"}

\* Where the files of its upload operations stand, and the units of storage
\* that they take when file[at] is the one at each place.
Places(ops) ==
    UNION {{<<i, j>> : j \in DOMAIN ops[i].files} : i \in Uploads(ops)}

Units(file) ==
    UNION {{<<at, n>> : n \in 1..SizeOf(file[at])} : at \in DOMAIN file}

\* Different local files of the call have different keys, over all of its
\* operations.  The validation does not see to it: it compares raw paths.
UniqueKeys ==
    \A i, j \in Uploads(request.operations) :
        LET m == MappingOf(request.operations[i])
            n == MappingOf(request.operations[j])
        IN  \A p \in DOMAIN m, q \in DOMAIN n : m[p] = n[q] => p = q

\* Every raw path of the call is spelled the way str(Path(...)) spells it.
PathsNormalised ==
    \A i \in Uploads(request.operations) :
        \A j \in DOMAIN request.operations[i].files :
            LET file == request.operations[i].files[j]
            IN  file = PathOf(file)

\* The checksum of a registered file is that of the object at its key.
Backed(file) ==
    LET key == KeyOf(file.key_suffix)
    IN  key \in Key /\ bucket[key] = file.checksum

AllBacked ==
    \A d \in DOMAIN registered : \A i \in Uploads(registered[d]) :
        \A j \in DOMAIN registered[d][i].files :
            Backed(registered[d][i].files[j])

\* The ID of the dataset is not a segment before it in the keys of the call:
\* the key_suffix of the manifest is what comes after its first occurrence.
DatasetApart == request.dataset \notin {"data", DeliveryId, request.product}

\* A registered delivery names only objects that are in the bucket with the
\* checksum it says: whatever failed, was retried, landed twice or lands once
\* it is registered, and under the key_suffix found again from the S3 key.
ManifestBacked == registered # <<>> /\ UniqueKeys /\ DatasetApart => AllBacked

\* "#: checksum of uploaded file." (UploadFile): without the proviso.
ManifestAlwaysBacked == AllBacked

\* Nothing reaches the bucket or the service before all files of all the
\* operations were checked, those of the last one included.
FilesCheckedFirst ==
    registered # <<>> \/ (\E k \in Key : bucket[k] # NoObject) =>
    \A i \in DOMAIN request.operations :
        LET op == request.operations[i]
        IN  /\ Cardinality(ToSet(op.files)) = Len(op.files)
            /\ \A file \in ToSet(op.files) :
                  IF op.kind = "delete" THEN ~WrongKeySuffix(file)
                  ELSE /\ PathOf(file) \in DOMAIN Disk
                       /\ SizeOf(file) > 0
                       /\ \/ AnchorGiven(op.anchor)
                          \/ /\ ~IsAbsolute(file)
                             /\ ~HasPart(file, request.dataset)

\* Nothing reaches the bucket when the uploads of the whole delivery exceed a
\* limit of the service, though no single operation does.
LimitsKept ==
    (\E k \in Key : bucket[k] # NoObject) =>
        LET file == [at \in Places(request.operations) |->
                        request.operations[at[1]].files[at[2]]]
        IN  /\ Cardinality(DOMAIN file) <= MaxNumberOfFiles
            /\ Cardinality(Units(file)) <= MaxDeliverySize
            /\ \A at \in DOMAIN file : SizeOf(file[at]) <= MaxFileSize

\* A call that returns has registered its delivery, once; one that raised
\* has registered none, unless it was the POST itself that raised; a dry run
\* has registered none and written nothing.
OutcomeTold ==
    /\ Len(registered) <= 1
    /\ outcome = "done" /\ ~request.dry => registered = <<operations>>
    /\ outcome = "failed" /\ error # "post" => registered = <<>>
    /\ request.dry =>
          registered = <<>> /\ \A k \in Key : bucket[k] = NoObject

\* "These operations will be done sequentially in the order they are listed":
\* the registered operations are the requested ones, in their order, none
\* left out, and each upload lists its files in the order they were given.
OrderKept ==
    \A d \in DOMAIN registered :
        /\ Len(registered[d]) = Len(request.operations)
        /\ \A i \in DOMAIN registered[d] :
              LET done == registered[d][i].files
                  asked == request.operations[i].files
              IN  /\ registered[d][i].kind = request.operations[i].kind
                  /\ IF registered[d][i].kind = "delete"
                     THEN [j \in DOMAIN done |-> done[j].key_suffix] = asked
                     ELSE \A j, k \in DOMAIN done : j < k =>
                            \E l, m \in DOMAIN asked :
                                /\ l < m
                                /\ asked[l] = done[j].checksum
                                /\ asked[m] = done[k].checksum

\* Under raise_on_upload_error a registered delivery is complete: every file
\* of every upload operation is in it.
RaisingIsAllOrNothing ==
    request.raising /\ PathsNormalised =>
        \A d \in DOMAIN registered : \A i \in Uploads(registered[d]) :
            ToSet(request.operations[i].files) =
                {registered[d][i].files[j].checksum :
                    j \in DOMAIN registered[d][i].files}

\* What the response reports as uploaded is what the delivery lists, and the
\* other files are reported as failed.
Told(d, i) ==
    /\ responses[i].uploaded =
          {<<d[i].files[j].checksum,
             <<request.product, request.dataset>> \o d[i].files[j].key_suffix>> :
                j \in DOMAIN d[i].files}
    /\ {PathOf(f) : f \in ToSet(request.operations[i].files)} =
          {u[1] : u \in responses[i].uploaded} \cup responses[i].failed

ResponseAgrees ==
    outcome = "done" /\ PathsNormalised /\ DatasetApart =>
        \A d \in DOMAIN registered : \A i \in Uploads(registered[d]) :
            Told(registered[d], i)

\* "the failed files are removed from the delivery and logged, and the rest
\* is delivered" (faq): a file that was uploaded is delivered, however the
\* user spelled its path.
UploadedIsDelivered ==
    outcome = "done" =>
        \A d \in DOMAIN registered : \A i \in Uploads(registered[d]) :
            \A u \in responses[i].uploaded :
                \E j \in DOMAIN registered[d][i].files :
                    registered[d][i].files[j].checksum = u[1]

\* "These errors are raised before anything is uploaded" (troubleshooting),
\* of a key suffix that is not acceptable.
SuffixCheckedFirst ==
    error = "key suffix" => \A k \in Key : bucket[k] = NoObject

\* The operations of a delivery come to an end, whatever S3 answers: the
\* loop ends, raises or is killed.
OperationsEnd == At("operations") ~> ~At("operations")

\* The call implements DeliveryPromise: what it registers is claims about
\* objects already in the bucket, and no put that lands later makes a claim
\* untrue.  It takes calls with UniqueKeys.
Claims(d) ==
    UNION {{<<KeyOf(d[i].files[j].key_suffix), d[i].files[j].checksum>> :
                j \in DOMAIN d[i].files} : i \in Uploads(d)}

Promise ==
    INSTANCE DeliveryPromise
    WITH Content <- Path,
         registered <- [d \in DOMAIN registered |-> Claims(registered[d])]

PromiseKept == Promise!PromiseSpec
=============================================================================
