--------------------------- MODULE DeliveryReport ---------------------------
(***************************************************************************)
(* What a call tells its user in numbers: the summary of its response      *)
(* (core_functions/domain) and that of the delivery, as status shows it    *)
(* (delivery_common/domain).  Both are computed from what DeliveryRun      *)
(* leaves when it is done.  The error messages that the service sets on    *)
(* files later, and the wording, are left out.                             *)
(***************************************************************************)
EXTENDS DeliveryRun

\* _get_summary of ResponseUpload and of ResponseDelete.
ResponseCounts(response) ==
    IF response.kind = "upload"
    THEN [uploads |-> Cardinality(response.uploaded),
          failed_uploads |-> Cardinality(response.failed),
          deletes |-> 0]
    ELSE [uploads |-> 0, failed_uploads |-> 0, deletes |-> Len(response.files)]

\* Mutant of ResponseSummary: the counts of the last operation.
LastResponseSummary ==
    IF responses = <<>>
    THEN [uploads |-> 0, failed_uploads |-> 0, deletes |-> 0]
    ELSE ResponseCounts(responses[Len(responses)])

\* _get_summary of ResponseDelivery; upload and delete have one response.
ResponseSummary ==
    LET counts == [i \in DOMAIN responses |-> ResponseCounts(responses[i])]
    IN  [uploads |-> Total([i \in DOMAIN counts |-> counts[i].uploads]),
         failed_uploads |->
             Total([i \in DOMAIN counts |-> counts[i].failed_uploads]),
         deletes |-> Total([i \in DOMAIN counts |-> counts[i].deletes])]

\* __str__ of a response: the call completed with errors.
CompletedWithErrors == ResponseSummary.failed_uploads > 0

\* UploadOperation.total_size, in megabytes.
TotalMB(op) == Total([j \in DOMAIN op.files |-> op.files[j].file_size_mb])

\* Delivery.get_summary over the get_summary of its operations.
DeliverySummary ==
    [total_uploads |->
         TotalOfKind("upload", operations, FileCounts(operations)),
     total_deletes |->
         TotalOfKind("delete", operations, FileCounts(operations)),
     total_volumes |->
         TotalOfKind("upload", operations,
                     [i \in DOMAIN operations |-> TotalMB(operations[i])])]

-----------------------------------------------------------------------------
\* The response counts what the delivery contains, and with the failed uploads
\* it accounts for every file that the user gave: over several operations, of
\* which each lost files of its own, and in a dry run too.
CountsAgree ==
    outcome = "done" /\ PathsNormalised =>
        /\ ResponseSummary.uploads = DeliverySummary.total_uploads
        /\ ResponseSummary.deletes = DeliverySummary.total_deletes
        /\ ResponseSummary.uploads + ResponseSummary.failed_uploads =
              Cardinality(Places(request.operations))

\* A call that leaves a file out of the delivery is said to have completed
\* with errors; and only such a call is, unless another file that was uploaded
\* has the key of the one that failed.
IncompleteIsWarned ==
    LET IsDelivered(i, file) ==
            \E j \in DOMAIN operations[i].files :
                operations[i].files[j].key_suffix =
                    ManifestSuffix(MappingOf(request.operations[i])[PathOf(file)],
                                   request.dataset)
        IsIncomplete ==
            \E i \in Uploads(operations) :
                \E file \in ToSet(request.operations[i].files) :
                    ~IsDelivered(i, file)
    IN  outcome = "done" /\ PathsNormalised =>
            /\ IsIncomplete => CompletedWithErrors
            /\ UniqueKeys /\ CompletedWithErrors => IsIncomplete

\* The volume that the delivery declares in whole megabytes never exceeds
\* what was checked against the limit, and is short of the bytes in the
\* bucket by less than a megabyte for each file - but by as much as that: a
\* delivery of small files declares no volume at all.
VolumeDeclared ==
    LET file == [at \in Places(operations) |->
                    operations[at[1]].files[at[2]].checksum]
        stored == Cardinality(Units(file))
        declared == DeliverySummary.total_volumes * UnitsPerMB
        files == Cardinality(DOMAIN file)
    IN  registered # <<>> =>
            /\ declared <= stored
            /\ declared <= MaxDeliverySize
            /\ files > 0 => stored < declared + UnitsPerMB * files
=============================================================================
