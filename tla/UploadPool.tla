----------------------------- MODULE UploadPool -----------------------------
(***************************************************************************)
(* S3Client.upload_multiple_files of copernicusmarine_delivery/s3_client:  *)
(* the calling thread hands one upload_file task per local path to a       *)
(* thread pool, the workers put the files into the ingestion bucket with a *)
(* bounded retry on OSError, and the caller collects the results as they   *)
(* complete.  One S3Client serves every upload operation of a delivery, so *)
(* the call can be made again on the bucket the former calls left behind.  *)
(*                                                                         *)
(* Abstractions.  The content of a file is named by its path, and so is    *)
(* the ETag that S3 returns for it: an upload reports its own content.     *)
(* The order of the mapping, of the pool's queue and of as_completed is    *)
(* left open (any pending path may be next); upload times and log lines    *)
(* are left out.                                                           *)
(***************************************************************************)
EXTENDS Naturals, FiniteSets

CONSTANTS
    Path,                   \* local paths, as pathlib.Path compares them
    Key,                    \* keys made for the ingestion bucket
    LegalKey,               \* those obstore takes: no ".", ".." or "" segment
    NoObject,               \* what the bucket holds at a key never written
    MaxConcurrentUploads,   \* max_workers of the pool
    OsErrorRetries          \* _OS_ERROR_RETRIES

ASSUME PoolAssumption ==
    /\ MaxConcurrentUploads \in Nat \ {0}   \* ThreadPoolExecutor refuses less
    /\ OsErrorRetries \in Nat \ {0}
    /\ NoObject \notin Path
    /\ LegalKey \subseteq Key

VARIABLES
    mapping,        \* s3_key_local_file_mapping of the current call
    raiseOnError,   \* raise_on_error of the current call
    dryRun,         \* dry_run of the current call
    main,           \* where the calling thread is
    task,           \* the state of each path's upload_file task
    attempt,        \* the attempt counter of _put_with_os_error_retry
    bucket,         \* the ingestion bucket: key -> content
    sent,           \* the puts that were sent: <<content, key>>
    success,        \* success_results
    failed          \* error_results

callVars == <<mapping, raiseOnError, dryRun>>
poolVars == <<mapping, raiseOnError, dryRun, main, task, attempt, bucket,
              sent, success, failed>>

-----------------------------------------------------------------------------
MainState == {"idle", "running", "unwinding", "returned", "raised", "crashed"}

TaskState == {"none", "pending", "queued", "putting", "landed", "backoff",
              "stored", "errored"}

\* A task whose worker thread is occupied.
Busy == {p \in Path : task[p] \in {"putting", "landed", "backoff"}}

\* A task whose future is done.
Done == {p \in Path : task[p] \in {"stored", "errored"}}

\* The process is alive inside upload_multiple_files.
Working == main \in {"running", "unwinding"}

PoolTypeOK ==
    /\ DOMAIN mapping \subseteq Path
    /\ mapping \in [DOMAIN mapping -> Key]
    /\ raiseOnError \in BOOLEAN
    /\ dryRun \in BOOLEAN
    /\ main \in MainState
    /\ task \in [Path -> TaskState]
    /\ attempt \in [Path -> 0..OsErrorRetries]
    /\ bucket \in [Key -> Path \cup {NoObject}]
    /\ sent \subseteq Path \X Key
    /\ success \subseteq Path
    /\ failed \subseteq Path

-----------------------------------------------------------------------------
PoolInit ==
    /\ mapping = [p \in {} |-> NoObject]
    /\ raiseOnError = FALSE
    /\ dryRun = FALSE
    /\ main = "idle"
    /\ task = [p \in Path |-> "none"]
    /\ attempt = [p \in Path |-> 0]
    /\ bucket = [k \in Key |-> NoObject]
    /\ sent = {}
    /\ success = {}
    /\ failed = {}

\* A call of upload_multiple_files: fresh futures and fresh result lists.
Start(m, raising, dry) ==
    /\ main \in {"idle", "returned"}
    /\ main' = "running"
    /\ mapping' = m
    /\ raiseOnError' = raising
    /\ dryRun' = dry
    /\ task' = [p \in Path |-> IF p \in DOMAIN m THEN "pending" ELSE "none"]
    /\ attempt' = [p \in Path |-> 0]
    /\ success' = {}
    /\ failed' = {}
    /\ UNCHANGED <<bucket, sent>>

\* executor.submit: the pool may run the task while others are submitted.
Submit(p) ==
    /\ main = "running"
    /\ task[p] = "pending"
    /\ task' = [task EXCEPT ![p] = "queued"]
    /\ UNCHANGED <<callVars, main, attempt, bucket, sent, success, failed>>

\* Mutant of Take: the dry_run flag is not passed on to upload_file.
TakeIgnoringDryRun(p) ==
    /\ Working
    /\ task[p] = "queued"
    /\ Cardinality(Busy) < MaxConcurrentUploads
    /\ task' = [task EXCEPT ![p] = "putting"]
    /\ attempt' = [attempt EXCEPT ![p] = 1]
    /\ sent' = sent \cup {<<p, mapping[p]>>}
    /\ UNCHANGED <<callVars, main, bucket, success, failed>>

\* A worker takes a task.  A dry run builds the S3File at once; otherwise the
\* first put is sent.  Workers go on while the caller unwinds an exception:
\* leaving the with block is shutdown(wait=True), which cancels nothing.
Take(p) ==
    /\ Working
    /\ task[p] = "queued"
    /\ Cardinality(Busy) < MaxConcurrentUploads
    /\ IF dryRun
       THEN /\ task' = [task EXCEPT ![p] = "stored"]
            /\ UNCHANGED <<attempt, sent>>
       ELSE /\ task' = [task EXCEPT ![p] = "putting"]
            /\ attempt' = [attempt EXCEPT ![p] = 1]
            /\ sent' = sent \cup {<<p, mapping[p]>>}
    /\ UNCHANGED <<callVars, main, bucket, success, failed>>

\* S3 completes the write whose answer a worker waits for.  A put at a key
\* that obstore does not take ends in an exception.
PutLands(p) ==
    /\ Working
    /\ task[p] = "putting"
    /\ mapping[p] \in LegalKey
    /\ task' = [task EXCEPT ![p] = "landed"]
    /\ bucket' = [bucket EXCEPT ![mapping[p]] = p]
    /\ UNCHANGED <<callVars, main, attempt, sent, success, failed>>

\* S3 completes a write for which nobody waits any more, at any later time
\* and more than once: a put is several requests, since obstore repeats those
\* that failed, and each of them may have reached S3, be it reported as failed,
\* repeated with success or sent by a process that is gone.
PutLandsLate(p, key) ==
    /\ <<p, key>> \in sent
    /\ key \in LegalKey
    /\ bucket' = [bucket EXCEPT ![key] = p]
    /\ UNCHANGED <<callVars, main, task, attempt, sent, success, failed>>

\* Mutant of PutReturns: the upload is reported once the put was sent.
PutReturnsUnconfirmed(p) ==
    /\ Working
    /\ task[p] \in {"putting", "landed"}
    /\ task' = [task EXCEPT ![p] = "stored"]
    /\ UNCHANGED <<callVars, main, attempt, bucket, sent, success, failed>>

\* put returns and upload_file returns its S3File.
PutReturns(p) ==
    /\ Working
    /\ task[p] = "landed"
    /\ task' = [task EXCEPT ![p] = "stored"]
    /\ UNCHANGED <<callVars, main, attempt, bucket, sent, success, failed>>

\* Mutant of PutRaisesOSError: one attempt too many.
PutRaisesOSErrorOnceMore(p) ==
    /\ Working
    /\ task[p] \in {"putting", "landed"}
    /\ task' = [task EXCEPT ![p] = IF attempt[p] > OsErrorRetries
                                   THEN "errored" ELSE "backoff"]
    /\ UNCHANGED <<callVars, main, attempt, bucket, sent, success, failed>>

\* put raises an OSError, before or after the write landed: the worker sleeps
\* and will put again, or gives up on the last attempt.
PutRaisesOSError(p) ==
    /\ Working
    /\ task[p] \in {"putting", "landed"}
    /\ task' = [task EXCEPT ![p] = IF attempt[p] = OsErrorRetries
                                   THEN "errored" ELSE "backoff"]
    /\ UNCHANGED <<callVars, main, attempt, bucket, sent, success, failed>>

\* Any other exception is not retried by _put_with_os_error_retry.
PutRaisesOther(p) ==
    /\ Working
    /\ task[p] \in {"putting", "landed"}
    /\ task' = [task EXCEPT ![p] = "errored"]
    /\ UNCHANGED <<callVars, main, attempt, bucket, sent, success, failed>>

\* Mutant of Retry: the loop does not count its attempts.
RetryForever(p) ==
    /\ Working
    /\ task[p] = "backoff"
    /\ task' = [task EXCEPT ![p] = "putting"]
    /\ UNCHANGED <<callVars, main, attempt, bucket, sent, success, failed>>

\* time.sleep is over: the next attempt.
Retry(p) ==
    /\ Working
    /\ task[p] = "backoff"
    /\ task' = [task EXCEPT ![p] = "putting"]
    /\ attempt' = [attempt EXCEPT ![p] = @ + 1]
    /\ UNCHANGED <<callVars, main, bucket, sent, success, failed>>

\* Mutant of Collect: errors are collected even under raise_on_error.
CollectWithoutRaising(p) ==
    /\ main = "running"
    /\ \A q \in Path : task[q] # "pending"
    /\ p \in Done \ (success \cup failed)
    /\ IF task[p] = "stored"
       THEN success' = success \cup {p} /\ UNCHANGED failed
       ELSE failed' = failed \cup {p} /\ UNCHANGED success
    /\ UNCHANGED <<callVars, main, task, attempt, bucket, sent>>

\* One turn of the as_completed loop, which starts when all is submitted.
\* future.result() re-raises what upload_file raised under raise_on_error.
Collect(p) ==
    /\ main = "running"
    /\ \A q \in Path : task[q] # "pending"
    /\ p \in Done \ (success \cup failed)
    /\ \/ /\ task[p] = "stored"
          /\ success' = success \cup {p}
          /\ UNCHANGED <<main, failed>>
       \/ /\ task[p] = "errored"
          /\ ~raiseOnError
          /\ failed' = failed \cup {p}
          /\ UNCHANGED <<main, success>>
       \/ /\ task[p] = "errored"
          /\ raiseOnError
          /\ main' = "unwinding"
          /\ UNCHANGED <<success, failed>>
    /\ UNCHANGED <<callVars, task, attempt, bucket, sent>>

\* Mutant of Finish: the last results are not waited for in the loop.
FinishOnceDone ==
    /\ main = "running"
    /\ DOMAIN mapping \subseteq Done
    /\ main' = "returned"
    /\ UNCHANGED <<callVars, task, attempt, bucket, sent, success, failed>>

\* Every future was collected: return PutFilesResult.
Finish ==
    /\ main = "running"
    /\ success \cup failed = DOMAIN mapping
    /\ main' = "returned"
    /\ UNCHANGED <<callVars, task, attempt, bucket, sent, success, failed>>

\* Mutant of Unwind: shutdown(wait=False).
UnwindAtOnce ==
    /\ main = "unwinding"
    /\ main' = "raised"
    /\ UNCHANGED <<callVars, task, attempt, bucket, sent, success, failed>>

\* The exception leaves the with block once the pool has run dry.
Unwind ==
    /\ main = "unwinding"
    /\ DOMAIN mapping \subseteq Done
    /\ main' = "raised"
    /\ UNCHANGED <<callVars, task, attempt, bucket, sent, success, failed>>

\* The process is killed.
Crash ==
    /\ Working
    /\ main' = "crashed"
    /\ UNCHANGED <<callVars, task, attempt, bucket, sent, success, failed>>

PutEnds(p) == PutReturns(p) \/ PutRaisesOSError(p) \/ PutRaisesOther(p)

\* Everything but the death of the process.
PoolTurn ==
    \/ \E p \in Path :
          \/ Submit(p)
          \/ Take(p)
          \/ PutLands(p)
          \/ PutEnds(p)
          \/ Retry(p)
          \/ Collect(p)
    \/ Finish
    \/ Unwind

PoolStep == PoolTurn \/ Crash

PoolNext ==
    \/ \E paths \in SUBSET Path, raising, dry \in BOOLEAN :
          \E m \in [paths -> Key] : Start(m, raising, dry)
    \/ PoolStep
    \/ \E p \in Path, key \in Key : PutLandsLate(p, key)

PoolSpec == PoolInit /\ [][PoolNext]_poolVars

\* The threads are scheduled, obstore ends every put (its client timeout and
\* its own retry_timeout are finite) and time.sleep is over some day.
PoolFairness ==
    /\ \A p \in Path :
          /\ WF_poolVars(Submit(p))
          /\ WF_poolVars(Take(p))
          /\ WF_poolVars(PutEnds(p))
          /\ WF_poolVars(Retry(p))
          /\ WF_poolVars(Collect(p))
    /\ WF_poolVars(Finish)
    /\ WF_poolVars(Unwind)

FairPoolSpec == PoolSpec /\ PoolFairness

-----------------------------------------------------------------------------
(***************************************************************************)
(* Properties.                                                             *)
(***************************************************************************)
\* No other file was ever put at the key of this one.
Unrivalled(p) == \A put \in sent : put[2] = mapping[p] => put[1] = p

\* A file reported as uploaded, whatever errors and retries came before,
\* whatever the other workers do and whenever a put lands that was given up, is
\* in the bucket with the content whose ETag was reported - as long as no
\* other file was put at its key, in this call or in one before.
StoredIntact ==
    ~dryRun =>
        \A p \in DOMAIN mapping :
            task[p] = "stored" /\ Unrivalled(p) => bucket[mapping[p]] = p

\* upload_multiple_files returns one result for every path it was given, the
\* S3File of each stored file and the ErrorFile of each that failed.
NoneLost ==
    main = "returned" =>
        /\ success = {p \in DOMAIN mapping : task[p] = "stored"}
        /\ failed = {p \in DOMAIN mapping : task[p] = "errored"}
        /\ success \cup failed = DOMAIN mapping

\* Under raise_on_error, and only then, an exception leaves the call if and
\* only if some upload failed: no delivery is built on a partial upload.
RaisesForAFailure ==
    LET failing == \E p \in Path : task[p] = "errored"
    IN  /\ main = "raised" => raiseOnError /\ failing
        /\ main = "returned" => ~(raiseOnError /\ failing)

\* Once the call is over, by a return or by an exception, no worker is left
\* that could send a put behind the back of the next operation.
QuietAfterTheCall ==
    main \in {"returned", "raised"} =>
        \A p \in Path : task[p] \in {"none", "stored", "errored"}

\* A dry run sends nothing, even one that follows real uploads; what lands
\* in the bucket meanwhile was sent before it.
DryRunWritesNothing ==
    [][dryRun' =>
          /\ sent' = sent
          /\ \A k \in Key : bucket'[k] # bucket[k] =>
                <<bucket'[k], k>> \in sent]_poolVars

\* Every call ends although every put may fail on every attempt: by a return
\* or an exception, unless the process is killed.
CallEnds == main = "running" ~> main \in {"returned", "raised", "crashed"}

\* "raise an exception and stop the upload if any file fails to upload"
\* (docstring of Upload.submit): once the failure was raised in the calling
\* thread, no further file is sent.
StopsOnFailure ==
    [][main = "unwinding" =>
          \A p \in Path : task[p] = "queued" => task'[p] # "putting"]_poolVars
=============================================================================
