------------------------- MODULE DeliveryRunProofs --------------------------
(***************************************************************************)
(* Proofs about a call of DeliveryRun, for every set of calls, every disk, *)
(* any limits, any number of workers and of attempts.                      *)
(*                                                                         *)
(* CallInv says what the outcome of a call tells.  What a call registers   *)
(* takes more: the properties speak of what was registered, and what makes *)
(* them true was done operation by operation before.  ManifestSoFar keeps, *)
(* for every operation that is done, the paths its pool had stored: the    *)
(* manifest and the response are made of them (DoneWith) and their objects *)
(* stay in the bucket (Won).  To carry it through the next operation the   *)
(* invariant says whose pool is running (PoolOfCall), that no operation    *)
(* precedes the validation and no put the check of the sizes               *)
(* (NothingBeforeChecks), so that every mapping is one of validated files, *)
(* and that every put ever sent, which may land at any later time, is one  *)
(* of those mappings (SentByCall).                                         *)
(***************************************************************************)
EXTENDS DeliveryRun, UploadPoolProofs, PathKeysProofs, FiniteSetTheorems

-----------------------------------------------------------------------------
(***************************************************************************)
(* What the outcome of a call tells.                                       *)
(***************************************************************************)
\* Nothing is registered while the call is under way.
UnregisteredWhileRunning == outcome = "running" => registered = <<>>

\* A dry run hands its flag to every upload pool, sends no put and does not
\* get as far as the POST.
DryRunKept ==
    request.dry =>
        /\ Stage # "post"
        /\ main # "idle" => dryRun
        /\ sent = {}
        /\ \A p \in Path :
              task[p] \notin {"putting", "landed", "backoff", "errored"}

\* The inductive invariant for OutcomeTold.
CallInv ==
    /\ request \in Request
    /\ step \in DOMAIN Stages[request.entry]
    /\ task \in [Path -> TaskState]
    /\ UnregisteredWhileRunning
    /\ DryRunKept
    /\ OutcomeTold

-----------------------------------------------------------------------------
\* The POST is the last stage of every entry, just after its token.
LEMMA StageOrder ==
  ASSUME NEW r \in Request, NEW s \in DOMAIN Stages[r.entry],
         Stages[r.entry][s] # "post"
  PROVE  /\ s + 1 \in DOMAIN Stages[r.entry]
         /\ Stages[r.entry][s] # "post_token" => Stages[r.entry][s + 1] # "post"
<1>1. r.entry \in {"upload", "delivery", "delete"}
  BY RequestAssumption
<1>2. CASE r.entry = "upload"
  BY <1>2 DEF Stages
<1>3. CASE r.entry = "delivery"
  BY <1>3 DEF Stages
<1>4. CASE r.entry = "delete"
  BY <1>4 DEF Stages
<1> QED
  BY <1>1, <1>2, <1>3, <1>4

\* No entry begins with the POST.
LEMMA FirstStage ==
  ASSUME NEW r \in Request
  PROVE  1 \in DOMAIN Stages[r.entry] /\ Stages[r.entry][1] # "post"
<1>1. r.entry \in {"upload", "delivery", "delete"}
  BY RequestAssumption
<1> QED
  BY <1>1 DEF Stages

\* The invariant holds when a call begins.
LEMMA RunInitInv == RunInit => CallInv
<1> SUFFICES ASSUME RunInit PROVE CallInv
  OBVIOUS
<1>1. /\ request \in Request
      /\ step \in DOMAIN Stages[request.entry]
      /\ Stage # "post"
  BY FirstStage DEF RunInit, Stage
<1>2. task \in [Path -> TaskState]
  BY DEF RunInit, PoolInit, TaskState
<1>3. UnregisteredWhileRunning /\ DryRunKept /\ OutcomeTold
  BY <1>1 DEF RunInit, PoolInit, UnregisteredWhileRunning, DryRunKept,
              OutcomeTold
<1> QED
  BY <1>1, <1>2, <1>3 DEF CallInv

\* Going on to the next stage, unless that takes a dry run to the POST.
LEMMA AdvanceInv ==
  ASSUME CallInv, outcome = "running", Advance, Stage # "post",
         ~(Stage = "post_token" /\ request.dry)
  PROVE  CallInv'
<1> USE DEF Advance, poolVars, CallInv
<1>1. /\ step' \in DOMAIN Stages[request'.entry]
      /\ request.dry => Stage' # "post"
  BY StageOrder DEF Stage
<1>2. UnregisteredWhileRunning' /\ OutcomeTold'
  BY DEF UnregisteredWhileRunning, OutcomeTold
<1>3. DryRunKept'
  BY <1>1 DEF DryRunKept
<1> QED
  BY <1>1, <1>2, <1>3

\* An exception before the POST registers nothing.
LEMMA RaiseInv ==
  ASSUME CallInv, outcome = "running", NEW e, Raise(e),
         UNCHANGED <<poolVars, registered>>
  PROVE  CallInv'
<1> USE DEF Raise, poolVars, CallInv
<1>1. UnregisteredWhileRunning' /\ OutcomeTold'
  BY DEF UnregisteredWhileRunning, OutcomeTold
<1>2. DryRunKept'
  BY DEF DryRunKept, Stage
<1> QED
  BY <1>1, <1>2

\* The stages before the operations.
LEMMA CheckInv ==
  ASSUME CallInv, RemoteCall \/ CheckIds \/ Validate \/ CheckSizes
  PROVE  CallInv'
<1>1. outcome = "running" /\ Stage # "post"
  BY DEF RemoteCall, CheckIds, Validate, CheckSizes, At, RemoteStage
<1>2. CASE Advance
  <2>1. ~(Stage = "post_token" /\ request.dry)
    BY DEF RemoteCall, CheckIds, Validate, CheckSizes, At
  <2> QED
    BY <1>1, <1>2, <2>1, AdvanceInv
<1>3. CASE \E e : Raise(e) /\ UNCHANGED <<poolVars, uploading, registered>>
  BY <1>1, <1>3, RaiseInv
<1> QED
  BY <1>2, <1>3 DEF RemoteCall, CheckIds, Validate, CheckSizes

\* A turn inside upload_multiple_files: under a dry run none of them sends
\* or ends a put, and so none writes.
LEMMA PoolTurnInv ==
  ASSUME CallInv, PoolTurn \/ Crash,
         UNCHANGED <<request, step, index, uploading, operations, responses,
                     registered, error>>,
         outcome' \in {outcome, "crashed"}
  PROVE  CallInv'
<1> USE DEF CallInv, callVars
<1>1. task' \in [Path -> TaskState]
  BY DEF PoolTurn, Submit, Take, PutLands, PutEnds, PutReturns,
         PutRaisesOSError, PutRaisesOther, Retry, Collect, Finish, Unwind,
         Crash, TaskState
<1>2. ASSUME request.dry
      PROVE  /\ bucket' = bucket /\ sent' = sent
             /\ main' # "idle" => dryRun'
             /\ \A p \in Path :
                   task'[p] \notin {"putting", "landed", "backoff", "errored"}
  BY <1>2 DEF DryRunKept, PoolTurn, Submit, Take, PutLands, PutEnds,
              PutReturns, PutRaisesOSError, PutRaisesOther, Retry, Collect,
              Finish, Unwind, Crash, Working, TaskState
<1>3. UnregisteredWhileRunning' /\ OutcomeTold'
  BY <1>2 DEF UnregisteredWhileRunning, OutcomeTold
<1>4. DryRunKept'
  BY <1>2 DEF DryRunKept, Stage
<1> QED
  BY <1>1, <1>3, <1>4

\* A new upload pool gets the flag of the call.
LEMMA BeginUploadInv == ASSUME CallInv, BeginUpload PROVE CallInv'
<1> USE DEF CallInv, BeginUpload, Start
<1>1. task' \in [Path -> TaskState]
  BY DEF TaskState
<1>2. \A p \in Path : task'[p] \in {"pending", "none"}
  OBVIOUS
<1>3. UnregisteredWhileRunning' /\ OutcomeTold'
  BY DEF UnregisteredWhileRunning, OutcomeTold
<1>4. DryRunKept'
  BY <1>2 DEF DryRunKept, Stage
<1> QED
  BY <1>1, <1>3, <1>4

\* The other steps of the loop over the operations.
LEMMA LoopInv ==
  ASSUME CallInv, AddDelete \/ EndUpload \/ UploadRaises \/ OperationsDone
  PROVE  CallInv'
<1>1. outcome = "running" /\ Stage = "operations"
  BY DEF AddDelete, EndUpload, UploadRaises, OperationsDone, At
<1>2. CASE \E operation, response : AddOperation(operation, response)
                                    /\ UNCHANGED poolVars
  <2> USE <1>1, <1>2 DEF AddOperation, poolVars, CallInv
  <2>1. UnregisteredWhileRunning' /\ OutcomeTold'
    BY DEF UnregisteredWhileRunning, OutcomeTold
  <2>2. DryRunKept'
    BY DEF DryRunKept, Stage
  <2> QED
    BY <2>1, <2>2
<1>3. CASE \E e : Raise(e) /\ UNCHANGED <<poolVars, registered>>
  BY <1>1, <1>3, RaiseInv
<1>4. CASE OperationsDone
  BY <1>1, <1>4, AdvanceInv DEF OperationsDone
<1> QED
  BY <1>2, <1>3, <1>4 DEF AddDelete, EndUpload, UploadRaises

\* The POST is sent once, by a call that is not a dry run; a dry run returns
\* with nothing registered.
LEMMA ReturnInv == ASSUME CallInv, Post \/ ReturnDryRun PROVE CallInv'
<1> USE DEF CallInv, poolVars
<1>1. CASE Post
  <2>1. ~request.dry /\ registered = <<>>
    BY <1>1 DEF Post, At, DryRunKept, UnregisteredWhileRunning
  <2>2. /\ request' = request /\ step' = step /\ task' = task
        /\ sent' = sent
        /\ outcome' \in {"done", "failed", "crashed"}
        /\ operations' = operations
    BY <1>1 DEF Post, Raise
  <2>3. \/ registered' = <<operations>> /\ outcome' \in {"done", "crashed"}
        \/ /\ registered' = <<operations>> \/ registered' = <<>>
           /\ outcome' = "failed"
           /\ error' = "post"
    BY <1>1, <2>1 DEF Post, Raise
  <2>4. UnregisteredWhileRunning' /\ DryRunKept'
    BY <2>1, <2>2 DEF UnregisteredWhileRunning, DryRunKept
  <2>5. OutcomeTold'
    <3>1. Len(registered') <= 1
      <4>1. Len(<<operations>>) <= 1 /\ Len(<< >>) <= 1
        OBVIOUS
      <4> QED
        BY <2>3, <4>1, Zenon
    <3>2. outcome' = "done" => registered' = <<operations'>>
      BY <2>2, <2>3
    <3>3. outcome' = "failed" => error' = "post"
      BY <2>3
    <3> QED
      BY <2>1, <2>2, <3>1, <3>2, <3>3 DEF OutcomeTold
  <2> QED
    BY <2>2, <2>4, <2>5
<1>2. CASE ReturnDryRun
  <2>1. UnregisteredWhileRunning' /\ OutcomeTold'
    BY <1>2 DEF ReturnDryRun, At, UnregisteredWhileRunning, OutcomeTold
  <2>2. DryRunKept'
    BY <1>2 DEF ReturnDryRun, DryRunKept, Stage
  <2> QED
    BY <1>2, <2>1, <2>2 DEF ReturnDryRun
<1> QED
  BY <1>1, <1>2

\* The death of the process registers nothing, nor does a put that lands
\* late; a dry run has sent none.
LEMMA DeathInv == ASSUME CallInv, Die \/ LatePutLands PROVE CallInv'
<1>1. CASE Die /\ Working
  BY <1>1, PoolTurnInv DEF Die
<1>2. CASE Die /\ ~Working
  <2> USE <1>2 DEF Die, CallInv, poolVars
  <2>1. UnregisteredWhileRunning' /\ OutcomeTold'
    BY DEF UnregisteredWhileRunning, OutcomeTold
  <2>2. DryRunKept'
    BY DEF DryRunKept, Stage
  <2> QED
    BY <2>1, <2>2
<1>3. CASE LatePutLands
  <2> USE <1>3 DEF LatePutLands, PutLandsLate, CallInv, callVars, ownVars
  <2>1. ~request.dry
    BY DEF DryRunKept
  <2>2. UnregisteredWhileRunning' /\ OutcomeTold'
    BY <2>1 DEF UnregisteredWhileRunning, OutcomeTold
  <2>3. DryRunKept'
    BY <2>1 DEF DryRunKept
  <2> QED
    BY <2>2, <2>3
<1> QED
  BY <1>1, <1>2, <1>3

\* No step of the call disturbs the invariant.
LEMMA RunStepInv == CallInv /\ [RunNext]_runVars => CallInv'
<1> SUFFICES ASSUME CallInv, [RunNext]_runVars PROVE CallInv'
  OBVIOUS
<1>1. CASE RemoteCall \/ CheckIds \/ Validate \/ CheckSizes
  BY <1>1, CheckInv
<1>2. CASE AddDelete \/ EndUpload \/ UploadRaises \/ OperationsDone
  BY <1>2, LoopInv
<1>3. CASE BeginUpload
  BY <1>3, BeginUploadInv
<1>4. CASE PoolTurns
  BY <1>4, PoolTurnInv DEF PoolTurns, ownVars
<1>5. CASE Post \/ ReturnDryRun
  BY <1>5, ReturnInv
<1>6. CASE Die \/ LatePutLands
  BY <1>6, DeathInv
<1>7. CASE UNCHANGED runVars
  BY <1>7 DEF runVars, poolVars, ownVars, CallInv, UnregisteredWhileRunning,
              DryRunKept, OutcomeTold, Stage
<1> QED
  BY <1>1, <1>2, <1>3, <1>4, <1>5, <1>6, <1>7 DEF RunNext

\* What a call did is what it tells: a return means that its delivery was
\* registered exactly once, an exception that none was, unless the POST itself
\* raised it; a dry run registers and writes nothing.
THEOREM OutcomesTold == RunSpec => []OutcomeTold
<1>1. CallInv => OutcomeTold
  BY DEF CallInv
<1> QED
  BY <1>1, RunInitInv, RunStepInv, PTL DEF RunSpec

-----------------------------------------------------------------------------
(***************************************************************************)
(* What the validation lets through.                                       *)
(***************************************************************************)
\* The reason "none" says what was checked of a file.
LEMMA FileAccepted ==
  ASSUME NEW file, NEW anchor, NEW pid, NEW ds,
         InvalidReason(file, anchor, pid, ds) = "none"
  PROVE  /\ FileExists(file)
         /\ SizeOf(file) # 0
         /\ IF AnchorGiven(anchor) THEN HasPart(file, anchor)
            ELSE /\ ~HasPart(file, ds)
                 /\ ~IsAbsolute(file)
                 /\ AcceptableKeySuffix(file, anchor)
  BY DEF InvalidReason

\* So the anchor of an accepted file is None or a part of its path.
LEMMA AnchorAccepted ==
  ASSUME NEW file, NEW anchor, NEW pid, NEW ds,
         InvalidReason(file, anchor, pid, ds) = "none"
  PROVE  anchor = NoAnchor \/ HasPart(file, anchor)
<1>1. AcceptableKeySuffix(file, anchor) /\ ~AnchorGiven(anchor)
         => anchor = NoAnchor
  BY Zenon DEF AcceptableKeySuffix, AnchorGiven
<1> QED
  BY <1>1, FileAccepted

\* An operation of a call has files that are sequences of strings.
LEMMA OperationShape ==
  ASSUME request \in Request, NEW i \in DOMAIN request.operations
  PROVE  /\ request.operations[i].kind \in {"upload", "delete"}
         /\ request.operations[i].files \in Seq(RawPath)
         /\ DOMAIN request.operations[i].files =
               1..Len(request.operations[i].files)
         /\ Len(request.operations[i].files) \in Nat
         /\ \A j \in DOMAIN request.operations[i].files :
               request.operations[i].files[j] \in Seq(STRING) \ {<<>>}
<1> DEFINE op == request.operations[i]
<1>1. request.operations \in Seq(PendingOperation)
  BY RequestAssumption
<1>2. op \in PendingOperation
  BY <1>1
<1> HIDE DEF op
<1>3. op.kind \in {"upload", "delete"} /\ op.files \in Seq(RawPath)
  BY <1>2 DEF PendingOperation
<1>4. DOMAIN op.files = 1..Len(op.files) /\ Len(op.files) \in Nat
  BY <1>3
<1>5. \A j \in DOMAIN op.files : op.files[j] \in Seq(STRING) \ {<<>>}
  BY <1>3 DEF RawPath
<1> QED
  BY <1>3, <1>4, <1>5 DEF op

\* The key of a path is made from one of the files that are that path.
LEMMA MappingOfPath ==
  ASSUME NEW op, Len(op.files) \in Nat, DOMAIN op.files = 1..Len(op.files)
  PROVE  /\ DOMAIN MappingOf(op) = {PathOf(op.files[i]) : i \in DOMAIN op.files}
         /\ MappingOf(op) = [p \in DOMAIN MappingOf(op) |-> MappingOf(op)[p]]
         /\ \A p \in DOMAIN MappingOf(op) : \E i \in DOMAIN op.files :
               /\ PathOf(op.files[i]) = p
               /\ MappingOf(op)[p] =
                     KeyOf(LocalPathToKeySuffix(op.files[i], op.anchor))
<1> DEFINE Latest(p, i) == /\ PathOf(op.files[i]) = p
                           /\ \A j \in (i + 1)..Len(op.files) :
                                 PathOf(op.files[j]) # p
           latest(p) == CHOOSE i \in DOMAIN op.files : Latest(p, i)
<1>1. MappingOf(op) =
         [p \in {PathOf(op.files[i]) : i \in DOMAIN op.files} |->
             KeyOf(LocalPathToKeySuffix(op.files[latest(p)], op.anchor))]
  BY Zenon DEF MappingOf
<1>2. ASSUME NEW p \in {PathOf(op.files[i]) : i \in DOMAIN op.files}
      PROVE  latest(p) \in DOMAIN op.files /\ PathOf(op.files[latest(p)]) = p
  <2> DEFINE A == {i \in DOMAIN op.files : PathOf(op.files[i]) = p}
  <2>1. A \subseteq 1..Len(op.files) /\ A # {}
    OBVIOUS
  <2>2. PICK n \in A : \A m \in A : m <= n
    <3> HIDE DEF A
    <3> QED
      BY <2>1, LastOf
  <2>3. \A j \in (n + 1)..Len(op.files) : PathOf(op.files[j]) # p
    <3> SUFFICES ASSUME NEW j \in (n + 1)..Len(op.files),
                        PathOf(op.files[j]) = p
                 PROVE  FALSE
      OBVIOUS
    <3>1. j \in A /\ ~(j <= n)
      OBVIOUS
    <3> QED
      BY <2>2, <3>1
  <2>4. n \in DOMAIN op.files /\ Latest(p, n)
    BY <2>2, <2>3
  <2> HIDE DEF A
  <2> QED
    BY <2>4
<1> HIDE DEF latest, Latest
<1> QED
  BY <1>1, <1>2

\* An operation that was let through maps its paths to keys, each of them the
\* key of a suffix.
LEMMA MappingType ==
  ASSUME request \in Request,
         ValidOperations(request.operations, request.product, request.dataset),
         NEW i \in DOMAIN request.operations,
         request.operations[i].kind = "upload"
  PROVE  LET m == MappingOf(request.operations[i])
         IN  /\ DOMAIN m \subseteq Path
             /\ m \in [DOMAIN m -> Key]
             /\ \A p \in DOMAIN m : \E suffix \in Seq(STRING) \ {<<>>} :
                   m[p] = KeyOf(suffix)
<1> DEFINE op == request.operations[i]
           m == MappingOf(op)
<1>1. /\ op.files \in Seq(RawPath)
      /\ DOMAIN op.files = 1..Len(op.files)
      /\ Len(op.files) \in Nat
      /\ \A j \in DOMAIN op.files : op.files[j] \in Seq(STRING) \ {<<>>}
  BY OperationShape
<1>2. \A j \in DOMAIN op.files :
         op.anchor = NoAnchor \/ HasPart(op.files[j], op.anchor)
  BY AnchorAccepted DEF ValidOperations, ValidOperation, ValidUploadFiles
<1>3. \A j \in DOMAIN op.files :
         /\ PathOf(op.files[j]) \in Path
         /\ KeyOf(LocalPathToKeySuffix(op.files[j], op.anchor)) \in Key
  <2>1. \A file \in ToSet(op.files) :
           /\ PathOf(file) \in Path
           /\ op.anchor = NoAnchor \/ HasPart(file, op.anchor) =>
                 KeyOf(LocalPathToKeySuffix(file, op.anchor)) \in Key
    BY RequestAssumption DEF KeyOf
  <2>2. \A j \in DOMAIN op.files : op.files[j] \in ToSet(op.files)
    BY DEF ToSet
  <2> QED
    BY <1>2, <2>1, <2>2
<1>4. \A j \in DOMAIN op.files :
         LocalPathToKeySuffix(op.files[j], op.anchor) \in Seq(STRING) \ {<<>>}
  BY <1>1, <1>2, KeySuffixType
<1> HIDE DEF op
<1>5. /\ DOMAIN m = {PathOf(op.files[j]) : j \in DOMAIN op.files}
      /\ m = [p \in DOMAIN m |-> m[p]]
      /\ \A p \in DOMAIN m : \E j \in DOMAIN op.files :
            /\ PathOf(op.files[j]) = p
            /\ m[p] = KeyOf(LocalPathToKeySuffix(op.files[j], op.anchor))
  BY <1>1, MappingOfPath
<1>6. DOMAIN m \subseteq Path
  BY <1>3, <1>5
<1>7. \A p \in DOMAIN m : m[p] \in Key
  BY <1>3, <1>5
<1>8. \A p \in DOMAIN m : \E suffix \in Seq(STRING) \ {<<>>} :
         m[p] = KeyOf(suffix)
  BY <1>4, <1>5
<1> HIDE DEF m
<1> QED
  BY <1>5, <1>6, <1>7, <1>8 DEF m, op

-----------------------------------------------------------------------------
(***************************************************************************)
(* The inductive invariant.                                                *)
(***************************************************************************)
\* operations and responses have an element for each operation that is done.
Sequences ==
    /\ operations = [i \in 1..index |-> operations[i]]
    /\ responses = [i \in 1..index |-> responses[i]]

\* The stages that the call has been through.
Passed(stage) == \E s \in 1..(step - 1) : Stages[request.entry][s] = stage

\* What a stage lets through has been checked.
ChecksPassed ==
    /\ Passed("validate") =>
          ValidOperations(request.operations, request.product, request.dataset)
    /\ Passed("sizes") => ValidSizes(request.operations)
    /\ Passed("operations") => index = Len(request.operations)
    /\ outcome = "done" => Passed("operations")

\* No operation is done before the validation, and nothing is written and no
\* upload begun before the sizes are checked too.
NothingBeforeChecks ==
    /\ ~Passed("validate") => index = 0
    /\ ~Passed("sizes") =>
          main = "idle" /\ sent = {} /\ \A k \in Key : bucket[k] = NoObject

\* Every put that was sent is that of a file of the call at its key.
SentByCall ==
    \A put \in sent : \E i \in Uploads(request.operations) :
        LET m == MappingOf(request.operations[i])
        IN  put[1] \in DOMAIN m /\ put[2] = m[put[1]]

\* The upload pool is that of the operation the call is at, or its own call
\* is over.
PoolOfCall ==
    /\ uploading =>
          /\ Stage = "operations"
          /\ index < Len(request.operations)
          /\ Operation.kind = "upload"
          /\ mapping = MappingOf(Operation)
          /\ raiseOnError = request.raising
          /\ dryRun = request.dry
          /\ main # "idle"
    /\ ~uploading => main \in {"idle", "returned", "raised"}
    /\ ~uploading /\ outcome = "running" => main # "raised"
    /\ main = "idle" => \A p \in Path : task[p] = "none"
    /\ main = "crashed" => outcome = "crashed"
    /\ \A p \in Path :
          ~dryRun /\ task[p] \in {"landed", "stored"} => mapping[p] \in LegalKey

\* The manifest entry and the response of the ith operation, an upload of
\* which the paths in won were uploaded.
DoneWith(i, won) ==
    LET op == request.operations[i]
        m == MappingOf(op)
        files == Only(op.files, won)
    IN  /\ operations[i].kind = "upload"
        /\ operations[i].files =
              [j \in DOMAIN files |->
                  [key_suffix |-> ManifestSuffix(m[files[j]], request.dataset),
                   file_size_mb |-> SizeOf(files[j]) \div UnitsPerMB,
                   checksum |-> IF request.dry THEN DryRunTag ELSE files[j]]]
        /\ responses[i].kind = "upload"
        /\ responses[i].uploaded = {<<p, ResponseSuffix(m[p])>> : p \in won}
        /\ responses[i].failed = DOMAIN m \ won
        /\ request.raising \/ request.dry => won = DOMAIN m

\* Its files are in the bucket.
Won(i, won) ==
    LET m == MappingOf(request.operations[i])
    IN  \A p \in won : m[p] \in LegalKey /\ (UniqueKeys => bucket[m[p]] = p)

\* Every operation that is done is in the manifest and in the response as it
\* was done.
ManifestSoFar ==
    \A i \in 1..index :
        IF request.operations[i].kind = "delete"
        THEN /\ operations[i] = DeleteOperation(request.operations[i])
             /\ responses[i] = operations[i]
        ELSE \E won \in SUBSET DOMAIN MappingOf(request.operations[i]) :
                DoneWith(i, won) /\ (~request.dry => Won(i, won))

\* What is registered is the manifest, after its last operation.
RegisteredIsManifest ==
    registered # <<>> =>
        /\ registered = <<operations>>
        /\ Passed("operations")
        /\ outcome \in {"done", "failed", "crashed"}
        /\ ~request.dry

ManifestInv ==
    /\ CallInv
    /\ PoolInv
    /\ RunTypeOK
    /\ Sequences
    /\ ChecksPassed
    /\ NothingBeforeChecks
    /\ SentByCall
    /\ PoolOfCall
    /\ ManifestSoFar
    /\ RegisteredIsManifest

-----------------------------------------------------------------------------
\* The order of the stages of a call.
LEMMA StagesPassed ==
  ASSUME request \in Request, step \in DOMAIN Stages[request.entry]
  PROVE  /\ step \in Nat \ {0}
         /\ Stage \in {"operations", "post_token", "post"} => Passed("validate")
         /\ Stage \in {"post_token", "post"} <=> Passed("operations")
         /\ Passed("operations") => Passed("validate")
         /\ Passed("sizes") => Passed("validate")
         /\ Stage = "operations" \/ Passed("operations") =>
               Passed("sizes") \/ request.entry = "delete"
<1>1. request.entry \in {"upload", "delivery", "delete"}
  BY RequestAssumption
<1>2. CASE request.entry = "upload"
  <2>1. step \in 1..10
    BY <1>2 DEF Stages
  <2> QED
    BY <1>2, <2>1 DEF Stages, Stage, Passed
<1>3. CASE request.entry = "delivery"
  <2>1. step \in 1..10
    BY <1>3 DEF Stages
  <2> QED
    BY <1>3, <2>1 DEF Stages, Stage, Passed
<1>4. CASE request.entry = "delete"
  <2>1. step \in 1..8
    BY <1>4 DEF Stages
  <2> QED
    BY <1>4, <2>1 DEF Stages, Stage, Passed
<1> QED
  BY <1>1, <1>2, <1>3, <1>4

\* Going on to the next stage passes the stage the call was at.
LEMMA AdvancePasses ==
  ASSUME step \in Nat \ {0}, Advance
  PROVE  \A stage : Passed(stage)' <=> Passed(stage) \/ Stage = stage
  BY DEF Advance, Passed, Stage

\* The mapping of an operation does not change during the call.
LEMMA MappingStays ==
  ASSUME request' = request, NEW op
  PROVE  MappingOf(op)' = MappingOf(op)
  BY DEF MappingOf, KeyOf

\* The keys of a request that stays stay unique.
LEMMA UniqueStays == ASSUME request' = request PROVE UniqueKeys' <=> UniqueKeys
  BY DEF UniqueKeys, Uploads, MappingOf, KeyOf

\* While nothing is sent, the puts that were sent stay those of the call.
LEMMA SentStays ==
  ASSUME SentByCall, request' = request, sent' = sent
  PROVE  SentByCall'
  BY MappingStays DEF SentByCall, Uploads

\* Among unique keys, a put that was sent at the key of a file is of that file.
LEMMA SentAlone ==
  ASSUME SentByCall, UniqueKeys, NEW i \in Uploads(request.operations),
         NEW p \in DOMAIN MappingOf(request.operations[i]), NEW put \in sent,
         put[2] = MappingOf(request.operations[i])[p]
  PROVE  put[1] = p
  BY DEF SentByCall, UniqueKeys

\* A sequence with an element at its end.
LEMMA AppendAt ==
  ASSUME NEW seq, NEW n \in Nat, seq = [i \in 1..n |-> seq[i]], NEW e
  PROVE  /\ Len(seq) = n
         /\ Len(Append(seq, e)) = n + 1
         /\ Append(seq, e) = [i \in 1..(n + 1) |-> Append(seq, e)[i]]
         /\ \A i \in 1..n : Append(seq, e)[i] = seq[i]
         /\ Append(seq, e)[n + 1] = e
<1> DEFINE S == {seq[i] : i \in 1..n} \cup {e}
           more == Append(seq, e)
<1>1. e \in S /\ \A i \in 1..n : seq[i] \in S
  OBVIOUS
<1> HIDE DEF S
<1>2. seq \in Seq(S) /\ Len(seq) = n
  BY <1>1
<1>3. /\ more \in Seq(S)
      /\ Len(more) = n + 1
      /\ \A i \in 1..n : more[i] = seq[i]
      /\ more[n + 1] = e
  BY <1>1, <1>2
<1> HIDE DEF more
<1>4. more = [i \in 1..(n + 1) |-> more[i]]
  BY <1>3
<1> QED
  BY <1>2, <1>3, <1>4 DEF more

-----------------------------------------------------------------------------
\* The invariant holds when a call begins.
LEMMA ManifestInit == RunInit => ManifestInv
<1> SUFFICES ASSUME RunInit PROVE ManifestInv
  OBVIOUS
<1>1. CallInv /\ PoolInv
  BY RunInitInv, InitInv DEF RunInit
<1>2. /\ request \in Request /\ step = 1 /\ index = 0 /\ uploading = FALSE
      /\ operations = <<>> /\ responses = <<>> /\ registered = <<>>
      /\ outcome = "running" /\ error = "none"
      /\ main = "idle"
      /\ \A p \in Path : task[p] = "none"
      /\ sent = {}
      /\ \A k \in Key : bucket[k] = NoObject
  BY DEF RunInit, PoolInit
<1>3. RunTypeOK
  <2>1. Len(request.operations) \in Nat
    BY <1>2, RequestAssumption
  <2>2. Len(operations) = index /\ Len(responses) = index
    <3>1. Len(<<>>) = 0
      OBVIOUS
    <3> QED
      BY <1>2, <3>1
  <2>3. PoolTypeOK /\ step \in DOMAIN Stages[request.entry]
    BY <1>1 DEF PoolInv, CallInv
  <2>4. index \in 0..Len(request.operations)
    BY <1>2, <2>1
  <2>5. error \in Errors
    BY <1>2 DEF Errors
  <2> QED
    BY <1>2, <2>2, <2>3, <2>4, <2>5, Zenon DEF RunTypeOK
<1>4. Sequences
  BY <1>2 DEF Sequences
<1>5. \A stage : ~Passed(stage)
  BY <1>2 DEF Passed
<1>6. ChecksPassed /\ NothingBeforeChecks /\ RegisteredIsManifest
  BY <1>2, <1>5 DEF ChecksPassed, NothingBeforeChecks, RegisteredIsManifest
<1>7. PoolOfCall /\ ManifestSoFar /\ SentByCall
  BY <1>2 DEF PoolOfCall, ManifestSoFar, SentByCall
<1> QED
  BY <1>1, <1>3, <1>4, <1>6, <1>7 DEF ManifestInv

\* What is done stays done while nothing happens to its objects.
LEMMA DoneStays ==
  ASSUME UNCHANGED <<request, operations, responses>>,
         NEW i, NEW won, DoneWith(i, won)
  PROVE  DoneWith(i, won)'
  BY MappingStays DEF DoneWith

\* The claims about the manifest rest on the variables that these steps leave.
LEMMA ManifestStays ==
  ASSUME ManifestSoFar, UNCHANGED <<request, index, operations, responses>>,
         \A i \in 1..index :
             LET m == MappingOf(request.operations[i])
             IN  ~request.dry /\ request.operations[i].kind # "delete" =>
                    \A p \in DOMAIN m :
                        m[p] \in LegalKey /\ UniqueKeys /\ bucket[m[p]] = p
                        => bucket'[m[p]] = p
  PROVE  ManifestSoFar'
<1> SUFFICES ASSUME NEW i \in 1..index
             PROVE  IF request.operations[i].kind = "delete"
                    THEN /\ operations[i] = DeleteOperation(request.operations[i])
                         /\ responses[i] = operations[i]
                    ELSE \E won \in SUBSET DOMAIN MappingOf(request.operations[i]) :
                            DoneWith(i, won)' /\ (~request.dry => Won(i, won)')
  BY MappingStays DEF ManifestSoFar
<1>1. CASE request.operations[i].kind = "delete"
  BY <1>1 DEF ManifestSoFar
<1>2. CASE request.operations[i].kind # "delete"
  <2>1. PICK won \in SUBSET DOMAIN MappingOf(request.operations[i]) :
                DoneWith(i, won) /\ (~request.dry => Won(i, won))
    BY <1>2 DEF ManifestSoFar
  <2>2. DoneWith(i, won)'
    BY <2>1, DoneStays
  <2>3. ~request.dry => Won(i, won)'
    BY <1>2, <2>1, MappingStays, UniqueStays DEF Won
  <2> QED
    BY <1>2, <2>2, <2>3, Zenon
<1> QED
  BY <1>1, <1>2

\* Going on to the next stage, with what the stage lets through.
LEMMA AdvanceManifest ==
  ASSUME ManifestInv, CallInv', outcome = "running", Advance, ~uploading,
         Stage = "validate" => ValidOperations(request.operations,
                                   request.product, request.dataset),
         Stage = "sizes" => ValidSizes(request.operations),
         Stage = "operations" => index = Len(request.operations)
  PROVE  ManifestInv'
<1>1. /\ UNCHANGED poolVars
      /\ UNCHANGED <<request, index, uploading, operations, responses,
                     registered, outcome, error>>
  BY DEF Advance
<1>2. PoolInv'
  BY <1>1, StutterInv DEF ManifestInv
<1>3. RunTypeOK'
  BY <1>1, <1>2 DEF ManifestInv, RunTypeOK, CallInv, PoolInv
<1>4. Sequences'
  BY <1>1 DEF ManifestInv, Sequences
<1>5. \A stage : Passed(stage)' <=> Passed(stage) \/ Stage = stage
  <2>1. step \in Nat \ {0}
    BY StagesPassed DEF ManifestInv, CallInv
  <2> QED
    BY <2>1, AdvancePasses
<1>6. ChecksPassed' /\ NothingBeforeChecks'
  BY <1>1, <1>5 DEF ManifestInv, ChecksPassed, NothingBeforeChecks, poolVars
<1>7. PoolOfCall'
  BY <1>1 DEF ManifestInv, PoolOfCall, poolVars
<1>8. ManifestSoFar'
  BY <1>1, ManifestStays DEF ManifestInv, poolVars
<1>9. RegisteredIsManifest'
  BY <1>1 DEF ManifestInv, CallInv, UnregisteredWhileRunning,
              RegisteredIsManifest
<1>10. SentByCall'
  BY <1>1, SentStays DEF ManifestInv, poolVars
<1> QED
  BY <1>2, <1>3, <1>4, <1>6, <1>7, <1>8, <1>9, <1>10 DEF ManifestInv

\* An exception leaves everything as it was done.
LEMMA RaiseManifest ==
  ASSUME ManifestInv, CallInv', outcome = "running", NEW e \in Errors, Raise(e),
         UNCHANGED <<poolVars, registered>>,
         uploading' \in BOOLEAN, uploading' => uploading,
         main \in {"returned", "raised"} \/ uploading' = uploading
  PROVE  ManifestInv'
<1>1. /\ UNCHANGED <<request, step, index, operations, responses>>
      /\ outcome' = "failed" /\ error' = e
  BY DEF Raise
<1>2. PoolInv'
  BY StutterInv DEF ManifestInv
<1>3. RunTypeOK'
  BY <1>1, <1>2 DEF ManifestInv, RunTypeOK, PoolInv, Errors
<1>4. Sequences'
  BY <1>1 DEF ManifestInv, Sequences
<1>5. ChecksPassed' /\ NothingBeforeChecks'
  BY <1>1 DEF ManifestInv, ChecksPassed, NothingBeforeChecks, poolVars, Passed
<1>6. PoolOfCall'
  BY <1>1, MappingStays
  DEF ManifestInv, PoolOfCall, poolVars, Stage, Operation
<1>7. ManifestSoFar'
  BY <1>1, ManifestStays DEF ManifestInv, poolVars
<1>8. RegisteredIsManifest'
  BY <1>1 DEF ManifestInv, CallInv, UnregisteredWhileRunning,
              RegisteredIsManifest
<1>9. SentByCall'
  BY <1>1, SentStays DEF ManifestInv, poolVars
<1> QED
  BY <1>2, <1>3, <1>4, <1>5, <1>6, <1>7, <1>8, <1>9 DEF ManifestInv

\* The stages before and after the operations.
LEMMA CheckManifest ==
  ASSUME ManifestInv, RemoteCall \/ CheckIds \/ Validate \/ CheckSizes
  PROVE  ManifestInv'
<1>1. CallInv'
  BY CheckInv DEF ManifestInv
<1>2. outcome = "running" /\ Stage # "operations"
  BY DEF RemoteCall, CheckIds, Validate, CheckSizes, At, RemoteStage
<1>3. ~uploading
  BY <1>2 DEF ManifestInv, PoolOfCall
<1>4. CASE Advance
  <2>1. Stage = "validate" => ValidOperations(request.operations,
                                  request.product, request.dataset)
    BY <1>4 DEF RemoteCall, CheckIds, Validate, CheckSizes, At, RemoteStage,
                Advance, Raise
  <2>2. Stage = "sizes" => ValidSizes(request.operations)
    BY <1>4 DEF RemoteCall, CheckIds, Validate, CheckSizes, At, RemoteStage,
                Advance, Raise
  <2> QED
    BY <1>1, <1>2, <1>3, <1>4, <2>1, <2>2, AdvanceManifest
<1>5. CASE \E e \in Errors : /\ Raise(e)
                            /\ UNCHANGED <<poolVars, uploading, registered>>
  <2>1. uploading \in BOOLEAN
    BY DEF ManifestInv, RunTypeOK
  <2> QED
    BY <1>1, <1>2, <1>5, <2>1, RaiseManifest
<1> QED
  BY <1>4, <1>5
  DEF RemoteCall, CheckIds, Validate, CheckSizes, Errors

\* An operation that is done is added to what was done.
LEMMA AddManifest ==
  ASSUME ManifestInv, CallInv', At("operations"),
         index < Len(request.operations), NEW next, next = index + 1,
         NEW operation, NEW response, AddOperation(operation, response),
         UNCHANGED poolVars, main \in {"idle", "returned"},
         IF Operation.kind = "delete"
         THEN operation = DeleteOperation(Operation) /\ response = operation
         ELSE \E won \in SUBSET DOMAIN MappingOf(Operation) :
                 DoneWith(next, won)' /\ (~request.dry => Won(next, won))
  PROVE  ManifestInv'
<1>1. /\ operations' = Append(operations, operation)
      /\ responses' = Append(responses, response)
      /\ index' = index + 1
      /\ uploading' = FALSE
      /\ UNCHANGED <<request, step, registered, outcome, error>>
  BY DEF AddOperation
<1>2. PoolInv'
  BY StutterInv DEF ManifestInv
<1>3. index \in Nat /\ index + 1 \in 0..Len(request.operations)
  <2>1. Len(request.operations) \in Nat
    BY RequestAssumption DEF ManifestInv, CallInv
  <2>2. index \in 0..Len(request.operations)
    BY DEF ManifestInv, RunTypeOK
  <2> QED
    BY <2>1, <2>2
<1>4. /\ Len(operations') = index + 1 /\ Len(responses') = index + 1
      /\ operations' = [i \in 1..(index + 1) |-> operations'[i]]
      /\ responses' = [i \in 1..(index + 1) |-> responses'[i]]
      /\ \A i \in 1..index : /\ operations'[i] = operations[i]
                             /\ responses'[i] = responses[i]
      /\ operations'[index + 1] = operation
      /\ responses'[index + 1] = response
  BY <1>1, <1>3, AppendAt DEF ManifestInv, Sequences
<1>5. Sequences'
  BY <1>1, <1>4 DEF Sequences
<1>6. RunTypeOK'
  BY <1>1, <1>2, <1>3, <1>4 DEF ManifestInv, RunTypeOK, PoolInv
<1>7. ChecksPassed' /\ NothingBeforeChecks'
  <2>1. Passed("validate") /\ ~Passed("operations")
    BY StagesPassed DEF ManifestInv, CallInv, At
  <2>2. \A stage : Passed(stage)' <=> Passed(stage)
    BY <1>1 DEF Passed
  <2>3. outcome' # "done"
    BY <1>1 DEF At
  <2> QED
    BY <1>1, <2>1, <2>2, <2>3
    DEF ManifestInv, ChecksPassed, NothingBeforeChecks, poolVars
<1>8. PoolOfCall'
  BY <1>1 DEF ManifestInv, PoolOfCall, poolVars, At
<1>9. ManifestSoFar'
  <2> SUFFICES ASSUME NEW i \in 1..(index + 1)
               PROVE  IF request.operations[i].kind = "delete"
                      THEN /\ operations'[i] =
                                 DeleteOperation(request.operations[i])
                           /\ responses'[i] = operations'[i]
                      ELSE \E won \in
                              SUBSET DOMAIN MappingOf(request.operations[i]) :
                              DoneWith(i, won)' /\ (~request.dry => Won(i, won)')
    BY <1>1, MappingStays DEF ManifestSoFar
  <2>1. \A won : Won(i, won) => Won(i, won)'
    BY <1>1, MappingStays, UniqueStays DEF Won, poolVars
  <2>2. CASE i = next
    BY <1>4, <2>1, <2>2, Zenon DEF Operation
  <2>3. CASE i \in 1..index
    <3>1. operations'[i] = operations[i] /\ responses'[i] = responses[i]
      BY <1>4, <2>3
    <3>2. ASSUME NEW won, DoneWith(i, won) PROVE DoneWith(i, won)'
      BY <1>1, <3>1, <3>2, MappingStays DEF DoneWith
    <3>3. IF request.operations[i].kind = "delete"
          THEN /\ operations[i] = DeleteOperation(request.operations[i])
               /\ responses[i] = operations[i]
          ELSE \E won \in SUBSET DOMAIN MappingOf(request.operations[i]) :
                  DoneWith(i, won) /\ (~request.dry => Won(i, won))
      BY <2>3 DEF ManifestInv, ManifestSoFar
    <3> QED
      BY <2>1, <3>1, <3>2, <3>3, Zenon
  <2> QED
    BY <1>3, <2>2, <2>3
<1>10. RegisteredIsManifest'
  BY <1>1 DEF ManifestInv, CallInv, UnregisteredWhileRunning,
              RegisteredIsManifest, At
<1>11. SentByCall'
  BY <1>1, SentStays DEF ManifestInv, poolVars
<1> QED
  BY <1>2, <1>5, <1>6, <1>7, <1>8, <1>9, <1>10, <1>11 DEF ManifestInv

\* A delete is added as it was asked for.
LEMMA DeleteManifest == ASSUME ManifestInv, AddDelete PROVE ManifestInv'
<1>1. CallInv'
  BY LoopInv DEF ManifestInv
<1>2. ~uploading /\ outcome = "running"
  BY DEF AddDelete, At, ManifestInv, PoolOfCall
<1>3. main \in {"idle", "returned"}
  BY <1>2 DEF ManifestInv, PoolOfCall
<1> QED
  BY <1>1, <1>3, AddManifest DEF AddDelete

\* At the operations, the operations have been checked.
LEMMA OperationChecked ==
  ASSUME ManifestInv, Stage = "operations"
  PROVE  ValidOperations(request.operations, request.product, request.dataset)
  BY StagesPassed DEF ManifestInv, CallInv, ChecksPassed

\* The position of the operation that the call is at.
LEMMA OperationIndex ==
  ASSUME ManifestInv, index < Len(request.operations)
  PROVE  /\ index \in Nat
         /\ index + 1 \in DOMAIN request.operations
         /\ \A i \in 1..index : i \in DOMAIN request.operations
<1>1. Len(request.operations) \in Nat /\
      DOMAIN request.operations = 1..Len(request.operations)
  BY RequestAssumption DEF ManifestInv, CallInv
<1>2. index \in 0..Len(request.operations)
  BY DEF ManifestInv, RunTypeOK
<1> QED
  BY <1>1, <1>2

\* Before an upload the sizes were checked: the call has a stage for it.
LEMMA UploadIsSized ==
  ASSUME ManifestInv, Stage = "operations", index < Len(request.operations),
         Operation.kind = "upload"
  PROVE  Passed("sizes")
<1>1. Passed("sizes") \/ request.entry = "delete"
  BY StagesPassed DEF ManifestInv, CallInv
<1>2. request.entry = "delete" =>
         Len(request.operations) = 1 /\ request.operations[1].kind = "delete"
  BY RequestAssumption DEF ManifestInv, CallInv
<1>3. index \in Nat
  BY OperationIndex
<1>4. request.entry # "delete"
  BY <1>2, <1>3 DEF Operation
<1> QED
  BY <1>1, <1>4

\* The upload pool of an operation starts with the keys of its files.
LEMMA BeginManifest == ASSUME ManifestInv, BeginUpload PROVE ManifestInv'
<1> DEFINE m == MappingOf(Operation)
<1>1. CallInv'
  BY BeginUploadInv DEF ManifestInv
<1>2. /\ Stage = "operations" /\ outcome = "running"
      /\ index < Len(request.operations)
      /\ Operation.kind = "upload"
      /\ uploading' = TRUE
      /\ Start(m, request.raising, request.dry)
      /\ UNCHANGED <<request, step, index, operations, responses, registered,
                     outcome, error>>
  BY DEF BeginUpload, At
<1>3. request.raising \in BOOLEAN /\ request.dry \in BOOLEAN
  BY RequestAssumption DEF ManifestInv, CallInv
<1>4. DOMAIN m \subseteq Path /\ m \in [DOMAIN m -> Key]
  <2>1. request \in Request
    BY DEF ManifestInv, CallInv
  <2>2. index + 1 \in DOMAIN request.operations
    BY <1>2, OperationIndex
  <2>3. request.operations[index + 1].kind = "upload"
    BY <1>2 DEF Operation
  <2> QED
    BY <1>2, <2>1, <2>2, <2>3, OperationChecked, MappingType DEF Operation
<1> HIDE DEF m
<1>5. PoolInv'
  BY <1>2, <1>3, <1>4, StartInv DEF ManifestInv
<1>6. /\ main' = "running"
      /\ mapping' = m
      /\ raiseOnError' = request.raising
      /\ dryRun' = request.dry
      /\ \A p \in Path : task'[p] \in {"pending", "none"}
      /\ bucket' = bucket /\ sent' = sent
  BY <1>2 DEF Start
<1>7. RunTypeOK'
  BY <1>2, <1>5 DEF ManifestInv, RunTypeOK, PoolInv
<1>8. Sequences'
  BY <1>2 DEF ManifestInv, Sequences
<1>9. ChecksPassed' /\ NothingBeforeChecks'
  <2>1. Passed("validate")
    BY <1>2, StagesPassed DEF ManifestInv, CallInv
  <2>2. \A stage : Passed(stage)' <=> Passed(stage)
    BY <1>2 DEF Passed
  <2>3. Passed("sizes")
    BY <1>2, UploadIsSized
  <2> QED
    BY <1>2, <2>1, <2>2, <2>3 DEF ManifestInv, ChecksPassed, NothingBeforeChecks
<1>10. PoolOfCall'
  <2>1. m = MappingOf(Operation)'
    BY <1>2, MappingStays DEF m, Operation
  <2>2. Stage' = Stage /\ Operation' = Operation
    BY <1>2 DEF Stage, Operation
  <2> QED
    BY <1>2, <1>6, <2>1, <2>2 DEF PoolOfCall
<1>11. ManifestSoFar'
  BY <1>2, <1>6, ManifestStays DEF ManifestInv
<1>12. RegisteredIsManifest'
  BY <1>2 DEF ManifestInv, CallInv, UnregisteredWhileRunning,
              RegisteredIsManifest
<1>13. SentByCall'
  BY <1>2, <1>6, SentStays DEF ManifestInv
<1> QED
  BY <1>1, <1>5, <1>7, <1>8, <1>9, <1>10, <1>11, <1>12, <1>13 DEF ManifestInv

\* A turn inside upload_multiple_files keeps the invariant of the pool.
LEMMA TurnInv ==
  ASSUME PoolInv, PoolTurn \/ Crash
  PROVE  PoolInv'
<1>1. CASE \E p \in Path : Submit(p) \/ Take(p)
  BY <1>1, QueueInv
<1>2. CASE \E p \in Path : PutLands(p)
  BY <1>2, LandInv
<1>3. CASE \E p \in Path : PutEnds(p)
  BY <1>3, PutEndsInv
<1>4. CASE \E p \in Path : Retry(p)
  BY <1>4, RetryInv
<1>5. CASE (\E p \in Path : Collect(p)) \/ Finish \/ Unwind \/ Crash
  BY <1>5, CallerInv
<1> QED
  BY <1>1, <1>2, <1>3, <1>4, <1>5 DEF PoolTurn

\* It keeps the call of the pool, and what it sends or writes is the file of a
\* key.
LEMMA TurnWrites ==
  ASSUME PoolInv, PoolTurn \/ Crash
  PROVE  /\ UNCHANGED callVars
         /\ main = "idle" <=> main' = "idle"
         /\ main' = "crashed" => main = "crashed" \/ Crash
         /\ \/ bucket' = bucket
            \/ \E p \in Path : /\ task[p] = "putting"
                               /\ p \in DOMAIN mapping
                               /\ mapping[p] \in LegalKey
                               /\ bucket' = [bucket EXCEPT ![mapping[p]] = p]
         /\ \A put \in sent' \ sent :
               put[1] \in DOMAIN mapping /\ put[2] = mapping[put[1]]
         /\ \A p \in Path : task'[p] \in {"landed", "stored"} =>
               \/ task[p] \in {"landed", "stored"}
               \/ dryRun
               \/ mapping[p] \in LegalKey
<1>1. /\ UNCHANGED callVars
      /\ main = "idle" <=> main' = "idle"
      /\ main' = "crashed" => main = "crashed" \/ Crash
  BY DEF PoolTurn, Submit, Take, PutLands, PutEnds, PutReturns,
         PutRaisesOSError, PutRaisesOther, Retry, Collect, Finish, Unwind,
         Crash, callVars, Working
<1>2. \/ bucket' = bucket
      \/ \E p \in Path : /\ task[p] = "putting"
                         /\ p \in DOMAIN mapping
                         /\ mapping[p] \in LegalKey
                         /\ bucket' = [bucket EXCEPT ![mapping[p]] = p]
  BY DEF PoolTurn, Submit, Take, PutLands, PutEnds, PutReturns,
         PutRaisesOSError, PutRaisesOther, Retry, Collect, Finish, Unwind,
         Crash, PoolInv, Tracked
<1>3. task \in [Path -> TaskState]
  BY DEF PoolInv, PoolTypeOK
<1>4. \A p \in Path : task'[p] \in {"landed", "stored"} =>
               \/ task[p] \in {"landed", "stored"}
               \/ dryRun
               \/ mapping[p] \in LegalKey
  BY <1>3 DEF PoolTurn, Submit, Take, PutLands, PutEnds, PutReturns,
         PutRaisesOSError, PutRaisesOther, Retry, Collect, Finish, Unwind,
         Crash, TaskState
<1>5. \A put \in sent' \ sent :
         put[1] \in DOMAIN mapping /\ put[2] = mapping[put[1]]
  BY DEF PoolTurn, Submit, Take, PutLands, PutEnds, PutReturns,
         PutRaisesOSError, PutRaisesOther, Retry, Collect, Finish, Unwind,
         Crash, PoolInv, Tracked
<1> QED
  BY <1>1, <1>2, <1>4, <1>5

\* So it leaves what is done as it is: a write at the key of a file that was
\* uploaded is, among unique keys, a write of that file.
LEMMA TurnManifest ==
  ASSUME ManifestInv, CallInv', uploading,
         PoolTurn \/ Crash,
         UNCHANGED <<request, step, index, uploading, operations, responses,
                     registered, error>>,
         outcome' \in {outcome, "crashed"}, Crash => outcome' = "crashed"
  PROVE  ManifestInv'
<1>1. PoolInv'
  BY TurnInv DEF ManifestInv
<1>2. RunTypeOK'
  BY <1>1 DEF ManifestInv, RunTypeOK, PoolInv
<1>3. Sequences'
  BY DEF ManifestInv, Sequences
<1>4. /\ Stage = "operations" /\ Passed("validate") /\ Passed("sizes")
      /\ ~Passed("operations")
      /\ index < Len(request.operations)
      /\ Operation.kind = "upload"
      /\ mapping = MappingOf(Operation)
      /\ main # "idle"
      /\ registered = <<>>
  <2>1. Stage = "operations"
    BY DEF ManifestInv, PoolOfCall
  <2>2. Passed("validate") /\ ~Passed("operations")
    BY <2>1, StagesPassed DEF ManifestInv, CallInv
  <2>3. Passed("sizes")
    BY <2>1, UploadIsSized DEF ManifestInv, PoolOfCall
  <2> QED
    BY <2>1, <2>2, <2>3 DEF ManifestInv, PoolOfCall, RegisteredIsManifest
<1>5. ChecksPassed' /\ NothingBeforeChecks'
  <2>1. \A stage : Passed(stage)' <=> Passed(stage)
    BY DEF Passed
  <2> QED
    BY <1>4, <2>1 DEF ManifestInv, ChecksPassed, NothingBeforeChecks
<1>6. PoolOfCall'
  <2>1. /\ UNCHANGED callVars
        /\ main = "idle" <=> main' = "idle"
        /\ main' = "crashed" => main = "crashed" \/ Crash
        /\ \A p \in Path : task'[p] \in {"landed", "stored"} =>
               \/ task[p] \in {"landed", "stored"}
               \/ dryRun
               \/ mapping[p] \in LegalKey
    BY TurnWrites DEF ManifestInv
  <2>2. MappingOf(Operation)' = MappingOf(Operation)
    BY MappingStays DEF Operation
  <2>3. Stage' = Stage /\ Operation' = Operation
    BY DEF Stage, Operation
  <2> QED
    BY <2>1, <2>2, <2>3 DEF ManifestInv, PoolOfCall, callVars
<1>7. ManifestSoFar'
  <2> SUFFICES ASSUME NEW i \in 1..index, UniqueKeys,
                      request.operations[i].kind # "delete",
                      NEW p \in DOMAIN MappingOf(request.operations[i]),
                      MappingOf(request.operations[i])[p] \in LegalKey,
                      bucket[MappingOf(request.operations[i])[p]] = p
               PROVE  bucket'[MappingOf(request.operations[i])[p]] = p
    BY ManifestStays DEF ManifestInv
  <2> DEFINE key == MappingOf(request.operations[i])[p]
  <2>1. CASE bucket' = bucket
    BY <2>1
  <2>2. ASSUME NEW q \in DOMAIN mapping,
               bucket' = [bucket EXCEPT ![mapping[q]] = q]
        PROVE  bucket'[key] = p
    <3>1. i \in Uploads(request.operations)
          /\ index + 1 \in Uploads(request.operations)
      BY <1>4, OperationIndex, OperationShape
      DEF Uploads, Operation, ManifestInv, CallInv
    <3>2. mapping[q] = key => q = p
      BY <1>4, <3>1 DEF UniqueKeys, Operation
    <3>3. key \in DOMAIN bucket
      BY PoolAssumption DEF ManifestInv, PoolInv, PoolTypeOK
    <3> HIDE DEF key
    <3>4. bucket[key] = p
      BY DEF key
    <3> QED
      BY <2>2, <3>2, <3>3, <3>4
  <2>3. \/ bucket' = bucket
        \/ \E q \in DOMAIN mapping : bucket' = [bucket EXCEPT ![mapping[q]] = q]
    BY TurnWrites DEF ManifestInv
  <2> QED
    BY <2>1, <2>2, <2>3
<1>8. RegisteredIsManifest'
  BY <1>4 DEF RegisteredIsManifest
<1>9. SentByCall'
  <2>1. index + 1 \in Uploads(request.operations)
    BY <1>4, OperationIndex DEF Uploads, Operation
  <2>2. \A put \in sent' \ sent :
           /\ put[1] \in DOMAIN MappingOf(request.operations[index + 1])
           /\ put[2] = MappingOf(request.operations[index + 1])[put[1]]
    BY <1>4, TurnWrites DEF ManifestInv, Operation
  <2>3. SentByCall
    BY DEF ManifestInv
  <2> SUFFICES ASSUME NEW put \in sent'
               PROVE  \E i \in Uploads(request.operations) :
                         LET m == MappingOf(request.operations[i])
                         IN  put[1] \in DOMAIN m /\ put[2] = m[put[1]]
    BY MappingStays DEF SentByCall, Uploads
  <2> QED
    BY <2>1, <2>2, <2>3 DEF SentByCall
<1> QED
  BY <1>1, <1>2, <1>3, <1>5, <1>6, <1>7, <1>8, <1>9 DEF ManifestInv

\* A put that lands late writes again what is there already, or where no
\* file was uploaded.
LEMMA LateManifest == ASSUME ManifestInv, LatePutLands PROVE ManifestInv'
<1>1. CallInv'
  BY DeathInv DEF ManifestInv
<1>2. PICK q \in Path, key \in Key : PutLandsLate(q, key)
  BY DEF LatePutLands
<1>3. /\ UNCHANGED <<request, step, index, uploading, operations, responses,
                     registered, outcome, error>>
      /\ UNCHANGED <<mapping, raiseOnError, dryRun, main, task, sent>>
      /\ <<q, key>> \in sent
      /\ bucket' = [bucket EXCEPT ![key] = q]
  BY <1>2 DEF LatePutLands, PutLandsLate, ownVars, callVars
<1>4. PoolInv'
  BY <1>2, LateInv DEF ManifestInv
<1>5. RunTypeOK' /\ Sequences'
  BY <1>3, <1>4 DEF ManifestInv, RunTypeOK, PoolInv, Sequences
<1>6. ChecksPassed' /\ NothingBeforeChecks'
  <2>1. \A stage : Passed(stage)' <=> Passed(stage)
    BY <1>3 DEF Passed
  <2> QED
    BY <1>3, <2>1 DEF ManifestInv, ChecksPassed, NothingBeforeChecks
<1>7. SentByCall'
  BY <1>3, SentStays DEF ManifestInv
<1>8. PoolOfCall'
  BY <1>3, MappingStays DEF ManifestInv, PoolOfCall, Stage, Operation
<1>9. ManifestSoFar'
  <2> SUFFICES ASSUME NEW i \in 1..index, UniqueKeys,
                      request.operations[i].kind # "delete",
                      NEW p \in DOMAIN MappingOf(request.operations[i]),
                      bucket[MappingOf(request.operations[i])[p]] = p
               PROVE  bucket'[MappingOf(request.operations[i])[p]] = p
    BY <1>3, ManifestStays DEF ManifestInv
  <2>1. i \in Uploads(request.operations)
    <3>1. i \in DOMAIN request.operations
      <4>1. index \in 0..Len(request.operations)
        BY DEF ManifestInv, RunTypeOK
      <4>2. /\ Len(request.operations) \in Nat
            /\ DOMAIN request.operations = 1..Len(request.operations)
        BY RequestAssumption DEF ManifestInv, CallInv
      <4> QED
        BY <4>1, <4>2
    <3> QED
      BY <3>1, OperationShape DEF Uploads, ManifestInv, CallInv
  <2>2. key = MappingOf(request.operations[i])[p] => q = p
    BY <1>3, <2>1, SentAlone DEF ManifestInv
  <2>3. key \in DOMAIN bucket
    BY DEF ManifestInv, PoolInv, PoolTypeOK
  <2> QED
    BY <1>3, <2>2, <2>3
<1>10. RegisteredIsManifest'
  BY <1>3 DEF ManifestInv, RegisteredIsManifest, Passed
<1> QED
  BY <1>1, <1>4, <1>5, <1>6, <1>7, <1>8, <1>9, <1>10 DEF ManifestInv

\* The death of the process.
LEMMA DeathManifest == ASSUME ManifestInv, Die PROVE ManifestInv'
<1>1. CallInv'
  BY DeathInv DEF ManifestInv
<1>3. CASE Die /\ Working
  <2>1. uploading
    BY <1>3 DEF ManifestInv, PoolOfCall, Working
  <2> QED
    BY <1>1, <1>3, <2>1, TurnManifest DEF Die
<1>5. CASE Die /\ ~Working
  <2>1. /\ outcome = "running" /\ outcome' = "crashed"
        /\ UNCHANGED poolVars
        /\ UNCHANGED <<request, step, index, uploading, operations, responses,
                       registered, error>>
    BY <1>5 DEF Die
  <2>2. PoolInv'
    BY <2>1, StutterInv DEF ManifestInv
  <2>3. RunTypeOK' /\ Sequences'
    BY <2>1, <2>2 DEF ManifestInv, RunTypeOK, PoolInv, Sequences
  <2>4. ChecksPassed' /\ NothingBeforeChecks'
    BY <2>1 DEF ManifestInv, ChecksPassed, NothingBeforeChecks, poolVars, Passed
  <2>5. PoolOfCall'
    BY <2>1, MappingStays
    DEF ManifestInv, PoolOfCall, poolVars, Stage, Operation
  <2>6. ManifestSoFar'
    BY <2>1, ManifestStays DEF ManifestInv, poolVars
  <2>7. RegisteredIsManifest'
    BY <2>1 DEF ManifestInv, CallInv, UnregisteredWhileRunning,
                RegisteredIsManifest
  <2>8. SentByCall'
    BY <2>1, SentStays DEF ManifestInv, poolVars
  <2> QED
    BY <1>1, <2>2, <2>3, <2>4, <2>5, <2>6, <2>7, <2>8 DEF ManifestInv
<1> QED
  BY <1>3, <1>5

\* What upload_multiple_files returned is what the operation is done with.
LEMMA PoolResult ==
  ASSUME ManifestInv, uploading, main = "returned"
  PROVE  /\ success \subseteq DOMAIN mapping
         /\ failed = DOMAIN mapping \ success
         /\ request.raising \/ request.dry => success = DOMAIN mapping
         /\ ~request.dry => \A p \in success :
               mapping[p] \in LegalKey /\ (UniqueKeys => bucket[mapping[p]] = p)
<1>1. /\ mapping = MappingOf(Operation)
      /\ raiseOnError = request.raising
      /\ dryRun = request.dry
      /\ index < Len(request.operations)
      /\ Operation.kind = "upload"
  BY DEF ManifestInv, PoolOfCall
<1>2. /\ success \cup failed = DOMAIN mapping
      /\ \A p \in success : task[p] = "stored"
      /\ \A p \in failed : task[p] = "errored"
      /\ raiseOnError => failed = {}
  BY DEF ManifestInv, PoolInv, CallerKnows, ResultsTrue
<1>3. success \subseteq Path
  BY DEF ManifestInv, PoolInv, PoolTypeOK
<1>4. UniqueKeys => \A p \in DOMAIN mapping : Unrivalled(p)
  <2>1. index + 1 \in Uploads(request.operations)
    BY <1>1, OperationIndex DEF Uploads, Operation
  <2> QED
    BY <1>1, <2>1, SentAlone DEF Operation, Unrivalled, ManifestInv
<1>5. ASSUME ~request.dry, NEW p \in success
      PROVE  mapping[p] \in LegalKey /\ (UniqueKeys => bucket[mapping[p]] = p)
  <2>1. mapping[p] \in LegalKey
    BY <1>1, <1>2, <1>3, <1>5 DEF ManifestInv, PoolOfCall
  <2>2. UniqueKeys => bucket[mapping[p]] = p
    BY <1>1, <1>2, <1>4, <1>5 DEF ManifestInv, PoolInv, LandedIntact
  <2> QED
    BY <2>1, <2>2
<1>6. request.dry => failed = {}
  <2>1. failed \subseteq Path
    BY DEF ManifestInv, PoolInv, PoolTypeOK
  <2> QED
    BY <1>2, <2>1 DEF ManifestInv, CallInv, DryRunKept
<1> QED
  BY <1>1, <1>2, <1>5, <1>6

\* The loop goes on after an upload, or an exception leaves it.
LEMMA EndManifest == ASSUME ManifestInv, EndUpload PROVE ManifestInv'
<1>1. CallInv'
  BY LoopInv DEF ManifestInv
<1>2. /\ At("operations") /\ uploading /\ main = "returned"
      /\ outcome = "running" /\ UNCHANGED poolVars
  BY DEF EndUpload, At
<1>3. CASE \E e \in Errors : /\ Raise(e)
                            /\ uploading' = FALSE
                            /\ UNCHANGED registered
  BY <1>1, <1>2, <1>3, RaiseManifest
<1>4. CASE AddOperation([kind |-> "upload", files |-> UploadFiles],
                        ResponseUpload)
  <2> DEFINE operation == [kind |-> "upload", files |-> UploadFiles]
             m == MappingOf(Operation)
  <2>1. /\ mapping = m
        /\ dryRun = request.dry
        /\ index < Len(request.operations)
        /\ Operation.kind = "upload"
    BY <1>2 DEF ManifestInv, PoolOfCall
  <2>2. PICK next, won : next = index + 1 /\ won = success
    OBVIOUS
  <2>3. /\ won \in SUBSET DOMAIN m
        /\ DoneWith(next, won)'
        /\ ~request.dry => Won(next, won)
    <3>1. /\ success \subseteq DOMAIN m
          /\ failed = DOMAIN m \ success
          /\ request.raising \/ request.dry => success = DOMAIN m
          /\ ~request.dry => \A p \in success :
                m[p] \in LegalKey /\ (UniqueKeys => bucket[m[p]] = p)
      BY <1>2, <2>1, PoolResult
    <3>2. /\ operations'[next] = operation
          /\ responses'[next] = ResponseUpload
          /\ request' = request
      <4>1. index \in Nat
        BY <2>1, OperationIndex
      <4>2. /\ operations' = Append(operations, operation)
            /\ responses' = Append(responses, ResponseUpload)
            /\ request' = request
        BY <1>4 DEF AddOperation
      <4> QED
        BY <2>2, <4>1, <4>2, AppendAt DEF ManifestInv, Sequences
    <3>3. /\ operation.kind = "upload"
          /\ operation.files =
                LET files == Only(Operation.files, success)
                IN  [j \in DOMAIN files |->
                       [key_suffix |-> ManifestSuffix(m[files[j]], request.dataset),
                        file_size_mb |-> SizeOf(files[j]) \div UnitsPerMB,
                        checksum |-> IF request.dry THEN DryRunTag ELSE files[j]]]
      BY <2>1 DEF UploadFiles, UploadFile
    <3>4. /\ ResponseUpload.kind = "upload"
          /\ ResponseUpload.uploaded = {<<p, ResponseSuffix(m[p])>> : p \in success}
          /\ ResponseUpload.failed = DOMAIN m \ success
      BY <2>1, <3>1 DEF ResponseUpload
    <3>5. MappingOf(request.operations[next])' = m
      BY <2>2, <3>2, MappingStays DEF Operation
    <3> HIDE DEF operation, m
    <3>6. ~request.dry => Won(next, won)
      BY <2>2, <3>1 DEF Won, Operation, m
    <3>7. DoneWith(next, won)'
      BY <2>2, <3>1, <3>2, <3>3, <3>4, <3>5 DEF DoneWith, Operation
    <3> QED
      BY <2>2, <3>1, <3>6, <3>7
  <2> HIDE DEF operation
  <2>4. AddOperation(operation, ResponseUpload)
    BY <1>4 DEF operation
  <2> QED
    BY <1>1, <1>2, <2>1, <2>2, <2>3, <2>4, AddManifest
<1> QED
  BY <1>3, <1>4 DEF EndUpload, Errors

\* The other steps of the loop.
LEMMA LoopManifest ==
  ASSUME ManifestInv, UploadRaises \/ OperationsDone PROVE ManifestInv'
<1>1. CallInv'
  BY LoopInv DEF ManifestInv
<1>2. CASE UploadRaises
  <2>1. /\ outcome = "running" /\ uploading /\ main = "raised"
        /\ Raise("upload") /\ uploading' = FALSE
        /\ UNCHANGED <<poolVars, registered>>
    BY <1>2 DEF UploadRaises, At
  <2> QED
    BY <1>1, <2>1, RaiseManifest DEF Errors
<1>3. CASE OperationsDone
  <2>1. /\ outcome = "running" /\ Stage = "operations"
        /\ index = Len(request.operations) /\ Advance
    BY <1>3 DEF OperationsDone, At
  <2>2. index \in Nat
    <3>1. Len(request.operations) \in Nat
      BY RequestAssumption DEF ManifestInv, CallInv
    <3> QED
      BY <2>1, <3>1
  <2>3. ~uploading
    BY <2>1, <2>2 DEF ManifestInv, PoolOfCall
  <2> QED
    BY <1>1, <2>1, <2>3, AdvanceManifest
<1> QED
  BY <1>2, <1>3

\* What a return or the POST changes of the call, and nothing else.
LEMMA ReturnManifest ==
  ASSUME ManifestInv, Post \/ ReturnDryRun PROVE ManifestInv'
<1>1. CallInv'
  BY ReturnInv DEF ManifestInv
<1>2. /\ UNCHANGED <<poolVars, request, step, index, uploading, operations,
                     responses>>
      /\ outcome = "running" /\ outcome' \in {"done", "failed", "crashed"}
      /\ error' \in {error, "post"}
      /\ Stage \in {"post_token", "post"}
  BY DEF Post, ReturnDryRun, Raise, At
<1>3. PoolInv'
  BY <1>2, StutterInv DEF ManifestInv
<1>4. RunTypeOK' /\ Sequences'
  BY <1>2, <1>3 DEF ManifestInv, RunTypeOK, PoolInv, Sequences, Errors
<1>5. ChecksPassed' /\ NothingBeforeChecks'
  <2>1. Passed("operations")
    BY <1>2, StagesPassed DEF ManifestInv, CallInv
  <2> QED
    BY <1>2, <2>1
    DEF ManifestInv, ChecksPassed, NothingBeforeChecks, poolVars, Passed
<1>6. PoolOfCall'
  BY <1>2, MappingStays DEF ManifestInv, PoolOfCall, poolVars, Stage, Operation
<1>7. ManifestSoFar'
  BY <1>2, ManifestStays DEF ManifestInv, poolVars
<1>8. RegisteredIsManifest'
  <2>1. \/ registered' = <<>>
        \/ registered' = Append(registered, operations) /\ Stage = "post"
    BY DEF Post, ReturnDryRun, At, ManifestInv, CallInv,
           UnregisteredWhileRunning
  <2>2. registered = <<>>
    BY <1>2 DEF ManifestInv, CallInv, UnregisteredWhileRunning
  <2>3. Append(<<>>, operations) = <<operations>>
    OBVIOUS
  <2>4. Passed("operations") /\ (Stage = "post" => ~request.dry)
    BY <1>2, StagesPassed DEF ManifestInv, CallInv, DryRunKept
  <2>5. Passed("operations")'
    BY <1>2, <2>4 DEF Passed
  <2> QED
    BY <1>2, <2>1, <2>2, <2>3, <2>4, <2>5, Zenon DEF RegisteredIsManifest
<1>9. SentByCall'
  BY <1>2, SentStays DEF ManifestInv, poolVars
<1> QED
  BY <1>1, <1>3, <1>4, <1>5, <1>6, <1>7, <1>8, <1>9 DEF ManifestInv

\* Leaving every variable alone leaves the invariant alone.
LEMMA ManifestStutter == ManifestInv /\ UNCHANGED runVars => ManifestInv'
<1> SUFFICES ASSUME ManifestInv, UNCHANGED runVars PROVE ManifestInv'
  OBVIOUS
<1>1. UNCHANGED poolVars /\ UNCHANGED ownVars
  BY DEF runVars
<1>2. PoolInv'
  BY <1>1, StutterInv DEF ManifestInv
<1>3. CallInv'
  BY RunStepInv DEF ManifestInv
<1>4. RunTypeOK' /\ Sequences'
  BY <1>1, <1>2 DEF ManifestInv, RunTypeOK, PoolInv, Sequences, ownVars
<1>5. ChecksPassed' /\ NothingBeforeChecks'
  BY <1>1 DEF ManifestInv, ChecksPassed, NothingBeforeChecks, poolVars, ownVars,
              Passed
<1>6. PoolOfCall'
  BY <1>1, MappingStays
  DEF ManifestInv, PoolOfCall, poolVars, ownVars, Stage, Operation
<1>7. ManifestSoFar'
  BY <1>1, ManifestStays DEF ManifestInv, poolVars, ownVars
<1>8. RegisteredIsManifest'
  BY <1>1 DEF ManifestInv, RegisteredIsManifest, ownVars, Passed
<1>9. SentByCall'
  BY <1>1, SentStays DEF ManifestInv, poolVars, ownVars
<1> QED
  BY <1>2, <1>3, <1>4, <1>5, <1>6, <1>7, <1>8, <1>9 DEF ManifestInv

\* No step of the call disturbs the invariant.
LEMMA ManifestStep == ManifestInv /\ [RunNext]_runVars => ManifestInv'
<1> SUFFICES ASSUME ManifestInv, [RunNext]_runVars PROVE ManifestInv'
  OBVIOUS
<1>1. CASE RemoteCall \/ CheckIds \/ Validate \/ CheckSizes
  BY <1>1, CheckManifest
<1>2. CASE AddDelete
  BY <1>2, DeleteManifest
<1>3. CASE BeginUpload
  BY <1>3, BeginManifest
<1>4. CASE PoolTurns
  <2>1. uploading /\ PoolTurn /\ UNCHANGED ownVars /\ outcome = "running"
    BY <1>4 DEF PoolTurns
  <2>2. CallInv'
    BY <1>4, RunStepInv DEF ManifestInv, RunNext
  <2>3. ~Crash
    BY <2>1, <2>2 DEF PoolTurn, Submit, Take, PutLands, PutEnds, PutReturns,
         PutRaisesOSError, PutRaisesOther, Retry, Collect, Finish, Unwind,
         Crash, Working
  <2> QED
    BY <2>1, <2>2, <2>3, TurnManifest DEF ownVars
<1>5. CASE EndUpload
  BY <1>5, EndManifest
<1>6. CASE UploadRaises \/ OperationsDone
  BY <1>6, LoopManifest
<1>7. CASE Post \/ ReturnDryRun
  BY <1>7, ReturnManifest
<1>8. CASE Die \/ LatePutLands
  BY <1>8, DeathManifest, LateManifest
<1>9. CASE UNCHANGED runVars
  BY <1>9, ManifestStutter
<1> QED
  BY <1>1, <1>2, <1>3, <1>4, <1>5, <1>6, <1>7, <1>8, <1>9 DEF RunNext

\* The invariant holds throughout the call.
THEOREM ManifestInvariant == RunSpec => []ManifestInv
  BY ManifestInit, ManifestStep, PTL DEF RunSpec

-----------------------------------------------------------------------------
(***************************************************************************)
(* What the invariant says of a registered delivery.                       *)
(***************************************************************************)
\* The only registered delivery is the manifest, with all its operations.
LEMMA RegisteredOperations ==
  ASSUME ManifestInv, NEW d \in DOMAIN registered
  PROVE  /\ registered[d] = operations
         /\ ~request.dry
         /\ index = Len(request.operations)
         /\ index \in Nat
         /\ Len(operations) = index
         /\ DOMAIN operations = 1..index
         /\ DOMAIN request.operations = 1..index
<1>1. registered = <<operations>> /\ Passed("operations") /\ ~request.dry
  BY DEF ManifestInv, RegisteredIsManifest
<1>2. registered[d] = operations
  <2>1. DOMAIN <<operations>> = {1} /\ <<operations>>[1] = operations
    OBVIOUS
  <2> QED
    BY <1>1, <2>1
<1>3. index = Len(request.operations)
  BY <1>1 DEF ManifestInv, ChecksPassed
<1>4. Len(request.operations) \in Nat
      /\ DOMAIN request.operations = 1..Len(request.operations)
  BY RequestAssumption DEF ManifestInv, CallInv
<1>5. Len(operations) = index /\ DOMAIN operations = 1..index
  BY DEF ManifestInv, RunTypeOK, Sequences
<1> QED
  BY <1>1, <1>2, <1>3, <1>4, <1>5

\* An upload of it, with the paths that were uploaded.
LEMMA RegisteredUpload ==
  ASSUME ManifestInv, NEW d \in DOMAIN registered,
         NEW i \in Uploads(registered[d])
  PROVE  /\ i \in DOMAIN request.operations
         /\ request.operations[i].kind = "upload"
         /\ registered[d][i] = operations[i]
         /\ ~request.dry
         /\ \E won \in SUBSET DOMAIN MappingOf(request.operations[i]) :
               DoneWith(i, won) /\ Won(i, won)
<1>1. /\ registered[d] = operations
      /\ ~request.dry
      /\ i \in 1..index
      /\ i \in DOMAIN request.operations
      /\ operations[i].kind = "upload"
  BY RegisteredOperations DEF Uploads
<1>2. request.operations[i].kind \in {"upload", "delete"}
  BY <1>1, OperationShape DEF ManifestInv, CallInv
<1>3. request.operations[i].kind # "delete"
  <2> SUFFICES ASSUME request.operations[i].kind = "delete" PROVE FALSE
    OBVIOUS
  <2>1. operations[i] = DeleteOperation(request.operations[i])
    BY <1>1 DEF ManifestInv, ManifestSoFar
  <2> QED
    BY <1>1, <2>1 DEF DeleteOperation
<1>4. \E won \in SUBSET DOMAIN MappingOf(request.operations[i]) :
         DoneWith(i, won) /\ Won(i, won)
  BY <1>1, <1>3 DEF ManifestInv, ManifestSoFar
<1> QED
  BY <1>1, <1>2, <1>3, <1>4

\* What was registered was checked.
LEMMA WrittenIsChecked ==
  ASSUME ManifestInv, registered # <<>> \/ \E k \in Key : bucket[k] # NoObject
  PROVE  ValidOperations(request.operations, request.product, request.dataset)
<1>1. Passed("operations") \/ Passed("sizes") => Passed("validate")
  BY StagesPassed DEF ManifestInv, CallInv
<1>2. Passed("validate")
  BY <1>1 DEF ManifestInv, RegisteredIsManifest, NothingBeforeChecks
<1> QED
  BY <1>2 DEF ManifestInv, ChecksPassed

\* The key_suffix of the manifest leads back to the key of the object, and the
\* response shows the same suffix.
LEMMA SuffixOfMapping ==
  ASSUME ManifestInv, DatasetApart,
         ValidOperations(request.operations, request.product, request.dataset),
         NEW i \in DOMAIN request.operations,
         request.operations[i].kind = "upload",
         NEW p \in DOMAIN MappingOf(request.operations[i]),
         MappingOf(request.operations[i])[p] \in LegalKey
  PROVE  LET key == MappingOf(request.operations[i])[p]
             suffix == ManifestSuffix(key, request.dataset)
         IN  /\ KeyOf(suffix) = key
             /\ ResponseSuffix(key) = <<request.product, request.dataset>> \o suffix
<1> DEFINE key == MappingOf(request.operations[i])[p]
           did == DeliveryId
           pid == request.product
           ds == request.dataset
<1>1. PICK suffix \in Seq(STRING) \ {<<>>} : key = KeyOf(suffix)
  BY MappingType DEF ManifestInv, CallInv
<1>2. /\ did \in STRING /\ pid \in STRING /\ ds \in STRING /\ "data" \in STRING
      /\ ds # NoAnchor
  BY RequestAssumption, StringAssumption DEF ManifestInv, CallInv
<1>3. ds \notin {"data", did, pid, NoAnchor}
  BY <1>2 DEF DatasetApart
<1>4. \A n \in DOMAIN key : key[n] \in Meaningful
  BY LegalKeyAssumption
<1> HIDE DEF key, did, pid, ds
<1>5. key = S3Key(did, pid, ds, suffix)
  BY <1>1 DEF KeyOf, did, pid, ds
<1>6. ManifestSuffix(key, ds) = suffix
  BY <1>2, <1>3, <1>4, <1>5, SuffixFoundAgain
<1>7. ResponseSuffix(key) = <<pid, ds>> \o suffix
  BY <1>2, <1>5, ResponseSuffixOfKey
<1> QED
  BY <1>1, <1>6, <1>7 DEF key, pid, ds

-----------------------------------------------------------------------------
\* Every variable of a call keeps its type, that of its upload pools included.
THEOREM RunTypesCorrect == RunSpec => []RunTypeOK
<1>1. ManifestInv => RunTypeOK
  BY DEF ManifestInv
<1> QED
  BY <1>1, ManifestInvariant, PTL

\* A list without duplicates has as many elements as positions.
LEMMA DistinctFiles ==
  ASSUME NEW S, NEW files \in Seq(S), ~HasDuplicates(files)
  PROVE  IsFiniteSet(ToSet(files)) /\ Cardinality(ToSet(files)) = Len(files)
<1>1. Len(files) \in Nat /\ DOMAIN files = 1..Len(files)
  OBVIOUS
<1>2. ToSet(files) = {files[i] : i \in 1..Len(files)}
  BY <1>1 DEF ToSet
<1>3. \A i, j \in 1..Len(files) : files[i] = files[j] => i = j
  BY <1>1 DEF HasDuplicates
<1>4. files \in [1..Len(files) -> ToSet(files)]
  BY <1>1, <1>2
<1>5. files \in Bijection(1..Len(files), ToSet(files))
  BY <1>2, <1>3, <1>4 DEF Bijection, Injection, Surjection, IsInjective
<1>6. ExistsBijection(1..Len(files), ToSet(files))
  BY <1>5 DEF ExistsBijection
<1>7. IsFiniteSet(1..Len(files)) /\ Cardinality(1..Len(files)) = Len(files)
  BY <1>1, FS_Interval
<1> QED
  BY <1>6, <1>7, FS_Bijection

\* All files of all operations of a call, the last operation included, were
\* checked before anything reached the bucket or the service.
THEOREM ChecksComeFirst == RunSpec => []FilesCheckedFirst
<1>1. ManifestInv => FilesCheckedFirst
  <2> SUFFICES ASSUME ManifestInv,
                      registered # <<>> \/ (\E k \in Key : bucket[k] # NoObject),
                      NEW i \in DOMAIN request.operations
               PROVE  LET op == request.operations[i]
                      IN  /\ Cardinality(ToSet(op.files)) = Len(op.files)
                          /\ \A file \in ToSet(op.files) :
                                IF op.kind = "delete" THEN ~WrongKeySuffix(file)
                                ELSE /\ PathOf(file) \in DOMAIN Disk
                                     /\ SizeOf(file) > 0
                                     /\ \/ AnchorGiven(op.anchor)
                                        \/ /\ ~IsAbsolute(file)
                                           /\ ~HasPart(file, request.dataset)
    BY DEF FilesCheckedFirst
  <2> DEFINE op == request.operations[i]
  <2>1. ValidOperation(op, request.product, request.dataset)
    BY WrittenIsChecked DEF ValidOperations
  <2>2. /\ op.kind \in {"upload", "delete"} /\ op.files \in Seq(RawPath)
        /\ \A file \in ToSet(op.files) : \E j \in DOMAIN op.files : file = op.files[j]
    BY OperationShape DEF ManifestInv, CallInv, ToSet
  <2> HIDE DEF op
  <2>3. Cardinality(ToSet(op.files)) = Len(op.files)
    <3>1. ~HasDuplicates(op.files)
      BY <2>1 DEF ValidOperation, ValidUploadFiles, ValidDeleteFiles
    <3> QED
      BY <2>2, <3>1, DistinctFiles
  <2>4. ASSUME NEW file \in ToSet(op.files), op.kind = "delete"
        PROVE  ~WrongKeySuffix(file)
    BY <2>1, <2>2, <2>4 DEF ValidOperation, ValidDeleteFiles
  <2>5. ASSUME NEW file \in ToSet(op.files), op.kind # "delete"
        PROVE  /\ PathOf(file) \in DOMAIN Disk
               /\ SizeOf(file) > 0
               /\ \/ AnchorGiven(op.anchor)
                  \/ ~IsAbsolute(file) /\ ~HasPart(file, request.dataset)
    <3>1. InvalidReason(file, op.anchor, request.product, request.dataset) = "none"
      BY <2>1, <2>2, <2>5 DEF ValidOperation, ValidUploadFiles
    <3>2. PathOf(file) \in DOMAIN Disk /\ SizeOf(file) # 0
      BY <3>1, FileAccepted DEF FileExists
    <3>3. SizeOf(file) \in Nat
      BY <3>2, LimitAssumption DEF SizeOf
    <3> QED
      BY <3>1, <3>2, <3>3, FileAccepted
  <2> QED
    BY <2>3, <2>4, <2>5 DEF op
<1> QED
  BY <1>1, ManifestInvariant, PTL

\* The registered operations are those of the call in their order, and each
\* upload lists its files in the order in which they were given.
THEOREM OrderIsKept == RunSpec => []OrderKept
<1>1. ManifestInv => OrderKept
  <2> SUFFICES ASSUME ManifestInv, NEW d \in DOMAIN registered
               PROVE  /\ Len(registered[d]) = Len(request.operations)
                      /\ \A i \in DOMAIN registered[d] :
                            LET done == registered[d][i].files
                                asked == request.operations[i].files
                            IN  /\ registered[d][i].kind = request.operations[i].kind
                                /\ IF registered[d][i].kind = "delete"
                                   THEN [j \in DOMAIN done |-> done[j].key_suffix]
                                           = asked
                                   ELSE \A j, k \in DOMAIN done : j < k =>
                                          \E l, m \in DOMAIN asked :
                                              /\ l < m
                                              /\ asked[l] = done[j].checksum
                                              /\ asked[m] = done[k].checksum
    BY DEF OrderKept
  <2>1. Len(registered[d]) = Len(request.operations)
    BY RegisteredOperations
  <2>2. ASSUME NEW i \in DOMAIN registered[d],
               request.operations[i].kind = "delete"
        PROVE  /\ registered[d][i].kind = "delete"
               /\ [j \in DOMAIN registered[d][i].files |->
                      registered[d][i].files[j].key_suffix] =
                      request.operations[i].files
    <3>1. registered[d][i] = DeleteOperation(request.operations[i])
      BY <2>2, RegisteredOperations DEF ManifestInv, ManifestSoFar
    <3>2. request.operations[i].files =
             [j \in DOMAIN request.operations[i].files |->
                 request.operations[i].files[j]]
      BY <2>2, RegisteredOperations, OperationShape DEF ManifestInv, CallInv
    <3> DEFINE asked == request.operations[i].files
               done == registered[d][i].files
    <3>3. /\ registered[d][i].kind = "delete"
          /\ done = [j \in DOMAIN asked |-> [key_suffix |-> asked[j]]]
      BY <3>1 DEF DeleteOperation
    <3> HIDE DEF asked, done
    <3>4. DOMAIN done = DOMAIN asked
          /\ \A j \in DOMAIN done : done[j].key_suffix = asked[j]
      BY <3>3
    <3>5. [j \in DOMAIN done |-> done[j].key_suffix] = asked
      BY <3>2, <3>4 DEF asked
    <3> QED
      BY <3>3, <3>5 DEF asked, done
  <2>3. ASSUME NEW i \in DOMAIN registered[d],
               request.operations[i].kind # "delete"
        PROVE  /\ registered[d][i].kind = "upload"
               /\ request.operations[i].kind = "upload"
               /\ \A j, k \in DOMAIN registered[d][i].files : j < k =>
                     \E l, m \in DOMAIN request.operations[i].files :
                        /\ l < m
                        /\ request.operations[i].files[l] =
                              registered[d][i].files[j].checksum
                        /\ request.operations[i].files[m] =
                              registered[d][i].files[k].checksum
    <3> DEFINE asked == request.operations[i].files
    <3>1. /\ i \in DOMAIN request.operations
          /\ registered[d][i] = operations[i]
          /\ ~request.dry
      BY <2>3, RegisteredOperations
    <3>2. PICK won \in SUBSET DOMAIN MappingOf(request.operations[i]) :
             DoneWith(i, won)
      BY <2>3, <3>1, RegisteredOperations DEF ManifestInv, ManifestSoFar
    <3>3. request.operations[i].kind = "upload" /\ asked \in Seq(RawPath)
      BY <2>3, <3>1, OperationShape DEF ManifestInv, CallInv
    <3> DEFINE files == Only(asked, won)
               done == operations[i].files
    <3>4. /\ operations[i].kind = "upload"
          /\ DOMAIN done = DOMAIN files
          /\ \A j \in DOMAIN files : done[j].checksum = files[j]
      BY <3>1, <3>2 DEF DoneWith
    <3> HIDE DEF asked, done
    <3>5. ASSUME NEW j \in DOMAIN files, NEW k \in DOMAIN files, j < k
          PROVE  \E l, m \in DOMAIN asked : /\ l < m
                                            /\ asked[l] = files[j]
                                            /\ asked[m] = files[k]
      BY <3>3, <3>5, OnlyOrder
    <3> HIDE DEF files
    <3> QED
      BY <3>1, <3>3, <3>4, <3>5 DEF asked, done
  <2> QED
    BY <2>1, <2>2, <2>3
<1> QED
  BY <1>1, ManifestInvariant, PTL

\* Paths that are spelled as str(Path(...)) spells them are found again among
\* the results, those that were uploaded and no others.
LEMMA NormalisedFiles ==
  ASSUME ManifestInv, PathsNormalised, NEW i \in Uploads(request.operations),
         NEW won \in SUBSET DOMAIN MappingOf(request.operations[i])
  PROVE  LET asked == request.operations[i].files
             files == Only(asked, won)
         IN  /\ DOMAIN MappingOf(request.operations[i]) = ToSet(asked)
             /\ \A f \in ToSet(asked) : PathOf(f) = f
             /\ {files[j] : j \in DOMAIN files} = won
<1> DEFINE op == request.operations[i]
           asked == op.files
           files == Only(asked, won)
<1>1. i \in DOMAIN request.operations /\ op.kind = "upload"
  BY DEF Uploads
<1>2. /\ asked \in Seq(RawPath)
      /\ Len(asked) \in Nat /\ DOMAIN asked = 1..Len(asked)
  BY <1>1, OperationShape DEF ManifestInv, CallInv
<1>3. ToSet(asked) = {asked[j] : j \in DOMAIN asked}
  BY DEF ToSet
<1>4. \A j \in DOMAIN asked : PathOf(asked[j]) = asked[j]
  BY DEF PathsNormalised
<1>5. DOMAIN MappingOf(op) = {PathOf(asked[j]) : j \in DOMAIN asked}
  <2> HIDE DEF op
  <2> QED
    BY <1>2, MappingOfPath
<1>6. DOMAIN MappingOf(op) = ToSet(asked)
  BY <1>3, <1>4, <1>5
<1>7. {files[j] : j \in DOMAIN files} = {asked[j] : j \in DOMAIN asked} \cap won
  <2> HIDE DEF asked
  <2> QED
    BY <1>2, OnlyRange
<1>8. {asked[j] : j \in DOMAIN asked} \cap won = won
  BY <1>3, <1>6
<1> HIDE DEF asked, op
<1> QED
  BY <1>3, <1>4, <1>6, <1>7, <1>8 DEF op, asked

\* Of such paths an upload lists those that were uploaded, whichever they are.
LEMMA ListedAreWon ==
  ASSUME ManifestInv, PathsNormalised, NEW i \in Uploads(request.operations),
         NEW won \in SUBSET DOMAIN MappingOf(request.operations[i]),
         DoneWith(i, won), ~request.dry
  PROVE  LET asked == request.operations[i].files
             done == operations[i].files
         IN  /\ DOMAIN MappingOf(request.operations[i]) = ToSet(asked)
             /\ \A f \in ToSet(asked) : PathOf(f) = f
             /\ {done[j].checksum : j \in DOMAIN done} = won
<1> DEFINE op == request.operations[i]
           asked == op.files
           files == Only(asked, won)
           done == operations[i].files
<1>1. /\ DOMAIN MappingOf(op) = ToSet(asked)
      /\ \A f \in ToSet(asked) : PathOf(f) = f
      /\ {files[j] : j \in DOMAIN files} = won
  BY NormalisedFiles
<1>2. DOMAIN done = DOMAIN files /\ \A j \in DOMAIN files : done[j].checksum = files[j]
  BY DEF DoneWith
<1> HIDE DEF asked, done, op
<1>3. {done[j].checksum : j \in DOMAIN done} = {files[j] : j \in DOMAIN files}
  <2> HIDE DEF files
  <2> QED
    BY <1>2
<1> QED
  BY <1>1, <1>3 DEF op, asked, done

\* Under raise_on_upload_error a registered delivery has every file of every
\* upload.
THEOREM RaisingLosesNone == RunSpec => []RaisingIsAllOrNothing
<1>1. ManifestInv => RaisingIsAllOrNothing
  <2> SUFFICES ASSUME ManifestInv, request.raising, PathsNormalised,
                      NEW d \in DOMAIN registered,
                      NEW i \in Uploads(registered[d])
               PROVE  ToSet(request.operations[i].files) =
                         {registered[d][i].files[j].checksum :
                             j \in DOMAIN registered[d][i].files}
    BY DEF RaisingIsAllOrNothing
  <2>1. /\ i \in Uploads(request.operations)
        /\ registered[d][i] = operations[i]
        /\ ~request.dry
    BY RegisteredUpload DEF Uploads
  <2>2. PICK won \in SUBSET DOMAIN MappingOf(request.operations[i]) :
           DoneWith(i, won)
    BY RegisteredUpload
  <2>3. won = DOMAIN MappingOf(request.operations[i])
    BY <2>2 DEF DoneWith
  <2> QED
    BY <2>1, <2>2, <2>3, ListedAreWon
<1> QED
  BY <1>1, ManifestInvariant, PTL

\* The response and the registered delivery agree on what was uploaded, and
\* the response reports every other file as failed.
THEOREM ResponsesAgree == RunSpec => []ResponseAgrees
<1>1. ManifestInv => ResponseAgrees
  <2> SUFFICES ASSUME ManifestInv, PathsNormalised, DatasetApart,
                      NEW d \in DOMAIN registered,
                      NEW i \in Uploads(registered[d])
               PROVE  Told(registered[d], i)
    BY DEF ResponseAgrees
  <2> DEFINE op == request.operations[i]
             m == MappingOf(op)
             shown == <<request.product, request.dataset>>
             done == operations[i].files
  <2>1. /\ i \in Uploads(request.operations)
        /\ registered[d][i] = operations[i]
        /\ ~request.dry
    BY RegisteredUpload DEF Uploads
  <2>2. PICK won \in SUBSET DOMAIN m : DoneWith(i, won) /\ Won(i, won)
    BY RegisteredUpload
  <2>3. /\ DOMAIN m = ToSet(op.files)
        /\ \A f \in ToSet(op.files) : PathOf(f) = f
        /\ {done[j].checksum : j \in DOMAIN done} = won
    BY <2>1, <2>2, ListedAreWon
  <2>4. /\ responses[i].uploaded = {<<p, ResponseSuffix(m[p])>> : p \in won}
        /\ responses[i].failed = DOMAIN m \ won
    BY <2>2 DEF DoneWith
  <2>5. \A j \in DOMAIN done :
           done[j].key_suffix = ManifestSuffix(m[done[j].checksum], request.dataset)
    BY <2>1, <2>2 DEF DoneWith
  <2>6. \A p \in won : ResponseSuffix(m[p]) =
                          shown \o ManifestSuffix(m[p], request.dataset)
    <3>1. ValidOperations(request.operations, request.product, request.dataset)
      BY WrittenIsChecked
    <3>2. \A p \in won : p \in DOMAIN m /\ m[p] \in LegalKey
      BY <2>2 DEF Won
    <3> QED
      BY <2>1, <3>1, <3>2, SuffixOfMapping DEF Uploads
  <2> HIDE DEF m, shown, done
  <2>7. responses[i].uploaded =
           {<<done[j].checksum, shown \o done[j].key_suffix>> : j \in DOMAIN done}
    <3>1. \A j \in DOMAIN done :
             /\ done[j].checksum \in won
             /\ shown \o done[j].key_suffix = ResponseSuffix(m[done[j].checksum])
      BY <2>3, <2>5, <2>6
    <3> DEFINE pair(p) == <<p, ResponseSuffix(m[p])>>
               listed(j) == <<done[j].checksum, shown \o done[j].key_suffix>>
    <3>2. \A p \in won : \E j \in DOMAIN done : done[j].checksum = p
      BY <2>3
    <3>3. \A j \in DOMAIN done : listed(j) = pair(done[j].checksum)
      BY <3>1
    <3>4. responses[i].uploaded = {pair(p) : p \in won}
      BY <2>4
    <3> HIDE DEF pair, listed
    <3>5. {pair(p) : p \in won} = {listed(j) : j \in DOMAIN done}
      BY <3>1, <3>2, <3>3
    <3> QED
      BY <3>4, <3>5 DEF listed
  <2>8. {u[1] : u \in responses[i].uploaded} = won
    <3> DEFINE pair(p) == <<p, ResponseSuffix(m[p])>>
    <3>1. \A p \in won : pair(p)[1] = p
      OBVIOUS
    <3>2. responses[i].uploaded = {pair(p) : p \in won}
      BY <2>4
    <3> HIDE DEF pair
    <3> QED
      BY <3>1, <3>2
  <2>9. {PathOf(f) : f \in ToSet(op.files)} = DOMAIN m
    BY <2>3
  <2>10. DOMAIN m = won \cup responses[i].failed
    BY <2>4
  <2> QED
    BY <2>1, <2>7, <2>8, <2>9, <2>10 DEF Told, op, shown, done
<1> QED
  BY <1>1, ManifestInvariant, PTL

\* A file of a registered delivery is in the bucket under its key_suffix.
LEMMA RegisteredBacked ==
  ASSUME ManifestInv, UniqueKeys, DatasetApart, NEW d \in DOMAIN registered,
         NEW i \in Uploads(registered[d]),
         NEW j \in DOMAIN registered[d][i].files
  PROVE  Backed(registered[d][i].files[j])
<1> DEFINE op == request.operations[i]
           m == MappingOf(op)
           file == registered[d][i].files[j]
<1>1. /\ i \in DOMAIN request.operations /\ op.kind = "upload"
      /\ registered[d][i] = operations[i]
      /\ ~request.dry
  BY RegisteredUpload
<1>2. PICK won \in SUBSET DOMAIN m : DoneWith(i, won) /\ Won(i, won)
  BY RegisteredUpload
<1>3. op.files \in Seq(RawPath)
  BY <1>1, OperationShape DEF ManifestInv, CallInv
<1> HIDE DEF op
<1> DEFINE files == Only(op.files, won)
<1>4. /\ j \in DOMAIN files
      /\ file.checksum = files[j]
      /\ file.key_suffix = ManifestSuffix(m[files[j]], request.dataset)
  BY <1>1, <1>2 DEF DoneWith, op
<1>5. files[j] \in won
  BY <1>3, <1>4, OnlyRange
<1>6. m[files[j]] \in LegalKey /\ bucket[m[files[j]]] = files[j]
  BY <1>2, <1>5 DEF Won, op
<1>7. KeyOf(file.key_suffix) = m[files[j]]
  <2>1. ValidOperations(request.operations, request.product, request.dataset)
    BY WrittenIsChecked
  <2> QED
    BY <1>1, <1>2, <1>4, <1>5, <1>6, <2>1, SuffixOfMapping DEF op
<1>8. LegalKey \subseteq Key
  BY PoolAssumption
<1> HIDE DEF file, files, m
<1> QED
  BY <1>4, <1>6, <1>7, <1>8 DEF Backed, file

\* A registered delivery names only objects that are in the bucket with the
\* content it says.
THEOREM ManifestsBacked == RunSpec => []ManifestBacked
<1>1. ManifestInv => ManifestBacked
  BY RegisteredBacked DEF ManifestBacked, AllBacked
<1> QED
  BY <1>1, ManifestInvariant, PTL

-----------------------------------------------------------------------------
(***************************************************************************)
(* The refinement of DeliveryPromise.                                      *)
(***************************************************************************)
\* The calls for which a delivery can be backed, and what holds of them.
PromisingInv == ManifestInv /\ UniqueKeys /\ DatasetApart

\* No step changes the arguments of the call.
LEMMA RequestStays == [RunNext]_runVars => request' = request
  BY DEF RunNext, RemoteCall, CheckIds, Validate, CheckSizes, AddDelete,
         BeginUpload, PoolTurns, EndUpload, UploadRaises, OperationsDone, Post,
         ReturnDryRun, Die, LatePutLands, Advance, Raise, AddOperation,
         ownVars, runVars

\* The inductive invariant with the promise made by the call.
LEMMA PromisingInvariant ==
  UniqueKeys /\ DatasetApart /\ RunSpec => []PromisingInv
<1>1. UniqueKeys /\ DatasetApart /\ RunInit => PromisingInv
  BY ManifestInit DEF PromisingInv
<1>2. PromisingInv /\ [RunNext]_runVars => PromisingInv'
  BY ManifestStep, RequestStays, UniqueStays DEF PromisingInv, DatasetApart
<1> QED
  BY <1>1, <1>2, PTL DEF RunSpec

\* What the ingestion service and the bucket see of a step.
LEMMA VisibleStep ==
  ASSUME PromisingInv, [RunNext]_runVars
  PROVE  \/ UNCHANGED <<bucket, registered, outcome>>
         \/ /\ outcome = "running"
            /\ outcome' \in {"done", "failed", "crashed"}
            /\ UNCHANGED <<bucket, registered>>
         \/ /\ outcome = "running" /\ registered = <<>>
            /\ outcome' \in {"done", "failed", "crashed"}
            /\ registered' = <<operations>>
            /\ UNCHANGED <<bucket, operations>>
         \/ /\ \E k \in Key, p \in Path : bucket' = [bucket EXCEPT ![k] = p]
            /\ UNCHANGED <<registered, outcome>>
<1> USE DEF poolVars, ownVars
<1>0. outcome = "running" => registered = <<>>
  BY DEF PromisingInv, ManifestInv, RegisteredIsManifest
<1>1. CASE \/ RemoteCall \/ CheckIds \/ Validate \/ CheckSizes \/ AddDelete
           \/ BeginUpload \/ EndUpload \/ UploadRaises \/ OperationsDone
           \/ ReturnDryRun
  BY <1>1
  DEF RemoteCall, CheckIds, Validate, CheckSizes, AddDelete, BeginUpload,
      EndUpload, UploadRaises, OperationsDone, ReturnDryRun, Advance, Raise,
      AddOperation, Start, At
<1>2. CASE PoolTurns
  <2>1. PoolTurn /\ UNCHANGED <<registered, outcome>>
    BY <1>2 DEF PoolTurns
  <2>2. \/ bucket' = bucket
        \/ \E p \in Path : /\ mapping[p] \in LegalKey
                           /\ bucket' = [bucket EXCEPT ![mapping[p]] = p]
    BY <2>1, TurnWrites DEF PromisingInv, ManifestInv
  <2> QED
    BY <2>1, <2>2, PoolAssumption
<1>6. CASE LatePutLands
  BY <1>6 DEF LatePutLands, PutLandsLate
<1>3. CASE Post
  <2>1. Append(<<>>, operations) = <<operations>>
    OBVIOUS
  <2> QED
    BY <1>0, <1>3, <2>1 DEF Post, Raise, At
<1>4. CASE Die
  BY <1>4 DEF Die, Crash
<1>5. CASE UNCHANGED runVars
  BY <1>5 DEF runVars
<1> QED
  BY <1>1, <1>2, <1>3, <1>4, <1>5, <1>6 DEF RunNext

\* What a registered delivery claims is what the bucket has.
ClaimsTrue ==
    \A d \in DOMAIN registered :
        Claims(registered[d]) \subseteq {<<k, bucket[k]>> : k \in Key}

\* What the deliveries claim follows from the invariant.
LEMMA ClaimsAreTrue == PromisingInv => ClaimsTrue
<1> SUFFICES ASSUME PromisingInv, NEW d \in DOMAIN registered,
                    NEW claim \in Claims(registered[d])
             PROVE  \E k \in Key : claim = <<k, bucket[k]>>
  BY DEF ClaimsTrue
<1>1. PICK i \in Uploads(registered[d]) : \E j \in DOMAIN registered[d][i].files :
         claim = <<KeyOf(registered[d][i].files[j].key_suffix),
                   registered[d][i].files[j].checksum>>
  BY DEF Claims
<1>2. \A j \in DOMAIN registered[d][i].files : Backed(registered[d][i].files[j])
  BY RegisteredBacked DEF PromisingInv
<1> QED
  BY <1>1, <1>2 DEF Backed

\* What DeliveryPromise sees as registered.
Claimed == [d \in DOMAIN registered |-> Claims(registered[d])]

\* A call with unique keys implements DeliveryPromise: it registers claims on
\* objects that are in the bucket already, at most once, and they stay true
\* however late a put lands that was given up or repeated.
THEOREM PromiseIsKept == UniqueKeys /\ DatasetApart /\ RunSpec => PromiseKept
<1>1. RunInit => Promise!PromiseInit
  <2> SUFFICES ASSUME RunInit PROVE Promise!PromiseInit
    OBVIOUS
  <2>1. registered = <<>> /\ outcome = "running"
    BY DEF RunInit
  <2>2. [d \in DOMAIN registered |-> Claims(registered[d])] = <<>>
    BY <2>1
  <2> QED
    BY <2>1, <2>2 DEF Promise!PromiseInit
<1>2. ASSUME PromisingInv, ClaimsTrue', [RunNext]_runVars
      PROVE  [Promise!PromiseNext]_(Promise!promiseVars)
  <2>1. request' = request
    BY <1>2, RequestStays
  <2>2. UNCHANGED registered => Claimed' = Claimed
    BY <2>1 DEF Claimed, Claims, KeyOf
  <2>3. registered = <<>> => Claimed = <<>>
    BY DEF Claimed
  <2>4. CASE UNCHANGED <<bucket, registered, outcome>>
    BY <2>2, <2>4 DEF Promise!promiseVars, Claimed
  <2>5. CASE /\ outcome = "running"
             /\ outcome' \in {"done", "failed", "crashed"}
             /\ UNCHANGED <<bucket, registered>>
    <3>1. Promise!Stop
      BY <2>2, <2>5 DEF Promise!Stop, Claimed
    <3> QED
      BY <3>1 DEF Promise!PromiseNext
  <2>6. CASE /\ outcome = "running" /\ registered = <<>>
             /\ outcome' \in {"done", "failed", "crashed"}
             /\ registered' = <<operations>>
             /\ UNCHANGED <<bucket, operations>>
    <3>1. DOMAIN registered' = {1} /\ registered'[1] = operations
      <4>1. DOMAIN <<operations>> = {1} /\ <<operations>>[1] = operations
        OBVIOUS
      <4> QED
        BY <2>6, <4>1
    <3>2. Claimed' = [d \in {1} |-> Claimed'[1]]
      BY <3>1 DEF Claimed
    <3>3. Len(Claimed') = 1
      BY <3>2
    <3>4. Claimed'[1] \subseteq {<<k, bucket[k]>> : k \in Key}
      BY <1>2, <2>6, <3>1 DEF Claimed, ClaimsTrue
    <3>5. Promise!Register
      BY <2>3, <2>6, <3>3, <3>4 DEF Promise!Register, Claimed
    <3> QED
      BY <3>5 DEF Promise!PromiseNext
  <2>7. CASE /\ \E k \in Key, p \in Path : bucket' = [bucket EXCEPT ![k] = p]
             /\ UNCHANGED <<registered, outcome>>
    <3>1. PICK k \in Key, p \in Path : bucket' = [bucket EXCEPT ![k] = p]
      BY <2>7
    <3>2. bucket'[k] = p
      BY <1>2, <3>1 DEF PromisingInv, ManifestInv, PoolInv, PoolTypeOK
    <3>3. ASSUME NEW d \in DOMAIN Claimed, NEW claim \in Claimed[d],
                 claim[1] = k
          PROVE  claim[2] = p
      <4>1. d \in DOMAIN registered' /\ claim \in Claims(registered[d])'
        BY <2>2, <2>7, <3>3 DEF Claimed
      <4>2. PICK l \in Key : claim = <<l, bucket'[l]>>
        BY <1>2, <4>1 DEF ClaimsTrue
      <4> QED
        BY <3>2, <3>3, <4>2
    <3>4. \E key \in Key, content \in Path :
             /\ bucket' = [bucket EXCEPT ![key] = content]
             /\ \A d \in DOMAIN Claimed : \A claim \in Claimed[d] :
                   claim[1] = key => claim[2] = content
      BY <3>1, <3>3, Zenon
    <3>5. Promise!Store
      BY <2>2, <2>7, <3>4 DEF Promise!Store, Claimed
    <3> QED
      BY <3>5 DEF Promise!PromiseNext
  <2> QED
    BY <1>2, <2>4, <2>5, <2>6, <2>7, VisibleStep
<1> QED
  BY <1>1, <1>2, PromisingInvariant, ClaimsAreTrue, PTL
  DEF RunSpec, PromiseKept, Promise!PromiseSpec
=============================================================================
