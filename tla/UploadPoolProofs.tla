-------------------------- MODULE UploadPoolProofs --------------------------
(***************************************************************************)
(* Proofs about UploadPool, for every set of paths and keys, every size of *)
(* the pool and every number of attempts.                                  *)
(***************************************************************************)
EXTENDS UploadPool, TLAPS

\* A path has a task exactly while it is in the mapping of the call.
Tracked == \A p \in Path : task[p] # "none" <=> p \in DOMAIN mapping

\* A worker only sleeps when an attempt is left.
AttemptLeft ==
    \A p \in Path : task[p] = "backoff" => attempt[p] < OsErrorRetries

\* The result lists have the futures that were collected, each as it ended.
ResultsTrue ==
    /\ \A p \in success : task[p] = "stored"
    /\ \A p \in failed : task[p] = "errored"
    /\ raiseOnError => failed = {}

\* Where the caller is says how far the tasks are.
CallerKnows ==
    /\ main = "returned" => success \cup failed = DOMAIN mapping
    /\ main = "raised" => DOMAIN mapping \subseteq Done
    /\ main \in {"unwinding", "raised"} =>
          raiseOnError /\ \E p \in Path : task[p] = "errored"

\* StoredIntact, from the moment the write landed.
LandedIntact ==
    ~dryRun =>
        \A p \in DOMAIN mapping :
            task[p] \in {"landed", "stored"} /\ Unrivalled(p) =>
                bucket[mapping[p]] = p

\* What is under way, was stored or is in the bucket was sent.
SentKnown ==
    /\ ~dryRun =>
          \A p \in DOMAIN mapping :
              task[p] \in {"putting", "landed", "backoff", "stored"} =>
                  <<p, mapping[p]>> \in sent
    /\ \A k \in Key : bucket[k] # NoObject => <<bucket[k], k>> \in sent

\* A dry run sends no put.
DryRunSendsNothing ==
    dryRun => \A p \in Path :
                task[p] \notin {"putting", "landed", "backoff", "errored"}

\* The inductive invariant.
PoolInv ==
    /\ PoolTypeOK
    /\ Tracked
    /\ AttemptLeft
    /\ ResultsTrue
    /\ CallerKnows
    /\ LandedIntact
    /\ SentKnown
    /\ DryRunSendsNothing

\* The invariant holds before the first call of upload_multiple_files.
LEMMA InitInv == PoolInit => PoolInv
<1> SUFFICES ASSUME PoolInit PROVE PoolInv
  OBVIOUS
<1>1. DOMAIN mapping = {} /\ mapping \in [DOMAIN mapping -> Key]
  <2>1. mapping = [p \in {} |-> NoObject]
    BY DEF PoolInit
  <2>2. DOMAIN mapping = {}
    BY <2>1
  <2>3. [p \in {} |-> NoObject] \in [{} -> Key]
    OBVIOUS
  <2> QED
    BY <2>1, <2>2, <2>3
<1>2. PoolTypeOK
  <2>1. attempt \in [Path -> 0..OsErrorRetries]
    BY PoolAssumption DEF PoolInit
  <2>2. /\ task \in [Path -> TaskState]
        /\ bucket \in [Key -> Path \cup {NoObject}]
        /\ main \in MainState
        /\ sent \subseteq Path \X Key
    BY DEF PoolInit, TaskState, MainState
  <2> QED
    BY <1>1, <2>1, <2>2 DEF PoolInit, PoolTypeOK
<1>3. Tracked /\ AttemptLeft /\ ResultsTrue /\ CallerKnows
  BY <1>1 DEF PoolInit, Tracked, AttemptLeft, ResultsTrue, CallerKnows
<1>4. LandedIntact /\ SentKnown /\ DryRunSendsNothing
  BY <1>1 DEF PoolInit, LandedIntact, SentKnown, DryRunSendsNothing
<1> QED
  BY <1>2, <1>3, <1>4 DEF PoolInv

\* A new call starts from the invariant of the call before it.
LEMMA StartInv ==
  ASSUME PoolInv,
         NEW paths \in SUBSET Path, NEW m \in [paths -> Key],
         NEW raising \in BOOLEAN, NEW dry \in BOOLEAN,
         Start(m, raising, dry)
  PROVE  PoolInv'
<1>1. PoolTypeOK'
  BY PoolAssumption DEF Start, PoolInv, PoolTypeOK, MainState, TaskState
<1>2. \A p \in Path : task'[p] = IF p \in DOMAIN m THEN "pending" ELSE "none"
  BY DEF Start
<1>3. Tracked' /\ AttemptLeft' /\ ResultsTrue' /\ CallerKnows'
  BY <1>2 DEF Start, Tracked, AttemptLeft, ResultsTrue, CallerKnows
<1>4. LandedIntact' /\ DryRunSendsNothing'
  BY <1>2 DEF Start, LandedIntact, DryRunSendsNothing
<1>5. SentKnown'
  BY <1>2 DEF Start, PoolInv, SentKnown
<1> QED
  BY <1>1, <1>3, <1>4, <1>5 DEF PoolInv

\* Submitting a task and taking it from the queue disturb no result.
LEMMA QueueInv ==
  ASSUME PoolInv, NEW p \in Path, Submit(p) \/ Take(p)
  PROVE  PoolInv'
<1> USE DEF Submit, Take, callVars
<1>0. p \in DOMAIN mapping /\ mapping[p] \in Key
  BY DEF PoolInv, PoolTypeOK, Tracked
<1>1. PoolTypeOK'
  BY <1>0, PoolAssumption DEF PoolInv, PoolTypeOK, TaskState
<1>2. Tracked' /\ AttemptLeft' /\ DryRunSendsNothing'
  BY DEF PoolInv, PoolTypeOK, Tracked, AttemptLeft, DryRunSendsNothing
<1>3. ResultsTrue' /\ CallerKnows'
  BY DEF PoolInv, PoolTypeOK, ResultsTrue, CallerKnows, Working
<1>4. LandedIntact'     \* only a dry run has a stored file at once
  <2>1. sent \subseteq sent'
    OBVIOUS
  <2>2. \A q \in Path : Unrivalled(q)' => Unrivalled(q)
    BY <2>1 DEF Unrivalled
  <2> QED
    BY <2>2 DEF PoolInv, PoolTypeOK, LandedIntact
<1>5. SentKnown'
  BY <1>0 DEF PoolInv, PoolTypeOK, SentKnown
<1> QED
  BY <1>1, <1>2, <1>3, <1>4, <1>5 DEF PoolInv

\* A write that lands changes the object of its own path only.
LEMMA LandInv ==
  ASSUME PoolInv, NEW p \in Path, PutLands(p)
  PROVE  PoolInv'
<1> USE DEF PutLands, callVars
<1>0. p \in DOMAIN mapping /\ mapping[p] \in Key
  BY DEF PoolInv, PoolTypeOK, Tracked
<1>1. PoolTypeOK'
  BY <1>0 DEF PoolInv, PoolTypeOK, TaskState
<1>2. Tracked' /\ AttemptLeft' /\ DryRunSendsNothing'
  BY DEF PoolInv, PoolTypeOK, Tracked, AttemptLeft, DryRunSendsNothing
<1>3. ResultsTrue' /\ CallerKnows'
  BY <1>0 DEF PoolInv, PoolTypeOK, ResultsTrue, CallerKnows, Done
<1>4. <<p, mapping[p]>> \in sent
  BY <1>0 DEF PoolInv, SentKnown, DryRunSendsNothing
<1>5. LandedIntact'
  <2> SUFFICES ASSUME ~dryRun, NEW q \in DOMAIN mapping, Unrivalled(q),
                      task'[q] \in {"landed", "stored"}
               PROVE  bucket'[mapping[q]] = q
    BY DEF LandedIntact, Unrivalled
  <2>1. CASE q = p
    BY <2>1, <1>0 DEF PoolInv, PoolTypeOK
  <2>2. CASE q # p
    <3>1. mapping[q] # mapping[p] /\ mapping[q] \in Key
      BY <2>2, <1>0, <1>4 DEF Unrivalled, PoolInv, PoolTypeOK
    <3>2. task[q] \in {"landed", "stored"}
      BY <2>2 DEF PoolInv, PoolTypeOK
    <3> QED
      BY <3>1, <3>2 DEF PoolInv, PoolTypeOK, LandedIntact
  <2> QED
    BY <2>1, <2>2
<1>6. SentKnown'
  BY <1>0, <1>4 DEF PoolInv, PoolTypeOK, SentKnown
<1> QED
  BY <1>1, <1>2, <1>3, <1>5, <1>6 DEF PoolInv

\* A put that lands late writes its own content: a file whose key
\* was put by no other file does not notice.
LEMMA LateInv ==
  ASSUME PoolInv, NEW p \in Path, NEW key \in Key, PutLandsLate(p, key)
  PROVE  PoolInv'
<1> USE DEF PutLandsLate, callVars
<1>1. PoolTypeOK'
  BY DEF PoolInv, PoolTypeOK
<1>2. /\ Tracked' /\ AttemptLeft' /\ ResultsTrue' /\ CallerKnows'
      /\ DryRunSendsNothing'
  BY DEF PoolInv, Tracked, AttemptLeft, ResultsTrue, CallerKnows,
         DryRunSendsNothing, Done
<1>3. LandedIntact'
  <2> SUFFICES ASSUME ~dryRun, NEW q \in DOMAIN mapping, Unrivalled(q),
                      task[q] \in {"landed", "stored"}
               PROVE  bucket'[mapping[q]] = q
    BY DEF LandedIntact, Unrivalled
  <2>1. mapping[q] \in Key /\ bucket[mapping[q]] = q
    BY DEF PoolInv, PoolTypeOK, LandedIntact
  <2>2. mapping[q] = key => q = p
    BY DEF Unrivalled
  <2> QED
    BY <2>1, <2>2 DEF PoolInv, PoolTypeOK
<1>4. SentKnown'
  BY DEF PoolInv, PoolTypeOK, SentKnown
<1> QED
  BY <1>1, <1>2, <1>3, <1>4 DEF PoolInv

\* A put that ends, well or not, changes no object.
LEMMA PutEndsInv ==
  ASSUME PoolInv, NEW p \in Path, PutEnds(p)
  PROVE  PoolInv'
<1> USE DEF PutEnds, PutReturns, PutRaisesOSError, PutRaisesOther, callVars
<1>0. task[p] \in {"putting", "landed"} /\ p \in DOMAIN mapping
  BY DEF PoolInv, Tracked
<1>1. PoolTypeOK'
  BY DEF PoolInv, PoolTypeOK, TaskState
<1>2. AttemptLeft'      \* it backs off only before the last attempt
  BY PoolAssumption DEF PoolInv, PoolTypeOK, AttemptLeft
<1>3. Tracked' /\ DryRunSendsNothing'
  BY <1>0 DEF PoolInv, PoolTypeOK, Tracked, DryRunSendsNothing
<1>4. ResultsTrue' /\ CallerKnows'
  BY <1>0 DEF PoolInv, PoolTypeOK, ResultsTrue, CallerKnows, Working
<1>5. LandedIntact' /\ SentKnown'
  BY <1>0 DEF PoolInv, PoolTypeOK, LandedIntact, SentKnown, Unrivalled
<1> QED
  BY <1>1, <1>2, <1>3, <1>4, <1>5 DEF PoolInv

\* A retry counts its attempt, and there was one left.
LEMMA RetryInv ==
  ASSUME PoolInv, NEW p \in Path, Retry(p)
  PROVE  PoolInv'
<1> USE DEF Retry, callVars
<1>1. PoolTypeOK'
  BY PoolAssumption DEF PoolInv, PoolTypeOK, TaskState, AttemptLeft
<1>2. Tracked' /\ AttemptLeft' /\ DryRunSendsNothing'
  BY DEF PoolInv, PoolTypeOK, Tracked, AttemptLeft, DryRunSendsNothing
<1>3. ResultsTrue' /\ CallerKnows'
  BY DEF PoolInv, PoolTypeOK, ResultsTrue, CallerKnows, Working
<1>4. LandedIntact' /\ SentKnown'
  BY DEF PoolInv, PoolTypeOK, LandedIntact, SentKnown, Unrivalled
<1> QED
  BY <1>1, <1>2, <1>3, <1>4 DEF PoolInv

\* The calling thread changes no task and no object.
LEMMA CallerInv ==
  ASSUME PoolInv,
         (\E p \in Path : Collect(p)) \/ Finish \/ Unwind \/ Crash
  PROVE  PoolInv'
<1> USE DEF Collect, Finish, Unwind, Crash, callVars
<1>1. PoolTypeOK'
  BY DEF PoolInv, PoolTypeOK, MainState
<1>2. Tracked' /\ AttemptLeft' /\ DryRunSendsNothing'
  BY DEF PoolInv, Tracked, AttemptLeft, DryRunSendsNothing
<1>5. LandedIntact' /\ SentKnown'
  BY DEF PoolInv, LandedIntact, SentKnown, Unrivalled
<1>3. ResultsTrue'
  BY DEF PoolInv, ResultsTrue
<1>4. CallerKnows'
  BY DEF PoolInv, CallerKnows, Done, Working
<1> QED
  BY <1>1, <1>2, <1>3, <1>4, <1>5 DEF PoolInv

\* Leaving every variable alone leaves the invariant alone.
LEMMA StutterInv == PoolInv /\ UNCHANGED poolVars => PoolInv'
  BY DEF poolVars, PoolInv, PoolTypeOK, Tracked, AttemptLeft, ResultsTrue,
         CallerKnows, LandedIntact, SentKnown, Unrivalled,
         DryRunSendsNothing, Done

\* No step of the caller, of a worker or of S3 disturbs the invariant.
LEMMA StepInv == PoolInv /\ [PoolNext]_poolVars => PoolInv'
<1> SUFFICES ASSUME PoolInv, [PoolNext]_poolVars PROVE PoolInv'
  OBVIOUS
<1>1. CASE \E paths \in SUBSET Path, raising, dry \in BOOLEAN :
              \E m \in [paths -> Key] : Start(m, raising, dry)
  BY <1>1, StartInv
<1>2. CASE \E p \in Path : Submit(p) \/ Take(p)
  BY <1>2, QueueInv
<1>3. CASE \E p \in Path : PutLands(p)
  BY <1>3, LandInv
<1>4. CASE \E p \in Path : PutEnds(p)
  BY <1>4, PutEndsInv
<1>5. CASE \E p \in Path : Retry(p)
  BY <1>5, RetryInv
<1>6. CASE (\E p \in Path : Collect(p)) \/ Finish \/ Unwind \/ Crash
  BY <1>6, CallerInv
<1>7. CASE \E p \in Path, key \in Key : PutLandsLate(p, key)
  BY <1>7, LateInv
<1>8. CASE UNCHANGED poolVars
  BY <1>8, StutterInv
<1> QED
  BY <1>1, <1>2, <1>3, <1>4, <1>5, <1>6, <1>7, <1>8
  DEF PoolNext, PoolStep, PoolTurn

\* The invariant holds throughout every sequence of calls.
THEOREM PoolInvariant == PoolSpec => []PoolInv
  BY InitInv, StepInv, PTL DEF PoolSpec

-----------------------------------------------------------------------------
\* Every variable of upload_multiple_files keeps its type; in particular the
\* attempt counter stays within _OS_ERROR_RETRIES.
THEOREM PoolTypeCorrect == PoolSpec => []PoolTypeOK
<1>1. PoolInv => PoolTypeOK
  BY DEF PoolInv
<1> QED
  BY <1>1, PoolInvariant, PTL

\* Whatever fails, is retried or lands at the same time or late, a file that is
\* reported as uploaded is in the bucket with the content that was reported,
\* when no other file was ever put at its key.
THEOREM UploadsIntact == PoolSpec => []StoredIntact
<1>1. PoolInv => StoredIntact
  BY DEF PoolInv, LandedIntact, StoredIntact
<1> QED
  BY <1>1, PoolInvariant, PTL

\* A call that returns has one result for each of its files, the right one.
THEOREM ResultsComplete == PoolSpec => []NoneLost
<1>1. PoolInv => NoneLost
  <2> SUFFICES ASSUME PoolInv, main = "returned"
               PROVE  /\ success = {p \in DOMAIN mapping : task[p] = "stored"}
                      /\ failed = {p \in DOMAIN mapping : task[p] = "errored"}
                      /\ success \cup failed = DOMAIN mapping
    BY DEF NoneLost
  <2>1. success \cup failed = DOMAIN mapping
    BY DEF PoolInv, CallerKnows
  <2>2. /\ \A p \in success : task[p] = "stored"
        /\ \A p \in failed : task[p] = "errored"
    BY DEF PoolInv, ResultsTrue
  <2> QED
    BY <2>1, <2>2
<1> QED
  BY <1>1, PoolInvariant, PTL

\* Under raise_on_error, and only then, a failed upload ends the call with an
\* exception.
THEOREM RaisesRightly == PoolSpec => []RaisesForAFailure
<1>1. PoolInv => RaisesForAFailure
  <2> SUFFICES ASSUME PoolInv PROVE RaisesForAFailure
    OBVIOUS
  <2>1. main = "raised" => raiseOnError /\ \E p \in Path : task[p] = "errored"
    BY DEF PoolInv, CallerKnows
  <2>2. ASSUME main = "returned", raiseOnError,
               NEW p \in Path, task[p] = "errored"
        PROVE  FALSE
    <3>1. p \in success \cup failed
      BY <2>2 DEF PoolInv, Tracked, CallerKnows
    <3>2. failed = {} /\ p \notin success
      BY <2>2 DEF PoolInv, ResultsTrue
    <3> QED
      BY <3>1, <3>2
  <2> QED
    BY <2>1, <2>2 DEF RaisesForAFailure
<1> QED
  BY <1>1, PoolInvariant, PTL

\* No worker is left behind by a call that returned or raised.
LEMMA QuietPool == PoolInv => QuietAfterTheCall
<1> SUFFICES ASSUME PoolInv, main \in {"returned", "raised"}, NEW p \in Path
             PROVE  task[p] \in {"none", "stored", "errored"}
  BY DEF QuietAfterTheCall
<1>1. CASE p \notin DOMAIN mapping
  BY <1>1 DEF PoolInv, Tracked
<1>2. CASE p \in DOMAIN mapping /\ main = "returned"
  BY <1>2 DEF PoolInv, CallerKnows, ResultsTrue
<1>3. CASE p \in DOMAIN mapping /\ main = "raised"
  BY <1>3 DEF PoolInv, CallerKnows, Done
<1> QED
  BY <1>1, <1>2, <1>3

\* So it is throughout every sequence of calls.
THEOREM CallsEndQuiet == PoolSpec => []QuietAfterTheCall
  BY QuietPool, PoolInvariant, PTL

\* A dry run sends no put, and what is written while it runs is a put that
\* was sent before it.
THEOREM DryRunsClean == PoolSpec => DryRunWritesNothing
<1> DEFINE Clean == /\ sent' = sent
                    /\ \A k \in Key : bucket'[k] # bucket[k] =>
                          <<bucket'[k], k>> \in sent
<1>1. PoolInv /\ [PoolNext]_poolVars => [dryRun' => Clean]_poolVars
  <2> SUFFICES ASSUME PoolInv, PoolNext, dryRun' PROVE Clean
    BY DEF poolVars
  <2>1. ASSUME NEW p \in Path, PutLands(p) PROVE FALSE
    BY <2>1 DEF PutLands, PoolInv, DryRunSendsNothing, callVars
  <2>2. ASSUME NEW p \in Path, NEW key \in Key, PutLandsLate(p, key)
        PROVE  Clean
    BY <2>2 DEF PutLandsLate, PoolInv, PoolTypeOK
  <2>3. ASSUME NEW p \in Path, Take(p) PROVE Clean
    BY <2>3 DEF Take, callVars
  <2> QED
    BY <2>1, <2>2, <2>3
    DEF PoolNext, PoolStep, PoolTurn, Start, Submit, PutEnds,
        PutReturns, PutRaisesOSError, PutRaisesOther, Retry, Collect, Finish,
        Unwind, Crash
<1> QED
  BY <1>1, PoolInvariant, PTL DEF PoolSpec, DryRunWritesNothing
=============================================================================
