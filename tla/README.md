# Verification of copernicusmarine-delivery

TLA+ models of the delivery toolbox in `src/`, the TLC runs that check them on
small instances, and proofs that TLAPS checks for every instance.  The toolbox
lets a producer of the Copernicus Marine Service upload files to an ingestion
bucket and register a *delivery* - an ordered list of upload and delete
operations on one dataset of one product - with the ingestion service (OPDV).

Contents: [the system](#the-system) - [modules](#modules) -
[runs](#runs) - [bounds](#bounds) - [fairness](#fairness) -
[proofs](#proofs) - [findings](#findings) - [abstractions](#abstractions) -
[not modelled](#not-modelled) - [plan](#plan)

## The system

```
 command line / Python interface
        |  upload, delivery, delete, status
        v
 core_functions ---- validator (local files, anchors, key suffixes, limits)
   |   |   |  \
   |   |   |   `-- paths and keys: local path -> key_suffix -> S3 key -> key_suffix
   |   |   `------ ingestion service: GET config, GET entity config, POST delivery
   |   `---------- Keycloak: token (cached in the process)
   `-------------- S3Client: a thread pool of puts --> ingestion bucket
                      `-- obstore calls back for S3 credentials --> Keycloak, service
```

`copernicusmarine_delivery` is a library; one call does all of its work and then
returns or raises.  What outlives a call is the bucket, the deliveries the service
has registered, the delivery files that the command line saves and, within one
process, the token cache.

| Part (source) | State | Operations | What is hard | What makes it correct |
|---|---|---|---|---|
| Upload pool (`s3_client.py`, `S3Client.upload_multiple_files`) | the mapping path -> key of the call, one future per file, the attempt of each put, two result lists; the bucket | submit, take, put, retry on `OSError` after a sleep, collect, return, unwind an exception | workers, caller and S3 interleave; a put may land and be reported as failed, at once or any time later; an exception is raised while others are queued; the process may die | a reported upload is in the bucket; every file has one result; exceptions are raised for failures and leave no worker behind; the call ends |
| Paths and keys (`core_functions/utils.py`, `constants.py`) | none | path -> key suffix (anchor), suffix -> key, key -> suffix | the suffix is not kept but *found again* in the key, by looking for the dataset ID | the suffix that is registered is the one uploaded under |
| Validation (`delivery_validator.py`, `delivery_common/validation.py`) | none | files, duplicates, suffixes, IDs, limits | five separate reasons in a fixed precedence; limits are of the delivery, not of an operation | whatever it should refuse is refused before anything is sent |
| Orchestration (`core_functions.py`) | operations built so far, responses, the delivery | upload, delivery, delete | many steps of which each can fail, after others have had their effect | the delivery that is registered is backed by the bucket, in order, complete if so asked, registered once; the caller is told the truth |
| Token cache (`auth.py`) | access and refresh token with their expiry | fetch, refresh, log in | threads without a lock, a clock read before the request | a token handed out is valid for a while; a dead refresh token does not lock the user out |
| S3 credentials (`OpdvS3CredentialProvider`) | the credential obstore holds, the lock under which it fetches a new one | reuse above a threshold, fetch a token and a credential below it | a credential that expires in the middle of a long upload; a slow Keycloak or service | a request is not sent with an expired credential, as far as threshold and timeouts see to it |
| Responses and summaries (both `domain.py`) | none | counts of uploads, failures and deletes; volumes in whole megabytes | sums over operations that each lost files; truncation | what is counted is what was delivered, and an incomplete delivery is warned of |
| Listing (`core_functions/delivery.py`) | none | make an ID, GET deliveries, sort, timeframe | the ID is made of local time, the timeframe of UTC | complete and most recent first |
| Interfaces (`command_line_interface.py`, `python_interface.py`) | the operations of a `Delivery` object, delivery files on disk | check arguments, call the core, save the delivery file, ask for status and lists | the file is saved after the POST, each step may fail, the process may die; two interfaces with rules of their own | the user is told what happened, a saved file is of a registered delivery, the core gets what the user gave |

How the parts interact in a call: `core_functions` fetches the configuration and a
token, has everything validated, creates one `S3Client`, and goes through the
operations in order.  An upload operation is one call of
`upload_multiple_files` on the bucket that the operations before it have filled;
a delete only adds an entry.  The results of a pool call are turned into the manifest of the
operation by looking every raw path up among the results and finding the
suffix again in the key.  Last, one POST registers the delivery.

The hazards, each at its line and with the properties that cover it, are
listed in `PROJECT.json`.

## Modules

| Module | Models | Built on |
|---|---|---|
| `UploadPool` | `S3Client.upload_multiple_files`, `upload_file`, `_put_with_os_error_retry` | - |
| `UploadPoolProofs` | theorems about `UploadPool` | `UploadPool` |
| `PathKeys` | `local_path_to_key_suffix`, `get_s3_key_suffix`, the key format, the key suffix validator of `delivery_common/domain.py`, and of pathlib what these need | - |
| `PathKeysProofs` | theorems about the operators of `PathKeys` | `PathKeys` |
| `RoundTripProofs` | the properties of `MCPathKeys`, proved for all paths | `MCPathKeys`, `PathKeysProofs` |
| `DeliveryValidator` | `delivery_validator.py`, `delivery_common/validation.py` | `PathKeys` |
| `DeliveryRun` | one call of `upload`, `delivery` or `delete`, composed with the pool and the validator | `UploadPool`, `DeliveryValidator` |
| `DeliveryRunProofs` | theorems about `DeliveryRun`: the outcome of a call, what it registers, and the refinement of `DeliveryPromise` | `DeliveryRun`, `UploadPoolProofs`, `PathKeysProofs` |
| `DeliveryPromise` | what such a call promises to the ingestion service, in three actions | - |
| `DeliveryReport` | the summaries of the responses and of the delivery that such a call leaves | `DeliveryRun` |
| `ReportProofs` | theorems about the limits and about `DeliveryReport` | `DeliveryReport`, `DeliveryRunProofs` |
| `TokenCache` | `fetch_keycloak_token` and `_token_cache`, with several callers | - |
| `TokenCacheProofs` | theorems about `TokenCache` | `TokenCache` |
| `S3Credentials` | `OpdvS3CredentialProvider`, and the requests that obstore signs with what it returns | `TokenCache` |
| `S3CredentialsProofs` | theorems about `S3Credentials` | `S3Credentials`, `TokenCacheProofs` |
| `DeliveryListing` | `create_delivery_id`, `get_deliveries`, the timeframes; the service as far as it registers and selects deliveries | - |
| `Interfaces` | the commands of the command line and the methods of the Python interface | `DeliveryListing` |
| `InterfacesProofs` | theorems about `Interfaces` and the listing behind it | `Interfaces` |
| `MCUploadPool`, `MCPathKeys`, `MCDeliveryRun`, `MCS3Credentials`, `MCInterfaces` | instances for TLC | the modules of these names, `MCDeliveryRun` of `DeliveryReport` |

**UploadPool.** `mapping`, `raiseOnError` and `dryRun` are the arguments of the
call; `main` is where the calling thread is; `task` says for each path where its
future is.  `Start` is the call; `Submit` the loop of `executor.submit`; `Take` a
worker beginning `upload_file`; `PutLands` S3 completing the write that a worker waits for;
`PutReturns`, `PutRaisesOSError`,
`PutRaisesOther` the three ends of `obstore.put`; `Retry` the end of `time.sleep`;
`Collect` a turn of the `as_completed` loop, where `future.result()` raises under
`raise_on_error`; `Finish` the return; `Unwind` the exit of the `with` block by an exception, which is
`shutdown(wait=True)` and cancels nothing; `Crash` the death of the process.  An `OSError` may come before or
after the write has landed, so that a file reported as failed may be in the
bucket and a repeated put may overwrite its own first attempt.  A client that gives a put up -
by its timeout, by an exception, by its death - does not take it back from S3: `sent` holds every
put that was sent, and `PutLandsLate` completes any of them at any later time, any number of times,
during a later call or when there is no process any more.

**PathKeys.** A string with slashes is the sequence of the segments between
them, so that `"/home/x"` is `<<"", "home", "x">>`; that is enough to tell the raw argument from its
pathlib normalisation, which is what the code confuses.  `EndsInDots` and
`EndsInColon` name the segments for which the substring tests `"../"` and `":/"`
of the key suffix validator say yes.

**DeliveryValidator.** `InvalidReason` keeps the precedence of
`validate_upload_files`; `ValidSizes` sums over all the upload operations of the
delivery; an empty string as an anchor is false to one function and an anchor
to the other, as in the code.

**DeliveryRun.** A call is a sequence of stages (`Stages`, one order for each
entry point), and `index` counts the operations that are done.  `RemoteCall` stands for
every request that has no effect on the service, each of which may raise.
`BeginUpload` starts the pool, `PoolTurns` lets every thread of it take steps, `EndUpload`
and `UploadRaises` are its two ends.  `Post` has four outcomes: registered and
answered, registered and the answer lost, registered and the process dead before the answer,
refused.  `Die` kills the process at any point, and `LatePutLands` lets the puts that were sent land
during the rest of the call, or after it has returned, raised or died.

**DeliveryPromise.** Objects first (`Store`), then at most one delivery, which
claims only pairs of key and content that are in the bucket (`Register`).  Writes may come after it -
a put that was given up may land whenever it does - but none that makes a claim untrue.  `DeliveryRun` implements it under the mapping that takes a registered
delivery to the set of its claims.

**TokenCache.** A token is named by the instant until which Keycloak honours it, so that
what the cache believes (`accessExpiresAt`) can be compared with what is true
(`access`).  `Enter` reads the clock - once, as the code does - and considers the cached
access token; `ReturnCached` reads the cache a second time; `Discover`, `ChooseGrant`, `Send`,
`Grant` (Keycloak, external) and `Receive` are the steps of a miss, with the clock
ticking between any two of them; `Fail` covers every exception, all of which leave the cache alone.

**DeliveryReport.** `ResponseSummary` adds up the `_get_summary` of the responses,
`DeliverySummary` is what `Delivery.get_summary` counts in the operations that were
registered, `CompletedWithErrors` says when the text of a response ends in its warning.

**S3Credentials.** The callers of `TokenCache` are the workers of one `S3Client`.
obstore is external: it holds one `credential`, `Reuse`s it while more than
`RefreshThreshold` of its life is left, and otherwise calls the provider for one worker
(`CallProvider`, `fetching`) while the others wait.  `FetchToken` and `SendGet` are the
steps of the provider, the former those of `fetch_keycloak_token`; `Issue` is the
service, and `ResendGet` a retry of `http_client`, each with a timeout of its own;
`ReceiveCredential` and `ProviderRaises` are the ends.  A request to S3 is signed once
(`held`) and may take several attempts: `AttemptFails` and, after a backoff of any length,
`Resend`, which renews nothing; no further attempt is made once one failed after `RetryTimeout`.
`TimePasses` lets no attempt run past its timeout, which is what obstore sees to.

**DeliveryListing.** A clock in UTC ticks; what `datetime.now()` shows is that and one of
the offsets, chosen at each reading.  An ID is the local second, the product and the
random number, in that order.  `SendQuery` computes the parameters of the GET,
`ReceiveAnswer` sorts what the service selects when the request arrives: `Selected` is a set of
places in the service's list, and `Sorted` puts each after those that `Precedes` has before it.

**Interfaces.** Each client uses one of the interfaces, and all share the service.
`SubmitOne`, `SubmitDeliveryFile` and `SubmitDelivery` are the ways to submit,
with their early returns (`Refuse`); `asked` is what the user gave and `anchors`
what reaches the core.  The core call itself is what `OutcomeTold` promises of it:
`CoreReturns` registers, `DryRunReturns` does not, `CoreRaises` comes before the POST and
`PostRaises` after it registered, be it that the answer is bad or that the process is dead when it comes.
`Save` and `SaveFails` follow the POST, then `Respond`, in which `click.echo` may fail
(a closed pipe) when everything was done; `Kill` may strike anywhere.
`AskStatus` takes an ID the user has: of the last response or of a delivery file.
`told` is the kind of message the user saw last.

## Runs

| Run (`.cfg`) | Question | Distinct states |
|---|---|---|
| `pool` (`MCUploadPool`) | Is what the pool reports true, under every interleaving, retry, late error and crash, whenever a put lands that was given up? | 2.1 M |
| `paths` (`MCPathKeys`) | Is the suffix found again the suffix of the upload, for every path of up to five segments? | 173 k |
| `run` (`MCDeliveryRun`) | Whatever fails in a call, is the registered delivery backed, ordered, complete if so asked, registered once, told truly and counted right?  Does the call implement `DeliveryPromise`, and do its pool and its loop end? | 52 k |
| `credentials` (`MCS3Credentials`) | With two workers behind the lock of obstore, is a token believed in or sent for too long, and is a request to S3 sent with a credential that has expired? | 2.7 M |
| `interfaces` (`MCInterfaces`) | Whatever fails or dies, is the user told what happened, is a saved file of a registered delivery, is a delivery found again? | 1.1 M |
| `list` (`MCInterfacesList`) | Of two clients of one entity, whose deliveries are registered in any order and on clocks that differ, is a list complete and, where the clocks agree, in order? | 4.8 M |
| `pool_stops`, `run_collide`, `run_spelling`, `run_late`, `list_order`, `anchor_ignored` | see [findings](#findings): each finds a statement of the documentation violated | - |

The properties, and what they would catch:

* `StoredIntact` - a result taken for a put that did not complete, or that another
  file's put replaced, at once or late.  It has a proviso, that no other file was ever put
  at that key (`Unrivalled`); `ManifestAlwaysBacked` shows that the code does not see to it.
* `NoneLost`, `RaisesForAFailure` - a future dropped, a result counted twice, a
  failure swallowed under `raise_on_error`, or an exception without one.
* `QuietAfterTheCall` - a worker still putting when the next operation, or the
  POST, begins.
* `DryRunWritesNothing` - an action property; the pool's calls follow one another, so it
  includes a dry run after real uploads.
* `SuffixRoundTrip`, `AnchoredSuffixIsClean`, `AcceptedStaysAccepted`,
  `ResponseShowsTheDestination` - the three conversions between path, key and
  suffix disagreeing, in particular when the path contains the dataset ID again.
* `ManifestBacked` - the central one: a registered delivery names only
  objects that are in the bucket with the checksum it says.  It relates the
  pool's results, the operation builder, the round trip of the suffix and the
  order of upload and POST.
* `FilesCheckedFirst`, `LimitsKept` - a write before the last operation's files were
  checked, or limits applied to each operation alone.
* `OutcomeTold` - a call that returns without a delivery, registers two,
  raises after registering one (other than from the POST itself), or a dry run
  that leaves a trace.
* `OrderKept`, `RaisingIsAllOrNothing`, `ResponseAgrees` - operations or files
  reordered or lost; a partial delivery under `raise_on_upload_error`; a response
  that reports something else than what was registered.
* `PromiseKept` - the refinement: objects before the delivery that claims them, one delivery, and
  claims that no later write makes untrue; like `ManifestBacked` it takes calls without colliding keys.
* `CountsAgree`, `IncompleteIsWarned` - a response that counts what it did not deliver,
  loses a file between the successes and the failures of several operations, or is silent
  about a file that is missing.  Both have the proviso of normalised paths, which `run_spelling` shows to be needed.
  A warning without a missing file is excluded for calls without colliding keys only: of two
  files with one key, the one that failed leaves a warning and the other is delivered in its place.
* `VolumeDeclared` - a declared volume above what was checked against the limit.  It
  is short of the true one by less than a megabyte for each file, and no better bound holds.
* `ExpiryConservative` - an expiry computed from a clock read after the request, or
  two callers storing answers in an order that makes the cache trust an old token
  for as long as a new one.
* `HitsAreFresh`, `RefreshIsFresh` - a token handed out or sent that is already past
  its time.  They hold of a caller that is quick, and alone or behind the lock of obstore: of two threads without it, an older answer may
  replace the token between its check and its return; after a slow discovery the refresh
  token may be sent too late, because the clock was read before.
* `SignedInTime` - a threshold below the timeout of an attempt, a credential judged before a
  slow fetch, or one that is kept after it was replaced.  It speaks of the first attempt of a request and of the
  retries within the threshold, and of no more: the code lets obstore retry for 10 minutes
  (`retry_timeout`, `s3_client.py:39`) with the credential the request was signed with, of which
  5 minutes are certain (`_CREDENTIAL_REFRESH_THRESHOLD`, line 61).  Without the second
  condition TLC finds a retry that is sent with an expired credential.  Nothing in the repository says that a retry is
  signed in time, so there is no finding; a threshold longer than `retry_timeout`, a backoff and an attempt together would close the gap.
* `ListedInOrder`, `TimeframeKept` - a list in the wrong order for clocks that agree, the service's order
  for instance, in which a delivery with slow uploads comes after one that was begun later; a delivery
  lost from the list because local time and UTC were mixed.  `MostRecentFirst` has no proviso and does not hold.
* `ExitTold` - a command that succeeds without its file or its delivery, or that fails as if
  nothing was registered although it was (a failing POST or the death of the process leave that open).
* `SavedIsRegistered` - a delivery file for a delivery that was never registered, through any order
  of saving, POST, failure and death.
* `FoundAgain` - a delivery registered on behalf of an entity and asked for without it.  It speaks of
  the answer to the last query, once that has come: while another is under way the last message is
  still about the query before (an attempt to prove it without that condition failed on this).  It leaves out
  the Python functions in an environment that names an entity: `submit` uses it and `delivery_status` does not.
* `CallEnds`, `OperationsEnd` - liveness, below.

Every property of a passing run has a mutant in `PROJECT.json`: a plausible bug in one
of the definitions (a lost flag, an off-by-one, `shutdown(wait=False)`, a retried
POST), written next to the definition it replaces, under which TLC finds the property
violated.

## Bounds

* Pool: three files on two workers.  With three files one waits while two
  are under way, so that all the states of a task occur together; a third worker adds none. The mapping
  takes every value over two legal keys and an illegal one, so that there are calls
  with all keys different, with collisions and with a put that can only raise.
  Calls follow one another without a bound on their number, as long as no more than four files were sent to
  a key (`MaxSent`, of nine pairs; the state constraint `FewSent`): enough for all three files of a call under way, and
  one of a former call that lands among them.  Two attempts per put are enough to
  tell the first, the last and a put repeated after it had landed.
* Paths: up to five segments over an alphabet of seven: the empty segment, `"."`,
  `".."`, a segment that only ends in `".."`, one that ends in a colon, the
  dataset ID and a plain name.  The anchor is none, the dataset ID or the plain
  name; the dataset is the one in the alphabet, another, or has the name of its product.
* Tokens and credentials: a margin, token lifetimes below and above it, credential lifetimes as short as
  `CredentialAssumption` lets them be, a threshold equal to the timeout of an attempt and half of `RetryTimeout` as in the
  code, and a clock (`MaxClock`) that runs until several generations of both have expired; two
  workers, one of which fetches while the other waits or is at its request.  Callers that are
  not behind the lock of obstore - threads of the user - are covered by the theorem `CacheConservative` only.
* Interfaces: one client of each interface, three commands or calls between them
  (`MaxCommands`: submit, submit or fail, ask), at most one operation (`MaxOperations`), three instants
  (`MaxUtc`) against a timeframe of one and that of all.  In `interfaces` they are of different entities and
  their clocks agree; in `list` they are of one, with two offsets.  An operation without
  files and one with a file stand for all others: the core call is abstract.  `list_order` has
  clocks further apart, `anchor_ignored` the anchored operations.
* Calls: about a hundred, written out in `MCDeliveryRun` rather than
  enumerated: each reason to refuse a file alone and behind a valid operation,
  each limit exceeded by the sum only, one, two and three operations, no
  operation, an operation without files, paths not normalised, keys that
  collide within an operation and across two, a key suffix refused after its upload.
  Each is run under both settings of `raise_on_upload_error` and most under
  both settings of `dry_run`.

`pool` alone uses a state constraint; it has no liveness property.  It uses symmetry: paths are interchangeable,
and so are legal keys, in `UploadPool` and in the properties of that run, none of
which is a liveness property; so does `credentials`, of which the workers are
interchangeable.  `CHECK_DEADLOCK FALSE` is set because behaviours end:
in `DeliveryRun` with the call, in `S3Credentials` and `Interfaces` with the clock and the commands, in `UploadPool` with an exception or the death of the
process, in `MCPathKeys` with the longest path.

## Fairness

`FairPoolSpec` assumes weak fairness of each task's `Submit`, `Take`, `PutEnds`,
`Retry` and `Collect`, and of `Finish` and `Unwind`: threads are scheduled,
`time.sleep` ends, and a put ends one way or another, since obstore bounds every
request (`timeout` 300 s) and all its own retries (`retry_timeout` 10 min).  This takes for granted that
the credential provider returns, which obstore waits for before it signs a request: its GET has
a timeout, its requests to Keycloak (`auth.py:53,76`) have none, so the liveness properties hold as
far as Keycloak answers or fails.  Nothing is assumed of which way a put
ends: every put may fail every time.  `PutLands` is not fair - S3 need not accept anything.

`FairRunSpec` adds fairness of the caller's own steps only, and states that the
loop over the operations ends.  There is no liveness property of the whole call:
`get_config`, `get_deliveries` and the POST of the delivery are sent without a
timeout and may hang, so none holds.

## Proofs

`UploadPoolProofs` proves, for any sets of paths and keys, any number of workers
and attempts (`PoolAssumption`: both positive, which `ThreadPoolExecutor` and
`range` need; `NoObject` is not a path; the legal keys are keys):

* `PoolTypeCorrect`: `PoolSpec => []PoolTypeOK`
* `UploadsIntact`: `PoolSpec => []StoredIntact`
* `ResultsComplete`: `PoolSpec => []NoneLost`
* `RaisesRightly`: `PoolSpec => []RaisesForAFailure`
* `CallsEndQuiet`: `PoolSpec => []QuietAfterTheCall`
* `DryRunsClean`: `PoolSpec => DryRunWritesNothing`

All follow from one inductive invariant, `PoolInv`.  None of the properties is
inductive alone: `StoredIntact` speaks of `stored` tasks, but the write happens a
step or several before, so it is strengthened to tasks that have `landed`
(`LandedIntact`), and, since a put may land whenever it was sent, what is under way, stored or in the
bucket must be known to have been sent (`SentKnown`): a file at whose key no other was sent
is disturbed by nothing that lands.  The bound on `attempt` needs that a worker sleeps only when an
attempt is left (`AttemptLeft`); `NoneLost` and `RaisesForAFailure` need that the
lists hold what the tasks ended as (`ResultsTrue`) and that the caller's position
says how far the tasks are (`CallerKnows`); all need that a path has a task just
while it is mapped (`Tracked`).  `DryRunSendsNothing` is needed for the action
property.  There is a lemma for each group of actions and `StepInv` puts them together.

`PathKeysProofs` proves what the operators of `PathKeys` compute, for sequences of any
length.  `Only`, which stands for what pathlib drops and for the files of an operation that
were uploaded, is a recursive function; its lemmas say that it returns the wanted elements, all
of them, in their order (`OnlyLists`, `OnlyRange`, `OnlyOrder`, `OnlyAll`, `OnlyBehind`).  They are proved by
induction over the positions, in the form that the provers can use: the set of
positions where the claim fails has no least element (`NoFirstFailure`, from
`WFMin` of the library).  `AnchorFindsSuffix`: taking the dataset as the anchor of an S3 key gives back
its suffix, also when the suffix contains the dataset ID, given that the dataset ID is none of the
segments before it; hence the `key_suffix` of the manifest is the suffix of
the upload when pathlib leaves the key as it is (`SuffixFoundAgain`).  What pathlib makes
of a key is the key of what it makes of the suffix (`PathOfKey`, on
`OnlyBehind`); behind the first part of a path nothing is `""` or `"."` (`PathShape`), so that what comes
behind an anchor is clean (`BehindAnchor`).  Different clean suffixes stay different in the
manifest (`SuffixesDiffer`).

`RoundTripProofs` takes the four properties of the run `paths` to every path
of whatever length and segments (`SuffixesRoundTrip`, `AnchoredSuffixes`, `ValidatorsAgree`, `DestinationsShown`).
A suffix that the validation lets through is relative (`AcceptedSuffix`).  For `ValidatorsAgree` the dataset may even be found too early in
the key: the segments of a suffix before its last come from such segments of the raw path (`KeptBeforeLast`).
`InputAssumption` is what is assumed: IDs are single segments, and the product and the delivery ID
end neither in `..` nor in a colon.

`DeliveryRunProofs` proves of a call of `DeliveryRun` with its upload pools inside - for any set of
calls, any disk and limits, any number of operations, files, workers and attempts:

* `OutcomesTold`: `RunSpec => []OutcomeTold`
* `RunTypesCorrect`: `RunSpec => []RunTypeOK`
* `ChecksComeFirst`: `RunSpec => []FilesCheckedFirst`
* `OrderIsKept`: `RunSpec => []OrderKept`
* `RaisingLosesNone`: `RunSpec => []RaisingIsAllOrNothing`
* `ResponsesAgree`: `RunSpec => []ResponseAgrees`
* `ManifestsBacked`: `RunSpec => []ManifestBacked`
* `PromiseIsKept`: `UniqueKeys /\ DatasetApart /\ RunSpec => PromiseKept`, the refinement:
  every step of a call is a step of `DeliveryPromise` or a stutter, the puts that land after the POST included

`OutcomesTold` needs nothing of the pool's results: a return means one
registered delivery, an exception before the POST none, a dry run none and an untouched
bucket.  `OutcomeTold` says nothing of a call under way, so `CallInv` adds that such a call has
registered nothing (`UnregisteredWhileRunning`), that its position is one of its
stages, and for a dry run (`DryRunKept`) that the position is never the POST,
that every pool it started got the flag, and that no task of it is at a put.
`StageOrder` is the fact about the three entries this rests on: the POST is
the last stage and its token the one before.

The other invariants follow from `ManifestInv` (`ManifestInvariant`).  It is made
of `PoolInv`, since the steps of the pool are steps of the call and the lemmas of `UploadPoolProofs`
apply to them, of `CallInv`, of the types, and of what ties the two together: the
pool is that of the operation at hand, or its call is over (`PoolOfCall`); every put ever sent, which
may land at any time, is that of a file of the call at its key (`SentByCall`);
nothing is in the bucket and no pool has begun before the validation has
passed, that of the sizes included (`ChecksPassed`, `NothingBeforeChecks`); what was registered is the manifest after the last
operation (`RegisteredIsManifest`).  `ManifestBacked` speaks of the registered delivery only, but
what makes it true happens many steps before, so the heart of it is `ManifestSoFar`: for every
operation that is done there is the set of paths its pool had reported as stored, `operations[i]`
and `responses[i]` are made of that set (`DoneWith`), and the objects are in the bucket and stay
there (`Won`), since with unique keys only puts of the same file were ever sent to their keys (`SentAlone`).  From `SuffixFoundAgain`
follows that the key which a registered suffix stands for is the key of the put.

`ReportProofs` proves the four properties of numbers: `LimitsAreKept` (`LimitsKept`), `CountsDoAgree`
(`CountsAgree`), `MissingIsWarned` (`IncompleteIsWarned`) and `VolumesDeclared` (`VolumeDeclared`),
for any limits, sizes and size of a megabyte.  All follow from `ManifestInv`; what they need besides is
a theory of the sums.  The code adds numbers up, file by file and operation by operation, while the
properties count things: `Places` are the files of a call, `Units` the units of storage that
they take.  `Total` is a recursive function; `TotalDefined` shows that it exists and has the
partial sums it should, and `TotalOfParts` that a sum counts what its terms count, as long as
no two terms count one thing.  Hence `PlacesCounted` and `UnitsCounted`, and `LimitsKept` is
what `ValidSizes` checked (`SizesAdded`).  For `CountsAgree`, one operation splits into the files that were stored and
those that were not (`UploadCounted`), and `TotalOfSums` adds the operations up.  For
`VolumeDeclared`, `Rounded` says how far a sum of whole megabytes is from the true one; it
holds of one file and is preserved by addition (`MegabytesRounded`, `TotalOfRounded`), so it holds of the
delivery (`DeliveryRounded`).  The volume is within the limit since every place of the delivery has a place of the
request of its own (`StoredWasCounted`).  For `IncompleteIsWarned`, an error in a response is a file that
was not stored (`ErrorsAreFailures`); that it is then missing needs that no other file has its suffix, which follows
from unique keys by `SuffixesDiffer` (`OthersDiffer`).

`InterfacesProofs` proves of `Interfaces`, for any number of clients and of commands, any clocks, offsets and
timeframes: `InterfacesTypeCorrect`, `UsersTold` (`ExitTold`), `SavedRegistered` (`SavedIsRegistered`),
`AnswersInOrder` (`ListedInOrder`), `TimeframesKept` (`TimeframeKept`) and `DeliveriesFound` (`FoundAgain`).
Two inductive invariants are behind them.  `AllRight` numbers the core calls (`Serials`): no two of them
share a number and neither do two deliveries, so that what a client has registered in its present call is
known; `AtWork` says for each place in a call whether that is nothing or the delivery of the call's ID,
and `ToldRight` and `SavedRight` say what a message and a file then mean.  `AllShown` says of each
client that its query was made from what the user asked (`QueryTrue`) and that
the answer shows it.  For the order it needs what `Sorted` computes: `SortedArranges`
shows that each place gets a rank of its own, by counting (`FS_Injection` of the library), so
that the list has each selected delivery once and in the order of `Precedes`.

`TokenCacheProofs` proves `ExpiryConservative` for any number of callers, any margin and any
lifetimes (`CacheConservative`), by `TokenInv`: the instant a caller took for now is past
(`NowIsPast`), and an answer on its way is as conservative as one in the cache
(`AnswersConservative`).  Under the assumption of a single caller, what it decided on is still in the cache
(`Decided`), from which `HitsFresh` and `RefreshesFresh` follow.

`S3CredentialsProofs` first shows that `S3Credentials` implements `TokenCache`
(`ProviderUsesTokenCache`: each step is one of the token cache or leaves it alone), so that
`TokenInv` holds of it.  `ProviderInv` adds that only the worker for which obstore fetches is
in `fetch_keycloak_token` (`OneAtATime`), and what is left of a credential at each place
(`HeldLongEnough`): on its way, a GET and the threshold; at a request, the threshold
from its beginning, however many attempts it takes, and of an attempt the rest of its timeout.  Neither needs a bound on the time that Keycloak takes.  From it follows
`RequestsSignedInTime`, for any number of workers, under `CredentialAssumption`: the threshold is no
shorter than the timeout of an attempt (both are 300 s in the code), and the service grants a
credential for longer than a GET and the threshold.  Nothing is assumed of `RetryTimeout`, and nothing is claimed of
retries after the threshold.  `WorkersHitsFresh`, `WorkersRefreshesFresh` and
`WorkersCacheConservative` take the theorems of the token cache to any number of
workers: behind the lock, only its own steps disturb what a worker decided on (`OwnStepDecided`, `LockedStep`).

What a theorem assumes of the constants is stated where they are declared, and TLC evaluates it in the runs:
`PoolAssumption`, `StringAssumption` (the literals are strings, which the provers have to be told),
`SegmentAssumption`, `InputAssumption`, `RequestAssumption` (the shapes of the arguments; `upload` and `delete` are calls with one operation;
`Path` and `Key` have the paths and keys that the calls name), `LegalKeyAssumption` (a key that obstore accepts has
neither empty nor `"."` segments), `LimitAssumption`, `ClockAssumption`, `CredentialAssumption`, `ListingAssumption` and
`InterfaceAssumption`.  `UniqueKeys` and `DatasetApart` (the dataset ID is none of the
segments before it in the key) are provisos on the arguments of a call, in the properties themselves where they occur;
`run_collide` shows that the former is needed.

Every invariant and every action property of the passing runs is proved.  Only model-checked: liveness
(`CallEnds`, `OperationsEnd`), which is out of the prover's reach.

## Findings

Six disagreements between the code and its documentation, each with a run that
shows it and the quoted line in `PROJECT.json`:

| Run | Statement | What the code does |
|---|---|---|
| `run_collide` | a checksum is that of the uploaded file (`domain.py`) | duplicates are found among raw paths, not keys: two files with one suffix after the anchor overwrite each other, and the delivery claims both checksums |
| `run_spelling` | "the rest is delivered" (`faq.md`) | results are looked up by raw string: `./data/ds/f.nc` is uploaded, reported as uploaded, and not in the delivery |
| `run_late` | validation errors "are raised before anything is uploaded" (`troubleshooting.md`) | an anchored suffix is checked only after its upload |
| `pool_stops` | "stop the upload if any file fails" (docstring) | queued files are still uploaded before the exception leaves the call |
| `list_order` | "(most recent first)" (docstrings of `list_deliveries`) | the order is that of the IDs, which start with the local time of the machine that made them: the trace is one client whose local time falls back between two deliveries (end of summer time) |
| `anchor_ignored` | "`Upload` has the `anchor` argument" (`concepts.md`), "Optional anchor to convert the local file path" (docstring of `Delivery.submit`) | `Upload.submit` ignores the anchor of its object, `Delivery.submit` its own argument |

Not a run, since the documentation contradicts itself: `concepts.md:57` says that an
absolute path without an anchor is turned into a relative one, `concepts.md:94` that it is
rejected; the code rejects it.

## Abstractions

* The content of a file, its ETag and its checksum are named by its path: an
  upload reports its own content.  Multipart details are inside one put.
* Nothing is said of the order in which S3 completes puts, nor of how late it does: any put that was
  sent may land at any later time, and again.
* The local disk does not change during a call, except that `getsize` may fail on a
  file that has vanished.
* POSIX paths; sizes are exact numbers of a unit, `UnitsPerMB` of them to a megabyte.
* A remote call is one step, its retries by `http_client` inside it.  The retry
  strategy does not repeat a POST that was sent.
* The delivery ID is a constant of the call in `DeliveryRun`; `DeliveryListing` models how it is made.
  Two random numbers may coincide, so that two deliveries have one ID, as in the code.  Upload times are left out.
* That obstore signs a request once and repeats it as it was signed, that it bounds each attempt, and the
  lock under which it calls the provider are not part of `src/` and external.  The number of attempts
  (`max_retries`) and the length of a backoff are left open, which only adds behaviours.
* In `Interfaces` a core call is what `DeliveryRun` shows of its outcome; which files fail is in `DeliveryRun`.
  The service stamps a delivery when the POST arrives (`creation_timestamp`, as `delivery_common/domain.py` says).
* `LegalKey` stands for the keys obstore accepts and is external: obstore is not part of `src/`.  Assumed of it
  is that a key with an empty or `"."` segment is not one, as the path type of object stores has it.

## Not modelled

* In `DeliveryRun` a failing credential is a reason for a put to raise, and a token fetch is a call that answers or raises.
* A change of credentials in a running process: the token cache is not tied to a user, so
  the tokens of the former one go on being used.  A clock that is set back.
* An exception without a message: `_extract_error_message` raises on it, so that the failure leaves
  `upload_multiple_files` even without `raise_on_upload_error`.  An interrupt from the keyboard,
  which unwinds the pool like a failure.
* A file that changes between the check of its size and its upload: its content, and so its
  checksum, would be another.
* What the service does with a delivery after it was registered: the status, and the error messages of files.
* click, yaml and json: a file that cannot be read is `BadDeliveryFile` or `BadDeliveryJson`.  `delivery_status(None)`, which
  is a list of all, is modelled as far as it may show another delivery than the one meant.
* The methods of `S3Client` that no delivery calls (`upload_fileobj`,
  `get_file_stream`, `delete_keys`); logging, version display, package exports.

## Plan

Done: every part of the system above, the promise and its refinement, and the proofs of every
safety property of the passing runs.  What is left, in this order:

1. The step from `DeliveryRun` to the core call of `Interfaces` as a refinement: what `CoreReturns`,
   `CoreRaises` and `PostRaises` take for granted is `OutcomeTold`, which is proved.
2. Files that change between validation and upload, as versions in `DeliveryRun`.
