--------------------------- MODULE S3Credentials ----------------------------
(***************************************************************************)
(* OpdvS3CredentialProvider of copernicusmarine_delivery/s3_client: the    *)
(* workers of one S3Client send requests to S3 signed with temporary       *)
(* credentials, which the provider fetches with a Keycloak token.          *)
(*                                                                         *)
(* obstore is external: it keeps the last credential, reuses it while more *)
(* than refresh_threshold of its life is left, and calls the provider for  *)
(* one worker at a time otherwise.  A put is one request or, of a large    *)
(* file, several.  A request is signed once: an attempt that fails is      *)
(* repeated as it is, so its credential is not renewed.  timeout bounds an *)
(* attempt, retry_timeout the time in which another may follow; the number *)
(* of attempts (max_retries) and the length of the backoff are left open.  *)
(* The service that issues the credentials is external too.  A credential  *)
(* is named by the instant at which it expires, 0 is none.                 *)
(***************************************************************************)
EXTENDS TokenCache

CONSTANTS
    RefreshThreshold,   \* _CREDENTIAL_REFRESH_THRESHOLD
    GetTimeout,         \* of GET /credentials
    RequestTimeout,     \* of an attempt of obstore, in _CLIENT_CONFIG
    RetryTimeout,       \* retry_timeout of _RETRY_CONFIG
    CredentialLifetime, \* what the service grants
    NoOne

\* The threshold is as long as an attempt may take, 5 minutes both.  That a
\* new credential lasts for longer is up to the service.
ASSUME CredentialAssumption ==
    /\ RefreshThreshold \in Nat /\ GetTimeout \in Nat
    /\ RequestTimeout \in Nat /\ RetryTimeout \in Nat
    /\ RequestTimeout <= RefreshThreshold
    /\ CredentialLifetime \subseteq Nat
    /\ \A life \in CredentialLifetime : life > RefreshThreshold + GetTimeout
    /\ NoOne \notin Caller

VARIABLES
    credential,     \* the one obstore holds
    fetching,       \* the worker for which the provider is called
    worker,         \* where each worker is with its request
    since,          \* when it sent the GET of a credential, or began its request
    attempt,        \* when it sent the attempt of its request under way
    held            \* the token it sends with the GET, then the credential

providerVars == <<credential, fetching, worker, since, attempt, held>>
credentialVars == <<tokenVars, providerVars>>

-----------------------------------------------------------------------------
CredentialsInit ==
    /\ TokenInit
    /\ credential = 0
    /\ fetching = NoOne
    /\ worker = [c \in Caller |-> "idle"]
    /\ since = [c \in Caller |-> 0]
    /\ attempt = [c \in Caller |-> 0]
    /\ held = [c \in Caller |-> 0]

\* The worker is at another place, since now, and holds a token or credential.
Turn(c, place, what) ==
    /\ worker' = [worker EXCEPT ![c] = place]
    /\ since' = [since EXCEPT ![c] = IF place \in {"get", "request"} THEN clock ELSE 0]
    /\ attempt' = [attempt EXCEPT ![c] = IF place = "request" THEN clock ELSE 0]
    /\ held' = [held EXCEPT ![c] = what]

\* Mutant of Reusable: any credential that has not expired is reused.
ReusableUntilExpired == clock < credential

\* "obstore only reuses a cached S3 credential while it has more than this
\* much life left"
Reusable == clock + RefreshThreshold < credential

\* A request to S3 is signed with the credential that obstore holds.
Reuse(c) ==
    /\ worker[c] = "idle"
    /\ fetching = NoOne
    /\ Reusable
    /\ Turn(c, "request", credential)
    /\ UNCHANGED <<tokenVars, credential, fetching>>

\* The provider is called; the other workers wait.
CallProvider(c) ==
    /\ worker[c] = "idle"
    /\ fetching = NoOne
    /\ ~Reusable
    /\ fetching' = c
    /\ Turn(c, "token", 0)
    /\ UNCHANGED <<tokenVars, credential>>

\* A step inside fetch_keycloak_token.
FetchToken(c) ==
    /\ worker[c] = "token"
    /\ Enter(c) \/ Discover(c) \/ ChooseGrant(c) \/ Send(c) \/ Grant(c)
    /\ UNCHANGED providerVars

\* It returns, and the GET of the credentials leaves with the token.
SendGet(c) ==
    /\ worker[c] = "token"
    /\ \/ ReturnCached(c) /\ Turn(c, "get", cache.access)
       \/ Receive(c) /\ Turn(c, "get", answer[c].access)
    /\ UNCHANGED <<credential, fetching>>

\* http_client repeats a GET that failed, with the same token.
ResendGet(c) ==
    /\ worker[c] = "get"
    /\ Turn(c, "get", held[c])
    /\ UNCHANGED <<tokenVars, credential, fetching>>

\* The service issues a credential for a token that is honoured still.  One
\* whose answer is lost is not kept by anybody.
Issue(c) ==
    /\ worker[c] = "get"
    /\ clock < held[c]
    /\ \E life \in CredentialLifetime :
          held' = [held EXCEPT ![c] = clock + life]
    /\ worker' = [worker EXCEPT ![c] = "issued"]
    /\ UNCHANGED <<tokenVars, credential, fetching, since, attempt>>

\* The provider returns in time after its last GET: the credential is kept,
\* and signs the request of the worker whatever is left of its life.
ReceiveCredential(c) ==
    /\ worker[c] = "issued"
    /\ clock <= since[c] + GetTimeout
    /\ credential' = held[c]
    /\ fetching' = NoOne
    /\ Turn(c, "request", held[c])
    /\ UNCHANGED tokenVars

\* The provider raises - in fetch_keycloak_token, or because the GET is
\* refused, fails every time or takes too long: the request fails, the
\* credential stays.
ProviderRaises(c) ==
    /\ \/ worker[c] = "token" /\ Fail(c)
       \/ worker[c] \in {"get", "issued"} /\ UNCHANGED tokenVars
    /\ fetching' = NoOne
    /\ Turn(c, "idle", 0)
    /\ UNCHANGED credential

\* An attempt fails: another may follow until retry_timeout is over.
AttemptFails(c) ==
    /\ worker[c] = "request"
    /\ clock <= since[c] + RetryTimeout
    /\ worker' = [worker EXCEPT ![c] = "waiting"]
    /\ attempt' = [attempt EXCEPT ![c] = 0]
    /\ UNCHANGED <<tokenVars, credential, fetching, since, held>>

\* The backoff is over: the request is sent again as it was signed.
Resend(c) ==
    /\ worker[c] = "waiting"
    /\ worker' = [worker EXCEPT ![c] = "request"]
    /\ attempt' = [attempt EXCEPT ![c] = clock]
    /\ UNCHANGED <<tokenVars, credential, fetching, since, held>>

\* The request ends, one way or another.
EndRequest(c) ==
    /\ worker[c] \in {"request", "waiting"}
    /\ Turn(c, "idle", 0)
    /\ UNCHANGED <<tokenVars, credential, fetching>>

\* Time passes, but not past the timeout of an attempt.
TimePasses ==
    /\ Tick
    /\ \A c \in Caller :
          worker[c] = "request" => clock < attempt[c] + RequestTimeout
    /\ UNCHANGED providerVars

CredentialsNext ==
    \/ TimePasses
    \/ \E c \in Caller :
          \/ Reuse(c)
          \/ CallProvider(c)
          \/ FetchToken(c)
          \/ SendGet(c)
          \/ ResendGet(c)
          \/ Issue(c)
          \/ ReceiveCredential(c)
          \/ ProviderRaises(c)
          \/ AttemptFails(c)
          \/ Resend(c)
          \/ EndRequest(c)

CredentialsSpec == CredentialsInit /\ [][CredentialsNext]_credentialVars

-----------------------------------------------------------------------------
(***************************************************************************)
(* Properties.                                                             *)
(***************************************************************************)
\* The first attempt of a request never outlives the credential it was signed
\* with, nor does a retry within the threshold: a reused credential lasts that
\* long because of the threshold, and a new one was not on its way for too
\* long.  A request that is retried for longer may be sent when its credential
\* has expired: retry_timeout is longer than the threshold.
SignedInTime ==
    \A c \in Caller :
        /\ worker[c] = "request"
        /\ attempt[c] = since[c] \/ clock <= since[c] + RefreshThreshold
        => clock < held[c]
=============================================================================
