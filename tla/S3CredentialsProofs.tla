------------------------ MODULE S3CredentialsProofs -------------------------
(***************************************************************************)
(* Proofs about S3Credentials, for any number of workers, any lifetimes    *)
(* and timeouts that fit the threshold, and every bound of the clock.      *)
(***************************************************************************)
EXTENDS S3Credentials, TokenCacheProofs

\* The provider is called for the worker that waits for it, and no other is
\* in fetch_keycloak_token.
OneAtATime ==
    \A c \in Caller :
        /\ worker[c] \in {"token", "get", "issued"} => fetching = c
        /\ pc[c] # "idle" => worker[c] = "token"

\* A credential on its way outlives the longest GET and the threshold after
\* it; a request has had a credential for the threshold when it began, and its
\* first attempt takes no longer than that.
HeldLongEnough ==
    \A c \in Caller :
        /\ since[c] <= clock
        /\ worker[c] = "issued" =>
              since[c] + GetTimeout + RefreshThreshold < held[c]
        /\ worker[c] \in {"request", "waiting"} =>
              since[c] + RefreshThreshold < held[c]
        /\ worker[c] = "request" => clock <= attempt[c] + RequestTimeout

Place == {"idle", "token", "get", "issued", "request", "waiting"}

ProviderTypeOK ==
    /\ credential \in Nat
    /\ worker \in [Caller -> Place]
    /\ since \in [Caller -> Nat]
    /\ attempt \in [Caller -> Nat]
    /\ held \in [Caller -> Nat]

\* The inductive invariant.
ProviderInv == ProviderTypeOK /\ OneAtATime /\ HeldLongEnough

-----------------------------------------------------------------------------
(***************************************************************************)
(* The provider uses the token cache as TokenCache describes it.           *)
(***************************************************************************)
\* A step of the provider and the workers is one of the token cache, or
\* leaves it alone.
LEMMA StepIsTokenStep == [CredentialsNext]_credentialVars => [TokenNext]_tokenVars
<1> SUFFICES ASSUME [CredentialsNext]_credentialVars PROVE [TokenNext]_tokenVars
  OBVIOUS
<1>1. CASE TimePasses
  BY <1>1 DEF TimePasses, TokenNext
<1>2. ASSUME NEW c \in Caller, Reuse(c) \/ CallProvider(c) \/ Issue(c)
                               \/ ResendGet(c) \/ ReceiveCredential(c)
                               \/ AttemptFails(c) \/ Resend(c) \/ EndRequest(c)
      PROVE  UNCHANGED tokenVars
  BY <1>2 DEF Reuse, CallProvider, Issue, ResendGet, ReceiveCredential,
              AttemptFails, Resend, EndRequest
<1>3. ASSUME NEW c \in Caller, FetchToken(c) \/ SendGet(c) \/ ProviderRaises(c)
      PROVE  [TokenNext]_tokenVars
  BY <1>3 DEF FetchToken, SendGet, ProviderRaises, TokenNext
<1>4. CASE UNCHANGED credentialVars
  BY <1>4 DEF credentialVars
<1> QED
  BY <1>1, <1>2, <1>3, <1>4 DEF CredentialsNext

\* What holds of the token cache for callers of any kind holds for the
\* provider: S3Credentials implements TokenCache.
THEOREM ProviderUsesTokenCache == CredentialsSpec => TokenSpec
<1>1. CredentialsInit => TokenInit
  BY DEF CredentialsInit
<1> QED
  BY <1>1, StepIsTokenStep, PTL DEF CredentialsSpec, TokenSpec

-----------------------------------------------------------------------------
(***************************************************************************)
(* The inductive invariant.                                                *)
(***************************************************************************)
\* It holds before the first request.
LEMMA ProviderInitInv == CredentialsInit => ProviderInv
  BY CredentialAssumption
  DEF CredentialsInit, TokenInit, ProviderInv, ProviderTypeOK, OneAtATime,
      HeldLongEnough, Place

\* A worker that turns to another place keeps the types.
LEMMA TurnTypes ==
  ASSUME TokenTypeOK, ProviderTypeOK, NEW c \in Caller,
         NEW place \in Place,
         NEW what \in Nat, Turn(c, place, what), credential' \in Nat
  PROVE  ProviderTypeOK'
<1>1. clock \in Nat
  BY ClockAssumption DEF TokenTypeOK
<1>2. worker' \in [Caller -> Place] /\ held' \in [Caller -> Nat]
  BY DEF ProviderTypeOK, Turn
<1>3. since' \in [Caller -> Nat]
  BY <1>1 DEF ProviderTypeOK, Turn
<1>4. attempt' \in [Caller -> Nat]
  BY <1>1 DEF ProviderTypeOK, Turn
<1> QED
  BY <1>2, <1>3, <1>4 DEF ProviderTypeOK

\* Every step keeps it, the clock and the token cache being as TokenInv says.
LEMMA ProviderStepInv ==
  ASSUME TokenInv, ProviderInv, [CredentialsNext]_credentialVars
  PROVE  ProviderInv'
<1>0. /\ clock \in Nat /\ cache.access \in Nat
      /\ \A c \in Caller : answer[c].access \in Nat
      /\ pc \in [Caller -> Position]
      /\ TokenTypeOK
  BY ClockAssumption DEF TokenInv, TokenTypeOK, Cache, Answer
<1> USE DEF ProviderInv, Place
<1>1. CASE TimePasses
  <2>1. clock' = clock + 1 /\ UNCHANGED <<pc, providerVars>>
    BY <1>1 DEF TimePasses, Tick
  <2>2. ProviderTypeOK' /\ OneAtATime'
    BY <2>1 DEF ProviderTypeOK, OneAtATime, providerVars
  <2>3. \A c \in Caller :
           worker[c] = "request" => clock < attempt[c] + RequestTimeout
    BY <1>1 DEF TimePasses
  <2>4. HeldLongEnough'
    BY <1>0, <2>1, <2>3, CredentialAssumption
    DEF ProviderTypeOK, HeldLongEnough, providerVars
  <2> QED
    BY <2>2, <2>4
<1>2. ASSUME NEW c \in Caller, Reuse(c) PROVE ProviderInv'
  <2>1. ProviderTypeOK'
    BY <1>0, <1>2, TurnTypes DEF Reuse, ProviderTypeOK
  <2>2. OneAtATime'
    BY <1>2 DEF Reuse, Turn, OneAtATime, ProviderTypeOK, tokenVars
  <2>3. since[c]' = clock /\ attempt[c]' = clock /\ held[c]' = credential
        /\ clock + RefreshThreshold < credential
    BY <1>0, <1>2, CredentialAssumption DEF Reuse, Reusable, Turn, ProviderTypeOK
  <2>4. HeldLongEnough'
    BY <1>0, <1>2, <2>3, CredentialAssumption
    DEF Reuse, Turn, HeldLongEnough, ProviderTypeOK, tokenVars
  <2> QED
    BY <2>1, <2>2, <2>4
<1>3. ASSUME NEW c \in Caller, CallProvider(c) PROVE ProviderInv'
  <2>1. ProviderTypeOK'
    BY <1>0, <1>3, TurnTypes DEF CallProvider, ProviderTypeOK
  <2>2. OneAtATime'
    BY <1>3, CredentialAssumption
    DEF CallProvider, Turn, OneAtATime, ProviderTypeOK, tokenVars
  <2>3. HeldLongEnough'
    BY <1>0, <1>3 DEF CallProvider, Turn, HeldLongEnough, ProviderTypeOK, tokenVars
  <2> QED
    BY <2>1, <2>2, <2>3
<1>4. ASSUME NEW c \in Caller, FetchToken(c) PROVE ProviderInv'
  <2>1. /\ worker[c] = "token" /\ clock' = clock /\ UNCHANGED providerVars
        /\ \A d \in Caller : d # c => pc'[d] = pc[d]
    BY <1>0, <1>4 DEF FetchToken, Enter, Discover, ChooseGrant, Send, Grant
  <2> QED
    BY <2>1 DEF ProviderTypeOK, OneAtATime, HeldLongEnough, providerVars
<1>5. ASSUME NEW c \in Caller, SendGet(c) PROVE ProviderInv'
  <2>1. PICK token \in Nat : Turn(c, "get", token)
    BY <1>0, <1>5 DEF SendGet
  <2>2. /\ worker[c] = "token" /\ clock' = clock
        /\ UNCHANGED <<credential, fetching>>
        /\ pc' = [pc EXCEPT ![c] = "idle"]
    BY <1>5 DEF SendGet, ReturnCached, Receive, Leave
  <2>3. ProviderTypeOK'
    BY <1>0, <2>1, <2>2, TurnTypes DEF ProviderTypeOK
  <2>4. OneAtATime'
    BY <1>0, <2>1, <2>2 DEF Turn, OneAtATime, ProviderTypeOK
  <2>5. HeldLongEnough'
    BY <1>0, <2>1, <2>2 DEF Turn, HeldLongEnough, ProviderTypeOK
  <2> QED
    BY <2>3, <2>4, <2>5
<1>6. ASSUME NEW c \in Caller, Issue(c) PROVE ProviderInv'
  <2>1. PICK life \in CredentialLifetime :
          held' = [held EXCEPT ![c] = clock + life]
    BY <1>6 DEF Issue
  <2>2. life \in Nat /\ life > RefreshThreshold + GetTimeout
    BY CredentialAssumption
  <2>3. /\ worker[c] = "get" /\ worker' = [worker EXCEPT ![c] = "issued"]
        /\ UNCHANGED <<clock, pc, credential, fetching, since, attempt>>
    BY <1>6 DEF Issue, tokenVars
  <2>4. ProviderTypeOK'
    BY <1>0, <2>1, <2>2, <2>3 DEF ProviderTypeOK
  <2>5. OneAtATime'
    BY <2>3 DEF OneAtATime, ProviderTypeOK
  <2>6. since[c] + GetTimeout + RefreshThreshold < clock + life
    BY <1>0, <2>2, CredentialAssumption DEF HeldLongEnough, ProviderTypeOK
  <2>7. HeldLongEnough'
    BY <2>1, <2>3, <2>6 DEF HeldLongEnough, ProviderTypeOK
  <2> QED
    BY <2>4, <2>5, <2>7
<1>7. ASSUME NEW c \in Caller, ReceiveCredential(c) PROVE ProviderInv'
  <2>1. /\ worker[c] = "issued" /\ clock <= since[c] + GetTimeout
        /\ credential' = held[c] /\ fetching' = NoOne
        /\ Turn(c, "request", held[c]) /\ UNCHANGED <<clock, pc>>
    BY <1>7 DEF ReceiveCredential, tokenVars
  <2>2. ProviderTypeOK'
    BY <1>0, <2>1, TurnTypes DEF ProviderTypeOK
  <2>3. OneAtATime'
    BY <2>1, CredentialAssumption DEF Turn, OneAtATime, ProviderTypeOK
  <2>4. clock + RefreshThreshold < held[c]
    BY <1>0, <2>1, CredentialAssumption DEF HeldLongEnough, ProviderTypeOK
  <2>5. HeldLongEnough'
    BY <1>0, <2>1, <2>4, CredentialAssumption
    DEF Turn, HeldLongEnough, ProviderTypeOK
  <2> QED
    BY <2>2, <2>3, <2>5
<1>8. ASSUME NEW c \in Caller, ProviderRaises(c) PROVE ProviderInv'
  <2>1. /\ worker[c] \in {"token", "get", "issued"} /\ clock' = clock
        /\ credential' = credential /\ fetching' = NoOne /\ Turn(c, "idle", 0)
        /\ \/ pc' = [pc EXCEPT ![c] = "idle"]
           \/ worker[c] # "token" /\ pc' = pc
    BY <1>8 DEF ProviderRaises, Fail, Leave, tokenVars
  <2>2. ProviderTypeOK'
    BY <1>0, <2>1, TurnTypes DEF ProviderTypeOK
  <2>3. OneAtATime'
    BY <1>0, <2>1, CredentialAssumption DEF Turn, OneAtATime, ProviderTypeOK
  <2>4. HeldLongEnough'
    BY <1>0, <2>1 DEF Turn, HeldLongEnough, ProviderTypeOK
  <2> QED
    BY <2>2, <2>3, <2>4
<1>9. ASSUME NEW c \in Caller, EndRequest(c) PROVE ProviderInv'
  <2>1. /\ worker[c] \in {"request", "waiting"} /\ Turn(c, "idle", 0)
        /\ UNCHANGED <<clock, pc, credential, fetching>>
    BY <1>9 DEF EndRequest, tokenVars
  <2>2. ProviderTypeOK'
    BY <1>0, <2>1, TurnTypes DEF ProviderTypeOK
  <2>3. OneAtATime' /\ HeldLongEnough'
    BY <1>0, <2>1 DEF Turn, OneAtATime, HeldLongEnough, ProviderTypeOK
  <2> QED
    BY <2>2, <2>3
<1>10. ASSUME NEW c \in Caller, ResendGet(c) PROVE ProviderInv'
  <2>1. /\ worker[c] = "get" /\ Turn(c, "get", held[c])
        /\ UNCHANGED <<clock, pc, credential, fetching>>
    BY <1>10 DEF ResendGet, tokenVars
  <2>2. ProviderTypeOK'
    BY <1>0, <2>1, TurnTypes DEF ProviderTypeOK
  <2>3. OneAtATime' /\ HeldLongEnough'
    BY <1>0, <2>1 DEF Turn, OneAtATime, HeldLongEnough, ProviderTypeOK
  <2> QED
    BY <2>2, <2>3
<1>11. ASSUME NEW c \in Caller, AttemptFails(c) PROVE ProviderInv'
  <2>1. /\ worker[c] = "request" /\ worker' = [worker EXCEPT ![c] = "waiting"]
        /\ attempt' = [attempt EXCEPT ![c] = 0]
        /\ UNCHANGED <<clock, pc, credential, fetching, since, held>>
    BY <1>11 DEF AttemptFails, tokenVars
  <2> QED
    BY <1>0, <2>1 DEF OneAtATime, HeldLongEnough, ProviderTypeOK
<1>12. ASSUME NEW c \in Caller, Resend(c) PROVE ProviderInv'
  <2>1. /\ worker[c] = "waiting" /\ worker' = [worker EXCEPT ![c] = "request"]
        /\ attempt' = [attempt EXCEPT ![c] = clock]
        /\ UNCHANGED <<clock, pc, credential, fetching, since, held>>
    BY <1>12 DEF Resend, tokenVars
  <2> QED
    BY <1>0, <2>1, CredentialAssumption
    DEF OneAtATime, HeldLongEnough, ProviderTypeOK
<1>13. CASE UNCHANGED credentialVars
  BY <1>13
  DEF ProviderTypeOK, OneAtATime, HeldLongEnough, credentialVars, providerVars,
      tokenVars
<1> QED
  BY <1>1, <1>2, <1>3, <1>4, <1>5, <1>6, <1>7, <1>8, <1>9, <1>10, <1>11,
     <1>12, <1>13
  DEF CredentialsNext

\* The invariant holds always.
LEMMA ProviderInvariant == CredentialsSpec => [](TokenInv /\ ProviderInv)
<1>1. TokenInv /\ ProviderInv /\ [CredentialsNext]_credentialVars => ProviderInv'
  BY ProviderStepInv
<1> QED
  BY <1>1, ProviderInitInv, ProviderUsesTokenCache, TokenInvariant, PTL
  DEF CredentialsSpec

\* The first attempt of a request never outlives the credential that signs it,
\* nor does any attempt within the threshold, whatever the retry_timeout.
THEOREM RequestsSignedInTime == CredentialsSpec => []SignedInTime
<1>1. TokenInv /\ ProviderInv => SignedInTime
  <2> SUFFICES ASSUME TokenInv, ProviderInv, NEW c \in Caller,
                      worker[c] = "request",
                      \/ attempt[c] = since[c]
                      \/ clock <= since[c] + RefreshThreshold
               PROVE  clock < held[c]
    BY DEF SignedInTime
  <2>1. /\ clock \in Nat /\ since[c] \in Nat /\ held[c] \in Nat
        /\ attempt[c] \in Nat
    BY ClockAssumption DEF TokenInv, TokenTypeOK, ProviderInv, ProviderTypeOK
  <2>2. /\ since[c] + RefreshThreshold < held[c]
        /\ clock <= attempt[c] + RequestTimeout
    BY DEF ProviderInv, HeldLongEnough
  <2> QED
    BY <2>1, <2>2, CredentialAssumption
<1> QED
  BY <1>1, ProviderInvariant, PTL

-----------------------------------------------------------------------------
(***************************************************************************)
(* The lock of obstore makes any number of workers as good as one caller.  *)
(***************************************************************************)
\* No worker takes a step in fetch_keycloak_token while another is there.
LEMMA LockedStep ==
  ASSUME TokenInv, ProviderInv, NEW c \in Caller, NEW d \in Caller, d # c,
         CallerStep(c), worker[c] = "token"
  PROVE  pc'[d] = "idle"
<1>1. pc[d] = "idle"
  BY DEF ProviderInv, OneAtATime
<1>2. pc'[d] = pc[d]
  BY DEF CallerStep, Enter, ReturnCached, Discover, ChooseGrant, Send, Grant,
         Receive, Fail, Leave, TokenInv, TokenTypeOK
<1> QED
  BY <1>1, <1>2

\* So what each worker decided on stays in the cache.
LEMMA LockedDecidedStep ==
  ASSUME TokenInv, ProviderInv, Decided, [CredentialsNext]_credentialVars
  PROVE  Decided'
<1>1. CASE UNCHANGED <<pc, now, cache, sent>>
  BY <1>1 DEF Decided, DecidedBy
<1>2. ASSUME NEW c \in Caller, CallerStep(c), worker[c] = "token" PROVE Decided'
  <2> SUFFICES ASSUME NEW d \in Caller PROVE DecidedBy(d)'
    BY DEF Decided
  <2>1. CASE d = c
    BY <1>2, <2>1, OwnStepDecided DEF Decided
  <2>2. CASE d # c
    BY <1>2, <2>2, LockedStep DEF DecidedBy
  <2> QED
    BY <2>1, <2>2
<1>3. ASSUME NEW c \in Caller, FetchToken(c) \/ SendGet(c) \/ ProviderRaises(c)
      PROVE  Decided'
  <2>1. \/ CallerStep(c) /\ worker[c] = "token"
        \/ UNCHANGED tokenVars
    BY <1>3 DEF FetchToken, SendGet, ProviderRaises, CallerStep
  <2> QED
    BY <2>1, <1>1, <1>2 DEF tokenVars
<1>4. ASSUME NEW c \in Caller, Reuse(c) \/ CallProvider(c) \/ Issue(c)
                               \/ ResendGet(c) \/ ReceiveCredential(c)
                               \/ AttemptFails(c) \/ Resend(c) \/ EndRequest(c)
      PROVE  Decided'
  BY <1>1, <1>4
  DEF Reuse, CallProvider, Issue, ResendGet, ReceiveCredential, AttemptFails,
      Resend, EndRequest, tokenVars
<1>5. CASE TimePasses \/ UNCHANGED credentialVars
  BY <1>1, <1>5 DEF TimePasses, Tick, credentialVars, tokenVars
<1> QED
  BY <1>3, <1>4, <1>5 DEF CredentialsNext

\* It holds always.
LEMMA LockedDecided == CredentialsSpec => []Decided
<1>1. CredentialsInit => Decided
  BY DEF CredentialsInit, TokenInit, Decided, DecidedBy
<1>2. /\ TokenInv /\ ProviderInv /\ Decided /\ [CredentialsNext]_credentialVars
      => Decided'
  BY LockedDecidedStep
<1> QED
  BY <1>1, <1>2, ProviderInvariant, PTL DEF CredentialsSpec

\* Any number of workers, each of which gets a token from the cache that is
\* still honoured unless it lingered.
THEOREM WorkersHitsFresh == CredentialsSpec => []HitsAreFresh
  BY LockedDecided, ProviderInvariant, DecidedFresh, PTL

\* And none sends a refresh token past its time after a quick discovery.
THEOREM WorkersRefreshesFresh == CredentialsSpec => []RefreshIsFresh
  BY LockedDecided, ProviderInvariant, DecidedFresh, PTL

\* With workers behind the lock, too, the cache never believes in a token for
\* longer than Keycloak does.
THEOREM WorkersCacheConservative == CredentialsSpec => []ExpiryConservative
  BY ProviderUsesTokenCache, CacheConservative, PTL
=============================================================================
