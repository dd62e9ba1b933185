-------------------------- MODULE TokenCacheProofs --------------------------
(***************************************************************************)
(* Proofs about TokenCache, for every margin, every lifetime Keycloak may  *)
(* give and every bound of the clock.                                      *)
(***************************************************************************)
EXTENDS TokenCache, TLAPS

\* The instant a caller took for now is past.
NowIsPast == \A c \in Caller : now[c] <= clock

\* ExpiryConservative, of the answers on their way.
AnswersConservative ==
    \A c \in Caller : pc[c] = "answered" =>
        /\ now[c] + answer[c].expiresIn <= answer[c].access
        /\ now[c] + answer[c].refreshExpiresIn <= answer[c].refresh

\* The inductive invariant, for any number of callers.
TokenInv ==
    /\ TokenTypeOK
    /\ NowIsPast
    /\ AnswersConservative
    /\ ExpiryConservative

\* The invariant holds while the cache is empty.
LEMMA TokenInitInv == TokenInit => TokenInv
<1> SUFFICES ASSUME TokenInit PROVE TokenInv
  OBVIOUS
<1>1. TokenTypeOK
  BY ClockAssumption DEF TokenInit, TokenTypeOK, Cache, Position, Answer, NoAnswer
<1>2. NowIsPast /\ AnswersConservative /\ ExpiryConservative
  BY DEF TokenInit, NowIsPast, AnswersConservative, ExpiryConservative
<1> QED
  BY <1>1, <1>2 DEF TokenInv

\* A caller that leaves keeps the invariant, whatever it leaves in the cache
\* as long as that is conservative.
LEMMA LeaveInv ==
  ASSUME TokenInv, NEW c \in Caller, Leave(c), clock' = clock,
         cache' \in Cache,
         cache'.accessExpiresAt <= cache'.access,
         cache'.refreshExpiresAt <= cache'.refresh
  PROVE  TokenInv'
<1>1. /\ pc' \in [Caller -> Position]
      /\ now' \in [Caller -> 0..MaxClock]
      /\ sent' \in [Caller -> Nat]
      /\ answer' \in [Caller -> Answer]
  BY ClockAssumption
  DEF TokenInv, TokenTypeOK, Leave, Position, Answer, NoAnswer
<1>2. TokenTypeOK'
  BY <1>1 DEF TokenInv, TokenTypeOK
<1>3. NowIsPast'
  BY DEF TokenInv, TokenTypeOK, NowIsPast, Leave
<1>4. AnswersConservative'
  BY DEF TokenInv, TokenTypeOK, AnswersConservative, Leave, Position
<1>5. ExpiryConservative'
  BY DEF ExpiryConservative
<1> QED
  BY <1>2, <1>3, <1>4, <1>5 DEF TokenInv

\* Keycloak counts the lifetimes from an instant after the one the caller
\* will count them from.
LEMMA GrantInv ==
  ASSUME TokenInv, NEW c \in Caller, Grant(c)
  PROVE  TokenInv'
<1>1. PICK life \in Lifetime, refreshLife \in Lifetime :
        answer' = [answer EXCEPT ![c] =
                      [access |-> clock + life, expiresIn |-> life,
                       refresh |-> clock + refreshLife,
                       refreshExpiresIn |-> refreshLife]]
  BY DEF Grant
<1>2. life \in Nat /\ refreshLife \in Nat /\ clock \in Nat
  BY ClockAssumption DEF TokenInv, TokenTypeOK
<1>3. answer' \in [Caller -> Answer]
  BY <1>1, <1>2 DEF TokenInv, TokenTypeOK, Answer
<1>4. TokenTypeOK'
  BY <1>3 DEF TokenInv, TokenTypeOK, Grant, Position
<1>5. NowIsPast' /\ ExpiryConservative'
  BY DEF TokenInv, NowIsPast, ExpiryConservative, Grant
<1>6. AnswersConservative'
  <2> SUFFICES ASSUME NEW d \in Caller, pc'[d] = "answered"
               PROVE  /\ now'[d] + answer'[d].expiresIn <= answer'[d].access
                      /\ now'[d] + answer'[d].refreshExpiresIn
                            <= answer'[d].refresh
    BY DEF AnswersConservative
  <2>1. CASE d = c
    <3>1. now'[c] = now[c] /\ now[c] \in Nat /\ now[c] <= clock
      BY ClockAssumption DEF TokenInv, TokenTypeOK, NowIsPast, Grant
    <3>2. answer'[c] = [access |-> clock + life, expiresIn |-> life,
                        refresh |-> clock + refreshLife,
                        refreshExpiresIn |-> refreshLife]
      BY <1>1 DEF TokenInv, TokenTypeOK
    <3> QED
      BY <2>1, <3>1, <3>2, <1>2
  <2>2. CASE d # c
    BY <2>2, <1>1 DEF TokenInv, TokenTypeOK, AnswersConservative, Grant
  <2> QED
    BY <2>1, <2>2
<1> QED
  BY <1>4, <1>5, <1>6 DEF TokenInv

\* Every step keeps the invariant.
LEMMA TokenStepInv == TokenInv /\ [TokenNext]_tokenVars => TokenInv'
<1> SUFFICES ASSUME TokenInv, [TokenNext]_tokenVars PROVE TokenInv'
  OBVIOUS
<1>1. CASE Tick
  <2>1. TokenTypeOK'
    BY <1>1, ClockAssumption DEF TokenInv, TokenTypeOK, Tick
  <2>2. NowIsPast'
    BY <1>1, ClockAssumption DEF TokenInv, TokenTypeOK, NowIsPast, Tick
  <2>3. AnswersConservative' /\ ExpiryConservative'
    BY <1>1 DEF TokenInv, AnswersConservative, ExpiryConservative, Tick
  <2> QED
    BY <2>1, <2>2, <2>3 DEF TokenInv
<1>2. ASSUME NEW c \in Caller, Enter(c) PROVE TokenInv'
  <2>1. TokenTypeOK'
    BY <1>2 DEF TokenInv, TokenTypeOK, Enter, Position
  <2>2. NowIsPast'
    BY <1>2, ClockAssumption DEF TokenInv, TokenTypeOK, NowIsPast, Enter
  <2>3. AnswersConservative' /\ ExpiryConservative'
    BY <1>2
    DEF TokenInv, TokenTypeOK, AnswersConservative, ExpiryConservative, Enter
  <2> QED
    BY <2>1, <2>2, <2>3 DEF TokenInv
<1>3. ASSUME NEW c \in Caller,
             Discover(c) \/ ChooseGrant(c) \/ Send(c)
      PROVE  TokenInv'
  <2>1. /\ UNCHANGED <<clock, cache, now, answer>>
        /\ \E p \in Position \ {"answered"} : pc' = [pc EXCEPT ![c] = p]
    BY <1>3 DEF Discover, ChooseGrant, Send, Position
  <2>2. sent' \in [Caller -> Nat]
    BY <1>3 DEF TokenInv, TokenTypeOK, Cache, Discover, ChooseGrant, Send
  <2>3. TokenTypeOK'
    BY <2>1, <2>2 DEF TokenInv, TokenTypeOK
  <2>4. NowIsPast' /\ AnswersConservative' /\ ExpiryConservative'
    BY <2>1
    DEF TokenInv, TokenTypeOK, NowIsPast, AnswersConservative,
        ExpiryConservative
  <2> QED
    BY <2>3, <2>4 DEF TokenInv
<1>4. ASSUME NEW c \in Caller, ReturnCached(c) \/ Fail(c) PROVE TokenInv'
  <2>1. Leave(c) /\ UNCHANGED <<clock, cache>>
    BY <1>4 DEF ReturnCached, Fail
  <2> QED
    BY <2>1, LeaveInv DEF TokenInv, TokenTypeOK, ExpiryConservative
<1>5. ASSUME NEW c \in Caller, Grant(c) PROVE TokenInv'
  BY <1>5, GrantInv
<1>6. ASSUME NEW c \in Caller, Receive(c) PROVE TokenInv'
  <2>1. now[c] \in Nat /\ answer[c] \in Answer
    BY ClockAssumption DEF TokenInv, TokenTypeOK
  <2>2. cache' = [access |-> answer[c].access,
                  accessExpiresAt |-> now[c] + answer[c].expiresIn,
                  refresh |-> answer[c].refresh,
                  refreshExpiresAt |-> now[c] + answer[c].refreshExpiresIn]
    BY <1>6 DEF Receive
  <2>3. cache' \in Cache
    BY <2>1, <2>2 DEF Cache, Answer
  <2>4. /\ now[c] + answer[c].expiresIn <= answer[c].access
        /\ now[c] + answer[c].refreshExpiresIn <= answer[c].refresh
    BY <1>6 DEF TokenInv, AnswersConservative, Receive
  <2>5. /\ cache'.accessExpiresAt <= cache'.access
        /\ cache'.refreshExpiresAt <= cache'.refresh
    BY <2>2, <2>4
  <2>6. Leave(c) /\ clock' = clock
    BY <1>6 DEF Receive
  <2> QED
    BY <2>3, <2>5, <2>6, LeaveInv
<1>7. CASE UNCHANGED tokenVars
  BY <1>7
  DEF TokenInv, TokenTypeOK, NowIsPast, AnswersConservative,
      ExpiryConservative, tokenVars
<1> QED
  BY <1>1, <1>2, <1>3, <1>4, <1>5, <1>6, <1>7 DEF TokenNext

\* The invariant holds always.
THEOREM TokenInvariant == TokenSpec => []TokenInv
  BY TokenInitInv, TokenStepInv, PTL DEF TokenSpec

\* Type correctness of the token cache.
THEOREM TokenTypeCorrect == TokenSpec => []TokenTypeOK
<1>1. TokenInv => TokenTypeOK
  BY DEF TokenInv
<1> QED
  BY <1>1, TokenInvariant, PTL

\* The cache never believes in a token for longer than Keycloak does, with
\* any number of callers and requests of any duration.
THEOREM CacheConservative == TokenSpec => []ExpiryConservative
<1>1. TokenInv => ExpiryConservative
  BY DEF TokenInv
<1> QED
  BY <1>1, TokenInvariant, PTL

-----------------------------------------------------------------------------
(***************************************************************************)
(* A single caller: what it decided on is still in the cache.              *)
(***************************************************************************)
DecidedBy(c) ==
    /\ pc[c] = "hit" => now[c] + Margin < cache.accessExpiresAt
    /\ pc[c] = "refresh" => now[c] + Margin < cache.refreshExpiresAt
    /\ pc[c] = "sent" /\ sent[c] # 0 => now[c] + Margin < sent[c]

Decided == \A c \in Caller : DecidedBy(c)

\* The steps of one caller.
CallerStep(c) ==
    \/ Enter(c) \/ ReturnCached(c) \/ Discover(c) \/ ChooseGrant(c)
    \/ Send(c) \/ Grant(c) \/ Receive(c) \/ Fail(c)

\* Its own steps do not disturb what a caller decided on.
LEMMA OwnStepDecided ==
  ASSUME TokenInv, NEW c \in Caller, DecidedBy(c), CallerStep(c)
  PROVE  DecidedBy(c)'
<1>1. CASE Enter(c)
  BY <1>1 DEF Enter, TokenInv, TokenTypeOK, DecidedBy
<1>2. CASE Discover(c) \/ ChooseGrant(c)
  BY <1>2 DEF Discover, ChooseGrant, TokenInv, TokenTypeOK, DecidedBy
<1>3. CASE Send(c)
  <2>1. /\ pc'[c] = "sent"
        /\ sent'[c] # 0 => pc[c] = "refresh" /\ sent'[c] = cache.refresh
        /\ now' = now
    BY <1>3 DEF Send, TokenInv, TokenTypeOK
  <2>2. /\ cache.refreshExpiresAt \in Nat /\ cache.refresh \in Nat
        /\ now[c] + Margin \in Nat
        /\ cache.refreshExpiresAt <= cache.refresh
    BY ClockAssumption DEF TokenInv, TokenTypeOK, Cache, ExpiryConservative
  <2> QED
    BY <2>1, <2>2 DEF DecidedBy
<1>4. CASE Grant(c)
  BY <1>4 DEF Grant, TokenInv, TokenTypeOK, DecidedBy
<1>5. CASE ReturnCached(c) \/ Receive(c) \/ Fail(c)
  BY <1>5 DEF ReturnCached, Receive, Fail, Leave, TokenInv, TokenTypeOK, DecidedBy
<1> QED
  BY <1>1, <1>2, <1>3, <1>4, <1>5 DEF CallerStep

\* Only its own steps disturb what a single caller decided on.
LEMMA DecidedStep ==
  ASSUME \A c, d \in Caller : c = d,
         TokenInv, Decided, [TokenNext]_tokenVars
  PROVE  Decided'
<1> SUFFICES ASSUME NEW c \in Caller PROVE DecidedBy(c)'
  BY DEF Decided
<1>1. CASE UNCHANGED <<pc, now, cache, sent>>
  BY <1>1 DEF Decided, DecidedBy
<1>2. CASE CallerStep(c)
  BY <1>2, OwnStepDecided DEF Decided
<1> QED
  BY <1>1, <1>2 DEF TokenNext, CallerStep, Tick, tokenVars

\* A single caller decided on nothing that has expired.
LEMMA DecidedAlways ==
  ASSUME \A c, d \in Caller : c = d
  PROVE  TokenSpec => []Decided
<1>1. TokenInit => Decided
  BY DEF TokenInit, Decided, DecidedBy
<1>2. TokenInv /\ Decided /\ [TokenNext]_tokenVars => Decided'
  BY DecidedStep
<1> QED
  BY <1>1, <1>2, TokenInvariant, PTL DEF TokenSpec

\* What was decided on is still honoured within the margin.
LEMMA DecidedFresh == TokenInv /\ Decided => HitsAreFresh /\ RefreshIsFresh
<1> SUFFICES ASSUME TokenInv, Decided, NEW c \in Caller, clock <= now[c] + Margin
             PROVE  /\ pc[c] = "hit" => clock < cache.access
                    /\ pc[c] = "sent" /\ sent[c] # 0 => clock < sent[c]
  BY DEF HitsAreFresh, RefreshIsFresh
<1>1. /\ clock \in Nat /\ now[c] + Margin \in Nat /\ sent[c] \in Nat
      /\ cache.access \in Nat /\ cache.accessExpiresAt \in Nat
      /\ cache.accessExpiresAt <= cache.access
  BY ClockAssumption DEF TokenInv, TokenTypeOK, Cache, ExpiryConservative
<1> QED
  BY <1>1 DEF Decided, DecidedBy

\* A single caller that does not linger returns an access token from the
\* cache that is still honoured.
THEOREM HitsFresh ==
  ASSUME \A c, d \in Caller : c = d
  PROVE  TokenSpec => []HitsAreFresh
  BY DecidedFresh, TokenInvariant, DecidedAlways, PTL

\* A single caller sends no refresh token that is past its time, unless its
\* discovery request took longer than the margin.
THEOREM RefreshesFresh ==
  ASSUME \A c, d \in Caller : c = d
  PROVE  TokenSpec => []RefreshIsFresh
  BY DecidedFresh, TokenInvariant, DecidedAlways, PTL
=============================================================================
