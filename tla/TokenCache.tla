----------------------------- MODULE TokenCache -----------------------------
(***************************************************************************)
(* fetch_keycloak_token of copernicusmarine_delivery/auth: the callers of  *)
(* one process - the thread of each call of the toolbox, and obstore when  *)
(* it asks for S3 credentials - share _token_cache without a lock.         *)
(*                                                                         *)
(* A token is named by the instant until which Keycloak honours it, 0 is   *)
(* no token.  Keycloak is external: it may refuse any request, and the     *)
(* lifetimes it gives may differ from one answer to the next.  time.time() *)
(* is taken to go forward, at any pace: the requests have no timeout.      *)
(***************************************************************************)
EXTENDS Naturals

CONSTANTS
    Caller,
    Margin,         \* the 30 seconds a token must last when it is reused
    Lifetime,       \* the values of expires_in and refresh_expires_in
    MaxClock        \* bound of the clock

ASSUME ClockAssumption ==
    /\ Margin \in Nat
    /\ Lifetime \subseteq Nat
    /\ MaxClock \in Nat

VARIABLES
    clock,
    cache,          \* _token_cache, all 0 while it is empty
    pc,             \* where each caller is in fetch_keycloak_token
    now,            \* its local variable now
    sent,           \* the refresh token it sent, 0 for the password
    answer          \* the token response on its way to it

tokenVars == <<clock, cache, pc, now, sent, answer>>

-----------------------------------------------------------------------------
Position == {"idle", "hit", "miss", "discovered", "refresh", "password",
             "sent", "answered"}

Cache == [access : Nat, accessExpiresAt : Nat,
          refresh : Nat, refreshExpiresAt : Nat]

Answer == [access : Nat, expiresIn : Nat, refresh : Nat, refreshExpiresIn : Nat]

NoAnswer == [access |-> 0, expiresIn |-> 0, refresh |-> 0, refreshExpiresIn |-> 0]

TokenTypeOK ==
    /\ clock \in 0..MaxClock
    /\ cache \in Cache
    /\ pc \in [Caller -> Position]
    /\ now \in [Caller -> 0..MaxClock]
    /\ sent \in [Caller -> Nat]
    /\ answer \in [Caller -> Answer]

TokenInit ==
    /\ clock = 0
    /\ cache = [access |-> 0, accessExpiresAt |-> 0,
                refresh |-> 0, refreshExpiresAt |-> 0]
    /\ pc = [c \in Caller |-> "idle"]
    /\ now = [c \in Caller |-> 0]
    /\ sent = [c \in Caller |-> 0]
    /\ answer = [c \in Caller |-> NoAnswer]

\* The call is over: its local variables are gone.
Leave(c) ==
    /\ pc' = [pc EXCEPT ![c] = "idle"]
    /\ now' = [now EXCEPT ![c] = 0]
    /\ sent' = [sent EXCEPT ![c] = 0]
    /\ answer' = [answer EXCEPT ![c] = NoAnswer]

Tick ==
    /\ clock < MaxClock
    /\ clock' = clock + 1
    /\ UNCHANGED <<cache, pc, now, sent, answer>>

\* Mutant of Enter: the margin is forgotten.
EnterWithoutMargin(c) ==
    /\ pc[c] = "idle"
    /\ now' = [now EXCEPT ![c] = clock]
    /\ pc' = [pc EXCEPT ![c] = IF clock < cache.accessExpiresAt
                               THEN "hit" ELSE "miss"]
    /\ UNCHANGED <<clock, cache, sent, answer>>

\* The clock is read once, and the cached access token is considered.
Enter(c) ==
    /\ pc[c] = "idle"
    /\ now' = [now EXCEPT ![c] = clock]
    /\ pc' = [pc EXCEPT ![c] = IF clock + Margin < cache.accessExpiresAt
                               THEN "hit" ELSE "miss"]
    /\ UNCHANGED <<clock, cache, sent, answer>>

\* return _token_cache["access_token"]: read again, after the check.
ReturnCached(c) ==
    /\ pc[c] = "hit"
    /\ Leave(c)
    /\ UNCHANGED <<clock, cache>>

\* The GET of the OIDC discovery document.
Discover(c) ==
    /\ pc[c] = "miss"
    /\ pc' = [pc EXCEPT ![c] = "discovered"]
    /\ UNCHANGED <<clock, cache, now, sent, answer>>

\* Mutant of ChooseGrant: the refresh token is trusted to its last second.
ChooseGrantWithoutMargin(c) ==
    /\ pc[c] = "discovered"
    /\ pc' = [pc EXCEPT ![c] = IF now[c] < cache.refreshExpiresAt
                               THEN "refresh" ELSE "password"]
    /\ UNCHANGED <<clock, cache, now, sent, answer>>

\* The refresh token is judged by the clock read before the discovery.
ChooseGrant(c) ==
    /\ pc[c] = "discovered"
    /\ pc' = [pc EXCEPT ![c] = IF now[c] + Margin < cache.refreshExpiresAt
                               THEN "refresh" ELSE "password"]
    /\ UNCHANGED <<clock, cache, now, sent, answer>>

\* The POST to the token endpoint, with what the cache holds by now.
Send(c) ==
    /\ pc[c] \in {"refresh", "password"}
    /\ pc' = [pc EXCEPT ![c] = "sent"]
    /\ sent' = [sent EXCEPT ![c] = IF pc[c] = "refresh" THEN cache.refresh ELSE 0]
    /\ UNCHANGED <<clock, cache, now, answer>>

\* Keycloak grants tokens; a refresh token has to be honoured still.
Grant(c) ==
    /\ pc[c] = "sent"
    /\ sent[c] # 0 => clock < sent[c]
    /\ pc' = [pc EXCEPT ![c] = "answered"]
    /\ \E life, refreshLife \in Lifetime :
          answer' = [answer EXCEPT ![c] =
                        [access |-> clock + life, expiresIn |-> life,
                         refresh |-> clock + refreshLife,
                         refreshExpiresIn |-> refreshLife]]
    /\ UNCHANGED <<clock, cache, now, sent>>

\* Mutant of Receive: lifetimes are counted from the arrival of the answer.
ReceiveFromArrival(c) ==
    /\ pc[c] = "answered"
    /\ cache' = [access |-> answer[c].access,
                 accessExpiresAt |-> clock + answer[c].expiresIn,
                 refresh |-> answer[c].refresh,
                 refreshExpiresAt |-> clock + answer[c].refreshExpiresIn]
    /\ Leave(c)
    /\ UNCHANGED clock

\* Mutant of Receive: the answer is kept as it came, without the instants at
\* which its tokens expire.
ReceiveAsItCame(c) ==
    /\ pc[c] = "answered"
    /\ cache' = answer[c]
    /\ Leave(c)
    /\ UNCHANGED clock

\* The answer arrives: _token_cache.update, and its access token is returned.
Receive(c) ==
    /\ pc[c] = "answered"
    /\ cache' = [access |-> answer[c].access,
                 accessExpiresAt |-> now[c] + answer[c].expiresIn,
                 refresh |-> answer[c].refresh,
                 refreshExpiresAt |-> now[c] + answer[c].refreshExpiresIn]
    /\ Leave(c)
    /\ UNCHANGED clock

\* A request fails, Keycloak refuses it (AuthenticationError), the answer is
\* lost or incomplete, or no password is set: the cache stays as it is.
Fail(c) ==
    /\ pc[c] \in {"miss", "password", "sent", "answered"}
    /\ Leave(c)
    /\ UNCHANGED <<clock, cache>>

TokenNext ==
    \/ Tick
    \/ \E c \in Caller :
          \/ Enter(c)
          \/ ReturnCached(c)
          \/ Discover(c)
          \/ ChooseGrant(c)
          \/ Send(c)
          \/ Grant(c)
          \/ Receive(c)
          \/ Fail(c)

TokenSpec == TokenInit /\ [][TokenNext]_tokenVars

-----------------------------------------------------------------------------
(***************************************************************************)
(* Properties.                                                             *)
(***************************************************************************)
\* The cache never believes in a token for longer than Keycloak does, however
\* slow the requests are and whichever caller's answer was stored last: the
\* clock of the expiry was read before the request was made.
ExpiryConservative ==
    /\ cache.accessExpiresAt <= cache.access
    /\ cache.refreshExpiresAt <= cache.refresh

\* A caller that does not linger between the check and the return gets a
\* token that is still honoured.  It takes a caller who is alone: the answer
\* of another may replace the token that was checked by an older one.
HitsAreFresh ==
    \A c \in Caller :
        pc[c] = "hit" /\ clock <= now[c] + Margin => clock < cache.access

\* A refresh token is not sent any more once it is past its time, unless the
\* discovery took longer than the margin: so a refresh token that Keycloak
\* has revoked keeps the user out no longer than its own lifetime.
RefreshIsFresh ==
    \A c \in Caller :
        pc[c] = "sent" /\ sent[c] # 0 /\ clock <= now[c] + Margin =>
            clock < sent[c]
=============================================================================
