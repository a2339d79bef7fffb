---------------------------- MODULE ProviderAccess ----------------------------
(***************************************************************************)
(* How goroutines of the connector call the polling provider: requests     *)
(* with retries (alphasense.Client.do over reliability.Do), all of them    *)
(* with the one token that oauth.Manager caches, refreshes ahead of its    *)
(* expiry and drops on a 401. The manager's mutex is held across the token *)
(* request. Requests take time, up to the HTTP client's timeout; the       *)
(* provider revokes tokens and rejects grants when it likes.               *)
(***************************************************************************)
EXTENDS Naturals

CONSTANTS
  Callers,        \* goroutines: the poller, dispatches of commands
  NoCaller,
  Attempts,       \* of a provider request (DefaultPolicy: 5)
  GrantAttempts,  \* of a token request (3)
  Lifetime,       \* expires_in of the provider's tokens
  Skew,           \* expirySkew (30 s)
  Timeout,        \* of both HTTP clients (10 s)
  MaxTime, MaxTokens, MaxRevocations   \* bounds of the model

ASSUME AccessAssumption ==
  /\ NoCaller \notin Callers
  /\ Attempts \in Nat \ {0} /\ GrantAttempts \in Nat \ {0}
  /\ Lifetime \in Nat /\ Skew \in Nat /\ Timeout \in Nat \ {0}
  /\ Lifetime > Skew /\ Skew >= 2 * Timeout
  /\ MaxTime \in Nat \ {0} /\ MaxTokens \in Nat \ {0} /\ MaxRevocations \in Nat

VARIABLES
  now,
  cache,       \* Manager.token
  holder,      \* the goroutine that holds Manager.mu
  call,        \* call[c]: the provider request of goroutine c
  issued,      \* tokens are numbered 1..issued in the order they are issued
  life,        \* life[k]: when token k dies at the provider
  revoked,     \* tokens the provider has revoked
  revocations,
  grants,      \* how many tokens the manager has stored
  drops        \* how many Invalidate calls have dropped one

vars == <<now, cache, holder, call, issued, life, revoked, revocations, grants, drops>>
provider == <<issued, life, revoked, revocations>>

Tokens  == 1..MaxTokens
NoToken == 0
Empty   == [id |-> NoToken, expiry |-> 0]

\* pc: "auth" wants the manager's mutex for AccessToken, "grant" has a token
\* request on the wire and "granted" its response, "pause" sleeps between two
\* token requests; "request" has the provider request on the wire; "drop" was
\* answered 401 and is on its way to the mutex for Invalidate; "backoff" sleeps
\* between two attempts.
Call == [pc: {"done", "auth", "grant", "granted", "pause", "request", "drop",
              "backoff"},
         attempt: Nat, refreshed: BOOLEAN, token: Tokens \cup {NoToken},
         kind: {"", "refresh", "credentials"}, try: Nat, since: Nat,
         floor: Nat,   \* history: the tokens issued before its first 401
         result: {"", "ok", "error", "timeout"}]

NoCall   == [pc |-> "done", attempt |-> 0, refreshed |-> FALSE, token |-> NoToken,
             kind |-> "", try |-> 0, since |-> 0, floor |-> 0, result |-> ""]

Init ==
  /\ now = 1 /\ cache = Empty /\ holder = NoCaller
  /\ call = [c \in Callers |-> NoCall]
  /\ issued = 0 /\ life = [k \in Tokens |-> 0]
  /\ revoked = {} /\ revocations = 0 /\ grants = 0 /\ drops = 0

\* No request outlives its client's timeout.
Tick ==
  /\ now < MaxTime
  /\ \A c \in Callers : call[c].pc \in {"grant", "granted", "request"}
                          => now < call[c].since + Timeout
  /\ now' = now + 1
  /\ UNCHANGED <<provider, cache, holder, call, grants, drops>>
-----------------------------------------------------------------------------
(***************************************************************************)
(* reliability.Do around a provider request.                               *)
(***************************************************************************)
Finish(c, result) ==
  call' = [call EXCEPT ![c] = [NoCall EXCEPT !.result = result]]

\* A transient error: the next attempt after a backoff, or giving up.
Retry(c, refreshed) ==
  IF call[c].attempt + 1 < Attempts
  THEN call' = [call EXCEPT ![c] = [NoCall EXCEPT !.pc = "backoff",
                  !.attempt = call[c].attempt + 1, !.floor = call[c].floor,
                  !.refreshed = refreshed]]
  ELSE Finish(c, "error")

Begin(c) ==
  /\ call[c].pc = "done"
  /\ call' = [call EXCEPT ![c] = [NoCall EXCEPT !.pc = "auth"]]
  /\ UNCHANGED <<now, provider, cache, holder, grants, drops>>

BackoffEnds(c) ==
  /\ call[c].pc = "backoff"
  /\ call' = [call EXCEPT ![c] = [@ EXCEPT !.pc = "auth"]]
  /\ UNCHANGED <<now, provider, cache, holder, grants, drops>>
-----------------------------------------------------------------------------
(***************************************************************************)
(* oauth.Manager.                                                          *)
(***************************************************************************)

\* Mutant: no skew.
ValidToTheEnd(token) == token.id # NoToken /\ now < token.expiry

\* Token.Valid
Valid(token) == token.id # NoToken /\ now < token.expiry - Skew

\* The request goes out with token k.
Send(c, k) ==
  call' = [call EXCEPT ![c] = [@ EXCEPT !.pc = "request", !.token = k, !.since = now,
                                        !.kind = "", !.try = 0]]

\* A token request goes out.
Ask(c, kind, try) ==
  call' = [call EXCEPT ![c] = [@ EXCEPT !.pc = "grant", !.kind = kind, !.try = try,
                                        !.since = now]]

\* Mutant: a retry does not trust the cache.
AccessTokenDistrusting(c) ==
  /\ call[c].pc = "auth" /\ holder = NoCaller
  /\ IF Valid(cache) /\ call[c].attempt = 0
     THEN Send(c, cache.id) /\ UNCHANGED holder
     ELSE /\ holder' = c
          /\ Ask(c, IF cache.id # NoToken THEN "refresh" ELSE "credentials", 0)
  /\ UNCHANGED <<now, provider, cache, grants, drops>>

\* AccessToken gets the mutex: a valid token is handed out at once, else the
\* mutex stays held over obtainLocked, by refresh if there is a refresh token.
AccessToken(c) ==
  /\ call[c].pc = "auth" /\ holder = NoCaller
  /\ IF Valid(cache)
     THEN Send(c, cache.id) /\ UNCHANGED holder
     ELSE /\ holder' = c
          /\ Ask(c, IF cache.id # NoToken THEN "refresh" ELSE "credentials", 0)
  /\ UNCHANGED <<now, provider, cache, grants, drops>>

\* The token endpoint issues a token.
Issue(c) ==
  /\ call[c].pc = "grant" /\ issued < MaxTokens
  /\ issued' = issued + 1
  /\ life' = [life EXCEPT ![issued + 1] = now + Lifetime]
  /\ call' = [call EXCEPT ![c] = [@ EXCEPT !.pc = "granted", !.token = issued + 1]]
  /\ UNCHANGED <<now, cache, holder, revoked, revocations, grants, drops>>

\* The response arrives: the token is cached, its life counted from now, and
\* used.
Store(c) ==
  /\ call[c].pc = "granted"
  /\ cache' = [id |-> call[c].token, expiry |-> now + Lifetime]
  /\ holder' = NoCaller
  /\ grants' = grants + 1
  /\ Send(c, call[c].token)
  /\ UNCHANGED <<now, provider, drops>>

\* Mutant: the early return of a rejected grant forgets the mutex.
GrantRejectedLocked(c) ==
  /\ call[c].pc \in {"grant", "granted"}
  /\ IF call[c].kind = "refresh"
     THEN Ask(c, "credentials", 0) ELSE Finish(c, "error")
  /\ UNCHANGED <<now, provider, cache, holder, grants, drops>>

\* 4xx and a response that does not parse (its body may be cut off) are
\* permanent: a refresh falls back to the credentials, they end the call.
GrantRejected(c) ==
  /\ call[c].pc \in {"grant", "granted"}
  /\ IF call[c].kind = "refresh"
     THEN Ask(c, "credentials", 0) /\ UNCHANGED holder
     ELSE Finish(c, "error") /\ holder' = NoCaller
  /\ UNCHANGED <<now, provider, cache, grants, drops>>

\* 5xx or a transport error, also one that loses an issued token. The last one
\* is a transient error of the provider request.
GrantFails(c) ==
  /\ call[c].pc \in {"grant", "granted"}
  /\ IF call[c].try + 1 < GrantAttempts
     THEN /\ call' = [call EXCEPT ![c] = [@ EXCEPT !.pc = "pause",
                                                     !.try = call[c].try + 1]]
          /\ UNCHANGED holder
     ELSE Retry(c, call[c].refreshed) /\ holder' = NoCaller
  /\ UNCHANGED <<now, provider, cache, grants, drops>>

PauseEnds(c) ==
  /\ call[c].pc = "pause"
  /\ Ask(c, call[c].kind, call[c].try)
  /\ UNCHANGED <<now, provider, cache, holder, grants, drops>>

\* Mutant: Invalidate writes the token without the mutex.
InvalidateUnlocked(c) ==
  /\ call[c].pc = "drop"
  /\ cache' = Empty
  /\ drops' = IF cache = Empty THEN drops ELSE drops + 1
  /\ Retry(c, TRUE)
  /\ UNCHANGED <<now, provider, holder, grants>>

\* Invalidate drops whatever token is cached by now.
Invalidate(c) ==
  /\ call[c].pc = "drop" /\ holder = NoCaller
  /\ cache' = Empty
  /\ drops' = IF cache = Empty THEN drops ELSE drops + 1
  /\ Retry(c, TRUE)
  /\ UNCHANGED <<now, provider, holder, grants>>
-----------------------------------------------------------------------------
(***************************************************************************)
(* The provider request: alphasense.Client.do.                             *)
(***************************************************************************)

Alive(k) == k \notin revoked /\ now < life[k]

\* A 2xx, read in time.
Succeed(c) ==
  /\ call[c].pc = "request" /\ Alive(call[c].token)
  /\ Finish(c, "ok")
  /\ UNCHANGED <<now, provider, cache, holder, grants, drops>>

\* The provider answers 401. It is read at any later time: the first one goes
\* on to Invalidate, a second one is final.
Unauthorized(c) ==
  /\ call[c].pc = "request" /\ ~Alive(call[c].token)
  /\ IF call[c].refreshed
     THEN Finish(c, "error")
     ELSE call' = [call EXCEPT ![c] = [@ EXCEPT !.pc = "drop", !.since = 0,
                                                !.floor = issued]]
  /\ UNCHANGED <<now, provider, cache, holder, grants, drops>>

\* Another 4xx, or a response that does not parse: permanent.
RequestRefused(c) ==
  /\ call[c].pc = "request"
  /\ Finish(c, "error")
  /\ UNCHANGED <<now, provider, cache, holder, grants, drops>>

\* 429, 5xx, or a transport error that is not a timeout.
RequestFails(c) ==
  /\ call[c].pc = "request"
  /\ Retry(c, call[c].refreshed)
  /\ UNCHANGED <<now, provider, cache, holder, grants, drops>>

Unlocked(c) == IF holder = c THEN NoCaller ELSE holder

\* The HTTP client's timeout, of either request. Its error is a
\* context.DeadlineExceeded to errors.Is, and Do returns it at once.
TimeOut(c) ==
  /\ call[c].pc \in {"grant", "granted", "request"}
  /\ now = call[c].since + Timeout
  /\ Finish(c, "timeout")
  /\ holder' = Unlocked(c)
  /\ UNCHANGED <<now, provider, cache, grants, drops>>

\* The caller's context ends. Who waits for the mutex does not notice.
Cancel(c) ==
  /\ call[c].pc \in {"grant", "granted", "pause", "request", "backoff"}
  /\ Finish(c, "error")
  /\ holder' = Unlocked(c)
  /\ UNCHANGED <<now, provider, cache, grants, drops>>

\* The provider revokes every token it has issued.
Revoke ==
  /\ revocations < MaxRevocations /\ issued > 0
  /\ revoked' = 1..issued
  /\ revocations' = revocations + 1
  /\ UNCHANGED <<now, cache, holder, call, issued, life, grants, drops>>
-----------------------------------------------------------------------------
CallerStep(c) ==
  \/ BackoffEnds(c) \/ Issue(c) \/ Store(c) \/ GrantRejected(c) \/ GrantFails(c)
  \/ PauseEnds(c) \/ Succeed(c) \/ Unauthorized(c) \/ RequestRefused(c)
  \/ RequestFails(c) \/ TimeOut(c)

Next ==
  \/ Tick \/ Revoke
  \/ \E c \in Callers : \/ Begin(c) \/ AccessToken(c) \/ Invalidate(c)
                        \/ CallerStep(c) \/ Cancel(c)

Spec == Init /\ [][Next]_vars
-----------------------------------------------------------------------------
(***************************************************************************)
(* Properties.                                                             *)
(***************************************************************************)

TypeOK ==
  /\ now \in Nat /\ issued \in 0..MaxTokens /\ grants \in Nat /\ drops \in Nat
  /\ cache \in [id: Tokens \cup {NoToken}, expiry: Nat]
  /\ holder \in Callers \cup {NoCaller}
  /\ call \in [Callers -> Call]
  /\ life \in [Tokens -> Nat]
  /\ revoked \subseteq Tokens /\ revocations \in 0..MaxRevocations

\* "we refresh slightly early and never hand a caller a token that dies
\* mid-request" (oauth.go:29): however late the token's response and the
\* request run, within their timeouts, the token is alive at the provider.
TokenOutlivesRequest ==
  \A c \in Callers : call[c].pc = "request" => now < life[call[c].token]

\* After a 401 the retry carries a token issued after that 401, so that a
\* second one really is about "a fresh token" and may be final: no grant that
\* was under way when the provider revoked everything can slip its token in.
RetryUsesFreshToken ==
  \A c \in Callers :
    call[c].refreshed /\ call[c].pc = "request"
      => call[c].token > call[c].floor

\* Concurrent callers share a grant: the manager only stores a new token for
\* want of any, after one was dropped, or when the last one has lapsed.
GrantsAreNeeded ==
  grants <= 1 + drops + (now - 1) \div (Lifetime - Skew)

\* Single flight: at most one goroutine obtains a token, and the mutex is held
\* for nothing else. However grants fail, fall back, time out or are cancelled,
\* none of them leaves it locked behind. (Checked with the types.)
MutexIsForGrants ==
  /\ TypeOK
  /\ \A c \in Callers : holder = c <=> call[c].pc \in {"grant", "granted", "pause"}
=============================================================================
