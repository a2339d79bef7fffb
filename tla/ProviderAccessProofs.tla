------------------------ MODULE ProviderAccessProofs ------------------------
(***************************************************************************)
(* Proofs about ProviderAccess, for any number of goroutines, any numbers  *)
(* of attempts, and any token life, skew and timeout that AccessAssumption *)
(* admits.                                                                 *)
(***************************************************************************)
EXTENDS ProviderAccess, TLAPS

-----------------------------------------------------------------------------
(***************************************************************************)
(* The inductive invariant.                                                *)
(***************************************************************************)

InFlight == {"grant", "granted", "request"}
Granting == {"grant", "granted", "pause"}

\* What a call relies on, n of the tokens having been issued with the given
\* lives, at time t: its request is younger than the timeout; a token that was
\* granted to it lives on from the request for it; the one it sends outlives
\* the timeout, and is newer than the 401 that had the last one dropped.
CallOK(k, n, lives, t) ==
  /\ k.pc \in InFlight => k.since <= t /\ t <= k.since + Timeout
  /\ k.pc = "granted" => k.token \in 1..n /\ k.since + Lifetime <= lives[k.token]
  /\ k.pc = "request" => k.token \in 1..n /\ k.since + Timeout < lives[k.token]
  /\ k.pc = "drop" \/ k.refreshed => k.floor <= n
  /\ k.pc = "request" /\ k.refreshed => k.token > k.floor

CallsAreTrue == \A c \in Callers : CallOK(call[c], issued, life, now)

\* The manager counts a token's life from the response, later than the provider
\* does, but by no more than the timeout.
CacheOK(token, n, lives) ==
  token.id # NoToken => token.id \in 1..n /\ token.expiry <= lives[token.id] + Timeout

CacheIsTrue == CacheOK(cache, issued, life)

\* No token a call may still be given is older than the 401 it has had.
Newer(k, token, calls) ==
  k.refreshed => /\ token.id # NoToken => token.id > k.floor
                 /\ \A g \in Callers : calls[g].pc = "granted" => calls[g].token > k.floor

TokensAreNewer == \A c \in Callers : Newer(call[c], cache, call)

IInv == MutexIsForGrants /\ CallsAreTrue /\ CacheIsTrue /\ TokensAreNewer
-----------------------------------------------------------------------------
(***************************************************************************)
(* Arithmetic.                                                             *)
(***************************************************************************)

\* Adding a duration.
LEMMA Later ==
  ASSUME NEW a \in Nat, NEW b \in Nat
  PROVE  a + b \in Nat /\ a <= a /\ a <= a + b
OBVIOUS

\* Adding the same duration.
LEMMA BothLater ==
  ASSUME NEW a \in Nat, NEW b \in Nat, NEW d \in Nat, a <= b
  PROVE  a + d <= b + d
OBVIOUS

\* The number after i of at most m.
LEMMA OneMore ==
  ASSUME NEW m \in Nat, NEW i \in 0..m, i < m
  PROVE  /\ i \in Nat /\ i + 1 \in Nat /\ i + 1 \in 1..m /\ i + 1 \in 0..m
         /\ 1..(i + 1) \subseteq 1..m
         /\ i < i + 1 /\ i + 1 \in 1..(i + 1)
         /\ \A j \in 1..i : j \in 1..(i + 1) /\ j \in 1..m /\ j # i + 1
         /\ \A f \in Nat : f <= i => f <= i + 1 /\ f < i + 1 /\ i + 1 > f
OBVIOUS

\* A token that lives for a lifetime from its request, whose response came
\* within the timeout, outlives another one; the manager counts a little more.
LEMMA OutlivesTimeout ==
  ASSUME NEW since \in Nat, NEW t \in Nat, NEW dies \in Nat,
         t <= since + Timeout, since + Lifetime <= dies
  PROVE  t + Timeout < dies /\ t + Lifetime <= dies + Timeout
BY AccessAssumption
-----------------------------------------------------------------------------
(***************************************************************************)
(* The steps of one goroutine that leave the cache and the provider.       *)
(***************************************************************************)

\* A call that goes from one record to another, and holds the mutex in the
\* stages of a grant.
Moves(c, k) ==
  /\ call' = [call EXCEPT ![c] = k] /\ UNCHANGED <<now, provider, cache>>
  /\ grants' \in Nat /\ drops' \in Nat
  /\ k \in Call /\ CallOK(k, issued, life, now)
  /\ k.refreshed => call[c].refreshed /\ k.floor = call[c].floor
  /\ k.pc # "granted"
  /\ \/ holder' = holder /\ (k.pc \in Granting <=> call[c].pc \in Granting)
     \/ holder' = c /\ holder = NoCaller /\ k.pc \in Granting
     \/ holder' = NoCaller /\ holder = c /\ k.pc \notin Granting

\* Such a step keeps the invariant.
LEMMA CallMoves ==
  ASSUME IInv, NEW c \in Callers, NEW k, Moves(c, k)
  PROVE  IInv'
<1>1. call'[c] = k /\ \A g \in Callers : g # c => call'[g] = call[g]
  BY DEF IInv, MutexIsForGrants, TypeOK, Moves
<1>2. TypeOK'
  BY DEF IInv, MutexIsForGrants, TypeOK, Moves, provider
<1>3. \A g \in Callers : holder' = g <=> call'[g].pc \in Granting
  <2>1. \A g \in Callers : holder = g <=> call[g].pc \in Granting
    BY DEF IInv, MutexIsForGrants, Granting
  <2>2. NoCaller \notin Callers
    BY AccessAssumption
  <2>3. QED
    BY <1>1, <2>1, <2>2 DEF Moves
<1>4. MutexIsForGrants'
  BY <1>2, <1>3 DEF MutexIsForGrants, Granting
<1>5. CallsAreTrue'
  BY <1>1 DEF IInv, CallsAreTrue, Moves, provider
<1>6. CacheIsTrue'
  BY DEF IInv, CacheIsTrue, CacheOK, Moves, provider
<1>7. TokensAreNewer'
  <2>1. ASSUME NEW g \in Callers, call'[g].refreshed
        PROVE  call[g].refreshed /\ call'[g].floor = call[g].floor
    BY <1>1, <2>1 DEF Moves
  <2>2. \A g \in Callers : call'[g].pc = "granted" =>
          call[g].pc = "granted" /\ call'[g].token = call[g].token
    BY <1>1 DEF Moves
  <2>3. cache' = cache
    BY DEF Moves
  <2>4. QED
    BY <2>1, <2>2, <2>3 DEF IInv, TokensAreNewer, Newer
<1>8. QED
  BY <1>4, <1>5, <1>6, <1>7 DEF IInv

\* What the invariant says of one call.
LEMMA OneCall ==
  ASSUME IInv, NEW c \in Callers
  PROVE  /\ call \in [Callers -> Call] /\ call[c] \in Call
         /\ CallOK(call[c], issued, life, now) /\ Newer(call[c], cache, call)
         /\ holder = c <=> call[c].pc \in Granting
         /\ now \in Nat /\ grants \in Nat /\ drops \in Nat
         /\ issued \in 0..MaxTokens /\ life \in [Tokens -> Nat]
         /\ cache.id \in Tokens \cup {NoToken} /\ cache.expiry \in Nat
         /\ c # NoCaller
BY AccessAssumption
   DEF IInv, MutexIsForGrants, TypeOK, Granting, CallsAreTrue, TokensAreNewer

\* The end of a call, and its next attempt.
Ended(result) == [NoCall EXCEPT !.result = result]
Again(k, refreshed) ==
  [NoCall EXCEPT !.pc = "backoff", !.attempt = k.attempt + 1, !.floor = k.floor,
                 !.refreshed = refreshed]

\* No call is one that has ended.
LEMMA NoCallIsCall == NoCall \in Call /\ NoCall.pc = "done" /\ ~NoCall.refreshed
BY DEF Call, NoCall, NoToken

\* An ended call relies on nothing.
LEMMA EndsAreOK ==
  ASSUME NEW n, NEW lives, NEW t, NEW result \in {"", "ok", "error", "timeout"}
  PROVE  /\ Ended(result) \in Call /\ CallOK(Ended(result), n, lives, t)
         /\ Ended(result).pc = "done" /\ ~Ended(result).refreshed
<1>1. /\ Ended(result) \in Call
      /\ Ended(result).pc = "done" /\ ~Ended(result).refreshed
  BY NoCallIsCall DEF Ended, Call
<1>2. QED
  BY <1>1 DEF CallOK, InFlight

\* One that backs off relies on its floor.
LEMMA RetriesAreOK ==
  ASSUME NEW k \in Call, NEW refreshed \in BOOLEAN, NEW n, NEW lives, NEW t,
         refreshed => k.floor <= n
  PROVE  /\ Again(k, refreshed) \in Call /\ CallOK(Again(k, refreshed), n, lives, t)
         /\ Again(k, refreshed).pc = "backoff"
         /\ Again(k, refreshed).refreshed = refreshed
         /\ Again(k, refreshed).floor = k.floor
<1> DEFINE a == k.attempt + 1
           next == [NoCall EXCEPT !.pc = "backoff", !.attempt = a, !.floor = k.floor,
                                  !.refreshed = refreshed]
<1>1. k.attempt \in Nat /\ k.floor \in Nat
  BY DEF Call
<1>2. a \in Nat
  BY <1>1
<1> HIDE DEF a
<1>3. /\ next \in Call /\ next.pc = "backoff"
      /\ next.refreshed = refreshed /\ next.floor = k.floor
  BY <1>1, <1>2, NoCallIsCall DEF Call
<1> HIDE DEF next
<1>4. next.pc \notin InFlight \cup {"drop"}
  BY <1>3 DEF InFlight
<1>5. next.refreshed => next.floor <= n
  BY <1>3, Zenon
<1>6. CallOK(next, n, lives, t)
  BY <1>4, <1>5 DEF CallOK, InFlight
<1>7. QED
  BY <1>3, <1>6 DEF next, a, Again

\* The mutex stays as it is outside a grant, or is given back at its end.
Leaves(c) ==
  \/ holder' = holder /\ call[c].pc \notin Granting
  \/ holder' = NoCaller /\ holder = c

\* A call ends.
LEMMA FinishMoves ==
  ASSUME IInv, NEW c \in Callers, NEW result \in {"", "ok", "error", "timeout"},
         Finish(c, result), Leaves(c), UNCHANGED <<now, provider, cache, grants, drops>>
  PROVE  IInv'
<1>1. /\ Ended(result) \in Call /\ CallOK(Ended(result), issued, life, now)
      /\ Ended(result).pc = "done" /\ ~Ended(result).refreshed
  BY EndsAreOK
<1>2. call' = [call EXCEPT ![c] = Ended(result)]
  BY DEF Finish, Ended
<1>3. Moves(c, Ended(result))
  BY <1>1, <1>2, OneCall DEF Moves, Leaves, Granting
<1>4. QED
  BY <1>3, CallMoves

\* A call fails for now.
LEMMA RetryMoves ==
  ASSUME IInv, NEW c \in Callers, Retry(c, call[c].refreshed), Leaves(c),
         UNCHANGED <<now, provider, cache, grants, drops>>
  PROVE  IInv'
<1> DEFINE again == Again(call[c], call[c].refreshed)
<1>1. /\ again \in Call /\ CallOK(again, issued, life, now) /\ again.pc = "backoff"
      /\ again.refreshed = call[c].refreshed /\ again.floor = call[c].floor
  <2>1. call[c].refreshed \in BOOLEAN /\ (call[c].refreshed => call[c].floor <= issued)
    BY OneCall DEF Call, CallOK
  <2>2. QED
    BY <2>1, OneCall, RetriesAreOK
<1> HIDE DEF again
<1>2. CASE call' = [call EXCEPT ![c] = again]
  <2>1. again.refreshed => call[c].refreshed /\ again.floor = call[c].floor
    BY <1>1, Zenon
  <2>2. Moves(c, again)
    BY <1>1, <1>2, <2>1, OneCall DEF Moves, Leaves, Granting
  <2>3. QED
    BY <2>2, CallMoves
<1>3. CASE Finish(c, "error")
  BY <1>3, FinishMoves
<1>4. QED
  BY <1>2, <1>3 DEF Retry, again, Again

\* A token request goes out, with the mutex.
LEMMA AskMoves ==
  ASSUME IInv, NEW c \in Callers, NEW kind \in {"", "refresh", "credentials"},
         NEW try \in Nat, Ask(c, kind, try),
         \/ holder' = holder /\ call[c].pc \in Granting
         \/ holder' = c /\ holder = NoCaller,
         UNCHANGED <<now, provider, cache, grants, drops>>
  PROVE  IInv'
<1> DEFINE k == [call[c] EXCEPT !.pc = "grant", !.kind = kind, !.try = try, !.since = now]
<1>1. /\ k \in Call /\ k.pc = "grant" /\ k.since = now
      /\ k.refreshed = call[c].refreshed /\ k.floor = call[c].floor
  BY OneCall DEF Call
<1>2. call' = [call EXCEPT ![c] = k]
  BY DEF Ask
<1> HIDE DEF k
<1>3. k.refreshed => call[c].refreshed /\ k.floor <= issued
  <2>1. call[c].refreshed => call[c].floor <= issued
    BY OneCall DEF CallOK
  <2>2. QED
    BY <1>1, <2>1, Zenon
<1>4. CallOK(k, issued, life, now)
  <2>1. now \in Nat /\ Timeout \in Nat
    BY AccessAssumption, OneCall
  <2>2. now <= now /\ now <= now + Timeout
    BY <2>1, Later
  <2>3. QED
    BY <1>1, <1>3, <2>2, Zenon DEF CallOK
<1>5. Moves(c, k)
  BY <1>1, <1>2, <1>3, <1>4, OneCall DEF Moves, Granting
<1>6. QED
  BY <1>5, CallMoves

\* A valid token is handed out at once, or is obtained under the mutex.
LEMMA AccessMoves ==
  ASSUME IInv, NEW c \in Callers, AccessToken(c)
  PROVE  IInv'
<1>1. CASE Valid(cache)
  <2> DEFINE k == [call[c] EXCEPT !.pc = "request", !.token = cache.id, !.since = now,
                                  !.kind = "", !.try = 0]
  <2>1. /\ cache.id \in 1..issued /\ cache.id \in Tokens
        /\ now + Timeout < life[cache.id]
    <3>1. /\ cache.id # NoToken /\ cache.id \in 1..issued
          /\ cache.expiry <= life[cache.id] + Timeout /\ now < cache.expiry - Skew
      BY <1>1 DEF Valid, IInv, CacheIsTrue, CacheOK
    <3>2. cache.id \in Tokens /\ life[cache.id] \in Nat /\ now \in Nat /\ cache.expiry \in Nat
      BY <3>1, OneCall
    <3>3. QED
      BY <3>1, <3>2, AccessAssumption
  <2>2. /\ k \in Call /\ k.pc = "request" /\ k.token = cache.id /\ k.since = now
        /\ k.refreshed = call[c].refreshed /\ k.floor = call[c].floor
    BY <2>1, OneCall DEF Call
  <2>3. call' = [call EXCEPT ![c] = k] /\ UNCHANGED <<now, provider, cache, holder, grants, drops>>
    BY <1>1 DEF AccessToken, Send
  <2> HIDE DEF k
  <2>4. (k.refreshed => call[c].refreshed) /\ call[c].floor \in Nat
    BY <2>2, OneCall DEF Call
  <2>5. call[c].refreshed => call[c].floor <= issued /\ cache.id > call[c].floor
    BY <2>1, OneCall DEF CallOK, Newer, NoToken
  <2>6. CallOK(k, issued, life, now)
    <3>1. now \in Nat /\ Timeout \in Nat
      BY AccessAssumption, OneCall
    <3>2. QED
      BY <2>1, <2>2, <2>4, <2>5, <3>1 DEF CallOK
  <2>7. call[c].pc = "auth"
    BY DEF AccessToken
  <2>8. Moves(c, k)
    BY <2>2, <2>3, <2>4, <2>6, <2>7, OneCall DEF Moves, Granting
  <2>9. QED
    BY <2>8, CallMoves
<1>2. CASE ~Valid(cache)
  <2> DEFINE kind == IF cache.id # NoToken THEN "refresh" ELSE "credentials"
  <2>1. /\ Ask(c, kind, 0) /\ holder' = c /\ holder = NoCaller
        /\ UNCHANGED <<now, provider, cache, grants, drops>>
    BY <1>2 DEF AccessToken
  <2>2. kind \in {"", "refresh", "credentials"}
    OBVIOUS
  <2> HIDE DEF kind
  <2>3. QED
    BY <2>1, <2>2, AskMoves
<1>3. QED
  BY <1>1, <1>2

\* A call that changes its stage, and nothing it relies on.
LEMMA StageMoves ==
  ASSUME IInv, NEW c \in Callers, NEW k \in Call, call' = [call EXCEPT ![c] = k],
         k.pc \notin InFlight \cup {"drop"}, k.pc \in Granting <=> call[c].pc \in Granting,
         k.refreshed => call[c].refreshed /\ k.floor = call[c].floor,
         UNCHANGED <<now, provider, cache, holder, grants, drops>>
  PROVE  IInv'
<1>1. CallOK(k, issued, life, now)
  BY OneCall DEF CallOK, InFlight
<1>2. Moves(c, k)
  BY <1>1, OneCall DEF Moves, InFlight
<1>3. QED
  BY <1>2, CallMoves

\* Every step of a call but a token's issue and storage, and Invalidate.
LEMMA QuietMoves ==
  ASSUME IInv, NEW c \in Callers,
         \/ Begin(c) \/ BackoffEnds(c) \/ AccessToken(c) \/ GrantRejected(c)
         \/ GrantFails(c) \/ PauseEnds(c) \/ Succeed(c) \/ Unauthorized(c)
         \/ RequestRefused(c) \/ RequestFails(c) \/ TimeOut(c) \/ Cancel(c)
  PROVE  IInv'
<1>a. call[c] \in Call /\ (holder = c <=> call[c].pc \in Granting) /\ c # NoCaller
  BY OneCall
<1>1. CASE Begin(c)
  <2> DEFINE k == [NoCall EXCEPT !.pc = "auth"]
  <2>1. k \in Call /\ k.pc = "auth" /\ ~k.refreshed
    BY NoCallIsCall DEF Call
  <2>2. call[c].pc = "done" /\ call' = [call EXCEPT ![c] = k]
    BY <1>1 DEF Begin
  <2> HIDE DEF k
  <2>3. QED
    BY <1>1, <2>1, <2>2, StageMoves DEF Begin, InFlight, Granting
<1>2. CASE BackoffEnds(c)
  <2> DEFINE k == [call[c] EXCEPT !.pc = "auth"]
  <2>1. /\ k \in Call /\ k.pc = "auth"
        /\ k.refreshed = call[c].refreshed /\ k.floor = call[c].floor
    BY <1>a DEF Call
  <2>2. call[c].pc = "backoff" /\ call' = [call EXCEPT ![c] = k]
    BY <1>2 DEF BackoffEnds
  <2> HIDE DEF k
  <2>3. k.refreshed => call[c].refreshed /\ k.floor = call[c].floor
    BY <2>1, Zenon
  <2>4. QED
    BY <1>2, <2>1, <2>2, <2>3, StageMoves DEF BackoffEnds, InFlight, Granting
<1>3. CASE GrantRejected(c)
  <2>1. call[c].pc \in Granting /\ holder = c
    BY <1>3, <1>a DEF GrantRejected, Granting
  <2>2. CASE Ask(c, "credentials", 0) /\ UNCHANGED holder
    BY <1>3, <2>1, <2>2, AskMoves DEF GrantRejected
  <2>3. CASE Finish(c, "error") /\ holder' = NoCaller
    BY <1>3, <2>1, <2>3, FinishMoves DEF GrantRejected, Leaves
  <2>4. QED
    BY <1>3, <2>2, <2>3 DEF GrantRejected
<1>4. CASE GrantFails(c)
  <2> DEFINE try == call[c].try + 1
             k == [call[c] EXCEPT !.pc = "pause", !.try = try]
  <2>1. call[c].pc \in Granting /\ holder = c
    BY <1>4, <1>a DEF GrantFails, Granting
  <2>2. CASE call' = [call EXCEPT ![c] = k] /\ UNCHANGED holder
    <3>1. call[c].try \in Nat
      BY <1>a DEF Call
    <3>2. try \in Nat
      BY <3>1
    <3> HIDE DEF try
    <3>3. /\ k \in Call /\ k.pc = "pause"
          /\ k.refreshed = call[c].refreshed /\ k.floor = call[c].floor
      BY <1>a, <3>2 DEF Call
    <3> HIDE DEF k
    <3>4. k.refreshed => call[c].refreshed /\ k.floor = call[c].floor
      BY <3>3, Zenon
    <3>5. QED
      BY <1>4, <2>1, <2>2, <3>3, <3>4, StageMoves DEF GrantFails, InFlight, Granting
  <2>3. CASE Retry(c, call[c].refreshed) /\ holder' = NoCaller
    BY <1>4, <2>1, <2>3, RetryMoves DEF GrantFails, Leaves
  <2>4. QED
    BY <1>4, <2>2, <2>3 DEF GrantFails
<1>5. CASE PauseEnds(c)
  <2>1. call[c].try \in Nat /\ call[c].kind \in {"", "refresh", "credentials"}
    BY <1>a DEF Call
  <2>2. QED
    BY <1>5, <2>1, AskMoves DEF PauseEnds, Granting
<1>6. CASE Succeed(c) \/ RequestRefused(c)
  <2>1. PICK result \in {"ok", "error"} : Finish(c, result)
    BY <1>6 DEF Succeed, RequestRefused
  <2>2. QED
    BY <1>6, <2>1, FinishMoves DEF Succeed, RequestRefused, Leaves, Granting
<1>7. CASE RequestFails(c)
  BY <1>7, RetryMoves DEF RequestFails, Leaves, Granting
<1>8. CASE TimeOut(c) \/ Cancel(c)
  <2>1. PICK result \in {"timeout", "error"} : Finish(c, result)
    BY <1>8 DEF TimeOut, Cancel
  <2>2. Leaves(c)
    BY <1>8, <1>a DEF TimeOut, Cancel, Unlocked, Leaves
  <2>3. QED
    BY <1>8, <2>1, <2>2, FinishMoves DEF TimeOut, Cancel
<1>9. CASE Unauthorized(c)
  <2>1. CASE Finish(c, "error")
    BY <1>9, <2>1, FinishMoves DEF Unauthorized, Leaves, Granting
  <2>2. CASE /\ ~call[c].refreshed
             /\ call' = [call EXCEPT ![c] = [@ EXCEPT !.pc = "drop", !.since = 0,
                                                      !.floor = issued]]
    <3> DEFINE k == [call[c] EXCEPT !.pc = "drop", !.since = 0, !.floor = issued]
    <3>1. issued \in Nat
      BY AccessAssumption, OneCall
    <3>2. /\ k \in Call /\ k.pc = "drop" /\ k.floor = issued
          /\ k.refreshed = call[c].refreshed
      BY <1>a, <3>1 DEF Call
    <3>3. call' = [call EXCEPT ![c] = k]
      BY <2>2
    <3> HIDE DEF k
    <3>4. ~k.refreshed
      BY <2>2, <3>2, Zenon
    <3>5. CallOK(k, issued, life, now)
      BY <3>1, <3>2, <3>4 DEF CallOK, InFlight
    <3>6. call[c].pc = "request" /\ UNCHANGED <<now, provider, cache, holder, grants, drops>>
      BY <1>9 DEF Unauthorized
    <3>7. Moves(c, k)
      BY <3>2, <3>3, <3>4, <3>5, <3>6, OneCall DEF Moves, Granting
    <3>8. QED
      BY <3>7, CallMoves
  <2>3. QED
    BY <1>9, <2>1, <2>2 DEF Unauthorized
<1>10. QED
  BY <1>1, <1>2, <1>3, <1>4, <1>5, <1>6, <1>7, <1>8, <1>9, AccessMoves
-----------------------------------------------------------------------------
(***************************************************************************)
(* The steps that touch clock, cache or provider.                          *)
(***************************************************************************)

\* The clock stops for a request that has reached its timeout.
LEMMA TickMoves ==
  ASSUME IInv, Tick
  PROVE  IInv'
<1>1. /\ now \in Nat /\ now' = now + 1 /\ Timeout \in Nat
      /\ UNCHANGED <<provider, cache, holder, call, grants, drops>>
  BY AccessAssumption DEF IInv, MutexIsForGrants, TypeOK, Tick
<1>2. CallsAreTrue'
  <2>1. ASSUME NEW c \in Callers
        PROVE  CallOK(call[c], issued, life, now + 1)
    <3>1. call[c] \in Call /\ CallOK(call[c], issued, life, now)
      BY OneCall
    <3>2. call[c].pc \in InFlight => now < call[c].since + Timeout /\ call[c].since \in Nat
      BY <3>1 DEF Tick, InFlight, Call
    <3>3. QED
      BY <1>1, <3>1, <3>2 DEF CallOK
  <2>2. QED
    BY <1>1, <2>1 DEF CallsAreTrue, provider
<1>3. MutexIsForGrants' /\ CacheIsTrue' /\ TokensAreNewer'
  BY <1>1 DEF IInv, MutexIsForGrants, TypeOK, CacheIsTrue, CacheOK, TokensAreNewer,
              Newer, provider
<1>4. QED
  BY <1>2, <1>3 DEF IInv

\* Revocation changes nothing the invariant speaks of.
LEMMA RevokeMoves ==
  ASSUME IInv, Revoke
  PROVE  IInv'
<1>1. TypeOK'
  <2>1. 1..issued \subseteq Tokens /\ revocations + 1 \in 0..MaxRevocations
    BY AccessAssumption DEF IInv, MutexIsForGrants, TypeOK, Revoke, Tokens
  <2>2. QED
    BY <2>1 DEF IInv, MutexIsForGrants, TypeOK, Revoke
<1>2. MutexIsForGrants' /\ CallsAreTrue' /\ CacheIsTrue' /\ TokensAreNewer'
  BY <1>1 DEF IInv, MutexIsForGrants, CallsAreTrue, CallOK, CacheIsTrue, CacheOK,
              TokensAreNewer, Newer, Revoke
<1>3. QED
  BY <1>2 DEF IInv

\* A new token is newer than any 401, and lives from a time after its request.
LEMMA IssueMoves ==
  ASSUME IInv, NEW c \in Callers, Issue(c)
  PROVE  IInv'
<1> DEFINE n == issued + 1
           k == [call[c] EXCEPT !.pc = "granted", !.token = n]
<1>a. /\ call[c] \in Call /\ call[c].pc = "grant" /\ CallOK(call[c], issued, life, now)
      /\ now \in Nat /\ now + Lifetime \in Nat /\ life \in [Tokens -> Nat]
      /\ call \in [Callers -> Call]
  BY AccessAssumption, OneCall, Later DEF Issue
<1>b. MaxTokens \in Nat /\ issued \in 0..MaxTokens /\ issued < MaxTokens
  BY AccessAssumption, OneCall DEF Issue
<1>c. /\ issued \in Nat /\ n \in Nat /\ n \in Tokens /\ n \in 0..MaxTokens
      /\ 1..n \subseteq Tokens /\ n \in 1..n
      /\ \A f \in Nat : f <= issued => f <= n /\ f < n /\ n > f
      /\ issued < n /\ \A i \in 1..issued : i \in 1..n /\ i \in Tokens /\ i # n
  BY <1>b, OneMore DEF Tokens
<1>1. /\ issued' = n /\ life' = [life EXCEPT ![n] = now + Lifetime]
      /\ call' = [call EXCEPT ![c] = k]
      /\ UNCHANGED <<now, cache, holder, revoked, revocations, grants, drops>>
  BY DEF Issue
<1> HIDE DEF n
<1>2. /\ k \in Call /\ k.pc = "granted" /\ k.token = n /\ k.since = call[c].since
      /\ k.refreshed = call[c].refreshed /\ k.floor = call[c].floor
  BY <1>a, <1>c DEF Call
<1> HIDE DEF k
<1>4. /\ life'[n] = now + Lifetime /\ \A i \in 1..issued : life'[i] = life[i]
      /\ life' \in [Tokens -> Nat]
      /\ call'[c] = k /\ \A g \in Callers : g # c => call'[g] = call[g]
      /\ call' \in [Callers -> Call]
  BY <1>a, <1>1, <1>2, <1>c
<1>5. MutexIsForGrants'
  <2>1. TypeOK'
    <3>1. issued' \in 0..MaxTokens
      BY <1>1, <1>c
    <3>2. QED
      BY <1>1, <1>4, <3>1 DEF IInv, MutexIsForGrants, TypeOK
  <2>2. QED
    BY <1>a, <1>1, <1>2, <1>4, <2>1 DEF IInv, MutexIsForGrants
<1>6. CallsAreTrue'
  <2>1. ASSUME NEW g \in Callers, g # c
        PROVE  CallOK(call'[g], issued', life', now')
    <3>1. CallOK(call[g], issued, life, now) /\ call[g] \in Call
      BY OneCall
    <3>2. call[g].floor <= issued => call[g].floor <= n
      <4>1. call[g].floor \in Nat
        BY <3>1 DEF Call
      <4>2. QED
        BY <1>c, <4>1
    <3>3. QED
      BY <1>1, <1>c, <1>4, <2>1, <3>1, <3>2 DEF CallOK
  <2>2. CallOK(k, issued', life', now')
    <3>1. /\ call[c].since <= now /\ now <= call[c].since + Timeout
          /\ call[c].since + Lifetime <= now + Lifetime
      <4>1. call[c].since <= now /\ now <= call[c].since + Timeout
        BY <1>a DEF CallOK, InFlight
      <4>2. call[c].since \in Nat /\ Lifetime \in Nat
        BY <1>a, AccessAssumption DEF Call
      <4>3. QED
        BY <1>a, <4>1, <4>2, BothLater
    <3>2. k.refreshed => k.floor <= n
      <4>1. call[c].refreshed => call[c].floor <= issued
        BY <1>a DEF CallOK
      <4>2. call[c].floor \in Nat
        BY <1>a DEF Call
      <4>3. call[c].refreshed => call[c].floor <= n
        BY <1>a, <1>c, <4>1, <4>2
      <4>4. QED
        BY <1>2, <4>3, Zenon
    <3>3. QED
      BY <1>1, <1>2, <1>4, <1>c, <3>1, <3>2, Zenon DEF CallOK
  <2>3. QED
    BY <1>4, <2>1, <2>2 DEF CallsAreTrue
<1>7. CacheIsTrue'
  <2>1. cache.id # NoToken =>
          /\ cache.id \in 1..issued' /\ life'[cache.id] = life[cache.id]
          /\ cache.expiry <= life[cache.id] + Timeout
    BY <1>1, <1>c, <1>4 DEF IInv, CacheIsTrue, CacheOK
  <2>2. QED
    BY <1>1, <2>1 DEF CacheIsTrue, CacheOK
<1>8. TokensAreNewer'
  <2>1. ASSUME NEW g \in Callers, call'[g].refreshed
        PROVE  /\ call[g].refreshed /\ call'[g].floor = call[g].floor
               /\ call[g].floor < n
    <3>1. call[g].refreshed /\ call'[g].floor = call[g].floor
      BY <1>2, <1>4, <2>1, Zenon
    <3>2. call[g].floor \in Nat /\ call[g].floor <= issued
      BY <3>1, OneCall DEF CallOK, Call
    <3>3. QED
      BY <1>a, <1>c, <3>1, <3>2
  <2>2. ASSUME NEW g \in Callers, call'[g].refreshed
        PROVE  Newer(call'[g], cache', call')
    <3>1. Newer(call[g], cache, call)
      BY OneCall
    <3>2. call[g].floor < n => n > call[g].floor
      BY <1>a, OneCall DEF Call
    <3>3. QED
      BY <1>1, <1>2, <1>4, <2>1, <2>2, <3>1, <3>2 DEF Newer
  <2>3. QED
    BY <2>2 DEF TokensAreNewer, Newer
<1>9. QED
  BY <1>5, <1>6, <1>7, <1>8 DEF IInv

\* The response of a grant: its token outlives a request that goes out now.
LEMMA StoreMoves ==
  ASSUME IInv, NEW c \in Callers, Store(c)
  PROVE  IInv'
<1> DEFINE t == call[c].token
           k == [call[c] EXCEPT !.pc = "request", !.token = t, !.since = now,
                                !.kind = "", !.try = 0]
<1>b. /\ call[c] \in Call /\ call[c].pc = "granted" /\ CallOK(call[c], issued, life, now)
      /\ call \in [Callers -> Call] /\ holder = c /\ life \in [Tokens -> Nat]
  BY OneCall DEF Store, Granting
<1>c. now \in Nat /\ now + Lifetime \in Nat /\ grants + 1 \in Nat
  BY AccessAssumption, OneCall, Later
<1>d. t \in 1..issued /\ t \in Tokens
  <2>1. t \in 1..issued
    BY <1>b DEF CallOK
  <2>2. QED
    BY <2>1, OneCall, AccessAssumption DEF Tokens
<1>a. /\ call[c] \in Call /\ call[c].pc = "granted" /\ CallOK(call[c], issued, life, now)
      /\ t \in 1..issued /\ t \in Tokens /\ life[t] \in Nat
      /\ now \in Nat /\ now + Lifetime \in Nat /\ grants + 1 \in Nat
      /\ call \in [Callers -> Call] /\ holder = c
  BY <1>b, <1>c, <1>d
<1>1. /\ cache' = [id |-> t, expiry |-> now + Lifetime] /\ holder' = NoCaller
      /\ grants' = grants + 1 /\ call' = [call EXCEPT ![c] = k]
      /\ UNCHANGED <<now, provider, drops>>
  BY DEF Store, Send
<1>2. /\ k \in Call /\ k.pc = "request" /\ k.token = t /\ k.since = now
      /\ k.refreshed = call[c].refreshed /\ k.floor = call[c].floor
  BY <1>a DEF Call
<1>3. /\ now + Timeout < life[t] /\ now + Lifetime <= life[t] + Timeout
      /\ now <= now /\ now <= now + Timeout
  <2>1. now <= call[c].since + Timeout /\ call[c].since + Lifetime <= life[t]
    BY <1>a DEF CallOK, InFlight
  <2>2. call[c].since \in Nat /\ Timeout \in Nat
    BY <1>a, AccessAssumption DEF Call
  <2>3. QED
    BY <1>a, <2>1, <2>2, OutlivesTimeout, Later
<1> HIDE DEF k
<1>4. /\ call'[c] = k /\ \A g \in Callers : g # c => call'[g] = call[g]
      /\ call' \in [Callers -> Call]
  BY <1>a, <1>1, <1>2
<1>5. MutexIsForGrants'
  <2>1. TypeOK'
    BY <1>a, <1>1, <1>4 DEF IInv, MutexIsForGrants, TypeOK, provider
  <2>2. \A g \in Callers : g # c => call[g].pc \notin Granting
    BY <1>a DEF IInv, MutexIsForGrants, Granting
  <2>3. \A g \in Callers : call'[g].pc \notin Granting
    BY <1>2, <1>4, <2>2 DEF Granting
  <2>4. QED
    BY <1>1, <2>1, <2>3, AccessAssumption DEF MutexIsForGrants, Granting
<1>6. CallsAreTrue'
  <2>1. CallOK(k, issued, life, now)
    <3>1. call[c].refreshed => call[c].floor <= issued /\ t > call[c].floor
      BY <1>a, OneCall DEF CallOK, Newer
    <3>2. k.refreshed => k.floor <= issued /\ t > k.floor
      BY <1>2, <3>1, Zenon
    <3>3. QED
      BY <1>a, <1>2, <1>3, <3>2, Zenon DEF CallOK
  <2>2. QED
    BY <1>1, <1>4, <2>1 DEF IInv, CallsAreTrue, provider
<1>7. CacheIsTrue'
  BY <1>a, <1>1, <1>3 DEF CacheIsTrue, CacheOK, provider
<1>8. TokensAreNewer'
  <2>1. ASSUME NEW g \in Callers, call'[g].refreshed
        PROVE  call[g].refreshed /\ call'[g].floor = call[g].floor
    BY <1>2, <1>4, <2>1, Zenon
  <2>2. ASSUME NEW g \in Callers, call'[g].refreshed
        PROVE  Newer(call'[g], cache', call')
    <3>1. Newer(call[g], cache, call)
      BY OneCall
    <3>2. \A f \in Callers : call'[f].pc = "granted" =>
            call[f].pc = "granted" /\ call'[f].token = call[f].token
      BY <1>2, <1>4
    <3>3. QED
      BY <1>a, <1>1, <2>1, <2>2, <3>1, <3>2 DEF Newer
  <2>3. QED
    BY <2>2 DEF TokensAreNewer, Newer
<1>9. QED
  BY <1>5, <1>6, <1>7, <1>8 DEF IInv

\* Invalidate finds no grant under way: every token from here on is newer.
LEMMA InvalidateMoves ==
  ASSUME IInv, NEW c \in Callers, Invalidate(c)
  PROVE  IInv'
<1>1. /\ call[c] \in Call /\ call[c].floor <= issued /\ call[c].pc = "drop"
      /\ call \in [Callers -> Call]
  BY OneCall DEF Invalidate, CallOK
<1>2. PICK k \in Call :
        /\ call' = [call EXCEPT ![c] = k] /\ CallOK(k, issued, life, now)
        /\ k.pc \in {"backoff", "done"}
  <2>1. CASE Finish(c, "error")
    BY <2>1, EndsAreOK DEF Finish, Ended
  <2>2. CASE call' = [call EXCEPT ![c] = Again(call[c], TRUE)]
    BY <1>1, <2>2, RetriesAreOK
  <2>3. QED
    BY <2>1, <2>2 DEF Invalidate, Retry, Again
<1>3. /\ holder = NoCaller /\ holder' = NoCaller /\ cache' = Empty /\ drops' \in Nat
      /\ UNCHANGED <<now, provider, grants>>
  BY OneCall, Later DEF Invalidate
<1>4. /\ call'[c] = k /\ \A g \in Callers : g # c => call'[g] = call[g]
      /\ call' \in [Callers -> Call]
  BY <1>1, <1>2
<1>5. \A g \in Callers : call'[g].pc \notin Granting
  <2>1. \A g \in Callers : call[g].pc \notin Granting
    BY <1>3, AccessAssumption DEF IInv, MutexIsForGrants, Granting
  <2>2. QED
    BY <1>2, <1>4, <2>1 DEF Granting
<1>6. MutexIsForGrants'
  <2>1. TypeOK'
    BY <1>3, <1>4 DEF IInv, MutexIsForGrants, TypeOK, provider, Empty, NoToken
  <2>2. QED
    BY <1>3, <1>5, <2>1, AccessAssumption DEF MutexIsForGrants, Granting
<1>7. CallsAreTrue'
  BY <1>2, <1>3, <1>4 DEF IInv, CallsAreTrue, provider
<1>8. CacheIsTrue'
  BY <1>3 DEF CacheIsTrue, CacheOK, Empty
<1>9. TokensAreNewer'
  BY <1>3, <1>5 DEF TokensAreNewer, Newer, Granting, Empty
<1>10. QED
  BY <1>6, <1>7, <1>8, <1>9 DEF IInv
-----------------------------------------------------------------------------
(***************************************************************************)
(* Invariance.                                                             *)
(***************************************************************************)

\* Nobody calls the provider, and there is no token.
LEMMA InitialStates == Init => IInv
<1> SUFFICES ASSUME Init
             PROVE  IInv
  OBVIOUS
<1>1. \A c \in Callers : call[c] = NoCall
  BY DEF Init
<1>2. MutexIsForGrants
  <2>1. TypeOK
    BY NoCallIsCall, AccessAssumption DEF Init, TypeOK, Empty, NoToken
  <2>2. QED
    BY <1>1, <2>1, NoCallIsCall, AccessAssumption DEF Init, MutexIsForGrants
<1>3. CallsAreTrue /\ TokensAreNewer
  BY <1>1, NoCallIsCall DEF CallsAreTrue, CallOK, InFlight, TokensAreNewer, Newer
<1>4. CacheIsTrue
  BY DEF Init, CacheIsTrue, CacheOK, Empty
<1>5. QED
  BY <1>2, <1>3, <1>4 DEF IInv

\* Every step keeps the invariant.
LEMMA Steps == IInv /\ [Next]_vars => IInv'
<1> SUFFICES ASSUME IInv, [Next]_vars
             PROVE  IInv'
  OBVIOUS
<1>1. CASE UNCHANGED vars
  BY <1>1 DEF vars, IInv, MutexIsForGrants, TypeOK, CallsAreTrue, CallOK, CacheIsTrue,
              CacheOK, TokensAreNewer, Newer
<1>2. CASE Next
  BY <1>2, QuietMoves, TickMoves, RevokeMoves, IssueMoves, StoreMoves, InvalidateMoves
     DEF Next, CallerStep
<1>3. QED
  BY <1>1, <1>2

\* The inductive invariant holds throughout.
THEOREM Invariance == Spec => []IInv
BY InitialStates, Steps, PTL DEF Spec

\* Every value stays in its domain, and the manager's mutex is held by the one
\* goroutine that obtains a token, and by nobody else (oauth.go: AccessToken
\* holds m.mu over obtainLocked).
THEOREM SingleFlight == Spec => []MutexIsForGrants
<1>1. IInv => MutexIsForGrants
  BY DEF IInv
<1>2. QED
  BY <1>1, Invariance, PTL

\* No request outlives the token it carries, for every skew of at least twice
\* the timeout (oauth.go: expirySkew).
THEOREM TokensOutlive == Spec => []TokenOutlivesRequest
<1>1. IInv => TokenOutlivesRequest
  <2>1. ASSUME IInv, NEW c \in Callers, call[c].pc = "request"
        PROVE  now < life[call[c].token]
    <3>1. /\ now <= call[c].since + Timeout
          /\ call[c].since + Timeout < life[call[c].token]
          /\ call[c].token \in 1..issued
      BY <2>1, OneCall DEF CallOK, InFlight
    <3>2. /\ call[c].since \in Nat /\ Timeout \in Nat /\ now \in Nat
          /\ life[call[c].token] \in Nat
      <4>1. call[c].token \in Tokens
        BY <2>1, <3>1, OneCall, AccessAssumption DEF Tokens
      <4>2. QED
        BY <2>1, <4>1, OneCall, AccessAssumption DEF Call
    <3>3. QED
      BY <3>1, <3>2
  <2>2. QED
    BY <2>1 DEF TokenOutlivesRequest
<1>2. QED
  BY <1>1, Invariance, PTL

\* The one retry after a 401 carries a token issued after it, whatever grants
\* were under way (alphasense.go: do, oauth.go: Invalidate).
THEOREM FreshTokens == Spec => []RetryUsesFreshToken
<1>1. IInv => RetryUsesFreshToken
  BY OneCall DEF CallOK, RetryUsesFreshToken
<1>2. QED
  BY <1>1, Invariance, PTL
-----------------------------------------------------------------------------
(***************************************************************************)
(* Grants: each but the first follows a drop, or uses up the time after    *)
(* which a token is due for refresh.                                       *)
(***************************************************************************)

Due == Lifetime - Skew

\* All grants but those that follow a drop, and the one that stored the cached
\* token, have used up n times the time of a token.
Spent(n) ==
  IF cache.id = NoToken
  THEN grants <= drops + n /\ n * Due < now
  ELSE grants <= drops + n + 1 /\ n * Due + Lifetime < cache.expiry

\* The inductive invariant: the cached token was stored by now, a grant goes
\* on only for want of a valid one, and time has passed between grants.
GrantsTakeTime ==
  /\ cache.id # NoToken => cache.expiry <= now + Lifetime
  /\ holder # NoCaller => ~Valid(cache)
  /\ \E n \in Nat : Spent(n)

\* One time more.
LEMMA OnceMore ==
  ASSUME NEW n \in Nat, NEW d \in Nat
  PROVE  n * d \in Nat /\ (n + 1) * d = n * d + d
OBVIOUS

\* What fits n times.
LEMMA FitsTimes ==
  ASSUME NEW n \in Nat, NEW d \in Nat \ {0}, NEW a \in Nat, n * d <= a
  PROVE  n <= a \div d
<1> DEFINE q == a \div d
<1>1. q \in Nat /\ a < (q + 1) * d
  OBVIOUS
<1> HIDE DEF q
<1>2. CASE n > q
  <2>1. n >= q + 1 /\ n - (q + 1) \in Nat
    BY <1>1, <1>2
  <2>2. n * d = (q + 1) * d + (n - (q + 1)) * d /\ (n - (q + 1)) * d >= 0
    BY <1>1, <2>1
  <2>3. QED
    BY <1>1, <2>2
<1>3. QED
  BY <1>1, <1>2 DEF q

\* A step that leaves the cache, and takes the mutex only for want of a token.
LEMMA TimingRests ==
  ASSUME GrantsTakeTime, UNCHANGED <<now, cache, grants, drops>>,
         holder' = holder \/ holder' = NoCaller \/ ~Valid(cache)
  PROVE  GrantsTakeTime'
<1>1. Valid(cache)' <=> Valid(cache)
  BY DEF Valid
<1>2. \A n \in Nat : Spent(n)' <=> Spent(n)
  BY DEF Spent
<1>3. QED
  BY <1>1, <1>2 DEF GrantsTakeTime

\* Time passes.
LEMMA TimingTicks ==
  ASSUME IInv, GrantsTakeTime, Tick
  PROVE  GrantsTakeTime'
<1>1. /\ now \in Nat /\ now' = now + 1 /\ cache.expiry \in Nat
      /\ UNCHANGED <<cache, holder, grants, drops>>
  BY DEF IInv, MutexIsForGrants, TypeOK, Tick
<1>2. Lifetime \in Nat /\ Skew \in Nat
  BY AccessAssumption
<1>3. PICK n \in Nat : Spent(n)
  BY DEF GrantsTakeTime
<1>4. n * Due \in Nat
  <2>1. Due \in Nat
    BY AccessAssumption DEF Due
  <2>2. QED
    BY <2>1, OnceMore
<1>5. Spent(n)'
  BY <1>1, <1>3, <1>4 DEF Spent
<1>6. cache.id # NoToken => cache.expiry <= now' + Lifetime
  BY <1>1, <1>2 DEF GrantsTakeTime
<1>7. holder # NoCaller => ~Valid(cache)'
  BY <1>1, <1>2 DEF GrantsTakeTime, Valid
<1>8. QED
  BY <1>1, <1>5, <1>6, <1>7 DEF GrantsTakeTime

\* A grant is stored: there was no token, or the one there has had its time.
LEMMA TimingStores ==
  ASSUME IInv, GrantsTakeTime, NEW c \in Callers, Store(c)
  PROVE  GrantsTakeTime'
<1>1. /\ holder = c /\ c # NoCaller /\ now \in Nat /\ grants \in Nat /\ drops \in Nat
      /\ cache.expiry \in Nat /\ call[c].token # NoToken
  <2>1. call[c].pc = "granted" /\ call[c].token \in 1..issued /\ issued \in Nat
    BY OneCall DEF Store, CallOK
  <2>2. QED
    BY <2>1, OneCall DEF Granting, NoToken
<1>2. /\ cache' = [id |-> call[c].token, expiry |-> now + Lifetime]
      /\ holder' = NoCaller /\ grants' = grants + 1 /\ now' = now /\ drops' = drops
  BY DEF Store
<1>3. PICK n \in Nat : Spent(n)
  BY DEF GrantsTakeTime
<1>4. /\ Lifetime \in Nat /\ Skew \in Nat /\ Due \in Nat /\ Due = Lifetime - Skew
      /\ n * Due \in Nat /\ (n + 1) * Due = n * Due + Due
  <2>1. Due \in Nat
    BY AccessAssumption DEF Due
  <2>2. QED
    BY <2>1, AccessAssumption, OnceMore DEF Due
<1> HIDE DEF Due
<1>5. CASE cache.id = NoToken
  <2>1. grants <= drops + n /\ n * Due < now
    BY <1>3, <1>5 DEF Spent
  <2>2. grants + 1 <= drops + n + 1 /\ n * Due + Lifetime < now + Lifetime
    BY <1>1, <1>4, <2>1
  <2>3. Spent(n)'
    BY <1>1, <1>2, <2>2 DEF Spent
  <2>4. QED
    BY <1>1, <1>2, <1>4, <2>3 DEF GrantsTakeTime
<1>6. CASE cache.id # NoToken
  <2>1. grants <= drops + n + 1 /\ n * Due + Lifetime < cache.expiry
    BY <1>3, <1>6 DEF Spent
  <2>2. ~(now < cache.expiry - Skew)
    BY <1>1, <1>6 DEF GrantsTakeTime, Valid
  <2>3. /\ grants + 1 <= drops + (n + 1) + 1
        /\ (n + 1) * Due + Lifetime < now + Lifetime
    <3> DEFINE x == n * Due
               y == (n + 1) * Due
    <3> HIDE DEF x, y
    <3>1. x \in Nat /\ y = x + Lifetime - Skew /\ x + Lifetime < cache.expiry
      BY <1>4, <2>1 DEF x, y
    <3>2. y + Lifetime < now + Lifetime
      BY <1>1, <1>4, <2>2, <3>1
    <3>3. QED
      BY <1>1, <2>1, <3>2 DEF y
  <2>4. Spent(n + 1)'
    BY <1>1, <1>2, <2>3 DEF Spent
  <2>5. n + 1 \in Nat
    OBVIOUS
  <2>6. QED
    BY <1>1, <1>2, <1>4, <2>4, <2>5 DEF GrantsTakeTime
<1>7. QED
  BY <1>5, <1>6

\* A token is dropped: the next grant is owed to that.
LEMMA TimingDrops ==
  ASSUME IInv, GrantsTakeTime, NEW c \in Callers, Invalidate(c)
  PROVE  GrantsTakeTime'
<1>1. /\ now \in Nat /\ grants \in Nat /\ drops \in Nat /\ cache.expiry \in Nat
      /\ holder = NoCaller /\ holder' = NoCaller /\ cache' = Empty
      /\ drops' = IF cache = Empty THEN drops ELSE drops + 1
      /\ now' = now /\ grants' = grants
  BY OneCall DEF Invalidate
<1>2. Empty.id = NoToken
  BY DEF Empty
<1>3. PICK n \in Nat : Spent(n)
  BY DEF GrantsTakeTime
<1>4. n * Due \in Nat /\ Lifetime \in Nat
  <2>1. Due \in Nat
    BY AccessAssumption DEF Due
  <2>2. QED
    BY <2>1, OnceMore, AccessAssumption
<1>5. grants <= drops' + n /\ n * Due < now
  <2>1. CASE cache.id = NoToken
    BY <1>1, <1>3, <2>1 DEF Spent
  <2>2. CASE cache.id # NoToken
    <3>1. drops' = drops + 1 /\ grants <= drops + n + 1
          /\ n * Due + Lifetime < cache.expiry /\ cache.expiry <= now + Lifetime
      BY <1>1, <1>2, <1>3, <2>2 DEF Spent, GrantsTakeTime
    <3>2. QED
      BY <1>1, <1>4, <3>1
  <2>3. QED
    BY <2>1, <2>2
<1>6. Spent(n)'
  BY <1>1, <1>2, <1>5 DEF Spent
<1>7. cache'.id = NoToken /\ holder' = NoCaller
  BY <1>1, <1>2
<1>8. QED
  BY <1>6, <1>7 DEF GrantsTakeTime

\* Every step keeps it.
LEMMA TimingSteps ==
  ASSUME IInv, GrantsTakeTime, [Next]_vars
  PROVE  GrantsTakeTime'
<1>1. CASE UNCHANGED vars \/ Revoke
  <2>1. UNCHANGED <<now, cache, grants, drops>> /\ holder' = holder
    BY <1>1 DEF vars, Revoke
  <2>2. QED
    BY <2>1, TimingRests
<1>2. CASE Tick
  BY <1>2, TimingTicks
<1>3. ASSUME NEW c \in Callers,
             Begin(c) \/ BackoffEnds(c) \/ Issue(c) \/ GrantRejected(c) \/ GrantFails(c)
               \/ PauseEnds(c) \/ Succeed(c) \/ Unauthorized(c) \/ RequestRefused(c)
               \/ RequestFails(c) \/ TimeOut(c) \/ Cancel(c)
      PROVE  GrantsTakeTime'
  <2>1. UNCHANGED <<now, cache, grants, drops>> /\ (holder' = holder \/ holder' = NoCaller)
    BY <1>3 DEF Begin, BackoffEnds, Issue, GrantRejected, GrantFails, PauseEnds, Succeed,
                Unauthorized, RequestRefused, RequestFails, TimeOut, Cancel, Unlocked
  <2>2. QED
    BY <2>1, TimingRests
<1>4. ASSUME NEW c \in Callers, AccessToken(c)
      PROVE  GrantsTakeTime'
  <2>1. UNCHANGED <<now, cache, grants, drops>> /\ (holder' = holder \/ ~Valid(cache))
    BY <1>4 DEF AccessToken
  <2>2. QED
    BY <2>1, TimingRests
<1>5. QED
  BY <1>1, <1>2, <1>3, <1>4, TimingStores, TimingDrops DEF Next, CallerStep

\* Concurrent callers share a grant: beyond those owed to a 401 there is one
\* for each span in which a token falls due (oauth.go: AccessToken).
THEOREM SharedGrants == Spec => []GrantsAreNeeded
<1>1. Init => GrantsTakeTime
  <2> SUFFICES ASSUME Init
               PROVE  GrantsTakeTime
    OBVIOUS
  <2>1. cache.id = NoToken /\ holder = NoCaller /\ grants = 0 /\ drops = 0 /\ now = 1
    BY DEF Init, Empty
  <2>2. 0 * Due = 0
    <3>1. Due \in Nat
      BY AccessAssumption DEF Due
    <3>2. QED
      BY <3>1
  <2>3. Spent(0)
    BY <2>1, <2>2 DEF Spent
  <2>4. QED
    BY <2>1, <2>3 DEF GrantsTakeTime
<1>2. IInv /\ GrantsTakeTime => GrantsAreNeeded
  <2> SUFFICES ASSUME IInv, GrantsTakeTime
               PROVE  GrantsAreNeeded
    OBVIOUS
  <2>1. PICK n \in Nat : Spent(n)
    BY DEF GrantsTakeTime
  <2>2. /\ now \in Nat /\ grants \in Nat /\ drops \in Nat /\ cache.expiry \in Nat
        /\ Lifetime \in Nat
    BY AccessAssumption DEF IInv, MutexIsForGrants, TypeOK
  <2>3. Due \in Nat \ {0}
    BY AccessAssumption DEF Due
  <2>4. n * Due \in Nat
    BY <2>3, OnceMore
  <2>5. grants <= drops + n + 1 /\ n * Due < now
    BY <2>1, <2>2, <2>4 DEF Spent, GrantsTakeTime
  <2>6. n * Due <= now - 1 /\ now - 1 \in Nat
    BY <2>2, <2>4, <2>5
  <2>7. n <= (now - 1) \div Due
    BY <2>3, <2>6, FitsTimes
  <2>8. (now - 1) \div Due \in Nat
    BY <2>3, <2>6
  <2>9. grants <= 1 + drops + (now - 1) \div Due
    BY <2>2, <2>5, <2>7, <2>8
  <2>10. QED
    BY <2>9 DEF GrantsAreNeeded, Due
<1>3. QED
  BY <1>1, <1>2, Invariance, TimingSteps, PTL DEF Spec
=============================================================================
