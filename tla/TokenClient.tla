------------------------------ MODULE TokenClient ------------------------------
(***************************************************************************)
(* One client object that several threads share, and the server it talks   *)
(* to: the Go client (dbclients/go/client.go) and the Python one           *)
(* (dbclients/python/dbclient.py) cache a pair of tokens, log in, refresh  *)
(* it before it expires or when a request is answered 401, and log out.    *)
(* The server is AuthManager: thread p's request is served by goroutine p, *)
(* in the steps of that module, and a step of the two is one step here.    *)
(*                                                                         *)
(* A request may fail: it does not reach the server (or is answered 429),  *)
(* or its answer does not reach the client, the server having served it.   *)
(* Bound: goroutine p serves one request, so thread p's next one waits for *)
(* the handler of a request it has given up, which the client would not    *)
(* do; the requests of the other threads overlap with such a handler.      *)
(*                                                                         *)
(* Not covered: wrong credentials, clients without token authentication.   *)
(*                                                                         *)
(* quit, loggedOut and failed are history variables.                       *)
(***************************************************************************)
EXTENDS Integers, Sequences, FiniteSets

CONSTANTS Threads,
          Langs,          \* the clients to look at: "go", "python"
          RefreshThreshold,
          Second, AccessDuration, RefreshDuration, MaxRevokedTokens, KeyConfigured, NoToken,
          MaxTime,        \* bound on ticks, restarts and failed requests together
          MaxIds, MaxRestarts, MaxCalls      \* bounds

NoOne == "nobody"

ASSUME LangsAssumption == Langs \subseteq {"go", "python"}
ASSUME ThreadsAssumption == NoOne \notin Threads
ASSUME ServerAssumption ==
  /\ Second \in Nat \ {0} /\ AccessDuration \in Nat /\ RefreshDuration \in Nat
  /\ MaxRevokedTokens \in Nat /\ KeyConfigured \in BOOLEAN
  /\ MaxTime \in Nat /\ MaxIds \in Nat /\ MaxRestarts \in Nat

VARIABLES
  \* the server
  now, key, nextId, issued, revoked, pc, req, left, everRevoked, forgotten, late,
  exchanged, restarts,
  \* the client
  lang,
  accessToken, refreshToken,  \* the cache; the expiry is the access token's
  authLock,                   \* the thread that holds _auth_lock (Python)
  cpc,                        \* what each thread does next
  call,                       \* the request it was asked to make
  body,                       \* the tokens the request names (a logout's)
  retry,                      \* whether it gets tokens because of a 401
  held,                       \* the refresh token it posts
  got,                        \* the pair the server has sent it
  calls, fails,
  quit,                       \* tokens the cache held when its logout began
  loggedOut,                  \* tokens of logouts that returned without error
  failed                      \* whether any request has failed

Server == INSTANCE AuthManager WITH Procs <- Threads

ASSUME NoTokenAssumption == NoToken \notin Server!Token

server == <<now, key, nextId, issued, revoked, pc, req, left, everRevoked, forgotten, late,
            exchanged, restarts>>
cache  == <<accessToken, refreshToken>>
ghosts == <<quit, loggedOut, failed>>
vars == <<server, lang, cache, authLock, cpc, call, body, retry, held, got, calls, fails, ghosts>>

InTime == now + restarts + fails < MaxTime
AccessOf(pair) == CHOOSE t \in pair : t.kind = "access"
RefreshOf(pair) == CHOOSE t \in pair : t.kind = "refresh"
Listed(t) == t \in Server!TokensOf(revoked)

Init == /\ Server!Init
        /\ lang \in Langs
        /\ accessToken = NoToken /\ refreshToken = NoToken
        /\ authLock = NoOne
        /\ cpc = [p \in Threads |-> "idle"]
        /\ call = [p \in Threads |-> "none"]
        /\ body = [p \in Threads |-> <<>>]
        /\ retry = [p \in Threads |-> FALSE]
        /\ held = [p \in Threads |-> NoToken]
        /\ got = [p \in Threads |-> {}]
        /\ calls = 0 /\ fails = 0
        /\ quit = [p \in Threads |-> {}]
        /\ loggedOut = {} /\ failed = FALSE

Goto(p, l) == cpc' = [cpc EXCEPT ![p] = l]
Unlocked(p) == IF authLock = p THEN NoOne ELSE authLock

\* The threads in S, whose calls have ended, forget what they were doing.
Return(S) ==
  /\ cpc' = [p \in Threads |-> IF p \in S THEN "idle" ELSE cpc[p]]
  /\ call' = [p \in Threads |-> IF p \in S THEN "none" ELSE call[p]]
  /\ body' = [p \in Threads |-> IF p \in S THEN <<>> ELSE body[p]]
  /\ retry' = [p \in Threads |-> IF p \in S THEN FALSE ELSE retry[p]]
  /\ held' = [p \in Threads |-> IF p \in S THEN NoToken ELSE held[p]]
  /\ quit' = [p \in Threads |-> IF p \in S THEN {} ELSE quit[p]]
  /\ authLock' = IF authLock \in S THEN NoOne ELSE authLock

locals == <<call, body, retry, held, quit, authLock>>

-----------------------------------------------------------------------------
(* A call begins. *)

StartCall(p) ==
  /\ cpc[p] = "idle" /\ pc[p] = "idle"
  /\ calls < MaxCalls
  /\ calls' = calls + 1

Request(p) ==
  /\ StartCall(p)
  /\ call' = [call EXCEPT ![p] = "api"]
  /\ Goto(p, "ensure")
  /\ UNCHANGED <<server, lang, cache, authLock, body, retry, held, got, fails, ghosts>>

CachedPair == IF accessToken = NoToken THEN <<>> ELSE <<accessToken, refreshToken>>

\* Mutant of Logout: the cache is cleared before the tokens are taken from it.
LogoutCleared(p) ==
  /\ lang = "go"
  /\ StartCall(p)
  /\ call' = [call EXCEPT ![p] = "logout"]
  /\ quit' = [quit EXCEPT ![p] = {accessToken, refreshToken} \ {NoToken}]
  /\ accessToken' = NoToken /\ refreshToken' = NoToken
  /\ Goto(p, "ensure")
  /\ UNCHANGED <<server, lang, authLock, body, retry, held, got, fails, loggedOut, failed>>

\* Go: Logout takes the tokens from the cache and posts them as any request,
\* through doRequest.
Logout(p) ==
  /\ lang = "go"
  /\ StartCall(p)
  /\ call' = [call EXCEPT ![p] = "logout"]
  /\ body' = [body EXCEPT ![p] = CachedPair]
  /\ quit' = [quit EXCEPT ![p] = {accessToken, refreshToken} \ {NoToken}]
  /\ accessToken' = NoToken /\ refreshToken' = NoToken
  /\ Goto(p, "ensure")
  /\ UNCHANGED <<server, lang, authLock, retry, held, got, fails, loggedOut, failed>>

\* Python: logout reads the tokens, clears the cache, and posts the tokens
\* without an Authorization header.
LogoutReads(p) ==
  /\ lang = "python"
  /\ StartCall(p)
  /\ call' = [call EXCEPT ![p] = "logout"]
  /\ quit' = [quit EXCEPT ![p] = {accessToken, refreshToken} \ {NoToken}]
  /\ Goto(p, "clear")
  /\ UNCHANGED <<server, lang, cache, authLock, body, retry, held, got, fails, loggedOut, failed>>

\* withAuth answers 401, and logout ignores that.
LogoutClears(p) ==
  /\ cpc[p] = "clear"
  /\ accessToken' = NoToken /\ refreshToken' = NoToken
  /\ loggedOut' = loggedOut \cup quit[p]
  /\ Return({p})
  /\ UNCHANGED <<server, lang, got, calls, fails, failed>>

-----------------------------------------------------------------------------
(* Getting tokens. *)

\* The cached token is missing or about to expire.
NeedsRefresh ==
  IF accessToken = NoToken THEN TRUE
  ELSE IF lang = "go" THEN now + RefreshThreshold > accessToken.exp
       ELSE now + RefreshThreshold >= accessToken.exp

FirstStep == IF accessToken = NoToken THEN "login" ELSE "refresh"

\* ensureValidToken, up to Python's _auth_lock.
EnsureValidToken(p) ==
  /\ cpc[p] = "ensure"
  /\ Goto(p, IF ~NeedsRefresh THEN "send" ELSE IF lang = "go" THEN FirstStep ELSE "lock")
  /\ retry' = [retry EXCEPT ![p] = FALSE]
  /\ UNCHANGED <<server, lang, cache, authLock, call, body, held, got, calls, fails, ghosts>>

\* Mutant of AuthLock: the lock is given back before the tokens are refreshed.
AuthLockBriefly(p) ==
  /\ cpc[p] = "lock"
  /\ authLock = NoOne
  /\ Goto(p, IF retry[p] THEN "refresh" ELSE IF NeedsRefresh THEN FirstStep ELSE "send")
  /\ UNCHANGED <<server, lang, cache, authLock, call, body, retry, held, got, calls, fails, ghosts>>

\* Under the lock, Python looks again whether tokens are needed; not so after
\* a 401.
AuthLock(p) ==
  /\ cpc[p] = "lock"
  /\ authLock = NoOne
  /\ IF ~retry[p] /\ ~NeedsRefresh
     THEN Goto(p, "send") /\ UNCHANGED authLock
     ELSE /\ authLock' = p
          /\ Goto(p, IF retry[p] THEN "refresh" ELSE FirstStep)
  /\ UNCHANGED <<server, lang, cache, call, body, retry, held, got, calls, fails, ghosts>>

\* Python raises when it refreshes after a 401 and that fails.
Raises(p) == lang = "python" /\ retry[p]

\* A refresh that came to nothing.
RefreshFails(p) ==
  IF Raises(p) THEN Return({p})
  ELSE /\ Goto(p, "login")
       /\ held' = [held EXCEPT ![p] = NoToken]
       /\ UNCHANGED <<call, body, retry, quit, authLock>>

\* RefreshTokens reads the refresh token.
RefreshTokens(p) ==
  /\ cpc[p] = "refresh"
  /\ IF refreshToken = NoToken
     THEN /\ RefreshFails(p)
          /\ failed' = (failed \/ Raises(p))
     ELSE /\ held' = [held EXCEPT ![p] = refreshToken]
          /\ Goto(p, "post")
          /\ UNCHANGED <<call, body, retry, quit, authLock, failed>>
  /\ UNCHANGED <<server, lang, cache, got, calls, fails, loggedOut>>

PostRefresh(p) ==
  /\ cpc[p] = "post"
  /\ Server!CheckRevoked(p, held[p], "refresh", <<>>)
  /\ Goto(p, "refreshing")
  /\ UNCHANGED <<lang, cache, locals, got, calls, fails, loggedOut, failed>>

\* Mutant of RefreshRefused: the refresh is tried again.
RefreshAgain(p) ==
  /\ \/ cpc[p] = "post" /\ pc[p] = "idle" /\ Listed(held[p]) /\ UNCHANGED server
     \/ cpc[p] = "refreshing" /\ Server!RefuseToken(p)
  /\ Goto(p, "refresh")
  /\ UNCHANGED <<lang, cache, locals, got, calls, fails, ghosts>>

\* handleRefresh answers 401.
RefreshRefused(p) ==
  /\ \/ cpc[p] = "post" /\ pc[p] = "idle" /\ Listed(held[p]) /\ UNCHANGED server
     \/ cpc[p] = "refreshing" /\ Server!RefuseToken(p)
  /\ RefreshFails(p)
  /\ failed' = (failed \/ Raises(p))
  /\ UNCHANGED <<lang, cache, got, calls, fails, loggedOut>>

\* handleRefresh answers with a new pair.
Refreshed(p) ==
  /\ cpc[p] = "refreshing"
  /\ Server!IssuePair(p)
  /\ got' = [got EXCEPT ![p] = Server!Pair]
  /\ Goto(p, "store")
  /\ UNCHANGED <<lang, cache, locals, calls, fails, ghosts>>

\* Login.
LoggedIn(p) ==
  /\ cpc[p] = "login"
  /\ Server!Login
  /\ got' = [got EXCEPT ![p] = Server!Pair]
  /\ Goto(p, "store")
  /\ UNCHANGED <<lang, cache, locals, calls, fails, ghosts>>

\* Mutant of StoreTokens: a refresh token that is cached is not replaced.
StoreAccessToken(p) ==
  /\ cpc[p] = "store"
  /\ accessToken' = AccessOf(got[p])
  /\ refreshToken' = IF refreshToken = NoToken THEN RefreshOf(got[p]) ELSE refreshToken
  /\ got' = [got EXCEPT ![p] = {}]
  /\ held' = [held EXCEPT ![p] = NoToken]
  /\ authLock' = Unlocked(p)
  /\ Goto(p, IF retry[p] THEN "ensure" ELSE "send")
  /\ UNCHANGED <<server, lang, call, body, retry, calls, fails, ghosts>>

\* The pair is cached, and doRequest goes on or begins again.
StoreTokens(p) ==
  /\ cpc[p] = "store"
  /\ accessToken' = AccessOf(got[p]) /\ refreshToken' = RefreshOf(got[p])
  /\ got' = [got EXCEPT ![p] = {}]
  /\ held' = [held EXCEPT ![p] = NoToken]
  /\ authLock' = Unlocked(p)
  /\ Goto(p, IF retry[p] THEN "ensure" ELSE "send")
  /\ UNCHANGED <<server, lang, call, body, retry, calls, fails, ghosts>>

-----------------------------------------------------------------------------
(* The request itself. *)

\* doRequest reads the access token again and sends the request.
Send(p) ==
  /\ cpc[p] = "send"
  /\ accessToken # NoToken
  /\ Server!CheckRevoked(p, accessToken, call[p], body[p])
  /\ Goto(p, "sent")
  /\ UNCHANGED <<lang, cache, locals, got, calls, fails, loggedOut, failed>>

\* The answer is 401: a token that is missing, listed, expired or of another
\* key.
Unauthorized(p) ==
  /\ \/ /\ cpc[p] = "send" /\ pc[p] = "idle"
        /\ accessToken = NoToken \/ Listed(accessToken)
        /\ UNCHANGED server
     \/ cpc[p] = "sent" /\ Server!RefuseToken(p)
  /\ retry' = [retry EXCEPT ![p] = TRUE]
  /\ Goto(p, IF lang = "go" THEN "refresh" ELSE "lock")
  /\ UNCHANGED <<lang, cache, authLock, call, body, held, got, calls, fails, ghosts>>

\* The request is answered otherwise, and the call returns.
Answered(p) ==
  /\ cpc[p] = "sent"
  /\ Server!Serve(p) \/ Server!LogoutDone(p)
  /\ loggedOut' = loggedOut \cup quit[p]
  /\ Return({p})
  /\ UNCHANGED <<lang, cache, got, calls, fails, failed>>

\* The server works on the request.
Serves(p) ==
  /\ Server!ParseToken(p) \/ Server!RevokeToken(p)
  /\ UNCHANGED <<lang, cache, locals, cpc, got, calls, fails, loggedOut, failed>>

-----------------------------------------------------------------------------
(* Faults. *)

\* The request fails on its way to the server, or its answer on the way back.
RequestFails(p) ==
  /\ cpc[p] \in {"login", "post", "refreshing", "send", "sent"}
  /\ InTime
  /\ fails' = fails + 1
  /\ failed' = TRUE
  /\ IF cpc[p] \in {"post", "refreshing"} THEN RefreshFails(p) ELSE Return({p})
  /\ UNCHANGED <<server, lang, cache, got, calls, loggedOut>>

\* The server goes on with a request whose client has given up.
Orphaned(p) ==
  /\ cpc[p] \notin {"refreshing", "sent"}
  /\ \/ Server!RefuseToken(p) \/ Server!Serve(p) \/ Server!LogoutDone(p)
     \/ Server!IssuePair(p)
  /\ UNCHANGED <<lang, cache, locals, cpc, got, calls, fails, loggedOut, failed>>

\* The server restarts: requests it was serving fail.
Restart ==
  LET waiting == {p \in Threads : cpc[p] \in {"refreshing", "sent"}}
      refreshing == {p \in waiting : cpc[p] = "refreshing" /\ ~Raises(p)}
      ended == waiting \ refreshing
  IN  /\ InTime /\ Server!Restart
      /\ cpc' = [p \in Threads |-> IF p \in refreshing THEN "login"
                                   ELSE IF p \in ended THEN "idle" ELSE cpc[p]]
      /\ call' = [p \in Threads |-> IF p \in ended THEN "none" ELSE call[p]]
      /\ body' = [p \in Threads |-> IF p \in ended THEN <<>> ELSE body[p]]
      /\ retry' = [p \in Threads |-> IF p \in ended THEN FALSE ELSE retry[p]]
      /\ held' = [p \in Threads |-> IF p \in waiting THEN NoToken ELSE held[p]]
      /\ quit' = [p \in Threads |-> IF p \in ended THEN {} ELSE quit[p]]
      /\ authLock' = IF authLock \in ended THEN NoOne ELSE authLock
      /\ failed' = (failed \/ waiting # {})
      /\ UNCHANGED <<lang, cache, got, calls, fails, loggedOut>>

Background ==
  /\ (InTime /\ Server!Tick) \/ Server!CleanupRevokedTokens \/ Server!EmergencyCleanup
  /\ UNCHANGED <<lang, cache, locals, cpc, got, calls, fails, loggedOut, failed>>

Begin(p) == Request(p) \/ Logout(p) \/ LogoutReads(p)
Step(p) == \/ LogoutClears(p) \/ EnsureValidToken(p) \/ AuthLock(p) \/ RefreshTokens(p)
           \/ PostRefresh(p) \/ RefreshRefused(p) \/ Refreshed(p) \/ LoggedIn(p)
           \/ StoreTokens(p) \/ Send(p) \/ Unauthorized(p) \/ Answered(p)
           \/ Serves(p) \/ Orphaned(p)

Next == \/ Background \/ Restart
        \/ \E p \in Threads : Begin(p) \/ Step(p) \/ RequestFails(p)

\* Of the threads and goroutines that can go on, some do.
Fairness == WF_vars(\E p \in Threads : Step(p))

Spec == Init /\ [][Next]_vars /\ Fairness

-----------------------------------------------------------------------------
(* Properties. *)

Labels == {"idle", "ensure", "lock", "refresh", "post", "refreshing", "login", "store", "send",
           "sent", "clear"}

\* The types; the cache holds both tokens of a pair or none; a thread that has
\* a pair is about to store it.
TypeOK ==
  /\ Server!TypeOK
  /\ lang \in {"go", "python"}
  /\ accessToken \in issued \cup {NoToken} /\ refreshToken \in issued \cup {NoToken}
  /\ IF accessToken = NoToken THEN refreshToken = NoToken
     ELSE /\ refreshToken # NoToken
          /\ accessToken.id = refreshToken.id
          /\ accessToken.kind = "access" /\ refreshToken.kind = "refresh"
  /\ authLock \in Threads \cup {NoOne}
  /\ cpc \in [Threads -> Labels]
  /\ call \in [Threads -> {"none", "api", "logout"}]
  /\ body \in [Threads -> Server!Bodies]
  /\ retry \in [Threads -> BOOLEAN]
  /\ held \in [Threads -> issued \cup {NoToken}]
  /\ \A p \in Threads : got[p] \subseteq issued /\ (cpc[p] = "store" <=> got[p] # {})
  /\ calls \in Nat /\ fails \in Nat /\ failed \in BOOLEAN
  /\ \A p \in Threads : quit[p] \subseteq issued
  /\ loggedOut \subseteq issued

Dead(t) == \/ Listed(t) \/ t \in Server!TokensOf(forgotten)
           \/ ~Server!Parses(t)

\* What is true of Go's Logout (client.go:217-248): when it returns without an
\* error the tokens that were cached when it began are of no use any more,
\* however the threads interleave and whatever answers were lost.  It does not
\* say that the client then holds no live token: see LogoutEndsSession.
LogoutRevokes == lang = "go" => \A t \in loggedOut : Dead(t)

\* The same of every token the client holds, once a logout has returned and no
\* thread is at work ("Logout revokes the current tokens", client.go; "Logout
\* and revoke tokens", dbclient.py).
LogoutEndsSession ==
  (\A p \in Threads : cpc[p] = "idle") /\ loggedOut # {} => \A t \in loggedOut \cup {refreshToken} :
    t = NoToken \/ Dead(t)

\* The refresh token in the cache is one the server still exchanges, unless a
\* thread is about to replace it, or a request has failed: threads that refresh
\* at the same time do not leave a spent token behind.
CachedRefreshUnspent ==
  (\E x \in exchanged : x[1] = refreshToken) =>
    failed \/ \E p \in Threads : cpc[p] \in {"refreshing", "login", "store"}

\* Python's _auth_lock ("Lock for thread-safe login/refresh"): no thread posts a
\* refresh token that another thread has exchanged.
RefreshesInTurn ==
  lang = "python" =>
    \A p \in Threads : cpc[p] = "post" =>
      failed \/ \A x \in exchanged : x[1] # held[p]

\* Every call returns, although requests are answered 401 and tokens expire, are
\* revoked by other threads and forgotten by a server that restarts: doRequest
\* calls itself after a 401, as often as it takes ("retry once", client.go:574).
CallsReturn == \A p \in Threads : (cpc[p] # "idle") ~> (cpc[p] = "idle")
=============================================================================
