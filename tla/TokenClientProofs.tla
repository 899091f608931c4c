--------------------------- MODULE TokenClientProofs ---------------------------
(* Theorems about TokenClient, from those about AuthManager. *)
EXTENDS TokenClient, TLAPS

AuthFacts == INSTANCE AuthManagerProofs WITH Procs <- Threads

\* The cache holds both tokens of a pair or none.
CacheOK ==
  /\ accessToken \in issued \cup {NoToken} /\ refreshToken \in issued \cup {NoToken}
  /\ IF accessToken = NoToken THEN refreshToken = NoToken
     ELSE /\ refreshToken # NoToken
          /\ accessToken.id = refreshToken.id
          /\ accessToken.kind = "access" /\ refreshToken.kind = "refresh"

FunctionsOK ==
  /\ cpc \in [Threads -> Labels]
  /\ call \in [Threads -> {"none", "api", "logout"}]
  /\ body \in [Threads -> Server!Bodies]
  /\ retry \in [Threads -> BOOLEAN]
  /\ held \in [Threads -> issued \cup {NoToken}]
  /\ got \in [Threads -> SUBSET issued]
  /\ quit \in [Threads -> SUBSET issued]

\* The tokens of one pair.
Both(pair) ==
  /\ \A s, t \in pair : s.id = t.id
  /\ \A k \in Server!TokenKinds : \E t \in pair : t.kind = k

\* What a thread is about to post, send or store is there.
ThreadOK(p) ==
  /\ cpc[p] = "post" => held[p] \in issued
  /\ cpc[p] # "idle" => call[p] # "none"
  /\ cpc[p] = "store" => Both(got[p])
  /\ cpc[p] # "store" => got[p] = {}

ClientInv ==
  /\ CacheOK /\ FunctionsOK
  /\ \A p \in Threads : ThreadOK(p)
  /\ lang \in {"go", "python"} /\ authLock \in Threads \cup {NoOne}
  /\ calls \in Nat /\ fails \in Nat /\ failed \in BOOLEAN
  /\ loggedOut \subseteq issued

-----------------------------------------------------------------------------
(* The server's part of every step. *)

LEMMA SameCardinality == \A S : Server!Cardinality(S) = AuthFacts!Cardinality(S)
BY DEF Server!Cardinality, AuthFacts!Cardinality

\* The steps of Server are those the theorems about AuthManager speak of.
LEMMA SameStep == [Server!Next]_(Server!vars) => [AuthFacts!Next]_(AuthFacts!vars)
<1> USE DEF Server!History, AuthFacts!History
<1>1. Server!vars = AuthFacts!vars /\ (UNCHANGED Server!vars => UNCHANGED AuthFacts!vars)
  BY DEF Server!vars, AuthFacts!vars
<1>2. /\ Server!Pair = AuthFacts!Pair /\ Server!NoRequest = AuthFacts!NoRequest
      /\ Server!Kept = AuthFacts!Kept /\ Server!Bodies = AuthFacts!Bodies
      /\ \A S : Server!TokensOf(S) = AuthFacts!TokensOf(S)
  BY DEF Server!Pair, AuthFacts!Pair, Server!NoRequest, AuthFacts!NoRequest, Server!Kept, AuthFacts!Kept,
         Server!Bodies, AuthFacts!Bodies, Server!TokensOf, AuthFacts!TokensOf, Server!Truncate, AuthFacts!Truncate,
         Server!Duration, AuthFacts!Duration, Server!TokenKinds, AuthFacts!TokenKinds
<1>3. Server!Tick => AuthFacts!Tick
  BY <1>2 DEF Server!Tick, AuthFacts!Tick
<1>4. Server!Login => AuthFacts!Login
  BY <1>2 DEF Server!Login, AuthFacts!Login
<1>5. Server!CleanupRevokedTokens => AuthFacts!CleanupRevokedTokens
  BY <1>2, SameCardinality DEF Server!CleanupRevokedTokens, AuthFacts!CleanupRevokedTokens
<1>6. Server!EmergencyCleanup => AuthFacts!EmergencyCleanup
  BY <1>2, SameCardinality DEF Server!EmergencyCleanup, AuthFacts!EmergencyCleanup
<1>7. Server!Restart => AuthFacts!Restart
  BY <1>2 DEF Server!Restart, AuthFacts!Restart
<1>8. \A p \in Threads : Server!Step(p) => AuthFacts!Step(p)
  <2> TAKE p \in Threads
  <2>1. Server!ParseToken(p) => AuthFacts!ParseToken(p)
    BY <1>2 DEF Server!ParseToken, AuthFacts!ParseToken, Server!Parses, AuthFacts!Parses
  <2>2. Server!RefuseToken(p) => AuthFacts!RefuseToken(p)
    BY <1>2 DEF Server!RefuseToken, AuthFacts!RefuseToken, Server!Parses, AuthFacts!Parses, Server!Release, AuthFacts!Release
  <2>3. Server!Serve(p) => AuthFacts!Serve(p)
    BY <1>2 DEF Server!Serve, AuthFacts!Serve, Server!Release, AuthFacts!Release
  <2>4. Server!RevokeToken(p) => AuthFacts!RevokeToken(p)
    BY <1>2 DEF Server!RevokeToken, AuthFacts!RevokeToken
  <2>5. Server!LogoutDone(p) => AuthFacts!LogoutDone(p)
    BY <1>2 DEF Server!LogoutDone, AuthFacts!LogoutDone, Server!Release, AuthFacts!Release
  <2>6. Server!IssuePair(p) => AuthFacts!IssuePair(p)
    BY <1>2 DEF Server!IssuePair, AuthFacts!IssuePair, Server!Release, AuthFacts!Release
  <2> QED BY <2>1, <2>2, <2>3, <2>4, <2>5, <2>6 DEF Server!Step, AuthFacts!Step
<1>9. \A p \in Threads : \A t, kind, names :
       Server!CheckRevoked(p, t, kind, names) => AuthFacts!CheckRevoked(p, t, kind, names)
  BY <1>2 DEF Server!CheckRevoked, AuthFacts!CheckRevoked
<1>10. \A p \in Threads : \A names : Server!BasicLogout(p, names) => AuthFacts!BasicLogout(p, names)
  BY <1>2 DEF Server!BasicLogout, AuthFacts!BasicLogout
<1>11. \A p \in Threads : Server!Request(p) => AuthFacts!Request(p)
  BY <1>2, <1>9, <1>10 DEF Server!Request, AuthFacts!Request
<1> QED BY <1>1, <1>3, <1>4, <1>5, <1>6, <1>7, <1>8, <1>11 DEF Server!Next, AuthFacts!Next

LEMMA SameInit == Server!Init => AuthFacts!Init
BY DEF Server!Init, AuthFacts!Init, Server!NoRequest, AuthFacts!NoRequest
LEMMA ServerStep ==
  ASSUME ClientInv, [Next]_vars PROVE [Server!Next]_(Server!vars)
<1>0. UNCHANGED server => UNCHANGED Server!vars BY DEF server, Server!vars
<1>1. CASE UNCHANGED vars BY <1>0, <1>1 DEF vars
<1>2. CASE Background BY <1>2 DEF Background, Server!Next
<1>3. CASE Restart BY <1>3 DEF Restart, Server!Next
<1>4. ASSUME NEW p \in Threads, Server!Step(p) PROVE Server!Next BY <1>4 DEF Server!Next
<1>5. ASSUME NEW p \in Threads, Begin(p) \/ RequestFails(p) PROVE UNCHANGED server
  BY <1>5 DEF Begin, RequestFails, Request, Logout, LogoutReads
<1>6. ASSUME NEW p \in Threads, Step(p) PROVE Server!Next \/ UNCHANGED server
  <2> USE DEF Server!Step
  <2>1. CASE LogoutClears(p) \/ EnsureValidToken(p) \/ AuthLock(p) \/ RefreshTokens(p) \/ StoreTokens(p)
    BY <2>1 DEF LogoutClears, EnsureValidToken, AuthLock, RefreshTokens, StoreTokens
  <2>2. CASE LoggedIn(p) BY <2>2 DEF LoggedIn, Server!Next
  <2>3. CASE RefreshRefused(p) BY <1>4, <2>3 DEF RefreshRefused
  <2>4. CASE Refreshed(p) BY <1>4, <2>4 DEF Refreshed
  <2>5. CASE Unauthorized(p) BY <1>4, <2>5 DEF Unauthorized
  <2>6. CASE Answered(p) BY <1>4, <2>6 DEF Answered
  <2>7. CASE Serves(p) BY <1>4, <2>7 DEF Serves
  <2>8. CASE Orphaned(p) BY <1>4, <2>8 DEF Orphaned
  <2>9. CASE PostRefresh(p)
    <3>1. held[p] \in issued /\ <<>> \in Server!Bodies
      BY <2>9 DEF PostRefresh, ClientInv, ThreadOK, Server!Bodies
    <3> QED BY <2>9, <3>1 DEF PostRefresh, Server!Next, Server!Request
  <2>10. CASE Send(p)
    <3>1. accessToken \in issued /\ call[p] \in {"api", "logout"} /\ body[p] \in Server!Bodies
      BY <2>10 DEF Send, ClientInv, CacheOK, FunctionsOK, ThreadOK
    <3> QED BY <2>10, <3>1 DEF Send, Server!Next, Server!Request
  <2> QED BY <1>6, <2>1, <2>2, <2>3, <2>4, <2>5, <2>6, <2>7, <2>8, <2>9, <2>10 DEF Step
<1> QED BY <1>0, <1>1, <1>2, <1>3, <1>5, <1>6 DEF Next


-----------------------------------------------------------------------------
(* The client's state. *)

LEMMA Wider ==
  ASSUME issued \subseteq issued'
  PROVE  Server!Bodies \subseteq Server!Bodies'
BY DEF Server!Bodies

\* The two tokens of a pair, which the cache keeps apart.
LEMMA PairTokens ==
  ASSUME NEW pair, Both(pair)
  PROVE  /\ AccessOf(pair) \in pair /\ AccessOf(pair).kind = "access"
         /\ RefreshOf(pair) \in pair /\ RefreshOf(pair).kind = "refresh"
BY Zenon DEF AccessOf, RefreshOf, Both, Server!TokenKinds

LEMMA NewPair == Both(Server!Pair) /\ Server!Pair # {}
<1> DEFINE T(k) == [id |-> nextId, kind |-> k, exp |-> Server!Truncate(now + Server!Duration(k)), key |-> key]
<1>1. \A k : T(k).id = nextId /\ T(k).kind = k
  OBVIOUS
<1>2. Server!Pair = {T(k) : k \in Server!TokenKinds}
  BY DEF Server!Pair
<1> HIDE DEF T
<1> QED BY <1>1, <1>2 DEF Both, Server!TokenKinds

\* Only a login and a refresh issue tokens.
LEMMA Issues ==
  ASSUME [Next]_vars
  PROVE  issued \subseteq issued'
<1>1. UNCHANGED vars => issued' = issued
  BY DEF vars, server
<1>2. Background \/ Restart => issued' = issued
  BY DEF Background, Restart, Server!Tick, Server!CleanupRevokedTokens, Server!EmergencyCleanup, Server!Restart
<1>3. ASSUME NEW p \in Threads, Begin(p) \/ Step(p) \/ RequestFails(p) PROVE issued \subseteq issued'
  <2> USE DEF server
  <2>1. CASE Begin(p)
    BY <2>1 DEF Begin, Request, Logout, LogoutReads
  <2>2. CASE RequestFails(p)
    BY <2>2 DEF RequestFails
  <2>3. CASE Step(p)
    BY <2>3 DEF Step, LogoutClears, EnsureValidToken, AuthLock, RefreshTokens, PostRefresh, RefreshRefused,
       Refreshed, LoggedIn, StoreTokens, Send, Unauthorized, Answered, Serves, Orphaned,
       Server!CheckRevoked, Server!RefuseToken, Server!IssuePair, Server!Login, Server!Serve,
       Server!LogoutDone, Server!ParseToken, Server!RevokeToken
  <2> QED BY <1>3, <2>1, <2>2, <2>3
<1> QED BY <1>1, <1>2, <1>3 DEF Next

\* A thread that returns, a thread that goes on, and threads that do nothing.
LEMMA ClientReturn ==
  ASSUME ClientInv, NEW S \in SUBSET Threads, Return(S), issued \subseteq issued', UNCHANGED got,
         \A p \in S : cpc[p] # "store"
  PROVE  FunctionsOK' /\ (\A p \in Threads : ThreadOK(p)') /\ (authLock \in Threads \cup {NoOne})'
<1>1. Server!Bodies \subseteq Server!Bodies' /\ <<>> \in Server!Bodies'
  BY Wider DEF Server!Bodies
<1>2. FunctionsOK'
  BY <1>1 DEF ClientInv, FunctionsOK, Return, Labels
<1>3. \A p \in Threads : ThreadOK(p)'
  BY DEF ClientInv, FunctionsOK, ThreadOK, Return
<1> QED BY <1>2, <1>3 DEF ClientInv, Return

\* One thread goes on, with what it needs.
LEMMA ClientGoesOn ==
  ASSUME ClientInv, NEW p \in Threads, NEW l \in Labels, Goto(p, l), issued \subseteq issued',
         body' = body \/ \E b \in Server!Bodies : body' = [body EXCEPT ![p] = b],
         call' = call \/ \E c \in {"api", "logout"} : call' = [call EXCEPT ![p] = c],
         retry' = retry \/ \E b \in BOOLEAN : retry' = [retry EXCEPT ![p] = b],
         held' = held \/ \E t \in issued \cup {NoToken} : held' = [held EXCEPT ![p] = t],
         got' = got \/ \E T \in SUBSET issued' : got' = [got EXCEPT ![p] = T],
         quit' = quit \/ \E T \in SUBSET issued : quit' = [quit EXCEPT ![p] = T],
         ThreadOK(p)'
  PROVE  FunctionsOK' /\ (\A o \in Threads : ThreadOK(o)')
<1>1. Server!Bodies \subseteq Server!Bodies'
  BY Wider
<1>2. cpc' \in [Threads -> Labels] /\ call' \in [Threads -> {"none", "api", "logout"}]
      /\ retry' \in [Threads -> BOOLEAN]
  BY DEF ClientInv, FunctionsOK, Goto
<1>3. body' \in [Threads -> Server!Bodies'] /\ held' \in [Threads -> issued' \cup {NoToken}]
  BY <1>1 DEF ClientInv, FunctionsOK
<1>4. got' \in [Threads -> SUBSET issued'] /\ quit' \in [Threads -> SUBSET issued']
  BY DEF ClientInv, FunctionsOK
<1>5. ASSUME NEW o \in Threads, o # p PROVE ThreadOK(o)'
  <2>1. cpc'[o] = cpc[o] /\ held'[o] = held[o] /\ call'[o] = call[o] /\ got'[o] = got[o]
    BY <1>5 DEF ClientInv, FunctionsOK, Goto
  <2> QED BY <2>1 DEF ClientInv, ThreadOK
<1> QED BY <1>2, <1>3, <1>4, <1>5 DEF FunctionsOK

LEMMA CacheStays ==
  ASSUME CacheOK, issued \subseteq issued', UNCHANGED cache PROVE CacheOK'
BY DEF CacheOK, cache
LEMMA ClientThread ==
  ASSUME ClientInv, NEW p \in Threads, Begin(p) \/ Step(p) \/ RequestFails(p), issued \subseteq issued'
  PROVE  FunctionsOK' /\ (\A o \in Threads : ThreadOK(o)') /\ (authLock \in Threads \cup {NoOne})'
<1> DEFINE OK == FunctionsOK' /\ (\A o \in Threads : ThreadOK(o)') /\ (authLock \in Threads \cup {NoOne})'
<1>1. ASSUME NEW l \in Labels, Goto(p, l), UNCHANGED locals, UNCHANGED got, cpc[p] # "idle",
             cpc[p] # "store", l \notin {"store", "post"}
      PROVE  OK
  BY <1>1, ClientGoesOn DEF locals, ClientInv, FunctionsOK, ThreadOK, Goto
<1>2. ASSUME Return({p}), UNCHANGED got, cpc[p] # "store" PROVE OK
  BY <1>2, ClientReturn
<1>3. ASSUME RefreshFails(p), UNCHANGED got, cpc[p] # "store", cpc[p] # "idle" PROVE OK
  <2>1. CASE Raises(p) BY <1>2, <1>3, <2>1 DEF RefreshFails
  <2>2. CASE ~Raises(p)
    BY <1>3, <2>2, ClientGoesOn DEF RefreshFails, ClientInv, FunctionsOK, ThreadOK, Goto, Labels
  <2> QED BY <2>1, <2>2
<1>4. CASE Request(p)
  BY <1>4, ClientGoesOn DEF Request, StartCall, ClientInv, FunctionsOK, ThreadOK, Goto, Labels, ghosts
<1>5. CASE Logout(p)
  <2>1. CachedPair \in Server!Bodies /\ {accessToken, refreshToken} \ {NoToken} \in SUBSET issued
    BY DEF CachedPair, Server!Bodies, ClientInv, CacheOK
  <2> QED
    BY <1>5, <2>1, ClientGoesOn DEF Logout, StartCall, ClientInv, FunctionsOK, ThreadOK, Goto, Labels
<1>6. CASE LogoutReads(p)
  <2>1. {accessToken, refreshToken} \ {NoToken} \in SUBSET issued
    BY DEF ClientInv, CacheOK
  <2> QED
    BY <1>6, <2>1, ClientGoesOn DEF LogoutReads, StartCall, ClientInv, FunctionsOK, ThreadOK, Goto, Labels
<1>7. CASE LogoutClears(p) \/ Answered(p)
  BY <1>2, <1>7 DEF LogoutClears, Answered
<1>8. CASE EnsureValidToken(p)
  BY <1>8, ClientGoesOn DEF EnsureValidToken, FirstStep, ClientInv, FunctionsOK, ThreadOK, Goto, Labels, ghosts
<1>9. CASE AuthLock(p)
  BY <1>9, ClientGoesOn DEF AuthLock, FirstStep, ClientInv, FunctionsOK, ThreadOK, Goto, Labels, ghosts
<1>10. CASE RefreshTokens(p)
  <2>1. CASE refreshToken = NoToken BY <1>3, <1>10, <2>1 DEF RefreshTokens
  <2>2. CASE refreshToken # NoToken
    BY <1>10, <2>2, ClientGoesOn
       DEF RefreshTokens, ClientInv, CacheOK, FunctionsOK, ThreadOK, Goto, Labels
  <2> QED BY <2>1, <2>2
<1>11. CASE PostRefresh(p) \/ Send(p)
  BY <1>1, <1>11 DEF PostRefresh, Send, Labels
<1>12. CASE RefreshRefused(p) \/ (RequestFails(p) /\ cpc[p] \in {"post", "refreshing"})
  BY <1>3, <1>12 DEF RefreshRefused, RequestFails
<1>13. CASE Refreshed(p) \/ LoggedIn(p)
  <2>1. Server!Pair \in SUBSET issued'
    BY <1>13 DEF Refreshed, LoggedIn, Server!IssuePair, Server!Login
  <2> QED
    BY <1>13, <2>1, NewPair, ClientGoesOn
       DEF Refreshed, LoggedIn, ClientInv, FunctionsOK, ThreadOK, Goto, Labels, locals
<1>14. CASE StoreTokens(p)
  BY <1>14, ClientGoesOn DEF StoreTokens, Unlocked, ClientInv, FunctionsOK, ThreadOK, Goto, Labels, ghosts
<1>15. CASE Unauthorized(p)
  BY <1>15, ClientGoesOn DEF Unauthorized, ClientInv, FunctionsOK, ThreadOK, Goto, Labels, ghosts
<1>16. CASE Serves(p) \/ Orphaned(p)
  BY <1>16, Wider DEF Serves, Orphaned, locals, ClientInv, FunctionsOK, ThreadOK
<1>17. CASE RequestFails(p) /\ cpc[p] \notin {"post", "refreshing"}
  BY <1>2, <1>17 DEF RequestFails
<1> QED
  BY <1>4, <1>5, <1>6, <1>7, <1>8, <1>9, <1>10, <1>11, <1>12, <1>13, <1>14, <1>15, <1>16, <1>17
     DEF Begin, Step

LEMMA ClientNext ==
  ASSUME ClientInv, issued \subseteq Server!Token, [Next]_vars PROVE ClientInv'
<1> issued \subseteq issued' BY Issues
<1> DEFINE Threadwise == FunctionsOK' /\ (\A o \in Threads : ThreadOK(o)')
                         /\ (authLock \in Threads \cup {NoOne})'
<1>1. ASSUME UNCHANGED <<locals, cpc, got>> PROVE Threadwise
  BY <1>1, Wider DEF locals, ClientInv, FunctionsOK, ThreadOK
<1>2. CASE UNCHANGED vars
  BY <1>1, <1>2, CacheStays DEF vars, ghosts, locals, ClientInv
<1>3. CASE Background
  BY <1>1, <1>3, CacheStays DEF Background, ClientInv
<1>4. CASE Restart
  <2>1. Threadwise
    <3>1. <<>> \in Server!Bodies' /\ Server!Bodies \subseteq Server!Bodies'
      BY Wider DEF Server!Bodies
    <3> QED BY <1>4, <3>1 DEF Restart, ClientInv, FunctionsOK, ThreadOK, Labels
  <2> QED BY <1>4, <2>1, CacheStays DEF Restart, ClientInv
<1>5. ASSUME NEW p \in Threads, Begin(p) \/ Step(p) \/ RequestFails(p) PROVE ClientInv'
  <2>1. Threadwise
    BY <1>5, ClientThread
  <2>2. CacheOK'
    <3>1. CASE UNCHANGED cache BY <3>1, CacheStays DEF ClientInv
    <3>2. CASE accessToken' = NoToken /\ refreshToken' = NoToken
      BY <3>2 DEF CacheOK
    <3>3. CASE StoreTokens(p)
      <4>1. Both(got[p]) /\ got[p] \subseteq issued
        BY <3>3 DEF StoreTokens, ClientInv, FunctionsOK, ThreadOK
      <4>2. /\ AccessOf(got[p]) \in got[p] /\ AccessOf(got[p]).kind = "access"
            /\ RefreshOf(got[p]) \in got[p] /\ RefreshOf(got[p]).kind = "refresh"
        BY <4>1, PairTokens
      <4>3. NoToken \notin issued
        BY NoTokenAssumption
      <4> QED BY <3>3, <4>1, <4>2, <4>3 DEF StoreTokens, CacheOK, Both
    <3> QED
      BY <1>5, <3>1, <3>2, <3>3 DEF Begin, Step, Request, Logout, LogoutReads, LogoutClears, EnsureValidToken,
         AuthLock, RefreshTokens, PostRefresh, RefreshRefused, Refreshed, LoggedIn, Send, Unauthorized,
         Answered, Serves, Orphaned, RequestFails
  <2>3. /\ lang' = lang /\ calls' \in Nat /\ fails' \in Nat /\ failed' \in BOOLEAN
        /\ loggedOut' \subseteq issued'
    <3>1. \A o \in Threads : quit[o] \subseteq issued
      BY DEF ClientInv, FunctionsOK
    <3>2. lang' = lang
      BY <1>5 DEF Begin, Step, Request, StartCall, Logout, LogoutReads, LogoutClears,
         EnsureValidToken, AuthLock, RefreshTokens, PostRefresh, RefreshRefused, Refreshed, LoggedIn,
         StoreTokens, Send, Unauthorized, Answered, Serves, Orphaned, RequestFails, ghosts
    <3>3. calls' \in {calls, calls + 1} /\ fails' \in {fails, fails + 1}
      BY <1>5 DEF Begin, Step, Request, StartCall, Logout, LogoutReads, LogoutClears,
         EnsureValidToken, AuthLock, RefreshTokens, PostRefresh, RefreshRefused, Refreshed, LoggedIn,
         StoreTokens, Send, Unauthorized, Answered, Serves, Orphaned, RequestFails, ghosts
    <3>4. failed' \in BOOLEAN
      BY <1>5 DEF ClientInv, Begin, Step, Request, StartCall, Logout, LogoutReads, LogoutClears,
         EnsureValidToken, AuthLock, RefreshTokens, PostRefresh, RefreshRefused, Refreshed, LoggedIn,
         StoreTokens, Send, Unauthorized, Answered, Serves, Orphaned, RequestFails, ghosts
    <3>5. loggedOut' = loggedOut \/ loggedOut' = loggedOut \cup quit[p]
      BY <1>5 DEF Begin, Step, Request, StartCall, Logout, LogoutReads, LogoutClears,
         EnsureValidToken, AuthLock, RefreshTokens, PostRefresh, RefreshRefused, Refreshed, LoggedIn,
         StoreTokens, Send, Unauthorized, Answered, Serves, Orphaned, RequestFails, ghosts
    <3> QED BY <3>1, <3>2, <3>3, <3>4, <3>5 DEF ClientInv
  <2> QED BY <2>1, <2>2, <2>3 DEF ClientInv
<1> QED BY <1>2, <1>3, <1>4, <1>5 DEF Next

LEMMA ClientInit == Init => ClientInv
<1>1. <<>> \in Server!Bodies
  BY DEF Server!Bodies
<1>2. Init => CacheOK
  BY DEF Init, CacheOK
<1>3. Init => FunctionsOK
  BY <1>1 DEF Init, FunctionsOK, Labels
<1>4. Init => \A p \in Threads : ThreadOK(p)
  BY DEF Init, ThreadOK
<1>5. Init => failed \in BOOLEAN /\ lang \in {"go", "python"}
  BY LangsAssumption DEF Init
<1> QED
  BY <1>2, <1>3, <1>4, <1>5 DEF Init, ClientInv

LEMMA SameTypes == AuthFacts!TypeInv => Server!TypeOK /\ issued \subseteq Server!Token
BY DEF AuthFacts!TypeInv, AuthFacts!TypeOK, Server!TypeOK, AuthFacts!Token, Server!Token,
       AuthFacts!Entry, Server!Entry, AuthFacts!TokensOf, Server!TokensOf, AuthFacts!Label, Server!Label,
       AuthFacts!RequestKinds, Server!RequestKinds, AuthFacts!TokenKinds, Server!TokenKinds

LEMMA BothNext ==
  ClientInv /\ AuthFacts!TypeInv /\ [Next]_vars => (ClientInv /\ AuthFacts!TypeInv)'
BY ServerStep, SameStep, SameTypes, ClientNext, AuthFacts!TypeNext, ServerAssumption

\* The client and the server keep to their types; the cache holds a whole pair
\* or nothing (Client.accessToken and refreshToken, client.go).
THEOREM ClientTypes == Spec => []TypeOK
<1>1. Init => ClientInv /\ AuthFacts!TypeInv
  BY ClientInit, SameInit, AuthFacts!TypeInit, ServerAssumption DEF Init
<1>2. ClientInv /\ AuthFacts!TypeInv => TypeOK
  <2> SUFFICES ASSUME ClientInv, Server!TypeOK PROVE TypeOK
    BY SameTypes
  <2>1. \A p \in Threads : /\ got[p] \subseteq issued /\ quit[p] \subseteq issued
                           /\ (cpc[p] = "store" <=> got[p] # {})
    BY DEF ClientInv, FunctionsOK, ThreadOK, Both, Server!TokenKinds
  <2> QED
    BY <2>1 DEF ClientInv, CacheOK, FunctionsOK, TypeOK
<1> QED
  BY <1>1, <1>2, BothNext, PTL DEF Spec

-----------------------------------------------------------------------------
(* The server's invariants hold in the composition. *)

\* With the client the server is still AuthManager: what that module's
\* theorems say holds here.
THEOREM ServerIsAuthManager == Spec => AuthFacts!Spec
<1>1. Init => ClientInv /\ AuthFacts!TypeInv /\ AuthFacts!Init
  BY ClientInit, SameInit, AuthFacts!TypeInit, ServerAssumption DEF Init
<1>2. ClientInv /\ [Next]_vars => [AuthFacts!Next]_(AuthFacts!vars)
  BY ServerStep, SameStep
<1> QED
  BY <1>1, <1>2, BothNext, PTL DEF Spec, AuthFacts!Spec

-----------------------------------------------------------------------------
(* Logout. *)

Elems(s) == {s[i] : i \in DOMAIN s}

LEMMA ElemsOf ==
  ASSUME NEW S, NEW s \in Seq(S)
  PROVE  /\ \A t : Elems(s) \subseteq Elems(Append(s, t))
         /\ s # <<>> => Elems(s) \subseteq {Head(s)} \cup Elems(Tail(s))
<1>1. ASSUME NEW t PROVE Elems(s) \subseteq Elems(Append(s, t))
  <2>1. \A i \in DOMAIN s : i \in DOMAIN Append(s, t) /\ Append(s, t)[i] = s[i]
    OBVIOUS
  <2> QED BY <2>1 DEF Elems
<1>2. ASSUME s # <<>> PROVE Elems(s) \subseteq {Head(s)} \cup Elems(Tail(s))
  <2>1. \A i \in DOMAIN s : i = 1 \/ (i - 1 \in DOMAIN Tail(s) /\ Tail(s)[i - 1] = s[i])
    BY <1>2
  <2>2. s[1] = Head(s)
    BY <1>2
  <2> QED BY <2>1, <2>2 DEF Elems
<1> QED BY <1>1, <1>2

\* The tokens p's logout has to revoke are revoked or on their way there.
Underway(p) ==
  /\ quit[p] # {} => call[p] = "logout" /\ cpc[p] # "idle"
  /\ cpc[p] # "clear"
  /\ quit[p] \subseteq Elems(body[p])
  /\ cpc[p] = "sent" =>
       /\ req[p].kind = call[p]
       /\ quit[p] \subseteq everRevoked \cup Elems(left[p])
       /\ pc[p] = "serve" => req[p].kind = "api"

LogoutInv ==
  lang = "go" => loggedOut \subseteq everRevoked /\ \A p \in Threads : Underway(p)

LEMMA RevokedGrows == ASSUME [Next]_vars PROVE everRevoked \subseteq everRevoked'
<1>1. UNCHANGED vars => everRevoked' = everRevoked
  BY DEF vars, server
<1>2. Background \/ Restart => everRevoked' = everRevoked
  BY DEF Background, Restart, Server!Tick, Server!CleanupRevokedTokens, Server!EmergencyCleanup, Server!Restart,
         Server!History
<1>3. ASSUME NEW p \in Threads, Begin(p) \/ Step(p) \/ RequestFails(p) PROVE everRevoked \subseteq everRevoked'
  <2> USE DEF server, Server!History
  <2>1. CASE Begin(p)
    BY <2>1 DEF Begin, Request, Logout, LogoutReads
  <2>2. CASE RequestFails(p)
    BY <2>2 DEF RequestFails
  <2>3. CASE Step(p)
    BY <2>3 DEF Step, LogoutClears, EnsureValidToken, AuthLock, RefreshTokens, PostRefresh, RefreshRefused,
       Refreshed, LoggedIn, StoreTokens, Send, Unauthorized, Answered, Serves, Orphaned,
       Server!CheckRevoked, Server!RefuseToken, Server!IssuePair, Server!Login, Server!Serve,
       Server!LogoutDone, Server!ParseToken, Server!RevokeToken
  <2> QED BY <1>3, <2>1, <2>2, <2>3
<1> QED BY <1>1, <1>2, <1>3 DEF Next

\* A thread's step leaves what the others wait for alone.
LEMMA OthersStay ==
  ASSUME ClientInv, AuthFacts!TypeInv,
         NEW p \in Threads, Begin(p) \/ Step(p) \/ RequestFails(p), NEW o \in Threads \ {p}
  PROVE  /\ cpc'[o] = cpc[o] /\ call'[o] = call[o] /\ body'[o] = body[o] /\ quit'[o] = quit[o]
         /\ pc'[o] = pc[o] /\ req'[o] = req[o] /\ left'[o] = left[o]
<1> USE DEF Begin, Step
<1>1. cpc'[o] = cpc[o] /\ call'[o] = call[o] /\ body'[o] = body[o] /\ quit'[o] = quit[o]
  <2> DEFINE Same == cpc'[o] = cpc[o] /\ call'[o] = call[o] /\ body'[o] = body[o] /\ quit'[o] = quit[o]
  <2>1. ASSUME Return({p}) PROVE Same
    BY <2>1 DEF Return
  <2>2. \A l : Goto(p, l) => cpc'[o] = cpc[o]
    BY DEF Goto, ClientInv, FunctionsOK
  <2>3. ASSUME RefreshFails(p) PROVE Same
    BY <2>1, <2>2, <2>3 DEF RefreshFails
  <2>4. CASE Begin(p)
    BY <2>2, <2>4 DEF ClientInv, FunctionsOK, ghosts, Request, StartCall, Logout, LogoutReads
  <2>5. CASE EnsureValidToken(p) \/ AuthLock(p) \/ PostRefresh(p) \/ Refreshed(p) \/ LoggedIn(p) \/ StoreTokens(p)
    BY <2>2, <2>5 DEF locals, ghosts, EnsureValidToken, AuthLock, PostRefresh, Refreshed, LoggedIn, StoreTokens
  <2>6. CASE Send(p) \/ Unauthorized(p) \/ Serves(p) \/ Orphaned(p)
    BY <2>2, <2>6 DEF locals, ghosts, Send, Unauthorized, Serves, Orphaned
  <2>7. CASE LogoutClears(p) \/ RefreshTokens(p) \/ RefreshRefused(p) \/ Answered(p) \/ RequestFails(p)
    BY <2>1, <2>2, <2>3, <2>7 DEF LogoutClears, RefreshTokens, RefreshRefused, Answered, RequestFails
  <2> QED BY <2>4, <2>5, <2>6, <2>7
<1>2. pc'[o] = pc[o] /\ req'[o] = req[o] /\ left'[o] = left[o]
  BY DEF AuthFacts!TypeInv, AuthFacts!TypeOK, server, Request, Logout, LogoutReads, LogoutClears,
     EnsureValidToken, AuthLock, RefreshTokens, PostRefresh, RefreshRefused, Refreshed, LoggedIn, StoreTokens,
     Send, Unauthorized, Answered, Serves, Orphaned, RequestFails, Server!CheckRevoked, Server!RefuseToken,
     Server!IssuePair, Server!Login, Server!Serve, Server!LogoutDone, Server!ParseToken,
     Server!RevokeToken, Server!Release
<1> QED BY <1>1, <1>2

LEMMA UnderwayNext ==
  ASSUME ClientInv, AuthFacts!TypeInv, lang = "go", everRevoked \subseteq everRevoked',
         NEW p \in Threads, Underway(p), Begin(p) \/ Step(p) \/ RequestFails(p)
  PROVE  Underway(p)' /\ loggedOut' \subseteq loggedOut \cup everRevoked
<1> DEFINE OK == Underway(p)' /\ loggedOut' \subseteq loggedOut \cup everRevoked
<1>1. /\ \A l : Goto(p, l) => cpc'[p] = l
      /\ left[p] \in Seq(issued)
  BY DEF Goto, ClientInv, FunctionsOK, AuthFacts!TypeInv, AuthFacts!TypeOK
<1>2. ASSUME NEW l \in Labels \ {"idle", "clear", "sent"}, Goto(p, l), cpc[p] # "sent", cpc[p] # "idle",
             call' = call, quit' = quit, body' = body, loggedOut' = loggedOut
      PROVE  OK
  BY <1>1, <1>2 DEF Underway
<1>3. ASSUME Return({p}) PROVE Underway(p)'
  BY <1>3 DEF Return, Underway
<1>4. ASSUME RefreshFails(p), loggedOut' = loggedOut, cpc[p] # "sent", cpc[p] # "idle" PROVE OK
  BY <1>2, <1>3, <1>4 DEF RefreshFails, Labels
<1>5. CASE Request(p)
  BY <1>1, <1>5 DEF Request, StartCall, Underway, ghosts
<1>6. CASE Logout(p)
  <2>1. /\ cpc'[p] = "ensure" /\ call'[p] = "logout" /\ body'[p] = CachedPair
        /\ quit'[p] = {accessToken, refreshToken} \ {NoToken}
    BY <1>1, <1>6 DEF Logout, ClientInv, FunctionsOK
  <2>2. {accessToken, refreshToken} \ {NoToken} \subseteq Elems(CachedPair)
    <3>1. CASE accessToken = NoToken
      BY <3>1 DEF ClientInv, CacheOK
    <3>2. CASE accessToken # NoToken
      <4>1. /\ 1 \in DOMAIN <<accessToken, refreshToken>> /\ 2 \in DOMAIN <<accessToken, refreshToken>>
            /\ <<accessToken, refreshToken>>[1] = accessToken /\ <<accessToken, refreshToken>>[2] = refreshToken
        OBVIOUS
      <4> QED BY <3>2, <4>1 DEF CachedPair, Elems
    <3> QED BY <3>1, <3>2
  <2> QED BY <1>6, <2>1, <2>2 DEF Logout, Underway
<1>7. CASE LogoutReads(p) \/ LogoutClears(p)
  BY <1>7 DEF LogoutReads, LogoutClears, Underway
<1>8. CASE EnsureValidToken(p) \/ AuthLock(p)
  BY <1>1, <1>8 DEF EnsureValidToken, AuthLock, FirstStep, Underway, ghosts
<1>9. CASE RefreshTokens(p)
  BY <1>1, <1>4, <1>9 DEF RefreshTokens, Underway
<1>10. CASE PostRefresh(p) \/ Refreshed(p) \/ LoggedIn(p) \/ StoreTokens(p)
  BY <1>1, <1>10 DEF PostRefresh, Refreshed, LoggedIn, StoreTokens, Underway, locals, ghosts
<1>11. CASE RefreshRefused(p)
  BY <1>4, <1>11 DEF RefreshRefused
<1>12. CASE Send(p)
  <2>1. /\ cpc'[p] = "sent" /\ call'[p] = call[p] /\ quit'[p] = quit[p]
        /\ req'[p].kind = call[p] /\ left'[p] = body[p] /\ pc'[p] = "parse"
    BY <1>1, <1>12 DEF Send, locals, Server!CheckRevoked, AuthFacts!TypeInv, AuthFacts!TypeOK
  <2> QED BY <1>12, <2>1 DEF Send, Underway, locals
<1>13. CASE Unauthorized(p)
  <2>1. cpc[p] = "send" \/ cpc[p] = "sent"
    BY <1>13 DEF Unauthorized
  <2> QED BY <1>1, <1>13, <2>1 DEF Unauthorized, Underway, ghosts
<1>14. CASE Answered(p)
  <2>1. quit[p] \subseteq everRevoked
    <3>1. CASE Server!Serve(p)
      BY <1>14, <3>1 DEF Answered, Server!Serve, Underway
    <3>2. CASE Server!LogoutDone(p)
      BY <1>14, <3>2 DEF Answered, Server!LogoutDone, Underway, Elems
    <3> QED BY <1>14, <3>1, <3>2 DEF Answered
  <2> QED BY <1>3, <1>14, <2>1 DEF Answered
<1>15. CASE Serves(p)
  <2>1. /\ cpc' = cpc /\ call' = call /\ quit' = quit /\ body' = body /\ req' = req
        /\ loggedOut' = loggedOut
    BY <1>15 DEF Serves, locals, Server!ParseToken, Server!RevokeToken
  <2>2. CASE Server!ParseToken(p)
    <3>1. CASE req[p].kind = "api"
      <4>1. left'[p] = left[p]
        BY <2>2, <3>1 DEF Server!ParseToken, AuthFacts!TypeInv, AuthFacts!TypeOK
      <4> QED BY <2>1, <3>1, <4>1 DEF Underway
    <3>2. CASE req[p].kind # "api"
      <4>1. left'[p] = Append(left[p], req[p].token) /\ pc'[p] = "revoke"
        BY <2>2, <3>2 DEF Server!ParseToken, AuthFacts!TypeInv, AuthFacts!TypeOK
      <4>2. Elems(left[p]) \subseteq Elems(left'[p])
        BY <1>1, <4>1, ElemsOf
      <4> QED BY <2>1, <4>1, <4>2 DEF Underway
    <3> QED BY <3>1, <3>2
  <2>3. CASE Server!RevokeToken(p)
    <3>1. /\ left[p] # <<>> /\ left'[p] = Tail(left[p]) /\ everRevoked' = everRevoked \cup {Head(left[p])}
          /\ pc'[p] # "serve"
      BY <2>3 DEF Server!RevokeToken, AuthFacts!TypeInv, AuthFacts!TypeOK
    <3>2. Elems(left[p]) \subseteq {Head(left[p])} \cup Elems(left'[p])
      BY <1>1, <3>1, ElemsOf
    <3> QED BY <2>1, <3>1, <3>2 DEF Underway
  <2> QED BY <1>15, <2>2, <2>3 DEF Serves
<1>16. CASE Orphaned(p)
  BY <1>16 DEF Orphaned, Underway, locals
<1>17. CASE RequestFails(p)
  BY <1>3, <1>4, <1>17 DEF RequestFails
<1> QED
  BY <1>5, <1>6, <1>7, <1>8, <1>9, <1>10, <1>11, <1>12, <1>13, <1>14, <1>15, <1>16, <1>17 DEF Begin, Step

LEMMA LogoutNext ==
  ASSUME ClientInv, AuthFacts!TypeInv, LogoutInv, [Next]_vars PROVE LogoutInv'
<1> everRevoked \subseteq everRevoked' BY RevokedGrows
<1>1. CASE UNCHANGED vars
  BY <1>1 DEF vars, server, ghosts, LogoutInv, Underway
<1>2. CASE Background
  BY <1>2 DEF Background, locals, LogoutInv, Underway, Server!Tick, Server!CleanupRevokedTokens,
     Server!EmergencyCleanup
<1>3. CASE Restart
  BY <1>3 DEF Restart, LogoutInv, Underway
<1>4. ASSUME NEW p \in Threads, Begin(p) \/ Step(p) \/ RequestFails(p), (lang = "go")' PROVE LogoutInv'
  <2>1. lang = "go"
    BY <1>4 DEF Begin, Step, Request, Logout, LogoutReads, LogoutClears, EnsureValidToken,
       AuthLock, RefreshTokens, PostRefresh, RefreshRefused, Refreshed, LoggedIn, StoreTokens,
       Send, Unauthorized, Answered, Serves, Orphaned, RequestFails
  <2>2. Underway(p)' /\ loggedOut' \subseteq loggedOut \cup everRevoked
    BY <1>4, <2>1, UnderwayNext DEF LogoutInv
  <2>3. \A o \in Threads \ {p} : Underway(o)'
    BY <1>4, <2>1, OthersStay DEF LogoutInv, Underway
  <2> QED BY <2>1, <2>2, <2>3 DEF LogoutInv
<1> QED BY <1>1, <1>2, <1>3, <1>4 DEF Next, LogoutInv

LEMMA LogoutInit == Init => LogoutInv
BY DEF Init, LogoutInv, Underway

\* "Logout revokes the current tokens" (Logout, client.go) for any number of
\* threads, failed requests, restarts and clean-ups: once it has returned
\* without an error, the tokens that were cached when it began let nothing
\* through, if an access token does not outlive a refresh token.
THEOREM LogoutHolds ==
  ASSUME AccessDuration =< RefreshDuration PROVE Spec => []LogoutRevokes
<1>1. LogoutInv /\ AuthFacts!Revocation => LogoutRevokes
  <2>1. \A t : AuthFacts!Dead(t) => Dead(t)
    BY DEF AuthFacts!Dead, Dead, Listed, AuthFacts!TokensOf, Server!TokensOf, AuthFacts!Parses, Server!Parses
  <2> QED BY <2>1 DEF LogoutInv, LogoutRevokes, AuthFacts!Revocation
<1> DEFINE Auth == AuthFacts!TypeInv /\ AuthFacts!Lifetimes /\ AuthFacts!Revocation
<1>2. Init => Auth
  BY SameInit, AuthFacts!AuthInit, ServerAssumption DEF Init
<1>3. ClientInv /\ Auth /\ [Next]_vars => Auth'
  BY ServerStep, SameStep, AuthFacts!TypeNext, AuthFacts!LifetimesNext, AuthFacts!RevocationNext,
     ServerAssumption
<1>4. ClientInv /\ Auth /\ LogoutInv /\ [Next]_vars => (ClientInv /\ LogoutInv)'
  BY BothNext, LogoutNext
<1> QED
  BY <1>1, <1>2, <1>3, <1>4, ClientInit, LogoutInit, PTL DEF Spec
-----------------------------------------------------------------------------
(* Refreshing. *)

\* The refresh tokens, and whatever tokens somebody has in hand.
Spent == {x[1] : x \in exchanged}
Used == {NoToken, accessToken, refreshToken} \cup {held[p] : p \in Threads}
        \cup {req[p].token : p \in Threads} \cup Spent

\* A pair that is about to be stored is new to everybody.
Fresh == \A p \in Threads : /\ got[p] \cap Used = {}
                            /\ \A o \in Threads \ {p} : got[p] \cap got[o] = {}

\* Python: who gets tokens has the lock.
Getting == {"refresh", "post", "refreshing", "login", "store"}
LockInv == lang = "python" => \A p \in Threads : cpc[p] \in Getting => authLock = p

\* The server works for a thread that waits for it.
NoOrphans == failed \/ \A p \in Threads : pc[p] # "idle" => cpc[p] \in {"refreshing", "sent"}

LEMMA PairIsNew ==
  ASSUME AuthFacts!TypeInv
  PROVE  \A t \in Server!Pair : t \notin issued
<1>1. \A t \in Server!Pair : t.id = nextId
  BY DEF Server!Pair
<1>2. \A t \in issued : t.id \in Nat /\ t.id < nextId
  BY SameTypes DEF Server!TypeOK, Server!Token
<1>3. nextId \in Nat
  BY SameTypes DEF Server!TypeOK
<1> QED BY <1>1, <1>2, <1>3

LEMMA NewPairToken ==
  ASSUME AuthFacts!TypeInv PROVE NoToken \notin Server!Pair
<1>1. now \in Nat /\ key \in Nat /\ nextId \in Nat
  BY SameTypes DEF Server!TypeOK
<1>2. \A t \in AuthFacts!Pair : t \in AuthFacts!Token
  BY <1>1, AuthFacts!NewPair, ServerAssumption
<1> QED
  BY <1>2, NoTokenAssumption
     DEF AuthFacts!Pair, Server!Pair, AuthFacts!Token, Server!Token, AuthFacts!Truncate, Server!Truncate,
         AuthFacts!Duration, Server!Duration, AuthFacts!TokenKinds, Server!TokenKinds

LEMMA UsedIsIssued ==
  ASSUME ClientInv, AuthFacts!TypeInv
  PROVE  Used \subseteq issued \cup {NoToken}
<1>1. Server!TypeOK BY SameTypes
<1>2. \A x \in exchanged : x[1] \in issued
  BY <1>1 DEF Server!TypeOK
<1>3. \A p \in Threads : held[p] \in issued \cup {NoToken} /\ req[p].token \in issued \cup {NoToken}
  BY <1>1 DEF Server!TypeOK, ClientInv, FunctionsOK
<1> QED BY <1>2, <1>3 DEF Used, Spent, ClientInv, CacheOK

\* What the steps do to the tokens in hand.
LEMMA UsedKeeps ==
  ASSUME ClientInv, AuthFacts!TypeInv, Spent' \subseteq Used,
         accessToken' \in Used, refreshToken' \in Used,
         held' = held \/ \E p \in Threads, t \in Used : held' = [held EXCEPT ![p] = t],
         req' = req \/ \E p \in Threads : \E k : \E t \in Used :
                         req' = [req EXCEPT ![p] = [kind |-> k, token |-> t]]
  PROVE  Used' \subseteq Used
<1>1. Server!TypeOK BY SameTypes
<1>2. \A p \in Threads : held'[p] \in Used
  BY DEF Used, ClientInv, FunctionsOK
<1>3. \A p \in Threads : req[p].token \in Used
  BY DEF Used
<1>4. \A p \in Threads : req'[p].token \in Used
  <2>1. CASE req' = req
    BY <1>3, <2>1
  <2>2. ASSUME NEW o \in Threads, NEW k, NEW t \in Used, req' = [req EXCEPT ![o] = [kind |-> k, token |-> t]]
        PROVE  \A p \in Threads : req'[p].token \in Used
    <3>1. req'[o] = [kind |-> k, token |-> t] /\ \A p \in Threads \ {o} : req'[p] = req[p]
      BY <1>1, <2>2 DEF Server!TypeOK
    <3> QED BY <1>3, <3>1
  <2> QED BY <2>1, <2>2
<1> QED BY <1>2, <1>4 DEF Used

LEMMA SpentKeeps ==
  ASSUME NEW p \in Threads, NEW n, exchanged' \subseteq exchanged \cup {<<req[p].token, n>>}
  PROVE  Spent' \subseteq Used
<1>1. <<req[p].token, n>>[1] = req[p].token
  OBVIOUS
<1> QED BY <1>1 DEF Used, Spent

LEMMA FreshThread ==
  ASSUME ClientInv, AuthFacts!TypeInv, Fresh, NEW p \in Threads, Begin(p) \/ Step(p) \/ RequestFails(p)
  PROVE  Fresh'
<1> DEFINE Kept == got' = got /\ Used' \subseteq Used
<1>0. /\ \A t \in {NoToken, accessToken, refreshToken, held[p], req[p].token} : t \in Used
      /\ Spent \subseteq Used
      /\ UNCHANGED exchanged => Spent' = Spent
  BY DEF Used, Spent
<1>1. Kept => Fresh'
  BY DEF Fresh
<1>2. ASSUME UNCHANGED <<exchanged, req, accessToken, refreshToken, held>> PROVE Used' \subseteq Used
  BY <1>2 DEF Used, Spent
<1>3. ASSUME Return({p}), UNCHANGED <<exchanged, req, accessToken, refreshToken>>
      PROVE  Used' \subseteq Used
  <2>1. \A o \in Threads : held'[o] \in {held[o], NoToken}
    BY <1>3 DEF Return
  <2> QED BY <1>3, <2>1 DEF Used, Spent
<1>4. ASSUME RefreshFails(p), UNCHANGED <<exchanged, accessToken, refreshToken>>,
             req' = req \/ req' = [req EXCEPT ![p] = Server!NoRequest]
      PROVE  Used' \subseteq Used
  <2>1. \A o \in Threads : held'[o] \in {held[o], NoToken}
    BY <1>4 DEF Return, RefreshFails, ClientInv, FunctionsOK
  <2>2. \A o \in Threads : req'[o].token \in {req[o].token, NoToken}
    <3>1. Server!NoRequest.token = NoToken
      BY DEF Server!NoRequest
    <3>2. \A o \in Threads : req'[o] \in {req[o], Server!NoRequest}
      BY <1>4, SameTypes DEF Server!TypeOK
    <3> QED BY <3>1, <3>2
  <2> QED BY <1>4, <2>1, <2>2 DEF Used, Spent
<1>5. CASE Begin(p)
  <2>1. /\ UNCHANGED <<exchanged, req, held, got>>
        /\ accessToken' \in {accessToken, NoToken} /\ refreshToken' \in {refreshToken, NoToken}
    BY <1>5 DEF Begin, Request, Logout, LogoutReads, server, cache
  <2> QED BY <1>0, <1>1, <2>1, UsedKeeps
<1>6. CASE LogoutClears(p)
  <2>1. \A o \in Threads : held'[o] \in {held[o], NoToken}
    BY <1>6 DEF Return, LogoutClears
  <2>2. UNCHANGED <<exchanged, req, got>> /\ accessToken' = NoToken /\ refreshToken' = NoToken
    BY <1>6 DEF LogoutClears, server
  <2> QED BY <1>1, <2>1, <2>2 DEF Used, Spent
<1>7. CASE EnsureValidToken(p) \/ AuthLock(p)
  BY <1>1, <1>2, <1>7 DEF EnsureValidToken, AuthLock, server, cache
<1>8. CASE RefreshTokens(p)
  <2>1. UNCHANGED <<exchanged, req, accessToken, refreshToken, got>>
    BY <1>8 DEF RefreshTokens, server, cache
  <2>2. CASE RefreshFails(p)
    BY <1>1, <1>4, <2>1, <2>2
  <2>3. CASE held' = [held EXCEPT ![p] = refreshToken]
    BY <1>0, <1>1, <2>1, <2>3, UsedKeeps
  <2> QED BY <1>8, <2>2, <2>3 DEF RefreshTokens
<1>9. CASE PostRefresh(p) \/ Send(p)
  <2>1. /\ UNCHANGED <<exchanged, held, accessToken, refreshToken, got>>
        /\ \E k : \E t \in Used : req' = [req EXCEPT ![p] = [kind |-> k, token |-> t]]
    BY <1>0, <1>9 DEF PostRefresh, Send, locals, cache, Server!CheckRevoked
  <2> QED BY <1>0, <1>1, <2>1, UsedKeeps
<1>10. CASE RefreshRefused(p)
  <2>1. /\ UNCHANGED <<exchanged, accessToken, refreshToken, got>> /\ RefreshFails(p)
        /\ req' = req \/ req' = [req EXCEPT ![p] = Server!NoRequest]
    BY <1>10 DEF RefreshRefused, cache, server, Server!RefuseToken, Server!Release
  <2> QED BY <1>1, <1>4, <2>1
<1>11. CASE Refreshed(p) \/ LoggedIn(p)
  <2>1. /\ UNCHANGED <<held, accessToken, refreshToken>> /\ got' = [got EXCEPT ![p] = Server!Pair]
        /\ req' = req \/ req' = [req EXCEPT ![p] = [kind |-> "none", token |-> NoToken]]
        /\ exchanged' \subseteq exchanged \cup {<<req[p].token, nextId>>}
    BY <1>11 DEF Refreshed, LoggedIn, locals, cache, Server!IssuePair, Server!Login, Server!Release, Server!NoRequest
  <2>2. Used' \subseteq Used
    <3>1. Spent' \subseteq Used
      BY <2>1, SpentKeeps
    <3> QED BY <1>0, <2>1, <3>1, UsedKeeps
  <2>3. \A t \in Server!Pair : t \notin issued /\ t # NoToken
    BY PairIsNew, NewPairToken
  <2>4. \A t \in Server!Pair : t \notin Used
    BY <2>3, UsedIsIssued
  <2>5. \A o \in Threads : got[o] \subseteq issued
    BY DEF ClientInv, FunctionsOK
  <2>6. got'[p] = Server!Pair /\ \A o \in Threads \ {p} : got'[o] = got[o]
    BY <2>1 DEF ClientInv, FunctionsOK
  <2> QED BY <2>2, <2>3, <2>4, <2>5, <2>6 DEF Fresh
<1>12. CASE StoreTokens(p)
  <2>1. AccessOf(got[p]) \in got[p] /\ RefreshOf(got[p]) \in got[p]
    BY <1>12, PairTokens DEF StoreTokens, ClientInv, ThreadOK
  <2>2. \A o \in Threads : held'[o] \in {held[o], NoToken}
    BY <1>12 DEF StoreTokens, ClientInv, FunctionsOK
  <2>3. Used' \subseteq Used \cup got[p]
    BY <1>12, <2>1, <2>2 DEF StoreTokens, Used, Spent, server
  <2>4. got'[p] = {} /\ \A o \in Threads \ {p} : got'[o] = got[o]
    BY <1>12 DEF StoreTokens, ClientInv, FunctionsOK
  <2> QED BY <2>3, <2>4 DEF Fresh
<1>13. CASE Unauthorized(p) \/ Serves(p)
  <2>1. /\ UNCHANGED <<exchanged, held, accessToken, refreshToken, got>>
        /\ req' = req \/ req' = [req EXCEPT ![p] = [kind |-> "none", token |-> NoToken]]
    BY <1>13 DEF Unauthorized, Serves, locals, cache, server, Server!RefuseToken, Server!Release,
       Server!NoRequest, Server!ParseToken, Server!RevokeToken
  <2> QED BY <1>0, <1>1, <2>1, UsedKeeps
<1>14. CASE Answered(p)
  <2>1. /\ UNCHANGED <<exchanged, accessToken, refreshToken, got>> /\ Return({p})
        /\ req' = [req EXCEPT ![p] = [kind |-> "none", token |-> NoToken]]
    BY <1>14 DEF Answered, cache, Server!Serve, Server!LogoutDone, Server!Release, Server!NoRequest
  <2>2. \A o \in Threads : held'[o] \in {held[o], NoToken}
    BY <2>1 DEF Return
  <2>3. \A o \in Threads : req'[o].token \in {req[o].token, NoToken}
    BY <2>1, SameTypes DEF Server!TypeOK
  <2> QED BY <1>1, <2>1, <2>2, <2>3 DEF Used, Spent
<1>15. CASE Orphaned(p)
  <2>1. /\ UNCHANGED <<held, accessToken, refreshToken, got>>
        /\ req' = [req EXCEPT ![p] = [kind |-> "none", token |-> NoToken]]
        /\ exchanged' \subseteq exchanged \cup {<<req[p].token, nextId>>}
    BY <1>15 DEF Orphaned, locals, cache, Server!RefuseToken, Server!Serve, Server!LogoutDone, Server!IssuePair,
       Server!Release, Server!NoRequest
  <2>2. Spent' \subseteq Used
    BY <2>1, SpentKeeps
  <2> QED BY <1>0, <1>1, <2>1, <2>2, UsedKeeps
<1>16. CASE RequestFails(p)
  <2>1. UNCHANGED <<exchanged, req, accessToken, refreshToken, got>>
    BY <1>16 DEF RequestFails, cache, server
  <2> QED BY <1>1, <1>3, <1>4, <1>16, <2>1 DEF RequestFails
<1> QED
  BY <1>5, <1>6, <1>7, <1>8, <1>9, <1>10, <1>11, <1>12, <1>13, <1>14, <1>15, <1>16 DEF Step

LEMMA FreshNext ==
  ASSUME ClientInv, AuthFacts!TypeInv, Fresh, [Next]_vars PROVE Fresh'
<1>1. CASE UNCHANGED vars
  BY <1>1 DEF vars, server, cache, Fresh, Used, Spent
<1>2. CASE Background
  BY <1>2 DEF Background, locals, cache, Server!Tick, Server!CleanupRevokedTokens, Server!EmergencyCleanup,
     Fresh, Used, Spent
<1>3. CASE Restart
  <2>1. UNCHANGED <<exchanged, accessToken, refreshToken, got>>
    BY <1>3 DEF Restart, Server!Restart, cache
  <2>2. \A o \in Threads : held'[o] \in {held[o], NoToken}
    BY <1>3 DEF Restart
  <2>3. \A o \in Threads : req'[o].token = NoToken
    BY <1>3 DEF Restart, Server!Restart, Server!NoRequest
  <2> QED BY <2>1, <2>2, <2>3 DEF Fresh, Used, Spent
<1> QED BY <1>1, <1>2, <1>3, FreshThread DEF Next

LEMMA LockThread ==
  ASSUME ClientInv, LockInv, lang = "python", NEW p \in Threads, Begin(p) \/ Step(p) \/ RequestFails(p)
  PROVE  LockInv'
<1> USE ThreadsAssumption DEF LockInv
<1> DEFINE OK == (cpc'[p] \in Getting => authLock' = p) /\ \A o \in Threads \ {p} : authLock = o => authLock' = o
<1>1. /\ \A l : Goto(p, l) => cpc'[p] = l /\ \A o \in Threads \ {p} : cpc'[o] = cpc[o]
      /\ Return({p}) => cpc'[p] = "idle" /\ \A o \in Threads \ {p} : cpc'[o] = cpc[o]
  BY DEF Goto, Return, ClientInv, FunctionsOK
<1>2. ASSUME OK, \A o \in Threads \ {p} : cpc'[o] = cpc[o] PROVE LockInv'
  BY <1>2
<1>3. ASSUME Return({p}) PROVE LockInv'
  BY <1>1, <1>2, <1>3 DEF Return, Getting
<1>4. ASSUME RefreshFails(p), cpc[p] \in Getting PROVE LockInv'
  BY <1>1, <1>2, <1>3, <1>4 DEF RefreshFails
<1>5. ASSUME NEW l, Goto(p, l), authLock' = authLock, l \notin Getting \/ cpc[p] \in Getting PROVE LockInv'
  BY <1>1, <1>2, <1>5
<1>6. CASE Begin(p)
  BY <1>5, <1>6 DEF Begin, Request, Logout, LogoutReads, Getting
<1>7. CASE LogoutClears(p) \/ Answered(p)
  BY <1>3, <1>7 DEF LogoutClears, Answered
<1>8. CASE EnsureValidToken(p)
  BY <1>5, <1>8 DEF EnsureValidToken, Getting
<1>9. CASE AuthLock(p)
  <2>1. CASE UNCHANGED authLock /\ Goto(p, "send")
    BY <1>5, <2>1 DEF Getting
  <2>2. CASE authLock = NoOne /\ authLock' = p /\ \E l : Goto(p, l)
    BY <1>1, <1>2, <2>2
  <2> QED BY <1>9, <2>1, <2>2 DEF AuthLock
<1>10. CASE RefreshTokens(p) \/ RefreshRefused(p)
  BY <1>4, <1>5, <1>10 DEF RefreshTokens, RefreshRefused, Getting
<1>11. CASE PostRefresh(p) \/ Refreshed(p) \/ LoggedIn(p)
  BY <1>5, <1>11 DEF PostRefresh, Refreshed, LoggedIn, locals, Getting
<1>12. CASE StoreTokens(p)
  <2>1. authLock' = Unlocked(p) /\ \E l \in {"ensure", "send"} : Goto(p, l)
    BY <1>12 DEF StoreTokens
  <2> QED BY <1>1, <1>2, <2>1 DEF Unlocked, Getting
<1>13. CASE Send(p)
  BY <1>5, <1>13 DEF Send, locals, Getting
<1>14. CASE Unauthorized(p)
  BY <1>5, <1>14 DEF Unauthorized, Getting
<1>15. CASE Serves(p) \/ Orphaned(p)
  BY <1>15 DEF Serves, Orphaned, locals
<1>16. CASE RequestFails(p)
  BY <1>3, <1>4, <1>16 DEF RequestFails, Getting
<1> QED
  BY <1>6, <1>7, <1>8, <1>9, <1>10, <1>11, <1>12, <1>13, <1>14, <1>15, <1>16 DEF Step

LEMMA LangStays == ASSUME [Next]_vars PROVE lang' = lang
BY DEF Next, vars, Background, Restart, Begin, Step, Request, Logout, LogoutReads, LogoutClears, EnsureValidToken,
   AuthLock, RefreshTokens, PostRefresh, RefreshRefused, Refreshed, LoggedIn, StoreTokens,
   Send, Unauthorized, Answered, Serves, Orphaned, RequestFails

LEMMA LockNext ==
  ASSUME ClientInv, LockInv, [Next]_vars PROVE LockInv'
<1>1. CASE UNCHANGED vars
  BY <1>1 DEF vars, LockInv
<1>2. CASE Background
  BY <1>2 DEF Background, locals, LockInv
<1>3. CASE Restart
  BY <1>3 DEF Restart, LockInv, Getting
<1>4. ASSUME NEW p \in Threads, Begin(p) \/ Step(p) \/ RequestFails(p) PROVE LockInv'
  BY <1>4, LockThread, LangStays DEF LockInv
<1> QED BY <1>1, <1>2, <1>3, <1>4 DEF Next

LEMMA FailedStays == ASSUME ClientInv, [Next]_vars PROVE failed => failed'
BY DEF Next, vars, ghosts, Background, Restart, Begin, Step, Request, Logout, LogoutReads, LogoutClears, EnsureValidToken,
   AuthLock, RefreshTokens, PostRefresh, RefreshRefused, Refreshed, LoggedIn, StoreTokens,
   Send, Unauthorized, Answered, Serves, Orphaned, RequestFails

LEMMA OrphanThread ==
  ASSUME ClientInv, AuthFacts!TypeInv, NoOrphans, NEW p \in Threads, Begin(p) \/ Step(p) \/ RequestFails(p), ~failed'
  PROVE  NoOrphans'
<1> USE DEF NoOrphans
<1> DEFINE Waits(o) == pc[o] # "idle" => cpc[o] \in {"refreshing", "sent"}
<1>1. /\ \A l : Goto(p, l) => cpc'[p] = l
      /\ Return({p}) => cpc'[p] = "idle"
      /\ Server!Release(p) => pc'[p] = "idle"
  BY SameTypes DEF Goto, Return, ClientInv, FunctionsOK, Server!Release, Server!TypeOK
<1>2. ~failed
  BY FailedStays DEF Next
<1>3. ASSUME Waits(p)' PROVE NoOrphans'
  BY <1>2, <1>3, OthersStay
<1>4. ASSUME UNCHANGED server PROVE pc' = pc
  BY <1>4 DEF server
<1>5. CASE Begin(p)
  BY <1>2, <1>3, <1>4, <1>5 DEF Begin, Request, Logout, LogoutReads, StartCall
<1>6. CASE LogoutClears(p) \/ EnsureValidToken(p) \/ AuthLock(p) \/ RefreshTokens(p) \/ LoggedIn(p) \/ StoreTokens(p)
  <2>1. cpc[p] \notin {"refreshing", "sent"} /\ pc' = pc
    BY <1>4, <1>6 DEF LogoutClears, EnsureValidToken, AuthLock, RefreshTokens, LoggedIn, StoreTokens, Server!Login
  <2> QED BY <1>2, <1>3, <2>1
<1>7. CASE PostRefresh(p) \/ Send(p)
  BY <1>1, <1>3, <1>7 DEF PostRefresh, Send
<1>8. CASE RefreshRefused(p) \/ Unauthorized(p)
  BY <1>1, <1>2, <1>3, <1>4, <1>8 DEF RefreshRefused, Unauthorized, Server!RefuseToken
<1>9. CASE Refreshed(p) \/ Answered(p) \/ Orphaned(p)
  BY <1>1, <1>3, <1>9 DEF Refreshed, Answered, Orphaned, Server!IssuePair, Server!Serve, Server!LogoutDone,
     Server!RefuseToken
<1>10. CASE Serves(p)
  BY <1>2, <1>3, <1>10 DEF Serves, Server!ParseToken, Server!RevokeToken
<1>11. CASE RequestFails(p)
  BY <1>11 DEF RequestFails
<1> QED BY <1>5, <1>6, <1>7, <1>8, <1>9, <1>10, <1>11 DEF Step

LEMMA OrphanNext ==
  ASSUME ClientInv, AuthFacts!TypeInv, NoOrphans, [Next]_vars PROVE NoOrphans'
<1> SUFFICES ASSUME ~failed' PROVE NoOrphans'
  BY DEF NoOrphans
<1>1. ~failed
  BY FailedStays
<1>2. CASE UNCHANGED vars
  BY <1>2 DEF vars, server, ghosts, NoOrphans
<1>3. CASE Background
  BY <1>1, <1>3 DEF Background, NoOrphans, Server!Tick, Server!CleanupRevokedTokens, Server!EmergencyCleanup
<1>4. CASE Restart
  BY <1>4 DEF Restart, Server!Restart, NoOrphans
<1> QED BY <1>2, <1>3, <1>4, OrphanThread DEF Next

Replacing == {"refreshing", "login", "store"}

LEMMA RefreshThread ==
  ASSUME ClientInv, AuthFacts!TypeInv, Fresh, LockInv, NoOrphans, CachedRefreshUnspent, RefreshesInTurn,
         NEW p \in Threads, Begin(p) \/ Step(p) \/ RequestFails(p), ~failed'
  PROVE  CachedRefreshUnspent' /\ RefreshesInTurn'
<1> USE DEF CachedRefreshUnspent, RefreshesInTurn, Replacing
<1> DEFINE OK == CachedRefreshUnspent' /\ RefreshesInTurn'
<1>1. ~failed /\ lang' = lang
  BY FailedStays, LangStays DEF Next
<1>2. /\ \A l : Goto(p, l) => cpc'[p] = l
      /\ Return({p}) => cpc'[p] = "idle" /\ \A o \in Threads \ {p} : held'[o] = held[o]
      /\ \A o \in Threads \ {p} : cpc'[o] = cpc[o]
      /\ \A t : held' = [held EXCEPT ![p] = t] => held'[p] = t /\ \A o \in Threads \ {p} : held'[o] = held[o]
      /\ held' = held => \A o \in Threads : held'[o] = held[o]
  <2>1. \A o \in Threads \ {p} : cpc'[o] = cpc[o]
    BY OthersStay
  <2>2. Return({p}) => cpc'[p] = "idle" /\ \A o \in Threads \ {p} : held'[o] = held[o]
    BY DEF Return
  <2>3. \A l : Goto(p, l) => cpc'[p] = l
    BY DEF Goto, ClientInv, FunctionsOK
  <2>4. \A t : held' = [held EXCEPT ![p] = t] => held'[p] = t /\ \A o \in Threads \ {p} : held'[o] = held[o]
    BY DEF ClientInv, FunctionsOK
  <2> QED BY <2>1, <2>2, <2>3, <2>4
<1>3. \A x \in exchanged : x[1] # NoToken
  BY SameTypes, NoTokenAssumption DEF Server!TypeOK
<1>4. UNCHANGED server => exchanged' = exchanged
  BY DEF server
\* Steps after which nothing more has been exchanged.
<1>5. ASSUME exchanged' = exchanged, refreshToken' \in {refreshToken, NoToken},
             cpc[p] \in Replacing => cpc'[p] \in Replacing
      PROVE  CachedRefreshUnspent'
  BY <1>1, <1>2, <1>3, <1>5
<1>6. ASSUME exchanged' = exchanged, \A o \in Threads \ {p} : held'[o] = held[o], cpc'[p] # "post"
      PROVE  RefreshesInTurn'
  BY <1>1, <1>2, <1>6
<1>7. ASSUME RefreshFails(p), ~Raises(p), exchanged' = exchanged, refreshToken' = refreshToken PROVE OK
  BY <1>2, <1>5, <1>6, <1>7 DEF RefreshFails
<1>8. ASSUME Return({p}), exchanged' = exchanged, refreshToken' \in {refreshToken, NoToken}, cpc[p] \notin Replacing
      PROVE  OK
  BY <1>2, <1>5, <1>6, <1>8
<1>9. ASSUME NEW l, Goto(p, l), l # "post", held' = held, exchanged' = exchanged,
             refreshToken' \in {refreshToken, NoToken}, cpc[p] \notin Replacing \/ l \in Replacing
      PROVE  OK
  BY <1>2, <1>5, <1>6, <1>9
<1>10. CASE Begin(p)
  BY <1>4, <1>9, <1>10 DEF Begin, Request, Logout, LogoutReads, StartCall, cache
<1>11. CASE LogoutClears(p) \/ Answered(p)
  BY <1>4, <1>8, <1>11 DEF LogoutClears, Answered, cache, Server!Serve, Server!LogoutDone
<1>12. CASE EnsureValidToken(p)
  BY <1>4, <1>9, <1>12 DEF EnsureValidToken, FirstStep, cache
<1>13. CASE AuthLock(p)
  BY <1>4, <1>9, <1>13 DEF AuthLock, FirstStep, cache
<1>14. CASE RefreshTokens(p)
  <2>1. exchanged' = exchanged /\ refreshToken' = refreshToken /\ cpc[p] = "refresh"
    BY <1>4, <1>14 DEF RefreshTokens, cache
  <2>2. CASE refreshToken = NoToken
    BY <1>7, <1>14, <2>1, <2>2 DEF RefreshTokens
  <2>3. CASE refreshToken # NoToken
    <3>1. Goto(p, "post") /\ held' = [held EXCEPT ![p] = refreshToken]
      BY <1>14, <2>3 DEF RefreshTokens
    <3>2. CachedRefreshUnspent'
      BY <1>5, <2>1
    <3>3. lang = "python" => \A x \in exchanged : x[1] # refreshToken
      BY <1>1, <2>1 DEF LockInv, Getting
    <3>4. held'[p] = refreshToken /\ \A o \in Threads \ {p} : held'[o] = held[o] /\ cpc'[o] = cpc[o]
      BY <1>2, <3>1
    <3>5. RefreshesInTurn'
      BY <1>1, <2>1, <3>3, <3>4
    <3> QED BY <3>2, <3>5
  <2> QED BY <2>2, <2>3
<1>15. CASE PostRefresh(p)
  BY <1>9, <1>15 DEF PostRefresh, locals, cache, Server!CheckRevoked
<1>16. CASE RefreshRefused(p)
  BY <1>4, <1>7, <1>16 DEF RefreshRefused, cache, Server!RefuseToken
<1>17. CASE Refreshed(p)
  <2>1. Goto(p, "store") /\ cpc[p] = "refreshing"
    BY <1>17 DEF Refreshed
  <2>2. lang = "python" => \A o \in Threads \ {p} : cpc[o] # "post"
    BY <2>1 DEF LockInv, Getting
  <2> QED BY <1>1, <1>2, <2>1, <2>2
<1>18. CASE LoggedIn(p)
  BY <1>9, <1>18 DEF LoggedIn, locals, cache, Server!Login
<1>19. CASE StoreTokens(p)
  <2>1. RefreshOf(got[p]) \in got[p]
    BY <1>19, PairTokens DEF StoreTokens, ClientInv, ThreadOK
  <2>2. \A x \in exchanged : x[1] # RefreshOf(got[p])
    BY <2>1 DEF Fresh, Used, Spent
  <2>3. /\ exchanged' = exchanged /\ refreshToken' = RefreshOf(got[p])
        /\ \A o \in Threads \ {p} : held'[o] = held[o]
        /\ cpc'[p] # "post"
    BY <1>2, <1>4, <1>19 DEF StoreTokens
  <2> QED BY <1>6, <2>2, <2>3
<1>20. CASE Send(p)
  BY <1>9, <1>20 DEF Send, locals, cache, Server!CheckRevoked
<1>21. CASE Unauthorized(p)
  BY <1>4, <1>9, <1>21 DEF Unauthorized, cache, Server!RefuseToken
<1>22. CASE Serves(p) \/ Orphaned(p)
  <2>1. UNCHANGED <<cpc, held, refreshToken>>
    BY <1>22 DEF Serves, Orphaned, locals, cache
  <2>2. exchanged' = exchanged
    BY <1>1, <1>22 DEF Serves, Orphaned, NoOrphans, Server!ParseToken, Server!RevokeToken, Server!RefuseToken,
       Server!Serve, Server!LogoutDone, Server!IssuePair
  <2> QED BY <1>1, <2>1, <2>2
<1>23. CASE RequestFails(p)
  BY <1>23 DEF RequestFails
<1> QED
  BY <1>10, <1>11, <1>12, <1>13, <1>14, <1>15, <1>16, <1>17, <1>18, <1>19, <1>20, <1>21, <1>22, <1>23 DEF Step

RefreshInv == Fresh /\ LockInv /\ NoOrphans /\ CachedRefreshUnspent /\ RefreshesInTurn

LEMMA RefreshNext ==
  ClientInv /\ AuthFacts!TypeInv /\ RefreshInv /\ [Next]_vars => RefreshInv'
<1> SUFFICES ASSUME ClientInv, AuthFacts!TypeInv, RefreshInv, [Next]_vars PROVE RefreshInv'
  OBVIOUS
<1> USE DEF RefreshInv
<1>1. Fresh' /\ LockInv' /\ NoOrphans'
  BY FreshNext, LockNext, OrphanNext
<1>2. CachedRefreshUnspent' /\ RefreshesInTurn'
  <2> USE DEF CachedRefreshUnspent, RefreshesInTurn
  <2> SUFFICES ASSUME ~failed' PROVE CachedRefreshUnspent' /\ RefreshesInTurn'
    OBVIOUS
  <2>1. ~failed
    BY FailedStays
  <2>2. CASE UNCHANGED vars
    BY <2>1, <2>2 DEF vars, server, cache
  <2>3. CASE Background
    BY <2>1, <2>3 DEF Background, locals, cache, Server!Tick, Server!CleanupRevokedTokens,
       Server!EmergencyCleanup, Server!History
  <2>4. CASE Restart
    <3>1. \A o \in Threads : cpc[o] \notin {"refreshing", "sent"}
      BY <2>4 DEF Restart
    <3>2. \A o \in Threads : cpc'[o] = cpc[o] /\ held'[o] = held[o]
      BY <2>4, <3>1 DEF Restart, ClientInv, FunctionsOK
    <3> QED BY <2>1, <2>4, <3>2 DEF Restart, Server!Restart, cache
  <2> QED BY <2>2, <2>3, <2>4, RefreshThread DEF Next
<1> QED BY <1>1, <1>2

LEMMA RefreshInit == Init => RefreshInv
BY DEF Init, RefreshInv, Fresh, LockInv, Getting, NoOrphans, CachedRefreshUnspent, RefreshesInTurn, Server!Init

\* The client's refreshes of its cached tokens (RefreshTokens and StoreTokens,
\* client.go; _refresh_tokens, dbclient.py) leave no spent refresh token in the
\* cache, for any number of threads that refresh, log in and log out at once,
\* unless an answer was lost.
THEOREM CacheStaysUsable == Spec => []CachedRefreshUnspent
<1>1. Init => ClientInv /\ AuthFacts!TypeInv /\ RefreshInv
  BY ClientInit, SameInit, AuthFacts!TypeInit, ServerAssumption, RefreshInit DEF Init
<1>2. RefreshInv => CachedRefreshUnspent
  BY DEF RefreshInv
<1> QED
  BY <1>1, <1>2, BothNext, RefreshNext, PTL DEF Spec

\* _auth_lock (dbclient.py) puts the refreshes of a Python client's threads one
\* after the other: none posts a token that another has exchanged.
THEOREM RefreshesSerialized == Spec => []RefreshesInTurn
<1>1. Init => ClientInv /\ AuthFacts!TypeInv /\ RefreshInv
  BY ClientInit, SameInit, AuthFacts!TypeInit, ServerAssumption, RefreshInit DEF Init
<1>2. RefreshInv => RefreshesInTurn
  BY DEF RefreshInv
<1> QED
  BY <1>1, <1>2, BothNext, RefreshNext, PTL DEF Spec
=============================================================================
