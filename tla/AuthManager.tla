----------------------------- MODULE AuthManager -----------------------------
(***************************************************************************)
(* The API server's AuthManager (pkg/api/auth.go) and the handlers that    *)
(* call it: pairs of JWT tokens, the in-memory list of revoked ones, and   *)
(* its cleanup.  revokedMu covers the lookup of ValidateToken, RevokeToken *)
(* and CleanupRevokedTokens each, and nothing longer: a validation looks   *)
(* the token up and then parses it, and a refresh validates, revokes and   *)
(* issues, in steps that interleave.                                       *)
(*                                                                         *)
(* Not covered: the contents of tokens beyond identity, kind, expiry and   *)
(* key; Basic credentials (right ones are assumed where they are used).    *)
(*                                                                         *)
(* everRevoked, forgotten, late and exchanged are history variables.       *)
(***************************************************************************)
EXTENDS Integers, Sequences, FiniteSets

CONSTANTS Procs,           \* goroutines that serve requests
          Second,          \* clock ticks in the unit of an expiry
          AccessDuration, RefreshDuration,
          MaxRevokedTokens,
          KeyConfigured,   \* a signing key is given, not made at start-up
          MaxTime,         \* bound on the clock's ticks and restarts together
          MaxIds, MaxRestarts, \* bounds
          NoToken

ASSUME DurationAssumption ==
  Second \in Nat \ {0} /\ AccessDuration \in Nat /\ RefreshDuration \in Nat
ASSUME ListAssumption == MaxRevokedTokens \in Nat /\ KeyConfigured \in BOOLEAN
ASSUME AuthBoundsAssumption == MaxTime \in Nat /\ MaxIds \in Nat /\ MaxRestarts \in Nat

VARIABLES now, key, nextId,
          issued,      \* the tokens clients have been given
          revoked,     \* revokedTokens: [token, at] records, one per token
          pc, req,     \* what each goroutine does next, and for which request
          left,        \* tokens it has still to revoke, in order
          everRevoked, \* tokens RevokeToken was called with
          forgotten,   \* entries an emergency cleanup or a restart lost
          late,        \* goroutines whose token had been revoked and not
                       \* forgotten when their request began
          exchanged,   \* <<refresh token, id of the pair it was exchanged for>>
          restarts

vars == <<now, key, nextId, issued, revoked, pc, req, left, everRevoked,
          forgotten, late, exchanged, restarts>>

TokenKinds == {"access", "refresh"}
Token == [id : Nat, kind : TokenKinds, exp : Nat, key : Nat]
Entry == [token : Token, at : Nat]
TokensOf(entries) == {e.token : e \in entries}

\* NumericDate drops the fraction of a second.
Truncate(t) == t - (t % Second)
Duration(kind) == IF kind = "access" THEN AccessDuration ELSE RefreshDuration
Pair == {[id |-> nextId, kind |-> k, exp |-> Truncate(now + Duration(k)), key |-> key] :
         k \in TokenKinds}

\* jwt.ParseWithClaims accepts the token.
Parses(t) == now < t.exp /\ t.key = key

NoRequest == [kind |-> "none", token |-> NoToken]
Working == {p \in Procs : pc[p] # "idle"}
History == <<everRevoked, forgotten>>

Release(p) == /\ pc' = [pc EXCEPT ![p] = "idle"]
              /\ req' = [req EXCEPT ![p] = NoRequest]
              /\ left' = [left EXCEPT ![p] = <<>>]
              /\ late' = late \ {p}

Init == /\ now = 0 /\ key = 0 /\ nextId = 0 /\ restarts = 0
        /\ issued = {} /\ revoked = {}
        /\ pc = [p \in Procs |-> "idle"]
        /\ req = [p \in Procs |-> NoRequest]
        /\ left = [p \in Procs |-> <<>>]
        /\ everRevoked = {} /\ forgotten = {} /\ late = {} /\ exchanged = {}

-----------------------------------------------------------------------------
Tick == /\ now + restarts < MaxTime
        /\ now' = now + 1
        /\ UNCHANGED <<key, nextId, issued, revoked, pc, req, left, History, late, exchanged, restarts>>

\* handleLogin with the right credentials.
Login == /\ nextId < MaxIds
         /\ issued' = issued \cup Pair
         /\ nextId' = nextId + 1
         /\ UNCHANGED <<now, key, revoked, pc, req, left, History, late, exchanged, restarts>>

\* The two optional fields of a logout's body: clients leave them out, or send
\* the pair they were given.
Bodies ==
  {<<>>} \cup {b \in issued \X issued :
                 b[1].id = b[2].id /\ b[1].kind = "access" /\ b[2].kind = "refresh"}

\* A request with a token: ValidateToken looks it up in the list.  A listed
\* token is refused at once.
CheckRevoked(p, t, kind, body) ==
  /\ pc[p] = "idle"
  /\ kind = "logout" \/ body = <<>>
  /\ t \notin TokensOf(revoked)
  /\ pc' = [pc EXCEPT ![p] = "parse"]
  /\ req' = [req EXCEPT ![p] = [kind |-> kind, token |-> t]]
  /\ left' = [left EXCEPT ![p] = body]
  /\ late' = IF t \in everRevoked \ TokensOf(forgotten) THEN late \cup {p} ELSE late
  /\ UNCHANGED <<now, key, nextId, issued, revoked, History, exchanged, restarts>>

\* Mutant of ParseToken: a refresh issues at once and revokes nothing.
ParseTokenUnspent(p) ==
  LET q == req[p] IN
  /\ pc[p] = "parse"
  /\ Parses(q.token)
  /\ q.token.kind = (IF q.kind = "refresh" THEN "refresh" ELSE "access")
  /\ pc' = [pc EXCEPT ![p] = IF q.kind = "api" THEN "serve"
                             ELSE IF q.kind = "refresh" THEN "issue" ELSE "revoke"]
  /\ left' = [left EXCEPT ![p] = IF q.kind = "logout" THEN Append(@, q.token) ELSE @]
  /\ UNCHANGED <<now, key, nextId, issued, revoked, req, History, late, exchanged, restarts>>

\* ValidateToken parses the token, and the caller looks at its kind.
ParseToken(p) ==
  LET q == req[p] IN
  /\ pc[p] = "parse"
  /\ Parses(q.token)
  /\ q.token.kind = (IF q.kind = "refresh" THEN "refresh" ELSE "access")
  /\ pc' = [pc EXCEPT ![p] = IF q.kind = "api" THEN "serve" ELSE "revoke"]
  /\ left' = [left EXCEPT ![p] = IF q.kind = "api" THEN @ ELSE Append(@, q.token)]
  /\ UNCHANGED <<now, key, nextId, issued, revoked, req, History, late, exchanged, restarts>>

RefuseToken(p) ==
  LET q == req[p] IN
  /\ pc[p] = "parse"
  /\ \/ ~Parses(q.token)
     \/ q.token.kind # (IF q.kind = "refresh" THEN "refresh" ELSE "access")
  /\ Release(p)
  /\ UNCHANGED <<now, key, nextId, issued, revoked, History, exchanged, restarts>>

\* The handler behind withAuth answers.
Serve(p) ==
  /\ pc[p] = "serve"
  /\ Release(p)
  /\ UNCHANGED <<now, key, nextId, issued, revoked, History, exchanged, restarts>>

\* handleLogout behind Basic credentials: only the body names tokens.
BasicLogout(p, body) ==
  /\ pc[p] = "idle"
  /\ body # <<>>
  /\ pc' = [pc EXCEPT ![p] = "revoke"]
  /\ req' = [req EXCEPT ![p] = [kind |-> "logout", token |-> NoToken]]
  /\ left' = [left EXCEPT ![p] = body]
  /\ UNCHANGED <<now, key, nextId, issued, revoked, History, late, exchanged, restarts>>

RevokeToken(p) ==
  LET t == Head(left[p])
      rest == Tail(left[p])
  IN  /\ pc[p] = "revoke"
      /\ left[p] # <<>>
      /\ revoked' = {e \in revoked : e.token # t} \cup {[token |-> t, at |-> now]}
      /\ everRevoked' = everRevoked \cup {t}
      /\ forgotten' = {e \in forgotten : e.token # t}
      /\ left' = [left EXCEPT ![p] = rest]
      /\ pc' = [pc EXCEPT ![p] = IF rest = <<>> /\ req[p].kind = "refresh" THEN "issue" ELSE @]
      /\ UNCHANGED <<now, key, nextId, issued, req, late, exchanged, restarts>>

\* handleLogout answers.
LogoutDone(p) ==
  /\ pc[p] = "revoke"
  /\ left[p] = <<>>
  /\ Release(p)
  /\ UNCHANGED <<now, key, nextId, issued, revoked, History, exchanged, restarts>>

\* Mutant of IssuePair: the new pair has the id of the next one.
IssuePairSameId(p) ==
  /\ pc[p] = "issue"
  /\ nextId < MaxIds
  /\ issued' = issued \cup Pair
  /\ exchanged' = exchanged \cup {<<req[p].token, nextId>>}
  /\ Release(p)
  /\ UNCHANGED <<now, key, nextId, revoked, History, restarts>>

\* RefreshTokens returns a new pair.
IssuePair(p) ==
  /\ pc[p] = "issue"
  /\ nextId < MaxIds
  /\ issued' = issued \cup Pair
  /\ exchanged' = exchanged \cup {<<req[p].token, nextId>>}
  /\ nextId' = nextId + 1
  /\ Release(p)
  /\ UNCHANGED <<now, key, revoked, History, restarts>>

\* Mutant of Kept: the duration is added to the time instead of taken from it.
KeptForward == {e \in revoked : e.at >= now + RefreshDuration}

\* The entries the first loop of CleanupRevokedTokens keeps.
Kept == {e \in revoked : e.at >= now - RefreshDuration}

CleanupRevokedTokens ==
  /\ Cardinality(Kept) =< MaxRevokedTokens
  /\ revoked' = Kept
  /\ UNCHANGED <<now, key, nextId, issued, pc, req, left, History, late, exchanged, restarts>>

\* Too many are left: half the maximum goes, in the map's order.
EmergencyCleanup ==
  /\ Cardinality(Kept) > MaxRevokedTokens
  /\ \E D \in SUBSET Kept :
       /\ Cardinality(D) = MaxRevokedTokens \div 2
       /\ revoked' = Kept \ D
       /\ forgotten' = forgotten \cup D
  /\ UNCHANGED <<now, key, nextId, issued, pc, req, left, everRevoked, late, exchanged, restarts>>

\* The server stops and starts again: the list is gone, and so is the key
\* unless it was configured.
Restart ==
  /\ restarts < MaxRestarts /\ now + restarts < MaxTime
  /\ restarts' = restarts + 1
  /\ key' = IF KeyConfigured THEN key ELSE key + 1
  /\ revoked' = {}
  /\ forgotten' = IF KeyConfigured THEN forgotten \cup revoked ELSE forgotten
  /\ pc' = [p \in Procs |-> "idle"]
  /\ req' = [p \in Procs |-> NoRequest]
  /\ left' = [p \in Procs |-> <<>>]
  /\ late' = {}
  /\ UNCHANGED <<now, nextId, issued, everRevoked, exchanged>>

Request(p) ==
  \/ \E t \in issued, kind \in {"api", "refresh", "logout"}, body \in Bodies :
       CheckRevoked(p, t, kind, body)
  \/ \E body \in Bodies : BasicLogout(p, body)
Step(p) == ParseToken(p) \/ RefuseToken(p) \/ Serve(p) \/ RevokeToken(p)
           \/ LogoutDone(p) \/ IssuePair(p)

Next == \/ Tick \/ Login \/ CleanupRevokedTokens \/ EmergencyCleanup \/ Restart
        \/ \E p \in Procs : Request(p) \/ Step(p)

Spec == Init /\ [][Next]_vars

-----------------------------------------------------------------------------
(* Properties. *)

Label == {"idle", "parse", "serve", "revoke", "issue"}
RequestKinds == {"none", "api", "refresh", "logout"}

\* The types; tokens carry ids and keys that have been handed out; a listed
\* token has one entry.
TypeOK ==
  /\ now \in Nat /\ key \in Nat /\ nextId \in Nat /\ restarts \in Nat
  /\ issued \subseteq Token
  /\ \A t \in issued : t.id < nextId /\ t.key =< key
  /\ revoked \subseteq Entry /\ TokensOf(revoked) \subseteq issued
  /\ \A d, e \in revoked : d.token = e.token => d = e
  /\ pc \in [Procs -> Label]
  /\ req \in [Procs -> [kind : RequestKinds, token : issued \cup {NoToken}]]
  /\ left \in [Procs -> Seq(issued)]
  /\ everRevoked \subseteq issued
  /\ forgotten \subseteq Entry
  /\ late \subseteq Procs
  /\ exchanged \subseteq everRevoked \X Nat

\* A request that began after its token had been revoked is not let through,
\* however long ago that was and whatever the cleanups have removed since
\* ("Revoke a token to prevent further use", API.md), unless an emergency
\* cleanup dropped the token or a restart with a configured key lost the list.
RevokedStaysRevoked ==
  \A p \in late : pc[p] \in {"idle", "parse"}

\* Once a refresh token has been exchanged it is of no use to a new request
\* ("The old refresh token is revoked after use", API.md).
SpentTokensDead ==
  \A x \in exchanged :
    \/ x[1] \in TokensOf(revoked) \cup TokensOf(forgotten)
    \/ ~Parses(x[1])
=============================================================================
