-------------------------- MODULE AuthManagerProofs --------------------------
(* Proofs about AuthManager, for any goroutines, durations, bounds and keys. *)
EXTENDS AuthManager, TLAPS

\* What a goroutine's step says about its request.
Flow ==
  \A p \in Procs :
    /\ pc[p] = "parse" =>
         req[p].token \in issued /\ (req[p].kind = "refresh" => left[p] = <<>>)
    /\ pc[p] = "revoke" /\ req[p].kind = "refresh" => left[p] = <<req[p].token>>
    /\ pc[p] = "issue" => req[p].token \in everRevoked

TypeInv == TypeOK /\ Flow

\* No token outlives a revocation list entry made now or later.
Lifetimes ==
  /\ \A t \in issued : t.exp =< now + RefreshDuration
  /\ \A e \in revoked : e.token.exp =< e.at + RefreshDuration

\* A revoked token is listed, excused, or of no use any more.
Dead(t) == t \in TokensOf(revoked) \cup TokensOf(forgotten) \/ ~Parses(t)

Revocation ==
  /\ \A t \in everRevoked : Dead(t)
  /\ \A p \in late : pc[p] = "parse" /\ req[p].token \in everRevoked /\ ~Parses(req[p].token)

LEMMA Truncated == \A t \in Nat : Truncate(t) \in Nat /\ Truncate(t) =< t
<1> TAKE t \in Nat
<1>1. t % Second \in Nat /\ t % Second < Second
  BY DurationAssumption
<1>2. t % Second =< t
  BY DurationAssumption
<1> QED
  BY <1>1, <1>2 DEF Truncate

-----------------------------------------------------------------------------
(* Types and control. *)

LEMMA NewPair ==
  ASSUME now \in Nat, key \in Nat, nextId \in Nat
  PROVE  \A t \in Pair : /\ t \in Token /\ t.id = nextId /\ t.key = key
                         /\ t.exp =< now + Duration(t.kind)
<1> TAKE t \in Pair
<1>1. PICK k \in TokenKinds : t = [id |-> nextId, kind |-> k, exp |-> Truncate(now + Duration(k)), key |-> key]
  BY DEF Pair
<1>2. now + Duration(k) \in Nat
  BY DurationAssumption DEF Duration
<1>3. Truncate(now + Duration(k)) \in Nat /\ Truncate(now + Duration(k)) =< now + Duration(k)
  BY <1>2, Truncated
<1> QED
  BY <1>1, <1>3 DEF Token

LEMMA TypeInit == Init => TypeInv
BY DEF Init, TypeInv, TypeOK, Flow, NoRequest, Label, RequestKinds, TokensOf

\* A goroutine that is done leaves the types and the others' control alone.
LEMMA TypeRelease ==
  ASSUME TypeInv, NEW p \in Procs, Release(p),
         UNCHANGED <<now, key, nextId, issued, revoked, everRevoked, forgotten, exchanged, restarts>>
  PROVE  TypeInv'
<1>1. TypeOK'
  BY DEF TypeInv, TypeOK, Release, NoRequest, Label, RequestKinds, TokensOf
<1>2. Flow'
  BY DEF TypeInv, TypeOK, Flow, Release, NoRequest
<1> QED
  BY <1>1, <1>2 DEF TypeInv

\* New tokens and a later key disturb no type.
LEMMA TypeIssue ==
  ASSUME TypeInv, issued' = issued \cup Pair, nextId' = nextId + 1,
         UNCHANGED <<now, key, revoked, everRevoked, forgotten, restarts>>
  PROVE  /\ issued' \subseteq Token
         /\ \A t \in issued' : t.id < nextId' /\ t.key =< key'
         /\ revoked' \subseteq Entry /\ TokensOf(revoked') \subseteq issued'
         /\ everRevoked' \subseteq issued' /\ nextId' \in Nat
<1>1. \A t \in Pair : t \in Token /\ t.id = nextId /\ t.key = key
  BY NewPair DEF TypeInv, TypeOK
<1>2. \A t \in issued : t.id \in Nat /\ t.id < nextId /\ t.key =< key
  BY DEF TypeInv, TypeOK, Token
<1>3. nextId \in Nat /\ key \in Nat
  BY DEF TypeInv, TypeOK
<1> QED
  BY <1>1, <1>2, <1>3 DEF TypeInv, TypeOK

LEMMA SeqWider == \A S, T : S \subseteq T => Seq(S) \subseteq Seq(T)
OBVIOUS

\* The lists of tokens still to revoke.
LEMMA BodySeq == \A body \in Bodies : body \in Seq(issued)
<1>1. \A t \in issued, u \in issued : <<t, u>> \in Seq(issued)
  OBVIOUS
<1>2. \A body \in issued \X issued : \E t \in issued, u \in issued : body = <<t, u>>
  OBVIOUS
<1>3. \A body \in issued \X issued : body \in Seq(issued)
  BY <1>1, <1>2
<1>4. <<>> \in Seq(issued)
  OBVIOUS
<1>5. \A body \in Bodies : body = <<>> \/ body \in issued \X issued
  BY DEF Bodies
<1> QED
  BY <1>3, <1>4, <1>5

LEMMA Singleton == \A t : Append(<<>>, t) = <<t>> /\ Head(<<t>>) = t /\ Tail(<<t>>) = <<>>
<1>1. \A t : Append(<<>>, t) = <<t>>
  OBVIOUS
<1>2. \A t : Head(<<t>>) = t
  OBVIOUS
<1>3. \A t : Tail(<<t>>) = <<>>
  OBVIOUS
<1> QED
  BY <1>1, <1>2, <1>3, Zenon

LEMMA TypeNext == TypeInv /\ [Next]_vars => TypeInv'
<1> SUFFICES ASSUME TypeInv, [Next]_vars PROVE TypeInv'
  OBVIOUS
<1> USE DEF TypeInv
<1>1. CASE Tick
  BY <1>1 DEF Tick, TypeOK, Flow, History
<1>2. CASE Login
  <2>1. /\ UNCHANGED <<now, key, revoked, pc, req, left, everRevoked, forgotten, late, exchanged, restarts>>
        /\ issued' = issued \cup Pair /\ nextId' = nextId + 1
    BY <1>2 DEF Login, History
  <2>2. Seq(issued) \subseteq Seq(issued')
    BY <2>1, SeqWider
  <2>3. TypeOK'
    BY <2>1, <2>2, TypeIssue DEF TypeOK
  <2>4. Flow'
    BY <2>1 DEF Flow
  <2> QED
    BY <2>3, <2>4
<1>3. CASE CleanupRevokedTokens
  <2>1. revoked' \subseteq revoked
    BY <1>3 DEF CleanupRevokedTokens, Kept
  <2> QED
    BY <1>3, <2>1 DEF CleanupRevokedTokens, TypeOK, Flow, History, TokensOf
<1>4. CASE EmergencyCleanup
  <2>1. revoked' \subseteq revoked /\ forgotten' \subseteq forgotten \cup revoked
    BY <1>4 DEF EmergencyCleanup, Kept
  <2> QED
    BY <1>4, <2>1 DEF EmergencyCleanup, TypeOK, Flow, TokensOf
<1>5. CASE Restart
  <2>1. key' \in Nat /\ key =< key'
    BY <1>5 DEF Restart, TypeOK
  <2>2. \A t \in issued : t.key =< key'
    BY <2>1 DEF TypeOK, Token
  <2>3. revoked' = {} /\ forgotten' \subseteq forgotten \cup revoked /\ restarts' \in Nat
    BY <1>5 DEF Restart, TypeOK
  <2>4. TypeOK'
    BY <1>5, <2>1, <2>2, <2>3 DEF Restart, TypeOK, TokensOf, Label, RequestKinds, NoRequest
  <2>5. Flow'
    BY <1>5 DEF Restart, Flow, NoRequest
  <2> QED
    BY <2>4, <2>5
<1>6. ASSUME NEW p \in Procs, NEW t \in issued, NEW kind \in {"api", "refresh", "logout"},
             NEW body \in Bodies, CheckRevoked(p, t, kind, body)
      PROVE  TypeInv'
  <2>1. body \in Seq(issued)
    BY BodySeq
  <2>2. TypeOK'
    BY <1>6, <2>1 DEF CheckRevoked, TypeOK, Label, RequestKinds, History
  <2>3. Flow'
    BY <1>6 DEF CheckRevoked, TypeOK, Flow, History
  <2> QED
    BY <2>2, <2>3
<1>7. ASSUME NEW p \in Procs, NEW body \in Bodies, BasicLogout(p, body) PROVE TypeInv'
  <2>1. body \in Seq(issued)
    BY BodySeq
  <2>2. TypeOK'
    BY <1>7, <2>1 DEF BasicLogout, TypeOK, Label, RequestKinds, History
  <2>3. Flow'
    BY <1>7 DEF BasicLogout, TypeOK, Flow, History
  <2> QED
    BY <2>2, <2>3
<1>8. ASSUME NEW p \in Procs, ParseToken(p) PROVE TypeInv'
  <2>1. req[p].token \in issued /\ left[p] \in Seq(issued)
    BY <1>8 DEF ParseToken, Flow, TypeOK
  <2>2. Append(left[p], req[p].token) \in Seq(issued)
    BY <2>1
  <2>3. req[p].kind = "refresh" => Append(left[p], req[p].token) = <<req[p].token>>
    BY <1>8, Singleton DEF ParseToken, Flow
  <2>4. TypeOK'
    BY <1>8, <2>2 DEF ParseToken, TypeOK, Label, History
  <2>5. Flow'
    BY <1>8, <2>3 DEF ParseToken, TypeOK, Flow, History
  <2> QED
    BY <2>4, <2>5
<1>9. ASSUME NEW p \in Procs, RefuseToken(p) \/ Serve(p) \/ LogoutDone(p) PROVE TypeInv'
  BY <1>9, TypeRelease DEF RefuseToken, Serve, LogoutDone, History
<1>10. ASSUME NEW p \in Procs, RevokeToken(p) PROVE TypeInv'
  <2> DEFINE t == Head(left[p])
             rest == Tail(left[p])
  <2>1. t \in issued /\ rest \in Seq(issued)
    BY <1>10 DEF RevokeToken, TypeOK
  <2>2. now \in Nat /\ issued \subseteq Token
    BY DEF TypeOK
  <2>3. req[p].kind = "refresh" => t = req[p].token /\ rest = <<>>
    BY <1>10, Singleton DEF RevokeToken, Flow
  <2>4. /\ revoked' = {e \in revoked : e.token # t} \cup {[token |-> t, at |-> now]}
        /\ everRevoked' = everRevoked \cup {t} /\ forgotten' \subseteq forgotten
        /\ left' = [left EXCEPT ![p] = rest] /\ pc[p] = "revoke"
        /\ pc' = [pc EXCEPT ![p] = IF rest = <<>> /\ req[p].kind = "refresh" THEN "issue" ELSE "revoke"]
        /\ UNCHANGED <<now, key, nextId, issued, req, late, exchanged, restarts>>
    BY <1>10 DEF RevokeToken
  <2> HIDE DEF t, rest
  <2>5. /\ revoked' \subseteq Entry /\ TokensOf(revoked') \subseteq issued
        /\ \A d, e \in revoked' : d.token = e.token => d = e
    BY <2>1, <2>2, <2>4 DEF TypeOK, Entry, TokensOf
  <2>6. TypeOK'
    BY <2>1, <2>4, <2>5 DEF TypeOK, Label
  <2>7. Flow'
    BY <2>3, <2>4 DEF Flow, TypeOK
  <2> QED
    BY <2>6, <2>7
<1>11. ASSUME NEW p \in Procs, IssuePair(p) PROVE TypeInv'
  <2>1. /\ UNCHANGED <<now, key, revoked, everRevoked, forgotten, restarts>>
        /\ issued' = issued \cup Pair /\ nextId' = nextId + 1
        /\ exchanged' = exchanged \cup {<<req[p].token, nextId>>}
        /\ Release(p) /\ req[p].token \in everRevoked
    BY <1>11 DEF IssuePair, History, Flow
  <2>2. Seq(issued) \subseteq Seq(issued')
    BY <2>1, SeqWider
  <2>3. exchanged' \subseteq everRevoked' \X Nat
    BY <2>1 DEF TypeOK
  <2>4. TypeOK'
    BY <2>1, <2>2, <2>3, TypeIssue DEF TypeOK, Release, NoRequest, Label, RequestKinds
  <2>5. Flow'
    BY <2>1 DEF Flow, TypeOK, Release, NoRequest
  <2> QED
    BY <2>4, <2>5
<1>12. CASE UNCHANGED vars
  BY <1>12 DEF vars, TypeOK, Flow
<1> QED
  BY <1>1, <1>2, <1>3, <1>4, <1>5, <1>6, <1>7, <1>8, <1>9, <1>10, <1>11, <1>12
     DEF Next, Request, Step

\* Tokens carry ids and keys that have been handed out, a listed token has one
\* entry, and only tokens that were revoked have been exchanged.
THEOREM AuthTypes == Spec => []TypeOK
<1>1. TypeInv => TypeOK
  BY DEF TypeInv
<1> QED
  BY <1>1, TypeInit, TypeNext, PTL DEF Spec
-----------------------------------------------------------------------------
(* Revocation. *)

LEMMA LifetimesNext ==
  ASSUME AccessDuration =< RefreshDuration, TypeInv, Lifetimes, [Next]_vars
  PROVE  Lifetimes'
<1> USE DEF TypeInv
<1>1. /\ now \in Nat /\ RefreshDuration \in Nat /\ \A t \in issued : t.exp \in Nat
      /\ \A e \in revoked : e.at \in Nat /\ e.token.exp \in Nat
  BY DurationAssumption DEF TypeOK, Token, Entry
<1>2. \A t \in Pair : t.exp =< now + RefreshDuration
  <2> TAKE t \in Pair
  <2>1. t \in Token /\ t.exp =< now + Duration(t.kind)
    BY NewPair DEF TypeOK
  <2>2. Duration(t.kind) \in Nat /\ Duration(t.kind) =< RefreshDuration
    BY DurationAssumption DEF Duration
  <2> QED
    BY <1>1, <2>1, <2>2 DEF Token
<1>3. CASE Tick
  BY <1>1, <1>3 DEF Tick, Lifetimes, History
<1>4. CASE Login \/ \E p \in Procs : IssuePair(p)
  BY <1>2, <1>4 DEF Login, IssuePair, Lifetimes, History
<1>5. CASE issued' = issued /\ now' = now /\ revoked' \subseteq revoked
  BY <1>5 DEF Lifetimes
<1>6. CASE CleanupRevokedTokens \/ EmergencyCleanup \/ Restart
  BY <1>5, <1>6 DEF CleanupRevokedTokens, EmergencyCleanup, Restart, Kept
<1>7. ASSUME NEW p \in Procs, RevokeToken(p) PROVE Lifetimes'
  <2> DEFINE t == Head(left[p])
  <2>1. /\ issued' = issued /\ now' = now
        /\ revoked' \subseteq revoked \cup {[token |-> t, at |-> now]}
    BY <1>7 DEF RevokeToken
  <2>2. t \in issued
    BY <1>7 DEF RevokeToken, TypeOK
  <2> HIDE DEF t
  <2> QED
    BY <2>1, <2>2 DEF Lifetimes
<1>8. ASSUME NEW p \in Procs, Request(p) \/ ParseToken(p) \/ RefuseToken(p) \/ Serve(p) \/ LogoutDone(p)
      PROVE  Lifetimes'
  BY <1>5, <1>8 DEF Request, CheckRevoked, BasicLogout, ParseToken, RefuseToken, Serve, LogoutDone
<1>9. CASE UNCHANGED vars
  BY <1>5, <1>9 DEF vars
<1> QED
  BY <1>3, <1>4, <1>6, <1>7, <1>8, <1>9 DEF Next, Step

\* A token that does not parse never parses again.
LEMMA StaysInvalid ==
  ASSUME TypeInv, [Next]_vars, NEW t \in issued, ~Parses(t)
  PROVE  ~Parses(t)'
<1>1. t.exp \in Nat /\ t.key \in Nat /\ t.key =< key /\ now \in Nat /\ key \in Nat
  BY DEF TypeInv, TypeOK, Token
<1>2. now' \in {now, now + 1} /\ key' \in {key, key + 1}
  BY DEF Next, Request, Step, vars, Tick, Login, CheckRevoked, ParseToken, RefuseToken, Serve, BasicLogout,
         RevokeToken, LogoutDone, IssuePair, CleanupRevokedTokens, EmergencyCleanup, Restart
<1> QED
  BY <1>1, <1>2 DEF Parses

LEMMA DeadNext ==
  ASSUME TypeInv, Lifetimes, Revocation, [Next]_vars
  PROVE  \A t \in everRevoked' : Dead(t)'
<1>1. \A t \in issued : ~Parses(t) => ~Parses(t)'
  BY StaysInvalid
<1>2. everRevoked \subseteq issued /\ \A t \in everRevoked : Dead(t)
  BY DEF TypeInv, TypeOK, Revocation
<1>3. CASE UNCHANGED <<revoked, everRevoked, forgotten>>
  BY <1>1, <1>2, <1>3 DEF Dead
<1>4. CASE CleanupRevokedTokens \/ EmergencyCleanup
  <2>1. everRevoked' = everRevoked /\ now' = now /\ Kept \subseteq revoked
        /\ TokensOf(Kept) \subseteq TokensOf(revoked') \cup TokensOf(forgotten')
        /\ TokensOf(forgotten) \subseteq TokensOf(forgotten')
    BY <1>4 DEF CleanupRevokedTokens, EmergencyCleanup, History, Kept, TokensOf
  <2>2. \A e \in revoked \ Kept : ~Parses(e.token)
    <3>1. \A e \in revoked : e.at \in Nat /\ e.token.exp \in Nat /\ e.token.exp =< e.at + RefreshDuration
      BY DEF TypeInv, TypeOK, Entry, Token, Lifetimes
    <3>2. \A e \in revoked \ Kept : ~(e.at >= now - RefreshDuration)
      BY DEF Kept
    <3>3. now \in Nat /\ RefreshDuration \in Nat
      BY DurationAssumption DEF TypeInv, TypeOK
    <3> QED
      BY <3>1, <3>2, <3>3 DEF Parses
  <2>3. \A t \in TokensOf(revoked) : t \in TokensOf(Kept) \/ ~Parses(t)
    BY <2>2 DEF TokensOf
  <2> QED
    BY <1>1, <1>2, <2>1, <2>3 DEF Dead
<1>5. CASE Restart
  <2>1. CASE KeyConfigured
    BY <1>1, <1>2, <1>5, <2>1 DEF Restart, Dead, TokensOf
  <2>2. CASE ~KeyConfigured
    <3>1. \A t \in issued : t.key \in Nat /\ t.key =< key /\ key \in Nat
      BY DEF TypeInv, TypeOK, Token
    <3>2. \A t \in issued : ~Parses(t)'
      BY <1>5, <2>2, <3>1 DEF Restart, Parses
    <3> QED
      BY <1>2, <1>5, <3>2 DEF Restart, Dead
  <2> QED
    BY <2>1, <2>2
<1>6. ASSUME NEW p \in Procs, RevokeToken(p) PROVE \A t \in everRevoked' : Dead(t)'
  <2> DEFINE new == Head(left[p])
  <2>1. /\ revoked' = {e \in revoked : e.token # new} \cup {[token |-> new, at |-> now]}
        /\ forgotten' = {e \in forgotten : e.token # new}
        /\ everRevoked' = everRevoked \cup {new}
    BY <1>6 DEF RevokeToken
  <2> HIDE DEF new
  <2>2. new \in TokensOf(revoked')
    <3>1. [token |-> new, at |-> now] \in revoked' /\ [token |-> new, at |-> now].token = new
      BY <2>1
    <3> QED
      BY <3>1 DEF TokensOf
  <2>3. \A t \in TokensOf(revoked) : t = new \/ t \in TokensOf(revoked')
    BY <2>1 DEF TokensOf
  <2>4. \A t \in TokensOf(forgotten) : t = new \/ t \in TokensOf(forgotten')
    BY <2>1 DEF TokensOf
  <2> QED
    BY <1>1, <1>2, <2>1, <2>2, <2>3, <2>4 DEF Dead
<1> QED
  BY <1>3, <1>4, <1>5, <1>6
     DEF Next, Request, Step, vars, History, Tick, Login, CheckRevoked, ParseToken, RefuseToken, Serve,
         BasicLogout, LogoutDone, IssuePair

\* Only a goroutine that is about to refuse its token is late.
LateOK(p) == pc[p] = "parse" /\ req[p].token \in everRevoked /\ ~Parses(req[p].token)

LEMMA LateNext ==
  ASSUME TypeInv, Revocation, [Next]_vars
  PROVE  \A p \in late' : LateOK(p)'
<1>1. \A t \in issued : ~Parses(t) => ~Parses(t)'
  BY StaysInvalid
<1>2. /\ everRevoked \subseteq issued /\ everRevoked \subseteq everRevoked'
      /\ \A p \in late : LateOK(p)
      /\ pc \in [Procs -> Label] /\ req \in [Procs -> [kind : RequestKinds, token : issued \cup {NoToken}]]
  <2>1. everRevoked \subseteq everRevoked'
    BY DEF Next, Request, Step, vars, History, Tick, Login, CheckRevoked, ParseToken, RefuseToken, Serve,
           BasicLogout, RevokeToken, LogoutDone, IssuePair, CleanupRevokedTokens, EmergencyCleanup, Restart
  <2> QED
    BY <2>1 DEF TypeInv, TypeOK, Revocation, LateOK
<1>3. ASSUME NEW p \in late, pc'[p] = pc[p], req'[p] = req[p] PROVE LateOK(p)'
  BY <1>1, <1>2, <1>3 DEF LateOK
<1>4. CASE UNCHANGED <<pc, req, late>> \/ late' = {}
  BY <1>3, <1>4
<1>5. ASSUME NEW p \in Procs, Release(p) PROVE \A o \in late' : LateOK(o)'
  BY <1>2, <1>3, <1>5 DEF Release
<1>6. ASSUME NEW p \in Procs, NEW t \in issued, NEW kind, NEW body, CheckRevoked(p, t, kind, body)
      PROVE  \A o \in late' : LateOK(o)'
  <2>1. \A o \in late : o # p
    BY <1>2, <1>6 DEF CheckRevoked, LateOK
  <2>2. \A o \in late : LateOK(o)'
    BY <1>2, <1>3, <1>6, <2>1 DEF CheckRevoked
  <2>3. CASE t \in everRevoked \ TokensOf(forgotten)
    <3>1. Dead(t)
      BY <2>3 DEF Revocation
    <3>2. ~Parses(t)
      BY <1>6, <2>3, <3>1 DEF CheckRevoked, Dead
    <3>3. ~Parses(t)'
      BY <1>1, <3>2
    <3>4. LateOK(p)'
      BY <1>2, <1>6, <2>3, <3>3 DEF CheckRevoked, LateOK
    <3> QED
      BY <1>6, <2>2, <3>4 DEF CheckRevoked
  <2> QED
    BY <1>6, <2>2, <2>3 DEF CheckRevoked
<1>7. ASSUME NEW p \in Procs, pc[p] # "parse" \/ Parses(req[p].token), late' = late,
             \A o \in Procs \ {p} : pc'[o] = pc[o] /\ req'[o] = req[o]
      PROVE  \A o \in late' : LateOK(o)'
  <2>1. \A o \in late : o \in Procs \ {p}
    BY <1>2, <1>7 DEF LateOK, TypeInv, TypeOK
  <2> QED
    BY <1>3, <1>7, <2>1
<1>8. ASSUME NEW p \in Procs, ParseToken(p) \/ RevokeToken(p) PROVE \A o \in late' : LateOK(o)'
  BY <1>2, <1>7, <1>8 DEF ParseToken, RevokeToken
<1>9. ASSUME NEW p \in Procs, NEW body, BasicLogout(p, body) PROVE \A o \in late' : LateOK(o)'
  BY <1>2, <1>7, <1>9 DEF BasicLogout
<1> QED
  BY <1>4, <1>5, <1>6, <1>8, <1>9
     DEF Next, Request, Step, vars, Tick, Login, CleanupRevokedTokens, EmergencyCleanup, Restart,
         RefuseToken, Serve, LogoutDone, IssuePair

LEMMA RevocationNext ==
  ASSUME TypeInv, Lifetimes, Revocation, [Next]_vars
  PROVE  Revocation'
BY DeadNext, LateNext DEF Revocation, LateOK

LEMMA AuthInit == Init => TypeInv /\ Lifetimes /\ Revocation
<1>1. Init => Lifetimes /\ Revocation
  BY DEF Init, Lifetimes, Revocation
<1> QED
  BY <1>1, TypeInit

\* A revoked token lets no later request through, for any durations with which
\* an access token does not outlive a refresh token: the list keeps an entry for
\* as long as its token could be accepted, whatever is cleaned up when, and a
\* new key takes the place of the list after a restart.
THEOREM RevocationHolds ==
  ASSUME AccessDuration =< RefreshDuration PROVE Spec => []RevokedStaysRevoked
<1>1. TypeInv /\ Lifetimes /\ Revocation /\ [Next]_vars => (TypeInv /\ Lifetimes /\ Revocation)'
  BY TypeNext, LifetimesNext, RevocationNext
<1>2. Revocation => RevokedStaysRevoked
  BY DEF Revocation, RevokedStaysRevoked
<1> QED
  BY <1>1, <1>2, AuthInit, PTL DEF Spec

\* A refresh token that has been exchanged is of no use to a later request.
THEOREM SpentIsDead ==
  ASSUME AccessDuration =< RefreshDuration PROVE Spec => []SpentTokensDead
<1>1. TypeInv /\ Lifetimes /\ Revocation /\ [Next]_vars => (TypeInv /\ Lifetimes /\ Revocation)'
  BY TypeNext, LifetimesNext, RevocationNext
<1>2. TypeInv /\ Revocation => SpentTokensDead
  <2> SUFFICES ASSUME TypeInv, Revocation, NEW x \in exchanged
               PROVE  x[1] \in TokensOf(revoked) \cup TokensOf(forgotten) \/ ~Parses(x[1])
    BY DEF SpentTokensDead
  <2>1. x[1] \in everRevoked
    BY DEF TypeInv, TypeOK
  <2> QED
    BY <2>1 DEF Revocation, Dead
<1> QED
  BY <1>1, <1>2, AuthInit, PTL DEF Spec
=============================================================================
