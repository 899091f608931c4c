----------------------------- MODULE RateLimiter -----------------------------
(* The API server's RateLimiter (pkg/api/server.go): one map from keys to    *)
(* the times of requests that passed, shared by the general limit and the    *)
(* login limit, whose windows differ, and swept by a background loop.  Allow *)
(* and Cleanup hold rl.mu from beginning to end, and read the clock inside,  *)
(* so each is one step.  Two requests may carry the same time: a request is  *)
(* its number and its time.  accepted, refused and count record the answers. *)
EXTENDS Integers, FiniteSets

CONSTANTS Keys,          \* clients, and clients' logins
          Limit, Window, \* the limit and the window Allow is called with for a key
          CleanupWindow, \* LoginRateLimitWindow
          MaxTime, MaxCount

ASSUME KeysAssumption ==
  Limit \in [Keys -> Nat] /\ Window \in [Keys -> Nat \ {0}]
\* Cleanup is written with the longer of the two windows.
ASSUME CleanupAssumption ==
  CleanupWindow \in Nat /\ \A k \in Keys : Window[k] =< CleanupWindow
ASSUME BoundsAssumption == MaxTime \in Nat /\ MaxCount \in Nat

VARIABLES now, requests, accepted, refused, count

vars == <<now, requests, accepted, refused, count>>

After(k, cutoff) == {x \in requests[k] : x[2] > cutoff}
Recent(k) == After(k, now - Window[k])

Init == /\ now = 0
        /\ requests = [k \in Keys |-> {}]
        /\ accepted = [k \in Keys |-> {}]
        /\ refused = [k \in Keys |-> 0]
        /\ count = 0

Tick == /\ now < MaxTime
        /\ now' = now + 1
        /\ UNCHANGED <<requests, accepted, refused, count>>

\* Mutant of Allow: the limit is compared after the request was added.
AllowOneMore(k) ==
  /\ count < MaxCount
  /\ Cardinality(Recent(k)) =< Limit[k]
  /\ requests' = [requests EXCEPT ![k] = Recent(k) \cup {<<count, now>>}]
  /\ accepted' = [accepted EXCEPT ![k] = @ \cup {<<count, now>>}]
  /\ count' = count + 1
  /\ UNCHANGED <<now, refused>>

\* Mutant of Allow: the cutoff is recorded instead of the time.
AllowCutoff(k) ==
  /\ count < MaxCount
  /\ Cardinality(Recent(k)) < Limit[k]
  /\ requests' = [requests EXCEPT ![k] = Recent(k) \cup {<<count, now - Window[k]>>}]
  /\ accepted' = [accepted EXCEPT ![k] = @ \cup {<<count, now>>}]
  /\ count' = count + 1
  /\ UNCHANGED <<now, refused>>

Allow(k) ==
  /\ count < MaxCount
  /\ Cardinality(Recent(k)) < Limit[k]
  /\ requests' = [requests EXCEPT ![k] = Recent(k) \cup {<<count, now>>}]
  /\ accepted' = [accepted EXCEPT ![k] = @ \cup {<<count, now>>}]
  /\ count' = count + 1
  /\ UNCHANGED <<now, refused>>

\* Allow returns false: the old times are dropped all the same.
Deny(k) ==
  /\ Cardinality(Recent(k)) >= Limit[k]
  /\ refused[k] < MaxCount
  /\ requests' = [requests EXCEPT ![k] = Recent(k)]
  /\ refused' = [refused EXCEPT ![k] = @ + 1]
  /\ UNCHANGED <<now, accepted, count>>

\* Mutant of Cleanup: the sweep uses the shortest window.
CleanupShort ==
  LET short == CHOOSE w \in {Window[k] : k \in Keys} : \A k \in Keys : w =< Window[k]
  IN  /\ requests' = [k \in Keys |-> After(k, now - short)]
      /\ UNCHANGED <<now, accepted, refused, count>>

Cleanup ==
  /\ requests' = [k \in Keys |-> After(k, now - CleanupWindow)]
  /\ UNCHANGED <<now, accepted, refused, count>>

Next == Tick \/ Cleanup \/ \E k \in Keys : Allow(k) \/ Deny(k)

Spec == Init /\ [][Next]_vars

-----------------------------------------------------------------------------
(* Properties. *)

\* The types: the map holds a set of requests' times for every key, the answers
\* of the limiter one set and one number per key.
TypeOK ==
  /\ now \in Nat
  /\ count \in Nat
  /\ requests \in [Keys -> SUBSET (Nat \X Nat)]
  /\ accepted \in [Keys -> SUBSET (Nat \X Nat)]
  /\ refused \in [Keys -> Nat]

\* The times kept for a key are of requests that passed, and all those of its
\* own window are kept: neither the other limit's filter nor Cleanup, whose
\* window is not the key's, drops one too early.
KeepsTheWindow ==
  \A k \in Keys :
    /\ requests[k] \subseteq accepted[k]
    /\ \A x \in accepted[k] : x[2] > now - Window[k] => x \in requests[k]

\* What the middleware sees of the limiter: the clock and the answers.
Promise == INSTANCE SlidingWindow WITH
             Keys <- Keys, Limit <- Limit, Window <- Window,
             now <- now, accepted <- accepted, refused <- refused, count <- count

\* Whatever the sweeps forget, every request is answered as if nothing had been
\* forgotten, and so no window ever holds more than the limit.
ImplementsSlidingWindow == Promise!Spec
NeverTooMany == Promise!NeverTooMany
=============================================================================
