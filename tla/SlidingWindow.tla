---------------------------- MODULE SlidingWindow ----------------------------
(* What the rate limiter promises: for each key (a client, or a client's     *)
(* logins) no more than Limit[k] requests pass in any period of Window[k],   *)
(* and a request is refused only when that many have passed in the last one. *)
(* The decision is taken from everything that ever passed: nothing here is   *)
(* forgotten and nothing is cleaned up.                                      *)
EXTENDS Integers, FiniteSets

CONSTANTS Keys, Limit, Window

VARIABLES now,       \* the clock
          accepted,  \* per key, the requests that passed: <<number, time>>
          refused,   \* per key, how many were refused
          count      \* how many requests have passed

vars == <<now, accepted, refused, count>>

\* The requests of k that passed in the period of Window[k] that ends at t.
Within(k, t) == {x \in accepted[k] : t - Window[k] < x[2] /\ x[2] =< t}

Init == /\ now = 0
        /\ accepted = [k \in Keys |-> {}]
        /\ refused = [k \in Keys |-> 0]
        /\ count = 0

Tick == /\ now' = now + 1
        /\ UNCHANGED <<accepted, refused, count>>

\* The middleware calls the next handler.
Accept(k) == /\ Cardinality(Within(k, now)) < Limit[k]
             /\ accepted' = [accepted EXCEPT ![k] = @ \cup {<<count, now>>}]
             /\ count' = count + 1
             /\ UNCHANGED <<now, refused>>

\* The middleware answers 429.
Refuse(k) == /\ Cardinality(Within(k, now)) >= Limit[k]
             /\ refused' = [refused EXCEPT ![k] = @ + 1]
             /\ UNCHANGED <<now, accepted, count>>

Next == Tick \/ \E k \in Keys : Accept(k) \/ Refuse(k)

Spec == Init /\ [][Next]_vars

\* No period of Window[k], past or current, holds more than Limit[k] requests
\* of k ("max login attempts per window", server.go).
NeverTooMany ==
  \A k \in Keys : \A t \in 0 .. now : Cardinality(Within(k, t)) =< Limit[k]
=============================================================================
