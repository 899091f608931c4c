-------------------------- MODULE RateLimiterProofs --------------------------
(* For any keys, limits and windows: RateLimiter keeps what its windows need *)
(* and therefore answers as SlidingWindow does.                              *)
EXTENDS RateLimiter, FiniteSetTheorems, TLAPS

LimiterInv == TypeOK /\ KeepsTheWindow

LEMMA LimiterInit == Init => LimiterInv
  BY DEF Init, LimiterInv, TypeOK, KeepsTheWindow

\* What Allow counts is what passed in the key's last window.
LEMMA RecentIsWithin ==
  ASSUME LimiterInv, NEW k \in Keys,
         \A x \in accepted[k] : x[2] =< now
  PROVE  Recent(k) = Promise!Within(k, now)
  BY KeysAssumption DEF LimiterInv, KeepsTheWindow, TypeOK, Recent, After, Promise!Within

\* No request passed later than now.
NoFuture == \A k \in Keys : \A x \in accepted[k] : x[2] =< now

LEMMA LimiterNext ==
  ASSUME LimiterInv, NoFuture, [Next]_vars
  PROVE  LimiterInv' /\ NoFuture'
<1> USE DEF LimiterInv, TypeOK, KeepsTheWindow, NoFuture
<1>1. CASE Tick
  BY <1>1, KeysAssumption DEF Tick
<1>2. CASE Cleanup
  <2>1. requests' = [k \in Keys |-> After(k, now - CleanupWindow)]
        /\ UNCHANGED <<now, accepted, refused, count>>
    BY <1>2 DEF Cleanup
  <2>2. TypeOK'
    BY <2>1 DEF After
  <2>3. ASSUME NEW k \in Keys, NEW x \in accepted[k], x[2] > now - Window[k]
        PROVE  x \in requests'[k]
    <3>1. x \in requests[k] /\ x[2] \in Nat /\ Window[k] \in Nat
      BY <2>3, KeysAssumption
    <3>2. x[2] > now - CleanupWindow
      BY <2>3, <3>1, CleanupAssumption
    <3> QED
      BY <2>1, <3>1, <3>2 DEF After
  <2> QED
    BY <2>1, <2>2, <2>3 DEF After
<1>3. ASSUME NEW k \in Keys, Allow(k) PROVE LimiterInv' /\ NoFuture'
  <2>1. /\ requests' = [requests EXCEPT ![k] = Recent(k) \cup {<<count, now>>}]
        /\ accepted' = [accepted EXCEPT ![k] = @ \cup {<<count, now>>}]
        /\ count' = count + 1 /\ UNCHANGED <<now, refused>>
    BY <1>3 DEF Allow
  <2>2. Recent(k) \subseteq requests[k]
    BY DEF Recent, After
  <2>3. TypeOK'
    BY <2>1, <2>2
  <2>4. KeepsTheWindow'
    BY <2>1, <2>2, KeysAssumption DEF Recent, After
  <2> QED
    BY <2>1, <2>3, <2>4
<1>4. ASSUME NEW k \in Keys, Deny(k) PROVE LimiterInv' /\ NoFuture'
  <2>1. requests' = [requests EXCEPT ![k] = Recent(k)] /\ refused' = [refused EXCEPT ![k] = @ + 1]
        /\ UNCHANGED <<now, accepted, count>>
    BY <1>4 DEF Deny
  <2>2. TypeOK'
    BY <2>1 DEF Recent, After
  <2>3. KeepsTheWindow'
    BY <2>1, KeysAssumption DEF Recent, After
  <2> QED
    BY <2>1, <2>2, <2>3
<1>5. CASE UNCHANGED vars
  BY <1>5 DEF vars
<1> QED
  BY <1>1, <1>2, <1>3, <1>4, <1>5 DEF Next

\* The map, the answers and the clock have their types for any keys, limits and
\* windows.
THEOREM LimiterTypes == Spec => []TypeOK
<1>1. Init => LimiterInv /\ NoFuture
  BY LimiterInit DEF Init, NoFuture
<1>2. LimiterInv /\ NoFuture /\ [Next]_vars => (LimiterInv /\ NoFuture)'
  BY LimiterNext
<1>3. LimiterInv => TypeOK
  BY DEF LimiterInv
<1> QED
  BY <1>1, <1>2, <1>3, PTL DEF Spec

\* No sweep drops the time of a request that still counts, whatever the keys'
\* limits and windows, as long as Cleanup's window is the longest: the two
\* limits can share one map and one sweep.
THEOREM WindowKept == Spec => []KeepsTheWindow
<1>1. Init => LimiterInv /\ NoFuture
  BY LimiterInit DEF Init, NoFuture
<1>2. LimiterInv /\ NoFuture /\ [Next]_vars => (LimiterInv /\ NoFuture)'
  BY LimiterNext
<1>3. LimiterInv => KeepsTheWindow
  BY DEF LimiterInv
<1> QED
  BY <1>1, <1>2, <1>3, PTL DEF Spec

\* The limiter answers every request as the sliding window over the whole
\* history does.
THEOREM LimiterImplementsWindow == Spec => ImplementsSlidingWindow
<1>1. Init => Promise!Init
  BY DEF Init, Promise!Init
<1>2. LimiterInv /\ NoFuture /\ [Next]_vars => [Promise!Next]_(Promise!vars)
  <2> SUFFICES ASSUME LimiterInv, NoFuture, [Next]_vars PROVE [Promise!Next]_(Promise!vars)
    OBVIOUS
  <2>1. CASE Tick
    BY <2>1 DEF Tick, Promise!Tick, Promise!Next
  <2>2. CASE Cleanup \/ UNCHANGED vars
    BY <2>2 DEF Cleanup, vars, Promise!vars
  <2>3. ASSUME NEW k \in Keys
        PROVE  Promise!Cardinality(Promise!Within(k, now)) = Cardinality(Recent(k))
    <3>1. Recent(k) = Promise!Within(k, now)
      BY RecentIsWithin DEF NoFuture
    <3> QED
      BY <3>1 DEF Cardinality, Promise!Cardinality
  <2>4. ASSUME NEW k \in Keys, Allow(k) PROVE Promise!Accept(k)
    BY <2>3, <2>4 DEF Allow, Promise!Accept
  <2>5. ASSUME NEW k \in Keys, Deny(k) PROVE Promise!Refuse(k)
    BY <2>3, <2>5 DEF Deny, Promise!Refuse
  <2> QED
    BY <2>1, <2>2, <2>4, <2>5 DEF Next, Promise!Next
<1>3. Init => LimiterInv /\ NoFuture
  BY LimiterInit DEF Init, NoFuture
<1>4. LimiterInv /\ NoFuture /\ [Next]_vars => (LimiterInv /\ NoFuture)'
  BY LimiterNext
<1> QED
  BY <1>1, <1>2, <1>3, <1>4, PTL DEF Spec, ImplementsSlidingWindow, Promise!Spec
-----------------------------------------------------------------------------
(* The bound: at most one request passes per step, and only when the period  *)
(* that ends now has room; a later period holds no more of the old requests. *)

LEMMA SameCardinality == \A S : Promise!Cardinality(S) = Cardinality(S)
  BY DEF Cardinality, Promise!Cardinality

Bounded(k) ==
  /\ IsFiniteSet(accepted[k])
  /\ \A t \in 0 .. now : Cardinality(Promise!Within(k, t)) =< Limit[k]

LEMMA BoundedNext ==
  ASSUME LimiterInv, NoFuture, NEW k \in Keys, Bounded(k), [Next]_vars
  PROVE  Bounded(k)'
<1> USE DEF LimiterInv, TypeOK
<1>0. /\ now \in Nat /\ Limit[k] \in Nat /\ Window[k] \in Nat \ {0} /\ accepted[k] \in SUBSET (Nat \X Nat)
      /\ IsFiniteSet(accepted[k]) /\ \A x \in accepted[k] : x[2] =< now
  BY KeysAssumption DEF NoFuture, Bounded
<1>1. \A t : IsFiniteSet(Promise!Within(k, t))
  BY <1>0, FS_Subset DEF Promise!Within
<1>2. CASE accepted'[k] = accepted[k] /\ now' = now
  <2>1. \A t : Promise!Within(k, t)' = Promise!Within(k, t)
    BY <1>2 DEF Promise!Within
  <2> QED
    BY <1>2, <2>1 DEF Bounded
<1>3. CASE Tick
  <2>1. accepted' = accepted /\ now' = now + 1
    BY <1>3 DEF Tick
  <2>2. \A t : Promise!Within(k, t)' = Promise!Within(k, t)
    BY <2>1 DEF Promise!Within
  <2>3. Promise!Within(k, now + 1) \subseteq Promise!Within(k, now)
    <3>1. \A x \in accepted[k] : x[2] \in Nat
      BY <1>0
    <3> DEFINE next == now + 1
    <3>2. \A x \in accepted[k] : next - Window[k] < x[2] => now - Window[k] < x[2] /\ x[2] =< now
      BY <1>0, <3>1
    <3> HIDE DEF next
    <3>3. \A x \in Promise!Within(k, next) : x \in accepted[k] /\ next - Window[k] < x[2]
      BY DEF Promise!Within
    <3>4. \A x \in Promise!Within(k, next) : x \in Promise!Within(k, now)
      BY <3>2, <3>3 DEF Promise!Within
    <3> QED
      BY <3>4 DEF next
  <2>4. Cardinality(Promise!Within(k, now + 1)) =< Limit[k]
    <3>1. Cardinality(Promise!Within(k, now + 1)) =< Cardinality(Promise!Within(k, now))
      BY <1>1, <2>3, FS_Subset
    <3>2. Cardinality(Promise!Within(k, now)) =< Limit[k]
      BY <1>0 DEF Bounded
    <3>3. Cardinality(Promise!Within(k, now + 1)) \in Nat /\ Cardinality(Promise!Within(k, now)) \in Nat
      BY <1>1, FS_CardinalityType
    <3> QED
      BY <1>0, <3>1, <3>2, <3>3
  <2>5. \A t \in 0 .. now' : t \in 0 .. now \/ t = now + 1
    BY <1>0, <2>1
  <2> QED
    BY <1>0, <2>1, <2>2, <2>4, <2>5 DEF Bounded
<1>4. CASE Allow(k)
  <2> DEFINE new == <<count, now>>
  <2>1. accepted'[k] = accepted[k] \cup {new} /\ now' = now /\ Cardinality(Recent(k)) < Limit[k]
    BY <1>4 DEF Allow
  <2>2. \A t \in 0 .. now : t # now => Promise!Within(k, t)' = Promise!Within(k, t)
    BY <1>0, <2>1 DEF Promise!Within
  <2>3. Promise!Within(k, now)' \subseteq Promise!Within(k, now) \cup {new}
    BY <2>1 DEF Promise!Within
  <2>4. Cardinality(Promise!Within(k, now)) < Limit[k]
    BY <1>0, <2>1, RecentIsWithin
  <2>5. Cardinality(Promise!Within(k, now) \cup {new}) =< Limit[k]
    <3>1. Cardinality(Promise!Within(k, now)) \in Nat
      BY <1>1, FS_CardinalityType
    <3>2. Cardinality(Promise!Within(k, now) \cup {new}) =< Cardinality(Promise!Within(k, now)) + 1
      <4> DEFINE old == Promise!Within(k, now)
      <4>1. IsFiniteSet(old)
        BY <1>1
      <4>2. Cardinality(old) \in Nat
        BY <3>1
      <4> HIDE DEF old, new
      <4>3. Cardinality(old \cup {new}) = IF new \in old THEN Cardinality(old) ELSE Cardinality(old) + 1
        BY <4>1, FS_AddElement
      <4>4. Cardinality(old \cup {new}) =< Cardinality(old) + 1
        BY <4>2, <4>3
      <4> QED
        BY <4>4 DEF old
    <3>3. Cardinality(Promise!Within(k, now) \cup {new}) \in Nat
      BY <1>1, FS_AddElement, FS_CardinalityType
    <3> QED
      BY <1>0, <2>4, <3>1, <3>2, <3>3
  <2>6. Cardinality(Promise!Within(k, now)') =< Limit[k]
    <3>1. IsFiniteSet(Promise!Within(k, now) \cup {new})
      BY <1>1, FS_AddElement
    <3>2. /\ Cardinality(Promise!Within(k, now)') =< Cardinality(Promise!Within(k, now) \cup {new})
          /\ IsFiniteSet(Promise!Within(k, now)')
      BY <2>3, <3>1, FS_Subset
    <3>3. /\ Cardinality(Promise!Within(k, now)') \in Nat
          /\ Cardinality(Promise!Within(k, now) \cup {new}) \in Nat
      BY <3>1, <3>2, FS_CardinalityType
    <3> QED
      BY <1>0, <2>5, <3>2, <3>3
  <2>7. IsFiniteSet(accepted'[k])
    <3> HIDE DEF new
    <3>1. IsFiniteSet(accepted[k] \cup {new})
      BY <1>0, FS_AddElement
    <3> QED
      BY <2>1, <3>1
  <2> QED
    BY <1>0, <2>1, <2>2, <2>6, <2>7 DEF Bounded
<1>5. ASSUME NEW j \in Keys, Allow(j), j # k PROVE accepted'[k] = accepted[k] /\ now' = now
  BY <1>5 DEF Allow
<1>6. CASE Cleanup \/ (\E j \in Keys : Deny(j)) \/ UNCHANGED vars
  BY <1>2, <1>6 DEF Cleanup, Deny, vars
<1> QED
  BY <1>2, <1>3, <1>4, <1>5, <1>6 DEF Next

\* In no period of a key's window, wherever it begins, do more than the limit's
\* requests pass.
THEOREM NeverOverLimit == Spec => []NeverTooMany
<1> DEFINE AllBounded == \A k \in Keys : Bounded(k)
<1>1. Init => LimiterInv /\ NoFuture /\ AllBounded
  <2> SUFFICES ASSUME Init, NEW k \in Keys PROVE Bounded(k)
    BY LimiterInit DEF Init, NoFuture
  <2>1. accepted[k] = {} /\ \A t : Promise!Within(k, t) = {}
    BY DEF Init, Promise!Within
  <2>2. Limit[k] \in Nat
    BY KeysAssumption
  <2> QED
    BY <2>1, <2>2, FS_EmptySet DEF Bounded
<1>2. LimiterInv /\ NoFuture /\ AllBounded /\ [Next]_vars => (LimiterInv /\ NoFuture /\ AllBounded)'
  BY LimiterNext, BoundedNext
<1>3. AllBounded => NeverTooMany
  BY SameCardinality DEF Bounded, NeverTooMany, Promise!NeverTooMany
<1> QED
  BY <1>1, <1>2, <1>3, PTL DEF Spec
=============================================================================
