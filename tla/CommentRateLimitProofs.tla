----------------------- MODULE CommentRateLimitProofs -----------------------
(***************************************************************************)
(* Proofs about CommentRateLimit for any set of requests, finite or not,    *)
(* any limit and any number of faults.  LimitInv is inductive: ArmingStep   *)
(* and CountedStep each take one of its conjuncts through a step.           *)
(***************************************************************************)
EXTENDS CommentRateLimit, FiniteSetTheorems, TLAPS

\* A finite set grows by at most one element at a time.
LEMMA OneMoreAtMost ==
    ASSUME NEW S, NEW x, IsFiniteSet(S)
    PROVE  /\ Cardinality(S) \in Nat
           /\ IsFiniteSet(S \cup {x})
           /\ Cardinality(S \cup {x}) \in Nat
           /\ Cardinality(S \cup {x}) <= Cardinality(S) + 1
<1>1. Cardinality(S) \in Nat /\ IsFiniteSet(S \cup {x})
  BY FS_CardinalityType, FS_AddElement
<1>2. Cardinality(S \cup {x}) \in {Cardinality(S), Cardinality(S) + 1}
  BY FS_AddElement
<1> QED
  BY <1>1, <1>2

\* Before the first request there is nothing to count.
LEMMA LimitInit == Init => LimitInv
<1> SUFFICES ASSUME Init PROVE LimitInv
  OBVIOUS
<1>1. TypeOK
  <2>1. armed \in BOOLEAN
    BY Zenon DEF Init
  <2>2. count \in Nat /\ faults \in 0 .. MaxFaults
    BY LimitAssumption DEF Init
  <2> QED
    BY <2>1, <2>2 DEF Init, TypeOK
<1>2. Arming
  BY DEF Init, Arming
<1>3. IsFiniteSet(admitted) /\ Cardinality(admitted) = 0
  BY FS_EmptySet DEF Init
<1>4. Counted
  BY <1>3, LimitAssumption DEF Init, Counted
<1> QED
  BY <1>1, <1>2, <1>4 DEF LimitInv

\* Every action keeps every variable in its type.
LEMMA TypeStep == ASSUME LimitInv, Next PROVE TypeOK'
<1> USE LimitAssumption DEF LimitInv, TypeOK
<1>1. ASSUME NEW r \in Requests, Incr(r)
     PROVE  TypeOK'
  BY <1>1 DEF Incr, Incremented, First, Decide, OverLimit
<1>2. ASSUME NEW r \in Requests, PExpire(r)
     PROVE  TypeOK'
  BY <1>2 DEF PExpire, Decide, OverLimit
<1>3. ASSUME NEW r \in Requests, PExpireFails(r)
     PROVE  TypeOK'
  <2>1. armed' = armed \/ armed' = (count > 0)
    BY <1>3 DEF PExpireFails
  <2>2. (count > 0) \in BOOLEAN
    BY SMT
  <2>3. armed' \in BOOLEAN
    BY <2>1, <2>2, Zenon
  <2> QED
    BY <1>3, <2>3 DEF PExpireFails
<1>4. CASE Expire
  BY <1>4 DEF Expire
<1>5. CASE Crash
  BY <1>5 DEF Crash
<1> QED
  BY <1>1, <1>2, <1>3, <1>4, <1>5 DEF Next

\* Only the request that takes the counter from 0 to 1 goes on to arm the key,
\* and the counter does not return to 0 before it has.
LEMMA ArmingStep == ASSUME LimitInv, Next PROVE Arming'
<1> USE DEF LimitInv, TypeOK, Arming
<1>1. ASSUME NEW r \in Requests, Incr(r)
     PROVE  Arming'
  BY <1>1 DEF Incr, Incremented, First, Decide, OverLimit
<1>2. ASSUME NEW r \in Requests, PExpire(r)
     PROVE  Arming'
  BY <1>2 DEF PExpire, Decide, OverLimit
<1>3. ASSUME NEW r \in Requests, PExpireFails(r)
     PROVE  Arming'
  BY <1>3 DEF PExpireFails
<1>4. CASE Expire
  BY <1>4 DEF Expire
<1>5. CASE Crash
  BY <1>5 DEF Crash
<1> QED
  BY <1>1, <1>2, <1>3, <1>4, <1>5 DEF Next

\* A request is let through on the answer of its own INCR, which is more than
\* the number let through before it.
LEMMA CountedStep == ASSUME LimitInv, Next PROVE Counted'
<1> USE LimitAssumption DEF LimitInv, TypeOK
<1>1. ASSUME NEW r \in Requests, Incr(r)
     PROVE  Counted'
  <2>1. CASE First(count + 1)
    <3>1. count = 0 /\ Cardinality(admitted) = 0
      BY <2>1, FS_CardinalityType DEF First, Counted
    <3>2. admitted' = admitted /\ count' = 1
      BY <1>1, <3>1 DEF Incr, Incremented, First
    <3> QED
      BY <3>1, <3>2 DEF Counted
  <2>2. CASE ~First(count + 1)
    <3>1. (\E s \in Requests : at'[s] = "expire") =>
              \E s \in Requests : at[s] = "expire"
      BY <1>1, <2>2 DEF Incr, Incremented, Decide, OverLimit
    <3>2. CASE count + 1 > Limit
      <4>1. admitted' = admitted /\ count' = count + 1
        BY <1>1, <2>2, <3>2 DEF Incr, Incremented, Decide, OverLimit
      <4>2. Cardinality(admitted) \in Nat
        BY FS_CardinalityType DEF Counted
      <4> QED
        BY <3>1, <4>1, <4>2 DEF Counted
    <3>3. CASE ~(count + 1 > Limit)
      <4>1. admitted' = admitted \cup {r} /\ count' = count + 1
        BY <1>1, <2>2, <3>3 DEF Incr, Incremented, Decide, OverLimit
      <4>2. /\ Cardinality(admitted) \in Nat
            /\ IsFiniteSet(admitted')
            /\ Cardinality(admitted') \in Nat
            /\ Cardinality(admitted') <= Cardinality(admitted) + 1
        BY <4>1, OneMoreAtMost DEF Counted
      <4> QED
        BY <3>1, <3>3, <4>1, <4>2 DEF Counted
    <3> QED
      BY <3>2, <3>3
  <2> QED
    BY <2>1, <2>2
<1>2. ASSUME NEW r \in Requests, PExpire(r)
     PROVE  Counted'
  <2>1. \A s \in Requests : at'[s] # "expire"
    BY <1>2 DEF PExpire, Decide, OverLimit, Arming
  <2>2. got[r] = 1 /\ count' = count /\ at[r] = "expire"
    BY <1>2 DEF PExpire, Arming
  <2>3. CASE Limit = 0
    BY <1>2, <2>1, <2>2, <2>3 DEF PExpire, Decide, OverLimit, Counted
  <2>4. CASE Limit > 0
    <3>1. admitted' = admitted \cup {r}
      BY <1>2, <2>2, <2>4 DEF PExpire, Decide, OverLimit
    <3>2. /\ Cardinality(admitted) \in Nat
          /\ IsFiniteSet(admitted')
          /\ Cardinality(admitted') \in Nat
          /\ Cardinality(admitted') <= Cardinality(admitted) + 1
      BY <3>1, OneMoreAtMost DEF Counted
    <3> QED
      BY <2>1, <2>2, <2>4, <3>1, <3>2 DEF Counted
  <2> QED
    BY <2>3, <2>4
<1>3. ASSUME NEW r \in Requests, PExpireFails(r)
     PROVE  Counted'
  BY <1>3 DEF PExpireFails, Counted
<1>4. CASE Expire
  BY <1>4, FS_EmptySet DEF Expire, Arming, Counted
<1>5. CASE Crash
  BY <1>5 DEF Crash, Counted
<1> QED
  BY <1>1, <1>2, <1>3, <1>4, <1>5 DEF Next

-----------------------------------------------------------------------------
\* Every reachable state of the rate limit satisfies the inductive invariant.
THEOREM LimitInductive == Spec => []LimitInv
<1>1. LimitInv /\ [Next]_vars => LimitInv'
  <2>1. CASE UNCHANGED vars
    BY <2>1 DEF vars, LimitInv, TypeOK, Arming, Counted
  <2> QED
    BY <2>1, TypeStep, ArmingStep, CountedStep DEF LimitInv
<1> QED
  BY LimitInit, <1>1, PTL DEF Spec

\* Every variable of the rate limit keeps its type.
THEOREM LimitTypeCorrect == Spec => []TypeOK
<1>1. LimitInv => TypeOK
  BY DEF LimitInv
<1> QED
  BY LimitInductive, <1>1, PTL

\* No window lets more than Limit comments through, whatever the order of the
\* Redis calls of overlapping requests, their failures and the crashes.
THEOREM WindowLimited == Spec => []WindowLimit
<1>1. LimitInv => WindowLimit
  BY DEF LimitInv, Counted, WindowLimit
<1> QED
  BY LimitInductive, <1>1, PTL
=============================================================================
