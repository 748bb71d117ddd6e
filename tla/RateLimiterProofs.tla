------------------------- MODULE RateLimiterProofs -------------------------
(***************************************************************************)
(* Proofs about RateLimiter, for any number of requests, callers and       *)
(* replicas and any settings.                                              *)
(*                                                                         *)
(* A key lives KeyLife from its last charge on, so charges of one key less *)
(* than KeyLife apart are on one life of its counter and get different     *)
(* replies; and no life leaves a number out.  So the requests admitted in  *)
(* a stretch of KeyLife inject into 1..MaxRequests, a window's charges     *)
(* fall into Lives such stretches, and a request that is refused was       *)
(* preceded by as many others as the budget has.                           *)
(***************************************************************************)
EXTENDS RateLimiter, FiniteSetTheorems, TLAPS

Charged(q) == count[q] # 0

\* How long a key lives after a charge.
KeyLife == WindowSeconds + KeySlack

\* A request that reached enforce: its window, and when its clock was read.
RequestInv(q) ==
    /\ outcome[q] \in {"new", "denied"} => ~Charged(q)
    /\ outcome[q] \notin {"new", "denied"} =>
          /\ FallsIn(reading[q], window[q])
          /\ sent[q] <= now
          /\ sent[q] <= reading[q] /\ reading[q] <= sent[q] + Spread
    /\ outcome[q] = "admitted" => ~Exceeds(count[q])
    /\ outcome[q] = "limited" => Exceeds(count[q])

\* A charge keeps its key alive, and is in the counter as long as it does so.
ChargeInv(q) ==
    Charged(q) =>
        /\ sent[q] <= charged[q] /\ charged[q] <= sent[q] + FlightTime /\ charged[q] <= now
        /\ charged[q] + KeyLife <= expires[BucketKey(q)]
        /\ now < charged[q] + KeyLife => count[q] <= counter[BucketKey(q)]

\* Replies of one life are different ...
Distinct ==
    \A p, q \in Request :
        /\ Charged(p) /\ Charged(q) /\ BucketKey(p) = BucketKey(q) /\ count[p] = count[q]
        /\ charged[p] <= charged[q] /\ charged[q] < charged[p] + KeyLife
        => p = q

\* ... none is left out ...
Replied(k, n) == \E q \in Request : Charged(q) /\ BucketKey(q) = k /\ count[q] = n

Dense ==
    /\ \A k \in Key : \A n \in 1..counter[k] : Replied(k, n)
    /\ \A q \in Request : \A n \in 1..count[q] : Replied(BucketKey(q), n)

\* ... and there are finitely many.
Finite == IsFiniteSet({ q \in Request : Charged(q) })

Inv ==
    /\ TypeOK
    /\ \A q \in Request : RequestInv(q) /\ ChargeInv(q)
    /\ Distinct
    /\ Dense
    /\ Finite

----------------------------------------------------------------------------
(* Every step *)

\* The initial states satisfy the invariant.
LEMMA InitInv == Init => Inv
  <1> SUFFICES ASSUME Init PROVE Inv
    OBVIOUS
  <1>1. \A q \in Request : ~Charged(q)
    BY DEF Init, Charged
  <1>2. Finite
    <2>1. { q \in Request : Charged(q) } = {}
      BY <1>1
    <2> QED
      BY <2>1, FS_EmptySet DEF Finite
  <1>3. TypeOK
    BY LimiterAssumption DEF Init, TypeOK, Outcome, WindowNo, Key
  <1>4. \A q \in Request : RequestInv(q) /\ ChargeInv(q)
    BY <1>1 DEF Init, RequestInv, ChargeInv
  <1>5. Distinct /\ Dense
    BY <1>1 DEF Init, Distinct, Dense
  <1> QED
    BY <1>2, <1>3, <1>4, <1>5 DEF Inv

\* A request's key is one of the keys.
LEMMA KeyType == ASSUME TypeOK, NEW q \in Request PROVE BucketKey(q) \in Key
  BY DEF TypeOK, BucketKey, Key

\* The value that INCR finds is a number.
LEMMA ValueType ==
    ASSUME TypeOK, NEW q \in Request
    PROVE  Value(BucketKey(q)) \in Nat /\ Value(BucketKey(q)) + 1 \in Nat \ {0}
  BY KeyType DEF TypeOK, Value

\* Every step keeps the types.
LEMMA TypeStep == Inv /\ [Next]_vars => TypeOK'
  <1> SUFFICES ASSUME Inv, [Next]_vars PROVE TypeOK'
    OBVIOUS
  <1> USE LimiterAssumption DEF TypeOK, Outcome
  <1>1. ASSUME NEW q \in Request, Deny(q) PROVE TypeOK'
    BY <1>1 DEF Inv, Deny, requestVars, chargeVars, redisVars
  <1>2. ASSUME NEW q \in Request, NEW s \in Subject, NEW r \in Replica, Enforce(q, s, r)
        PROVE  TypeOK'
    <2>1. now + Offset[r] \in Nat
      BY DEF Inv
    <2> QED
      BY <1>2, <2>1 DEF Inv, Enforce, chargeVars, redisVars
  <1>3. ASSUME NEW q \in Request, Charge(q) PROVE TypeOK'
    <2>1. BucketKey(q) \in Key /\ Value(BucketKey(q)) + 1 \in Nat \ {0}
      BY <1>3, KeyType, ValueType DEF Inv
    <2> QED
      BY <1>3, <2>1 DEF Inv, Charge, Expiry, requestVars
  <1>4. ASSUME NEW q \in Request, Answer(q) PROVE TypeOK'
    BY <1>4 DEF Inv, Answer, requestVars, chargeVars, redisVars
  <1>5. ASSUME NEW q \in Request, FailOpen(q) PROVE TypeOK'
    BY <1>5 DEF Inv, FailOpen, requestVars, chargeVars, redisVars
  <1>6. CASE Tick
    BY <1>6 DEF Inv, Tick, requestVars, chargeVars, redisVars
  <1>7. CASE UNCHANGED vars
    BY <1>7 DEF Inv, vars, requestVars, chargeVars, redisVars
  <1> QED
    BY <1>1, <1>2, <1>3, <1>4, <1>5, <1>6, <1>7 DEF Next

\* Steps that charge nothing keep what is said of charges.
LEMMA NoChargeStep ==
    ASSUME Inv, UNCHANGED <<chargeVars, redisVars>>, now' = now \/ now' = now + 1,
           \A q \in Request : Charged(q) => UNCHANGED <<subject[q], window[q], sent[q]>>
    PROVE  (\A q \in Request : ChargeInv(q))' /\ Distinct' /\ Dense' /\ Finite'
  <1>0. UNCHANGED <<count, charged, counter, expires>>
    BY DEF chargeVars, redisVars
  <1>1. \A q \in Request : Charged(q)' <=> Charged(q)
    BY <1>0 DEF Charged
  <1>2. \A q \in Request : Charged(q) => BucketKey(q)' = BucketKey(q)
    BY DEF BucketKey
  <1>3. \A k : \A n : Replied(k, n) => Replied(k, n)'
    BY <1>0, <1>1, <1>2 DEF Replied
  <1>4. Dense'
    <2>1. \A q \in Request : count[q] \in Nat
      BY DEF Inv, TypeOK
    <2>2. \A q \in Request : ~Charged(q) => 1..count[q] = {}
      BY <2>1 DEF Charged
    <2> QED
      BY <1>0, <1>2, <1>3, <2>2 DEF Inv, Dense
  <1>5. Finite'
    <2>1. { q \in Request : Charged(q) }' = { q \in Request : Charged(q) }
      BY <1>1
    <2> QED
      BY <2>1 DEF Inv, Finite
  <1>6. \A q \in Request : ChargeInv(q)'
    <2> SUFFICES ASSUME NEW q \in Request, Charged(q)' PROVE ChargeInv(q)'
      BY DEF ChargeInv
    <2>1. /\ now \in Nat /\ sent[q] \in Nat /\ charged[q] \in Nat /\ KeyLife \in Nat
          /\ Charged(q) /\ ChargeInv(q) /\ BucketKey(q)' = BucketKey(q) /\ sent'[q] = sent[q]
      BY <1>1, <1>2, LimiterAssumption DEF Inv, TypeOK, KeyLife
    <2> QED
      BY <1>0, <2>1 DEF ChargeInv
  <1> QED
    BY <1>0, <1>1, <1>2, <1>4, <1>5, <1>6 DEF Inv, Distinct

\* A step of one request leaves the others' readings alone.
LEMMA RequestStep ==
    ASSUME Inv, TypeOK', NEW q \in Request, RequestInv(q)', now' = now,
           \A p \in Request \ {q} :
               UNCHANGED <<outcome[p], reading[p], window[p], sent[p], count[p]>>
    PROVE  \A p \in Request : RequestInv(p)'
  BY DEF Inv, RequestInv, Charged, FallsIn, Exceeds

(***************************************************************************)
(* A charge is added with the next number, or with 1 when the key is gone: *)
(* then no earlier charge is less than KeyLife old.                        *)
(***************************************************************************)
LEMMA ChargeStep ==
    ASSUME Inv, TypeOK', NEW q \in Request, Charge(q)
    PROVE  (\A p \in Request : ChargeInv(p))' /\ Distinct' /\ Dense' /\ Finite'
  <1>k. PICK k \in Key : k = BucketKey(q)
    BY KeyType DEF Inv
  <1>n. PICK new \in Nat \ {0} : new = Value(k) + 1
    BY <1>k, ValueType DEF Inv
  <1>1. counter[k] \in Nat /\ expires[k] \in Nat
    BY DEF Inv, TypeOK
  <1>2. /\ counter' = [counter EXCEPT ![k] = new]
        /\ count' = [count EXCEPT ![q] = new]
        /\ charged' = [charged EXCEPT ![q] = now]
        /\ expires' = [expires EXCEPT ![k] = Expiry]
        /\ ~Charged(q)
    BY <1>k, <1>n DEF Charge, Charged
  <1>3. \A p \in Request : BucketKey(p)' = BucketKey(p) /\ sent'[p] = sent[p]
    BY DEF Charge, BucketKey, requestVars
  <1>4. /\ Charged(q)' /\ count'[q] = new /\ charged'[q] = now
        /\ \A p \in Request \ {q} : /\ count'[p] = count[p] /\ charged'[p] = charged[p]
                                    /\ Charged(p)' <=> Charged(p)
    BY <1>1, <1>2 DEF Inv, TypeOK, Charged
  <1>5. /\ counter'[k] = new /\ expires'[k] = Expiry
        /\ \A j \in Key \ {k} : counter'[j] = counter[j] /\ expires'[j] = expires[j]
    BY <1>1, <1>2 DEF Inv, TypeOK
  <1>6. Expiry = now + KeyLife /\ now \in Nat /\ now' = now /\ KeyLife \in Nat \ {0}
    BY LimiterAssumption DEF Inv, TypeOK, Expiry, Charge, KeyLife
  <1>7. \A p \in Request : /\ Charged(p) /\ BucketKey(p) = k /\ now < charged[p] + KeyLife
                          => count[p] < new
    <2> SUFFICES ASSUME NEW p \in Request,
                        Charged(p), BucketKey(p) = k, now < charged[p] + KeyLife
                 PROVE  count[p] < new
      OBVIOUS
    <2>1. charged[p] + KeyLife <= expires[k] /\ count[p] <= counter[k]
      BY DEF Inv, ChargeInv
    <2>2. charged[p] \in Nat /\ count[p] \in Nat
      BY DEF Inv, TypeOK
    <2>3. new = counter[k] + 1
      BY <1>n, <1>1, <1>6, <2>1, <2>2 DEF Value, Alive
    <2> QED
      BY <1>1, <2>1, <2>2, <2>3
  <1>8. \A p \in Request : ChargeInv(p)'
    <2> SUFFICES ASSUME NEW p \in Request, Charged(p)' PROVE ChargeInv(p)'
      BY DEF ChargeInv
    <2>1. /\ BucketKey(p) \in Key /\ sent[p] \in Nat /\ count[p] \in Nat /\ charged[p] \in Nat
          /\ counter[BucketKey(p)] \in Nat /\ FlightTime \in Nat
      BY KeyType, LimiterAssumption DEF Inv, TypeOK
    <2>2. CASE p = q
      <3>1. sent[q] <= now /\ now <= sent[q] + FlightTime
        BY DEF Inv, RequestInv, Charge
      <3> QED
        BY <1>1, <1>3, <1>4, <1>5, <1>6, <1>k, <2>1, <2>2, <3>1 DEF ChargeInv
    <2>3. CASE p # q
      <3>1. /\ ChargeInv(p) /\ Charged(p)
            /\ count'[p] = count[p] /\ charged'[p] = charged[p] /\ sent'[p] = sent[p]
        BY <1>3, <1>4, <2>3 DEF Inv
      <3>2. CASE BucketKey(p) = k
        BY <1>1, <1>3, <1>5, <1>6, <1>7, <2>1, <3>1, <3>2 DEF ChargeInv
      <3>3. CASE BucketKey(p) # k
        BY <1>3, <1>5, <1>6, <2>1, <3>1, <3>3 DEF ChargeInv
      <3> QED
        BY <3>2, <3>3
    <2> QED
      BY <2>2, <2>3
  <1>9. Distinct'
    <2> SUFFICES ASSUME NEW p \in Request, NEW r \in Request, Charged(p)', Charged(r)',
                        BucketKey(p) = BucketKey(r), count'[p] = count'[r],
                        charged'[p] <= charged'[r], charged'[r] < charged'[p] + KeyLife
                 PROVE  p = r
      BY <1>3 DEF Distinct, KeyLife
    <2>1. CASE p # q /\ r # q
      BY <1>4, <2>1 DEF Inv, Distinct
    <2>2. CASE p # q /\ r = q
      <3>1. Charged(p) /\ BucketKey(p) = k /\ now < charged[p] + KeyLife /\ count[p] = new
        BY <1>k, <1>4, <2>2
      <3> QED
        BY <1>1, <1>7, <3>1
    <2>3. CASE p = q /\ r # q
      <3>1. /\ Charged(r) /\ BucketKey(r) = k /\ now <= charged[r] /\ count[r] = new
            /\ charged[r] \in Nat
        BY <1>k, <1>4, <2>3 DEF Inv, TypeOK
      <3> QED
        BY <1>1, <1>6, <1>7, <3>1
    <2> QED
      BY <2>1, <2>2, <2>3
  <1>10. Dense'
    <2>1. \A j : \A n : Replied(j, n) => Replied(j, n)'
      BY <1>2, <1>3, <1>4 DEF Replied
    <2>2. Replied(k, new)'
      BY <1>k, <1>3, <1>4 DEF Replied
    <2>3. ASSUME NEW n \in 1..new PROVE Replied(k, n)'
      <3>1. CASE n = new
        BY <2>2, <3>1
      <3>2. CASE n # new
        <4>1. n \in 1..counter[k]
          BY <1>n, <1>1, <3>2 DEF Value
        <4> QED
          BY <1>1, <2>1, <4>1 DEF Inv, Dense
      <3> QED
        BY <3>1, <3>2
    <2>4. \A j \in Key : \A n \in 1..counter'[j] : Replied(j, n)'
      BY <1>5, <2>1, <2>3 DEF Inv, Dense
    <2>5. ASSUME NEW p \in Request, NEW n \in 1..count'[p] PROVE Replied(BucketKey(p), n)'
      <3>1. PICK j : j = BucketKey(p) /\ j = BucketKey(p)'
        BY <1>3
      <3>2. CASE p = q
        BY <1>k, <1>4, <2>3, <3>1, <3>2
      <3>3. CASE p # q
        BY <1>4, <2>1, <3>1, <3>3 DEF Inv, Dense
      <3> QED
        BY <3>2, <3>3
    <2> QED
      BY <2>4, <2>5 DEF Dense
  <1>11. Finite'
    <2>1. { p \in Request : Charged(p) }' = { p \in Request : Charged(p) } \cup {q}
      BY <1>4
    <2> QED
      BY <2>1, FS_AddElement DEF Inv, Finite
  <1> QED
    BY <1>8, <1>9, <1>10, <1>11

\* Every step keeps the invariant.
LEMMA InvStep == Inv /\ [Next]_vars => Inv'
  <1> SUFFICES ASSUME Inv, [Next]_vars PROVE Inv'
    OBVIOUS
  <1>0. TypeOK /\ TypeOK'
    BY TypeStep DEF Inv
  <1> USE <1>0, LimiterAssumption
  <1>1. ASSUME NEW q \in Request, Deny(q) PROVE Inv'
    <2>1. RequestInv(q)'
      BY <1>1 DEF Inv, Deny, RequestInv, TypeOK, Charged, requestVars, chargeVars
    <2> QED
      BY <1>1, <2>1, RequestStep, NoChargeStep DEF Inv, Deny, TypeOK, requestVars, chargeVars
  <1>2. ASSUME NEW q \in Request, NEW s \in Subject, NEW r \in Replica, Enforce(q, s, r)
        PROVE  Inv'
    <2>1. ~Charged(q)
      BY <1>2 DEF Inv, RequestInv, Enforce
    <2>2. RequestInv(q)'
      <3>1. PICK w \in WindowNo :
              FallsIn(now + Offset[r], w) /\ window' = [window EXCEPT ![q] = w]
        BY <1>2 DEF Enforce
      <3>2. /\ outcome'[q] = "waiting" /\ reading'[q] = now + Offset[r] /\ window'[q] = w
            /\ sent'[q] = now /\ now' = now
        BY <1>2, <3>1 DEF Enforce, TypeOK
      <3>3. now \in Nat /\ Offset[r] \in 0..Spread
        BY DEF TypeOK
      <3> QED
        BY <3>1, <3>2, <3>3 DEF RequestInv, FallsIn
    <2>3. \A p \in Request \ {q} :
             UNCHANGED <<outcome[p], subject[p], reading[p], window[p], sent[p], count[p]>>
      BY <1>2 DEF Enforce, TypeOK, chargeVars
    <2> QED
      BY <1>2, <2>1, <2>2, <2>3, RequestStep, NoChargeStep DEF Inv, Enforce
  <1>3. ASSUME NEW q \in Request, Charge(q) PROVE Inv'
    <2>1. RequestInv(q)'
      BY <1>3 DEF Inv, Charge, RequestInv, TypeOK, Charged, FallsIn, requestVars
    <2>2. \A p \in Request \ {q} :
             UNCHANGED <<outcome[p], reading[p], window[p], sent[p], count[p]>>
      BY <1>3 DEF Charge, TypeOK, requestVars
    <2> QED
      BY <1>3, <2>1, <2>2, RequestStep, ChargeStep DEF Inv, Charge
  <1>4. ASSUME NEW q \in Request, Answer(q) PROVE Inv'
    <2>1. RequestInv(q)'
      BY <1>4 DEF Inv, Answer, RequestInv, TypeOK, Charged, FallsIn, Exceeds, requestVars, chargeVars
    <2> QED
      BY <1>4, <2>1, RequestStep, NoChargeStep DEF Inv, Answer, TypeOK, requestVars, chargeVars
  <1>5. ASSUME NEW q \in Request, FailOpen(q) PROVE Inv'
    <2>1. RequestInv(q)'
      BY <1>5 DEF Inv, FailOpen, RequestInv, TypeOK, Charged, FallsIn, requestVars, chargeVars
    <2> QED
      BY <1>5, <2>1, RequestStep, NoChargeStep DEF Inv, FailOpen, TypeOK, requestVars, chargeVars
  <1>6. CASE Tick
    <2>1. /\ now \in Nat /\ now' = now + 1
          /\ UNCHANGED <<outcome, requestVars, chargeVars, redisVars>>
      BY <1>6 DEF Tick, TypeOK
    <2>2. \A q \in Request : RequestInv(q)'
      BY <2>1 DEF Inv, RequestInv, TypeOK, Charged, FallsIn, Exceeds, requestVars, chargeVars
    <2> QED
      BY <2>1, <2>2, NoChargeStep DEF Inv, requestVars
  <1>7. CASE UNCHANGED vars
    <2>1. \A q \in Request : RequestInv(q)'
      BY <1>7 DEF Inv, RequestInv, Charged, FallsIn, Exceeds, vars, requestVars, chargeVars
    <2> QED
      BY <1>7, <2>1, NoChargeStep DEF Inv, vars, requestVars
  <1> QED
    BY <1>1, <1>2, <1>3, <1>4, <1>5, <1>6, <1>7 DEF Next

\* The invariant holds throughout.
LEMMA Invariance == Spec => []Inv
  BY InitInv, InvStep, PTL DEF Spec

----------------------------------------------------------------------------
(* Counting *)

\* The requests of a caller that a window admitted.
AdmittedIn(s, w) == { q \in Admitted(s) : window[q] = w }

(***************************************************************************)
(* Requests told apart by their replies and a number below n are at most n *)
(* budgets.                                                                *)
(***************************************************************************)
LEMMA Budgets ==
    ASSUME Inv, NEW s \in Subject, NEW A, A \subseteq Admitted(s),
           NEW n \in Nat, NEW life, life \in [A -> 0..(n - 1)],
           \A p, q \in A : life[p] = life[q] /\ count[p] = count[q] => p = q
    PROVE  IsFiniteSet(A) /\ Cardinality(A) \in Nat /\ Cardinality(A) <= MaxRequests * n
  <1> DEFINE f == [q \in A |-> <<life[q], count[q]>>]
             N == 0..(n - 1)
             M == 1..MaxRequests
  <1>1. \A q \in A : count[q] \in M
    BY LimiterAssumption DEF Admitted, Inv, TypeOK, RequestInv, Exceeds
  <1>2. f \in Injection(A, N \X M)
    <2>1. f \in [A -> N \X M]
      BY <1>1
    <2>2. \A p, q \in A : f[p] = f[q] => p = q
      OBVIOUS
    <2> QED
      BY <2>1, <2>2 DEF Injection, IsInjective
  <1>3. /\ IsFiniteSet(N) /\ Cardinality(N) = n
        /\ IsFiniteSet(M) /\ Cardinality(M) = MaxRequests
    BY FS_Interval, LimiterAssumption
  <1>4. IsFiniteSet(N \X M) /\ Cardinality(N \X M) = MaxRequests * n
    <2> HIDE DEF N, M
    <2>1. IsFiniteSet(N \X M) /\ Cardinality(N \X M) = Cardinality(N) * Cardinality(M)
      BY <1>3, FS_Product
    <2>2. n * MaxRequests = MaxRequests * n
      BY LimiterAssumption
    <2> QED
      BY <1>3, <2>1, <2>2
  <1>5. IsFiniteSet(A) /\ Cardinality(A) <= Cardinality(N \X M)
    <2> HIDE DEF f, N, M
    <2> QED
      BY <1>2, <1>4, FS_Injection
  <1> QED
    BY <1>4, <1>5, FS_CardinalityType

\* Charges of one key that are less than KeyLife apart got different replies.
LEMMA OneLife ==
    ASSUME Inv, NEW p \in Request, NEW q \in Request,
           Charged(p), Charged(q), BucketKey(p) = BucketKey(q), count[p] = count[q],
           charged[q] < charged[p] + KeyLife, charged[p] < charged[q] + KeyLife
    PROVE  p = q
  <1>1. charged[p] \in Nat /\ charged[q] \in Nat
    BY DEF Inv, TypeOK
  <1>2. CASE charged[p] <= charged[q]
    BY <1>2 DEF Inv, Distinct
  <1>3. CASE charged[q] <= charged[p]
    BY <1>3 DEF Inv, Distinct
  <1> QED
    BY <1>1, <1>2, <1>3

\* An admitted request was charged, to its window's key, with its reply.
LEMMA AdmittedCharged ==
    ASSUME Inv, NEW s \in Subject, NEW w \in WindowNo, NEW q \in AdmittedIn(s, w)
    PROVE  /\ q \in Request /\ Charged(q) /\ BucketKey(q) = <<s, w>>
           /\ charged[q] \in Nat /\ RequestInv(q) /\ ChargeInv(q)
  BY DEF AdmittedIn, Admitted, Inv, TypeOK, Charged, BucketKey

\* The charges of a window's requests, counted from the first it can have.
LEMMA ChargeSpan ==
    ASSUME Inv, NEW s \in Subject, NEW w \in WindowNo, NEW q \in AdmittedIn(s, w)
    PROVE  charged[q] - (w * WindowSeconds - Spread)
               \in 0..(WindowSeconds - 1 + Spread + FlightTime)
  <1>1. /\ charged[q] \in Nat /\ reading[q] \in Nat /\ sent[q] \in Nat
        /\ w * WindowSeconds \in Nat
        /\ WindowSeconds \in Nat /\ Spread \in Nat /\ FlightTime \in Nat
    BY LimiterAssumption DEF AdmittedIn, Admitted, Inv, TypeOK, WindowNo
  <1>2. /\ FallsIn(reading[q], w) /\ sent[q] <= reading[q] /\ reading[q] <= sent[q] + Spread
    BY AdmittedCharged DEF AdmittedIn, Admitted, RequestInv
  <1>3. sent[q] <= charged[q] /\ charged[q] <= sent[q] + FlightTime
    BY AdmittedCharged DEF ChargeInv
  <1> DEFINE b == w * WindowSeconds
  <1> HIDE DEF b
  <1>4. b \in Nat /\ b <= reading[q] /\ reading[q] < b + WindowSeconds
    BY <1>1, <1>2 DEF FallsIn, b
  <1> QED
    BY <1>1, <1>2, <1>3, <1>4 DEF b

\* Division into stretches of length l.
LEMMA Stretches ==
    ASSUME NEW l \in Nat \ {0}, NEW x \in Nat, NEW y \in Nat
    PROVE  /\ x <= y => x \div l <= y \div l
           /\ x \div l \in Nat
           /\ x \div l = y \div l => y < x + l /\ x < y + l
  <1>1. /\ x = l * (x \div l) + (x % l) /\ x % l \in 0..(l - 1) /\ x \div l \in Int
        /\ y = l * (y \div l) + (y % l) /\ y % l \in 0..(l - 1) /\ y \div l \in Int
    OBVIOUS
  <1> DEFINE i == x \div l
             j == y \div l
  <1>2. i \in Int /\ j \in Int /\ l * i \in Int /\ l * j \in Int
    BY <1>1
  <1>3. i \in Nat
    OBVIOUS
  <1>4. ASSUME x <= y, j < i PROVE FALSE
    <2>1. PICK d \in Nat : i = j + 1 + d
      <3>1. i - j - 1 \in Nat /\ i = j + 1 + (i - j - 1)
        BY <1>2, <1>4
      <3> QED
        BY <3>1
    <2> HIDE DEF i, j
    <2>2. l * i = l * j + l + l * d /\ l * d \in Nat
      BY <1>2, <2>1
    <2> QED
      BY <1>1, <1>2, <1>4, <2>2 DEF i, j
  <1>5. i = j => y < x + l /\ x < y + l
    <2> SUFFICES ASSUME i = j PROVE y < x + l /\ x < y + l
      OBVIOUS
    <2>1. l * i = l * j
      OBVIOUS
    <2> HIDE DEF i, j
    <2> QED
      BY <1>1, <1>2, <2>1 DEF i, j
  <1> QED
    BY <1>2, <1>3, <1>4, <1>5

\* A window admits at most a budget for each life of its counter.
LEMMA LivesBudget ==
    ASSUME Inv, NEW s \in Subject, NEW w \in WindowNo
    PROVE  /\ IsFiniteSet(AdmittedIn(s, w)) /\ Cardinality(AdmittedIn(s, w)) \in Nat
           /\ Cardinality(AdmittedIn(s, w)) <= MaxRequests * Lives
  <1> DEFINE A == AdmittedIn(s, w)
             since(q) == charged[q] - (w * WindowSeconds - Spread)
             span == WindowSeconds - 1 + Spread + FlightTime
             life == [q \in A |-> since(q) \div KeyLife]
  <1>1. KeyLife \in Nat \ {0} /\ span \in Nat
    BY LimiterAssumption DEF KeyLife
  <1>2. \A q \in A : since(q) \in 0..span
    BY ChargeSpan
  <1>3. Lives = 1 + span \div KeyLife /\ Lives \in Nat
    <2>1. span \div KeyLife \in Nat
      BY <1>1, Stretches
    <2> QED
      BY <2>1 DEF Lives, KeyLife
  <1>4. life \in [A -> 0..(Lives - 1)]
    <2> SUFFICES ASSUME NEW q \in A PROVE since(q) \div KeyLife \in 0..(Lives - 1)
      OBVIOUS
    <2> HIDE DEF since, span, A
    <2>1. since(q) \in Nat /\ since(q) <= span
      BY <1>1, <1>2
    <2>2. since(q) \div KeyLife \in Nat /\ since(q) \div KeyLife <= span \div KeyLife
      BY <1>1, <2>1, Stretches
    <2>3. span \div KeyLife \in Nat
      BY <1>1, Stretches
    <2> QED
      BY <1>3, <2>2, <2>3
  <1>5. \A p, q \in A : life[p] = life[q] /\ count[p] = count[q] => p = q
    <2> SUFFICES ASSUME NEW p \in A, NEW q \in A, life[p] = life[q], count[p] = count[q]
                 PROVE  p = q
      OBVIOUS
    <2>1. since(p) \div KeyLife = since(q) \div KeyLife
      OBVIOUS
    <2>2. since(q) < since(p) + KeyLife /\ since(p) < since(q) + KeyLife
      <3> HIDE DEF since, A
      <3>1. since(p) \in Nat /\ since(q) \in Nat
        BY <1>1, <1>2
      <3> QED
        BY <1>1, <2>1, <3>1, Stretches
    <2>3. charged[p] \in Nat /\ charged[q] \in Nat
      BY AdmittedCharged
    <2>4. w * WindowSeconds - Spread \in Int
      BY LimiterAssumption DEF WindowNo
    <2>5. charged[q] < charged[p] + KeyLife /\ charged[p] < charged[q] + KeyLife
      <3> DEFINE b == w * WindowSeconds - Spread
      <3> HIDE DEF b
      <3>1. b \in Int /\ since(p) = charged[p] - b /\ since(q) = charged[q] - b
        BY <2>4 DEF b
      <3> HIDE DEF since
      <3> QED
        BY <1>1, <2>2, <2>3, <3>1
    <2> QED
      BY <2>5, AdmittedCharged, OneLife
  <1>6. A \subseteq Admitted(s)
    BY DEF AdmittedIn
  <1> HIDE DEF A, life
  <1>7. IsFiniteSet(A) /\ Cardinality(A) \in Nat /\ Cardinality(A) <= MaxRequests * Lives
    BY <1>3, <1>4, <1>5, <1>6, Budgets
  <1> QED
    BY <1>7 DEF A

\* A stretch of a window's length touches two windows at most.
LEMMA TwoWindows ==
    ASSUME NEW v \in Nat, NEW w \in Nat, NEW t \in Nat, NEW u \in Nat,
           FallsIn(t, v), FallsIn(u, w), u \in t..(t + WindowSeconds - 1)
    PROVE  w = v \/ w = v + 1
  <1>1. /\ v * WindowSeconds \in Int /\ w * WindowSeconds \in Int
        /\ WindowSeconds \in Int /\ WindowSeconds > 0
    BY LimiterAssumption
  <1>2. w < v => w * WindowSeconds + WindowSeconds <= v * WindowSeconds
    <2> SUFFICES ASSUME w < v PROVE (w + 1) * WindowSeconds <= v * WindowSeconds
      BY <1>1
    <2>1. PICK d \in Nat : v = (w + 1) + d
      <3>1. v - (w + 1) \in Nat /\ v = (w + 1) + (v - (w + 1))
        OBVIOUS
      <3> QED
        BY <3>1
    <2>2. d * WindowSeconds >= 0
      BY LimiterAssumption
    <2> QED
      BY <2>1, <2>2, LimiterAssumption
  <1>3. w > v + 1 => v * WindowSeconds + 2 * WindowSeconds <= w * WindowSeconds
    <2> SUFFICES ASSUME w > v + 1 PROVE (v + 2) * WindowSeconds <= w * WindowSeconds
      BY <1>1
    <2>1. PICK d \in Nat : w = (v + 2) + d
      <3>1. w - (v + 2) \in Nat /\ w = (v + 2) + (w - (v + 2))
        OBVIOUS
      <3> QED
        BY <3>1
    <2>2. d * WindowSeconds >= 0
      BY LimiterAssumption
    <2> QED
      BY <2>1, <2>2, LimiterAssumption
  <1> QED
    BY <1>1, <1>2, <1>3 DEF FallsIn

\* At most MaxRequests requests are admitted within KeyLife on a window's counter.
LEMMA InvBudget == Inv => BudgetHolds
  <1> SUFFICES ASSUME Inv, NEW s \in Subject, NEW w \in WindowNo, NEW t \in 0..MaxTime
               PROVE  Cardinality({ q \in Admitted(s) :
                          /\ window[q] = w
                          /\ charged[q] \in t..(t + WindowSeconds + KeySlack - 1) })
                         <= MaxRequests
    BY DEF BudgetHolds
  <1> DEFINE A == { q \in Admitted(s) :
                      /\ window[q] = w
                      /\ charged[q] \in t..(t + WindowSeconds + KeySlack - 1) }
             life == [q \in A |-> 0]
  <1>1. t + WindowSeconds + KeySlack - 1 = t + KeyLife - 1 /\ KeyLife \in Nat
    BY LimiterAssumption DEF KeyLife
  <1>2. \A q \in A : q \in AdmittedIn(s, w) /\ charged[q] \in t..(t + KeyLife - 1)
    BY <1>1 DEF AdmittedIn
  <1>3. life \in [A -> 0..(1 - 1)]
    OBVIOUS
  <1>4. \A p, q \in A : count[p] = count[q] => p = q
    <2> SUFFICES ASSUME NEW p \in A, NEW q \in A, count[p] = count[q] PROVE p = q
      OBVIOUS
    <2> HIDE DEF A
    <2>1. charged[q] < charged[p] + KeyLife /\ charged[p] < charged[q] + KeyLife
      BY <1>1, <1>2
    <2> QED
      BY <1>2, <2>1, AdmittedCharged, OneLife
  <1>5. A \subseteq Admitted(s)
    OBVIOUS
  <1> HIDE DEF A, life
  <1>6. Cardinality(A) <= MaxRequests * 1
    BY <1>3, <1>4, <1>5, Budgets
  <1>7. MaxRequests * 1 = MaxRequests
    BY LimiterAssumption
  <1> QED
    BY <1>6, <1>7 DEF A

\* At most a budget for each life of the counter.
LEMMA InvWindowBudget == Inv => WindowBudget
  BY LivesBudget DEF WindowBudget, AdmittedIn

\* A slack that covers the flights and the clocks leaves the counter one life.
LEMMA SingleLife ==
    ASSUME FlightTime + Spread <= KeySlack
    PROVE  Lives = 1
  <1> DEFINE x == WindowSeconds - 1 + Spread + FlightTime
  <1>1. x \in Nat /\ KeyLife \in Nat \ {0} /\ x < KeyLife
    BY LimiterAssumption DEF KeyLife
  <1> HIDE DEF x
  <1>2. x \div KeyLife = 0
    BY <1>1
  <1> QED
    BY <1>2 DEF Lives, KeyLife, x

\* At most two budgets in a stretch of a window's length.
LEMMA InvTwoBudgets == Inv /\ FlightTime + Spread <= KeySlack => TwoBudgets
  <1> SUFFICES ASSUME Inv, FlightTime + Spread <= KeySlack,
                      NEW s \in Subject, NEW first \in Admitted(s)
               PROVE  Cardinality({ q \in Admitted(s) :
                          reading[q] \in reading[first]..(reading[first] + WindowSeconds - 1) })
                         <= 2 * MaxRequests
    BY DEF TwoBudgets
  <1> DEFINE near == { q \in Admitted(s) :
                         reading[q] \in reading[first]..(reading[first] + WindowSeconds - 1) }
             v == window[first]
             A == AdmittedIn(s, v)
             B == IF v + 1 \in WindowNo THEN AdmittedIn(s, v + 1) ELSE {}
  <1>1. \A q \in Admitted(s) : /\ q \in Request /\ window[q] \in WindowNo
                               /\ window[q] \in Nat /\ reading[q] \in Nat
                               /\ FallsIn(reading[q], window[q])
    BY DEF Admitted, Inv, TypeOK, RequestInv, WindowNo
  <1>2. near \subseteq A \cup B
    <2> SUFFICES ASSUME NEW q \in near PROVE q \in A \cup B
      OBVIOUS
    <2>1. window[q] = v \/ window[q] = v + 1
      BY <1>1, TwoWindows
    <2> QED
      BY <1>1, <2>1 DEF AdmittedIn
  <1>3. /\ IsFiniteSet(A) /\ Cardinality(A) \in Nat /\ Cardinality(A) <= MaxRequests
        /\ IsFiniteSet(B) /\ Cardinality(B) \in Nat /\ Cardinality(B) <= MaxRequests
    <2>1. MaxRequests * Lives = MaxRequests
      BY SingleLife, LimiterAssumption
    <2> QED
      BY <1>1, <2>1, LivesBudget, FS_EmptySet, LimiterAssumption
  <1>4. IsFiniteSet(A \cup B) /\ Cardinality(A \cup B) \in Nat
        /\ Cardinality(A \cup B) <= 2 * MaxRequests
    <2> HIDE DEF A, B
    <2>1. IsFiniteSet(A \cap B) /\ Cardinality(A \cap B) \in Nat
      BY <1>3, FS_Subset, FS_CardinalityType
    <2>2. /\ IsFiniteSet(A \cup B)
          /\ Cardinality(A \cup B) = Cardinality(A) + Cardinality(B) - Cardinality(A \cap B)
      BY <1>3, FS_Union
    <2>3. Cardinality(A \cup B) \in Nat
      BY <2>2, FS_CardinalityType
    <2> QED
      BY <1>3, <2>1, <2>2, <2>3, LimiterAssumption
  <1>5. Cardinality(near) <= Cardinality(A \cup B) /\ Cardinality(near) \in Nat
    <2> HIDE DEF near, A, B
    <2> QED
      BY <1>2, <1>4, FS_Subset, FS_CardinalityType
  <1> QED
    BY <1>4, <1>5, LimiterAssumption

\* A refused request was preceded by a budget's worth of its caller's own.
LEMMA InvDeserved == Inv => LimitDeserved
  <1> SUFFICES ASSUME Inv, NEW q \in Request, outcome[q] = "limited"
               PROVE  Cardinality({ p \in Request \ {q} :
                                      /\ count[p] # 0
                                      /\ subject[p] = subject[q] /\ window[p] = window[q] })
                         >= MaxRequests
    BY DEF LimitDeserved
  <1> DEFINE S == { p \in Request \ {q} : /\ count[p] # 0
                                          /\ subject[p] = subject[q] /\ window[p] = window[q] }
             k == BucketKey(q)
             g == [n \in 1..MaxRequests |-> CHOOSE p \in S : count[p] = n]
  <1>1. count[q] \in Nat /\ MaxRequests < count[q]
    BY LimiterAssumption DEF Inv, TypeOK, RequestInv, Exceeds
  <1>2. IsFiniteSet(S)
    <2>1. S \subseteq { p \in Request : Charged(p) }
      BY DEF Charged
    <2> HIDE DEF S
    <2> QED
      BY <2>1, FS_Subset DEF Inv, Finite
  <1>3. \A n \in 1..MaxRequests : \E p \in S : count[p] = n
    <2> SUFFICES ASSUME NEW n \in 1..MaxRequests PROVE \E p \in S : count[p] = n
      OBVIOUS
    <2>1. n \in 1..count[q] /\ n # count[q]
      BY <1>1, LimiterAssumption
    <2>2. PICK p \in Request : Charged(p) /\ BucketKey(p) = k /\ count[p] = n
      BY <2>1 DEF Inv, Dense, Replied
    <2>3. p \in S
      BY <2>1, <2>2 DEF Charged, BucketKey
    <2> QED
      BY <2>2, <2>3
  <1>4. g \in Injection(1..MaxRequests, S)
    <2> HIDE DEF S
    <2>1. \A n \in 1..MaxRequests : g[n] \in S /\ count[g[n]] = n
      BY <1>3
    <2>2. g \in [1..MaxRequests -> S]
      BY <2>1
    <2> QED
      BY <2>1, <2>2 DEF Injection, IsInjective
  <1>5. Cardinality(1..MaxRequests) = MaxRequests
    BY FS_Interval, LimiterAssumption
  <1>6. MaxRequests <= Cardinality(S)
    <2> HIDE DEF S, g
    <2> QED
      BY <1>2, <1>4, <1>5, FS_Injection
  <1>7. Cardinality(S) \in Nat
    BY <1>2, FS_CardinalityType
  <1> QED
    BY <1>6, <1>7, LimiterAssumption

----------------------------------------------------------------------------
(***************************************************************************)
(* The limiter's state keeps its types, and a reply that was acted on is   *)
(* the reply to a charge (enforce).                                        *)
(***************************************************************************)
THEOREM LimiterTypeCorrect == Spec => []TypeOK
  BY Invariance, PTL DEF Inv

(***************************************************************************)
(* However late requests are charged, whatever the replicas' clocks say    *)
(* and whichever replies are lost: of a caller's requests that are charged *)
(* to one window within its length and the slack of the expiry, no more    *)
(* are admitted than RATE_LIMIT_REQUESTS (enforce).                        *)
(***************************************************************************)
THEOREM BudgetKept == Spec => []BudgetHolds
  BY Invariance, InvBudget, PTL

(***************************************************************************)
(* A window admits at most one budget for each life its counter can have   *)
(* between the first clock to enter the window and the last charge: two    *)
(* at the default settings, with flights of up to two seconds.             *)
(***************************************************************************)
THEOREM WindowBudgetKept == Spec => []WindowBudget
  BY Invariance, InvWindowBudget, PTL

(***************************************************************************)
(* What the docstring of app/rate_limit.py needs: with an expiry whose     *)
(* slack covers the longest flight and the clocks' spread, a caller never  *)
(* gets more than "2x the limit" in a window's length.                     *)
(***************************************************************************)
THEOREM EnoughSlack == FlightTime + Spread <= KeySlack => (Spec => []TwoBudgets)
  <1> SUFFICES ASSUME FlightTime + Spread <= KeySlack PROVE Spec => []TwoBudgets
    OBVIOUS
  <1>1. Inv => TwoBudgets
    BY InvTwoBudgets
  <1> QED
    BY <1>1, Invariance, PTL

(***************************************************************************)
(* A 429 is deserved: the caller's own requests of the same window have    *)
(* spent the budget.                                                       *)
(***************************************************************************)
THEOREM RefusalsDeserved == Spec => []LimitDeserved
  BY Invariance, InvDeserved, PTL
=============================================================================
