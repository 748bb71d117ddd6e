------------------------- MODULE JwksVerifierProofs -------------------------
(***************************************************************************)
(* Proofs about JwksVerifier, for any threads, kids and intervals.         *)
(*                                                                         *)
(* A fetch that succeeded at `lastFetch' began at most FetchTime before,   *)
(* and whatever it did not bring was published after its beginning, or is  *)
(* not published: so what `keys' lacks is at most that much older than     *)
(* `lastFetch'.  A refusal is given within the interval of such a fetch.   *)
(***************************************************************************)
EXTENDS JwksVerifier, TLAPS

\* A kid that is missing from K was published at `since' or later.
MissingSince(K, since) ==
    \A k \in Kid \ K : published[k] # Never => published[k] >= since

\* The keys in use, the answer a thread holds, and the fetch under way.
KeysInv ==
    /\ lastFetch <= now /\ fetching <= now
    /\ MissingSince(keys, lastFetch - FetchTime)
    /\ lock # Nobody => now - fetching <= FetchTime
    /\ \A t \in Thread : thread[t].pc = "answer" => MissingSince(thread[t].answer, fetching)

\* Fetches of the past against the last success and the fetch under way.
FetchesInv ==
    /\ \A f \in fetches : f.at <= fetching
    /\ \A f \in fetches : f.ok => f.at <= lastFetch
    /\ lock # Nobody => \A f \in fetches : f.ok => fetching - f.at >= MinInterval

Inv == TypeOK /\ KeysInv /\ FetchesInv /\ RotationNoticed /\ SuccessThrottles

\* The initial states satisfy the invariant.
LEMMA InitInv == Init => Inv
  <1> SUFFICES ASSUME Init PROVE Inv
    OBVIOUS
  <1>1. TypeOK
    BY JwksAssumption DEF Init, TypeOK, Call, Never, NeverFetched
  <1>2. KeysInv
    BY JwksAssumption DEF Init, KeysInv, MissingSince, NeverFetched
  <1> QED
    BY <1>1, <1>2 DEF Init, Inv, FetchesInv, RotationNoticed, SuccessThrottles

\* The provider publishes a kid now, or takes it back.
LEMMA ProviderStep ==
    ASSUME Inv, NEW k \in Kid, Publish(k) \/ Retire(k)
    PROVE  Inv'
  <1>0. /\ UNCHANGED <<now, keys, lastFetch, lock, thread, fetching, fetches>> /\ TypeOK /\ KeysInv
        /\ published' \in [Kid -> Nat \cup {Never}]
        /\ \A j \in Kid : published'[j] \in {published[j], now, Never}
    BY DEF Inv, TypeOK, Publish, Retire
  <1>1. TypeOK'
    BY <1>0 DEF TypeOK
  <1>2. ASSUME NEW K, NEW since \in Int, since <= now, MissingSince(K, since)
        PROVE  MissingSince(K, since)'
    BY <1>0, <1>2 DEF MissingSince
  <1>3. KeysInv'
    <2>1. MissingSince(keys, lastFetch - FetchTime)'
      <3>1. PICK K, since : K = keys /\ since = lastFetch - FetchTime
        OBVIOUS
      <3>2. MissingSince(K, since)'
        BY <1>0, <1>2, <3>1, JwksAssumption DEF TypeOK, KeysInv
      <3> QED
        BY <1>0, <3>1, <3>2 DEF MissingSince
    <2>2. ASSUME NEW t \in Thread, thread'[t].pc = "answer"
          PROVE  MissingSince(thread[t].answer, fetching)'
      <3>1. PICK K, since : K = thread[t].answer /\ since = fetching
        OBVIOUS
      <3>2. MissingSince(K, since)'
        BY <1>0, <1>2, <2>2, <3>1 DEF TypeOK, KeysInv
      <3> QED
        BY <1>0, <3>1, <3>2 DEF MissingSince
    <2> QED
      BY <1>0, <2>1, <2>2 DEF KeysInv
  <1>4. RotationNoticed'
    BY <1>0, JwksAssumption DEF Inv, RotationNoticed, TypeOK, Call
  <1> QED
    BY <1>0, <1>1, <1>3, <1>4 DEF Inv, FetchesInv, SuccessThrottles

\* A token's kid is looked up without the lock.
LEMMA LookupStep ==
    ASSUME Inv, NEW t \in Thread, NEW k \in Kid, Lookup(t, k)
    PROVE  Inv'
  <1>0. /\ UNCHANGED <<now, published, keys, lastFetch, lock, fetching, fetches>> /\ TypeOK
        /\ thread[t].pc \notin {"fetch", "answer"}
        /\ thread'[t].pc \in {"accepted", "lock"}
        /\ \A p \in Thread \ {t} : thread'[p] = thread[p]
    BY DEF Inv, TypeOK, Lookup, Resting
  <1>1. TypeOK'
    <2>1. thread' \in [Thread -> Call]
      BY <1>0 DEF TypeOK, Lookup, Call
    <2> QED
      BY <1>0, <2>1 DEF TypeOK
  <1>2. KeysInv' /\ FetchesInv'
    BY <1>0 DEF Inv, KeysInv, FetchesInv, MissingSince
  <1>3. RotationNoticed' /\ SuccessThrottles'
    BY <1>0 DEF Inv, RotationNoticed, SuccessThrottles
  <1> QED
    BY <1>1, <1>2, <1>3 DEF Inv

\* A thread has the lock and decides again.
LEMMA LockedStep ==
    ASSUME Inv, NEW t \in Thread, Locked(t)
    PROVE  Inv'
  <1>0. /\ UNCHANGED <<now, published, keys, lastFetch, fetches>> /\ TypeOK
        /\ thread[t].pc = "lock" /\ lock = Nobody /\ Nobody \notin Thread
    BY JwksAssumption DEF Inv, Locked
  <1>1. CASE thread[t].kid \in keys /\ Settle(t, "accepted")
    <2>1. /\ UNCHANGED <<lock, fetching>> /\ thread'[t] = [thread[t] EXCEPT !.pc = "accepted"]
          /\ \A p \in Thread \ {t} : thread'[p] = thread[p]
          /\ thread' \in [Thread -> Call]
      BY <1>0, <1>1 DEF Settle, TypeOK, Call
    <2> QED
      BY <1>0, <2>1
      DEF Inv, TypeOK, Call, KeysInv, FetchesInv, MissingSince, RotationNoticed, SuccessThrottles
  <1>2. CASE thread[t].kid \notin keys /\ Throttled /\ Settle(t, "unknown")
    <2>1. /\ UNCHANGED <<lock, fetching>> /\ thread'[t] = [thread[t] EXCEPT !.pc = "unknown"]
          /\ \A p \in Thread \ {t} : thread'[p] = thread[p]
          /\ thread' \in [Thread -> Call]
      BY <1>0, <1>2 DEF Settle, TypeOK, Call
    <2>2. TypeOK' /\ KeysInv' /\ FetchesInv' /\ SuccessThrottles'
      BY <1>0, <2>1 DEF Inv, TypeOK, Call, KeysInv, FetchesInv, MissingSince, SuccessThrottles
    <2>3. RotationNoticed'
      <3>1. thread'[t].kid = thread[t].kid /\ thread[t].kid \in Kid
        BY <1>0, <2>1 DEF TypeOK, Call
      <3>2. published[thread[t].kid] # Never =>
               now - published[thread[t].kid] <= MinInterval + FetchTime
        BY <1>0, <1>2, <3>1, JwksAssumption DEF Inv, TypeOK, KeysInv, MissingSince, Throttled
      <3> QED
        BY <1>0, <2>1, <3>1, <3>2 DEF Inv, RotationNoticed
    <2> QED
      BY <2>2, <2>3 DEF Inv
  <1>3. CASE thread[t].kid \notin keys /\ ~Throttled /\ StartFetch(t)
    <2>1. /\ lock' = t /\ fetching' = now /\ thread'[t] = [thread[t] EXCEPT !.pc = "fetch"]
          /\ \A p \in Thread \ {t} : thread'[p] = thread[p]
          /\ thread' \in [Thread -> Call]
      BY <1>0, <1>3 DEF StartFetch, TypeOK, Call
    <2>2. TypeOK' /\ RotationNoticed'
      BY <1>0, <2>1 DEF Inv, TypeOK, Call, RotationNoticed
    <2>3. KeysInv'
      BY <1>0, <2>1, JwksAssumption DEF Inv, TypeOK, Call, KeysInv, MissingSince
    <2>4. FetchesInv' /\ SuccessThrottles'
      BY <1>0, <1>3, <2>1, JwksAssumption
      DEF Inv, TypeOK, KeysInv, FetchesInv, Throttled, SuccessThrottles
    <2> QED
      BY <2>2, <2>3, <2>4 DEF Inv
  <1> QED
    BY <1>1, <1>2, <1>3 DEF Locked

\* The provider answers.
LEMMA AnswerStep ==
    ASSUME Inv, NEW t \in Thread, Answer(t)
    PROVE  Inv'
  <1>0. /\ UNCHANGED <<now, published, keys, lastFetch, lock, fetching, fetches>> /\ TypeOK
        /\ thread[t].pc = "fetch"
        /\ thread'[t].pc = "answer" /\ thread'[t].answer = KeySet
        /\ \A p \in Thread \ {t} : thread'[p] = thread[p]
        /\ thread' \in [Thread -> Call]
    BY ZenonT(40) DEF Inv, TypeOK, Answer, Call, KeySet
  <1>1. MissingSince(KeySet, fetching)
    BY DEF MissingSince, KeySet
  <1> QED
    BY <1>0, <1>1
    DEF Inv, TypeOK, KeysInv, FetchesInv, MissingSince, RotationNoticed, SuccessThrottles

\* The fetch fails.
LEMMA FailStep ==
    ASSUME Inv, NEW t \in Thread, FailFetch(t)
    PROVE  Inv'
  <1>0. /\ UNCHANGED <<now, published, keys, lastFetch, fetching>> /\ TypeOK
        /\ lock = t /\ lock' = Nobody /\ Nobody \notin Thread
        /\ fetches' = fetches \cup {[at |-> fetching, ok |-> FALSE]}
        /\ thread'[t].pc = "unavailable"
        /\ \A p \in Thread \ {t} : thread'[p] = thread[p]
        /\ thread' \in [Thread -> Call]
    BY JwksAssumption, ZenonT(40) DEF Inv, TypeOK, FailFetch, Release, Call
  <1>1. lock # Nobody
    BY <1>0
  <1>2. TypeOK'
    <2>1. [at |-> fetching, ok |-> FALSE] \in [at : Nat, ok : BOOLEAN]
      BY <1>0 DEF TypeOK
    <2>2. fetches' \subseteq [at : Nat, ok : BOOLEAN]
      BY <1>0, <2>1 DEF TypeOK
    <2>3. \A p \in Thread : thread'[p].pc \in {"fetch", "answer"} <=> lock' = p
      BY <1>0 DEF TypeOK
    <2> QED
      BY <1>0, <2>2, <2>3 DEF TypeOK
  <1>3. KeysInv' /\ RotationNoticed'
    BY <1>0 DEF Inv, KeysInv, MissingSince, RotationNoticed
  <1>4. FetchesInv'
    BY <1>0 DEF Inv, TypeOK, FetchesInv
  <1>5. SuccessThrottles'
    BY <1>0, <1>1 DEF Inv, TypeOK, FetchesInv, SuccessThrottles
  <1> QED
    BY <1>2, <1>3, <1>4, <1>5 DEF Inv

\* The fetch succeeds: the keys are replaced.
LEMMA RefreshStep ==
    ASSUME Inv, NEW t \in Thread, Refresh(t)
    PROVE  Inv'
  <1>0. /\ UNCHANGED <<now, published, fetching>> /\ TypeOK
        /\ thread[t].pc = "answer" /\ keys' = thread[t].answer /\ lastFetch' = now
        /\ lock = t /\ lock' = Nobody /\ Nobody \notin Thread
        /\ fetches' = fetches \cup {[at |-> fetching, ok |-> TRUE]}
        /\ thread'[t].pc = (IF thread[t].kid \in keys' THEN "accepted" ELSE "unknown")
        /\ thread'[t].kid = thread[t].kid
        /\ \A p \in Thread \ {t} : thread'[p] = thread[p]
        /\ thread' \in [Thread -> Call]
    <2>1. /\ UNCHANGED <<now, published, fetching>> /\ TypeOK
          /\ thread[t].pc = "answer" /\ keys' = thread[t].answer /\ lastFetch' = now
          /\ lock' = Nobody /\ Nobody \notin Thread
          /\ fetches' = fetches \cup {[at |-> fetching, ok |-> TRUE]}
      BY JwksAssumption DEF Inv, Refresh, Release
    <2>2. PICK outcome \in {"accepted", "unknown"} :
             /\ outcome = (IF thread[t].kid \in keys' THEN "accepted" ELSE "unknown")
             /\ thread' = [thread EXCEPT ![t].pc = outcome, ![t].answer = {}]
      BY DEF Refresh, Release
    <2>3. lock = t
      BY <2>1 DEF TypeOK
    <2>4. /\ thread'[t].pc = outcome /\ thread'[t].kid = thread[t].kid
          /\ \A p \in Thread \ {t} : thread'[p] = thread[p]
          /\ thread' \in [Thread -> Call]
      <3>1. CASE outcome = "accepted"
        BY <2>1, <2>2, <3>1, ZenonT(40) DEF TypeOK, Call
      <3>2. CASE outcome = "unknown"
        BY <2>1, <2>2, <3>2, ZenonT(40) DEF TypeOK, Call
      <3> QED
        BY <3>1, <3>2
    <2> QED
      BY <2>1, <2>2, <2>3, <2>4
  <1>1. /\ lock # Nobody /\ now - fetching <= FetchTime /\ fetching <= now
        /\ MissingSince(thread[t].answer, fetching)
    BY <1>0 DEF Inv, KeysInv
  <1>2. TypeOK'
    <2>1. keys' \subseteq Kid
      BY <1>0 DEF TypeOK, Call
    <2>2. [at |-> fetching, ok |-> TRUE] \in [at : Nat, ok : BOOLEAN]
      BY <1>0 DEF TypeOK
    <2>3. fetches' \subseteq [at : Nat, ok : BOOLEAN]
      BY <1>0, <2>2 DEF TypeOK
    <2>4. \A p \in Thread : thread'[p].pc \in {"fetch", "answer"} <=> lock' = p
      BY <1>0 DEF TypeOK
    <2> QED
      BY <1>0, <2>1, <2>3, <2>4 DEF TypeOK
  <1>3. KeysInv'
    <2>1. MissingSince(keys, lastFetch - FetchTime)'
      BY <1>0, <1>1, JwksAssumption DEF MissingSince, TypeOK
    <2>2. \A p \in Thread : thread'[p].pc # "answer"
      BY <1>0 DEF TypeOK
    <2> QED
      BY <1>0, <1>1, <2>1, <2>2 DEF KeysInv, TypeOK
  <1>4. RotationNoticed'
    <2>1. thread[t].kid \in Kid
      BY <1>0 DEF TypeOK, Call
    <2>2. thread'[t].pc = "unknown" /\ published[thread[t].kid] # Never =>
             now - published[thread[t].kid] <= MinInterval + FetchTime
      BY <1>0, <1>1, <2>1, JwksAssumption DEF MissingSince, TypeOK
    <2> QED
      BY <1>0, <2>2 DEF Inv, RotationNoticed
  <1>5. FetchesInv'
    BY <1>0, <1>1 DEF Inv, TypeOK, KeysInv, FetchesInv
  <1>6. SuccessThrottles'
    BY <1>0, <1>1 DEF Inv, TypeOK, FetchesInv, SuccessThrottles
  <1> QED
    BY <1>2, <1>3, <1>4, <1>5, <1>6 DEF Inv

\* Time passes, and nobody is left refused.
LEMMA TickStep ==
    ASSUME Inv, Tick
    PROVE  Inv'
  <1>0. /\ UNCHANGED <<published, keys, lastFetch, lock, fetching, fetches>> /\ TypeOK
        /\ now' = now + 1 /\ (lock # Nobody => now - fetching < FetchTime)
    BY DEF Inv, Tick
  <1>1. /\ thread' \in [Thread -> Call]
        /\ \A t \in Thread : \/ thread'[t] = thread[t] /\ ~Resting(t)
                             \/ thread'[t].pc = "idle" /\ Resting(t)
    BY <1>0 DEF Tick, TypeOK, Call
  <1>2. TypeOK'
    BY <1>0, <1>1 DEF TypeOK, Resting
  <1>3. KeysInv'
    BY <1>0, <1>1, JwksAssumption DEF Inv, TypeOK, KeysInv, MissingSince
  <1>4. RotationNoticed'
    BY <1>1 DEF RotationNoticed, Resting
  <1> QED
    BY <1>0, <1>2, <1>3, <1>4 DEF Inv, FetchesInv, SuccessThrottles

\* Every step keeps the invariant.
LEMMA InvStep == Inv /\ [Next]_vars => Inv'
  <1> SUFFICES ASSUME Inv, [Next]_vars PROVE Inv'
    OBVIOUS
  <1>1. CASE UNCHANGED vars
    BY <1>1 DEF vars, Inv, TypeOK, KeysInv, MissingSince, FetchesInv, RotationNoticed, SuccessThrottles
  <1>2. CASE Next
    BY <1>2, LookupStep, LockedStep, AnswerStep, FailStep, RefreshStep, ProviderStep, TickStep DEF Next
  <1> QED
    BY <1>1, <1>2

\* The invariant holds throughout.
LEMMA Invariance == Spec => []Inv
  BY InitInv, InvStep, PTL DEF Spec

----------------------------------------------------------------------------
(***************************************************************************)
(* The verifier's state keeps its types, and _lock is held by exactly the  *)
(* thread that fetches.                                                    *)
(***************************************************************************)
THEOREM VerifierTypeCorrect == Spec => []TypeOK
  BY Invariance, PTL DEF Inv

(***************************************************************************)
(* A token is refused as signed with an unknown key only while that key is *)
(* younger than the throttle of _signing_key and one fetch.                *)
(***************************************************************************)
THEOREM RotationsNoticed == Spec => []RotationNoticed
  BY Invariance, PTL DEF Inv

(***************************************************************************)
(* A fetch that succeeded keeps every thread from starting another for     *)
(* JWT_JWKS_MIN_REFRESH_INTERVAL_SECONDS (_refresh).                       *)
(***************************************************************************)
THEOREM SuccessesThrottle == Spec => []SuccessThrottles
  BY Invariance, PTL DEF Inv
=============================================================================
