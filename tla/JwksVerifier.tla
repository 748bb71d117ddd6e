---------------------------- MODULE JwksVerifier ----------------------------
(***************************************************************************)
(* Signing keys (app/security.py, _JwksTokenVerifier): the key set a       *)
(* process fetched from the identity provider, refreshed when a token      *)
(* names an unknown kid, by request threads that share the keys, the time  *)
(* of the last fetch and a lock.                                           *)
(*                                                                         *)
(* The provider (external) publishes and retires kids at any time; an      *)
(* answer shows its key set as of some instant during the fetch.           *)
(***************************************************************************)
EXTENDS Integers

CONSTANTS
    Thread,         \* the threadpool's threads
    Nobody,         \* holder of a free lock
    Kid,            \* key ids
    MinInterval,    \* JWT_JWKS_MIN_REFRESH_INTERVAL_SECONDS
    FetchTime,      \* longest fetch of the key set
    MaxTime         \* bound: length of a behaviour

ASSUME JwksAssumption ==
    /\ Nobody \notin Thread
    /\ MinInterval \in Nat /\ FetchTime \in Nat /\ MaxTime \in Nat

VARIABLES
    now,
    published,      \* since when the provider publishes each kid, Never if it does not
    keys,           \* self._keys
    lastFetch,      \* self._last_fetch
    lock,           \* who holds self._lock
    thread,         \* each thread: where it stands, its token's kid, the answer it has
    fetching,       \* when the fetch under way began
    fetches         \* history: when fetches began, and whether they succeeded

vars == <<now, published, keys, lastFetch, lock, thread, fetching, fetches>>

Never == -1
Call == [pc : {"idle", "lock", "fetch", "answer", "accepted", "unknown", "unavailable"},
         kid : Kid, answer : SUBSET Kid]

\* float("-inf"): the first fetch is never throttled.
NeverFetched == -MinInterval

\* Every variable has the values the code can give it, and the lock is held by
\* exactly the thread that is fetching.
TypeOK ==
    /\ now \in Nat
    /\ published \in [Kid -> Nat \cup {Never}]
    /\ keys \subseteq Kid
    /\ lastFetch \in Int
    /\ lock \in Thread \cup {Nobody}
    /\ thread \in [Thread -> Call]
    /\ \A t \in Thread : thread[t].pc \in {"fetch", "answer"} <=> lock = t
    /\ fetching \in Nat
    /\ fetches \subseteq [at : Nat, ok : BOOLEAN]

Init ==
    /\ now = 0
    /\ published \in [Kid -> {0, Never}]
    /\ keys = {}
    /\ lastFetch = NeverFetched
    /\ lock = Nobody
    /\ \E k \in Kid : thread = [t \in Thread |-> [pc |-> "idle", kid |-> k, answer |-> {}]]
    /\ fetching = 0
    /\ fetches = {}

-----------------------------------------------------------------------------
(* The provider *)

Publish(k) ==
    /\ published[k] = Never
    /\ published' = [published EXCEPT ![k] = now]
    /\ UNCHANGED <<now, keys, lastFetch, lock, thread, fetching, fetches>>

Retire(k) ==
    /\ published[k] /= Never
    /\ published' = [published EXCEPT ![k] = Never]
    /\ UNCHANGED <<now, keys, lastFetch, lock, thread, fetching, fetches>>

KeySet == {k \in Kid : published[k] /= Never}

-----------------------------------------------------------------------------
(* _signing_key *)

Resting(t) == thread[t].pc \in {"idle", "accepted", "unknown", "unavailable"}

\* A token arrives and its kid is looked up without the lock.
Lookup(t, k) ==
    /\ Resting(t)
    /\ thread' = [thread EXCEPT ![t] =
          [pc |-> IF k \in keys THEN "accepted" ELSE "lock", kid |-> k, answer |-> {}]]
    /\ UNCHANGED <<now, published, keys, lastFetch, lock, fetching, fetches>>

Throttled == now - lastFetch < MinInterval

StartFetch(t) ==
    /\ thread' = [thread EXCEPT ![t].pc = "fetch"]
    /\ lock' = t
    /\ fetching' = now

Settle(t, outcome) ==
    /\ thread' = [thread EXCEPT ![t].pc = outcome]
    /\ UNCHANGED <<lock, fetching>>

\* Mutant: the key is not looked up again once the lock is held.
Locked_unchecked(t) ==
    /\ thread[t].pc = "lock"
    /\ lock = Nobody
    /\ IF Throttled THEN Settle(t, "unknown") ELSE StartFetch(t)
    /\ UNCHANGED <<now, published, keys, lastFetch, fetches>>

\* The thread gets the lock: another may have fetched the key meanwhile.
Locked(t) ==
    /\ thread[t].pc = "lock"
    /\ lock = Nobody
    /\ \/ thread[t].kid \in keys /\ Settle(t, "accepted")
       \/ thread[t].kid \notin keys /\ Throttled /\ Settle(t, "unknown")
       \/ thread[t].kid \notin keys /\ ~Throttled /\ StartFetch(t)
    /\ UNCHANGED <<now, published, keys, lastFetch, fetches>>

\* The provider answers with its key set of this instant.
Answer(t) ==
    /\ thread[t].pc = "fetch"
    /\ thread' = [thread EXCEPT ![t].pc = "answer", ![t].answer = KeySet]
    /\ UNCHANGED <<now, published, keys, lastFetch, lock, fetching, fetches>>

Release(t, outcome, ok) ==
    /\ thread' = [thread EXCEPT ![t].pc = outcome, ![t].answer = {}]
    /\ lock' = Nobody
    /\ fetches' = fetches \cup {[at |-> fetching, ok |-> ok]}
    /\ UNCHANGED <<now, published, fetching>>

\* Mutant: the lock is kept when the fetch fails.
FailFetch_keepsLock(t) ==
    /\ thread[t].pc \in {"fetch", "answer"}
    /\ thread' = [thread EXCEPT ![t].pc = "unavailable"]
    /\ fetches' = fetches \cup {[at |-> fetching, ok |-> FALSE]}
    /\ UNCHANGED <<now, published, keys, lastFetch, lock, fetching>>

\* The fetch fails, or its answer is no key set: nothing is remembered of it.
FailFetch(t) ==
    /\ thread[t].pc \in {"fetch", "answer"}
    /\ Release(t, "unavailable", FALSE)
    /\ UNCHANGED <<keys, lastFetch>>

\* Mutant: the time of the fetch is not remembered.
Refresh_untimed(t) ==
    /\ thread[t].pc = "answer"
    /\ keys' = thread[t].answer
    /\ Release(t, IF thread[t].kid \in keys' THEN "accepted" ELSE "unknown", TRUE)
    /\ UNCHANGED lastFetch

\* _refresh replaces the keys and remembers the time; the kid is looked up again.
Refresh(t) ==
    /\ thread[t].pc = "answer"
    /\ keys' = thread[t].answer
    /\ lastFetch' = now
    /\ Release(t, IF thread[t].kid \in keys' THEN "accepted" ELSE "unknown", TRUE)

\* Time passes; a token that was settled has left, and no fetch lasts too long.
Tick ==
    /\ now < MaxTime
    /\ lock /= Nobody => now - fetching < FetchTime
    /\ now' = now + 1
    /\ thread' = [t \in Thread |-> IF Resting(t) THEN [thread[t] EXCEPT !.pc = "idle"] ELSE thread[t]]
    /\ UNCHANGED <<published, keys, lastFetch, lock, fetching, fetches>>

Next ==
    \/ \E t \in Thread :
          \/ \E k \in Kid : Lookup(t, k)
          \/ Locked(t) \/ Answer(t) \/ FailFetch(t) \/ Refresh(t)
    \/ \E k \in Kid : Publish(k) \/ Retire(k)
    \/ Tick

Spec == Init /\ [][Next]_vars

-----------------------------------------------------------------------------
(***************************************************************************)
(* Key rotation: a token is refused as signed with an unknown key only if  *)
(* the provider has published that key for no longer than the throttle     *)
(* interval and one fetch, whatever the other threads were doing.          *)
(***************************************************************************)
RotationNoticed ==
    \A t \in Thread :
        thread[t].pc = "unknown" /\ published[thread[t].kid] /= Never =>
            now - published[thread[t].kid] <= MinInterval + FetchTime

\* However many threads miss at once, no fetch starts within the interval after
\* the start of one that succeeded.
SuccessThrottles ==
    \A f, g \in fetches :
        f.ok /\ f.at < g.at => g.at - f.at >= MinInterval
=============================================================================
