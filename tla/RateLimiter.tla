---------------------------- MODULE RateLimiter ----------------------------
(***************************************************************************)
(* The per-caller rate limit (app/rate_limit.py) behind require_scope      *)
(* (app/security.py): replicas of the API, each with its own clock, charge *)
(* requests to fixed-window counters in one Redis.                         *)
(*                                                                         *)
(* The window a request is charged to is fixed when the replica reads its  *)
(* clock; INCR and EXPIRE reach Redis up to FlightTime later, or not at    *)
(* all, and the reply may be lost, which admits the request (fail open)    *)
(* whether or not it was charged.  Nothing relates FlightTime and Spread   *)
(* to the expiry: a charge may come after its counter is gone, and starts  *)
(* it again.  Time is in ticks.                                            *)
(***************************************************************************)
EXTENDS Integers, FiniteSets

CONSTANTS
    Request,        \* requests, each made once
    Subject,        \* verified token subjects
    Replica,        \* API processes
    Offset,         \* [Replica -> 0..Spread]: how far each clock is ahead
    Spread,         \* the clocks agree up to this
    FlightTime,     \* longest time from reading the clock to INCR
    MaxRequests,    \* RATE_LIMIT_REQUESTS
    WindowSeconds,  \* RATE_LIMIT_WINDOW_SECONDS
    KeySlack,       \* the "+ 1" of the key's expiry
    MaxTime         \* bound: length of a behaviour

ASSUME LimiterAssumption ==
    /\ MaxRequests \in Nat \ {0} /\ WindowSeconds \in Nat \ {0}
    /\ KeySlack \in Nat /\ FlightTime \in Nat /\ Spread \in Nat /\ MaxTime \in Nat
    /\ Offset \in [Replica -> 0..Spread]

VARIABLES
    now,
    outcome,        \* outcome[q]: what became of the request
    subject,        \* subject[q], once verified
    reading,        \* reading[q]: the replica's clock
    window,         \* window[q]: the window it is charged to
    sent,           \* sent[q]: the time of the reading
    count,          \* count[q]: INCR's reply, 0 if it was not charged
    charged,        \* charged[q]: when INCR ran (history)
    counter,        \* Redis: counter[key]
    expires         \* Redis: expires[key], the key is gone from then on

requestVars == <<subject, reading, window, sent>>
chargeVars == <<count, charged>>
redisVars == <<counter, expires>>
vars == <<now, outcome, requestVars, chargeVars, redisVars>>

Outcome == {"new", "denied", "waiting", "admitted", "limited", "open"}
WindowNo == 0..(MaxTime + Spread)
Key == Subject \X WindowNo

\* Every variable has the values the code can give it, and a reply that was
\* acted on is the reply to a charge.
TypeOK ==
    /\ now \in Nat
    /\ outcome \in [Request -> Outcome]
    /\ subject \in [Request -> Subject]
    /\ reading \in [Request -> Nat]
    /\ window \in [Request -> WindowNo]
    /\ sent \in [Request -> Nat]
    /\ count \in [Request -> Nat]
    /\ charged \in [Request -> Nat]
    /\ counter \in [Key -> Nat]
    /\ expires \in [Key -> Nat]
    /\ \A q \in Request : outcome[q] \in {"admitted", "limited"} => count[q] # 0

Init ==
    /\ now = 0
    /\ outcome = [q \in Request |-> "new"]
    /\ \E s \in Subject : subject = [q \in Request |-> s]
    /\ reading = [q \in Request |-> 0]
    /\ window = [q \in Request |-> 0]
    /\ sent = [q \in Request |-> 0]
    /\ count = [q \in Request |-> 0]
    /\ charged = [q \in Request |-> 0]
    /\ counter = [k \in Key |-> 0]
    /\ expires = [k \in Key |-> 0]

-----------------------------------------------------------------------------
\* 401 or 403: get_current_principal or require_scope refuses, nothing is charged.
Deny(q) ==
    /\ outcome[q] = "new"
    /\ outcome' = [outcome EXCEPT ![q] = "denied"]
    /\ UNCHANGED <<now, requestVars, chargeVars, redisVars>>

\* window = int(now // window_seconds)
FallsIn(t, w) == w * WindowSeconds <= t /\ t < w * WindowSeconds + WindowSeconds

\* The head of enforce: read the clock and fix the key.
Enforce(q, s, r) ==
    /\ outcome[q] = "new"
    /\ outcome' = [outcome EXCEPT ![q] = "waiting"]
    /\ subject' = [subject EXCEPT ![q] = s]
    /\ reading' = [reading EXCEPT ![q] = now + Offset[r]]
    /\ \E w \in WindowNo :
          /\ FallsIn(now + Offset[r], w)
          /\ window' = [window EXCEPT ![q] = w]
    /\ sent' = [sent EXCEPT ![q] = now]
    /\ UNCHANGED <<now, chargeVars, redisVars>>

\* Mutant: every caller shares one counter.
BucketKey_shared(q) == <<CHOOSE s \in Subject : TRUE, window[q]>>

BucketKey(q) == <<subject[q], window[q]>>

Alive(k) == now < expires[k]
Value(k) == IF Alive(k) THEN counter[k] ELSE 0

\* Mutant: the key expires with the length of its window.
Expiry_short == now + WindowSeconds

Expiry == now + WindowSeconds + KeySlack

\* MULTI INCR, EXPIRE at Redis; the client may have stopped waiting.
Charge(q) ==
    LET k == BucketKey(q)
    IN  /\ outcome[q] \in {"waiting", "open"}
        /\ count[q] = 0
        /\ now <= sent[q] + FlightTime
        /\ counter' = [counter EXCEPT ![k] = Value(k) + 1]
        /\ expires' = [expires EXCEPT ![k] = Expiry]
        /\ count' = [count EXCEPT ![q] = Value(k) + 1]
        /\ charged' = [charged EXCEPT ![q] = now]
        /\ UNCHANGED <<now, outcome, requestVars>>

\* Mutant: the request that finds the budget spent is still let in.
Exceeds_late(n) == n > MaxRequests + 1

Exceeds(n) == n > MaxRequests

\* Mutant: the pipeline's reply is not awaited.
Answer_unawaited(q) ==
    /\ outcome[q] = "waiting"
    /\ outcome' = [outcome EXCEPT ![q] = IF Exceeds(count[q]) THEN "limited" ELSE "admitted"]
    /\ UNCHANGED <<now, requestVars, chargeVars, redisVars>>

\* The reply arrives: admit, or 429 with Retry-After.
Answer(q) ==
    /\ outcome[q] = "waiting"
    /\ count[q] # 0
    /\ outcome' = [outcome EXCEPT ![q] = IF Exceeds(count[q]) THEN "limited" ELSE "admitted"]
    /\ UNCHANGED <<now, requestVars, chargeVars, redisVars>>

\* Redis does not answer (in time): the request is admitted.
FailOpen(q) ==
    /\ outcome[q] = "waiting"
    /\ outcome' = [outcome EXCEPT ![q] = "open"]
    /\ UNCHANGED <<now, requestVars, chargeVars, redisVars>>

\* Time passes; a request that waits is charged or given up in time.
Tick ==
    /\ now < MaxTime
    /\ \A q \in Request : outcome[q] = "waiting" /\ count[q] = 0 => now < sent[q] + FlightTime
    /\ now' = now + 1
    /\ UNCHANGED <<outcome, requestVars, chargeVars, redisVars>>

Next ==
    \/ \E q \in Request :
          \/ Deny(q)
          \/ \E s \in Subject, r \in Replica : Enforce(q, s, r)
          \/ Charge(q) \/ Answer(q) \/ FailOpen(q)
    \/ Tick

Spec == Init /\ [][Next]_vars

-----------------------------------------------------------------------------
Admitted(s) == { q \in Request : outcome[q] = "admitted" /\ subject[q] = s }

(***************************************************************************)
(* Across replicas whose clocks differ, late arrivals and lost replies, a  *)
(* counter is not lost while its key lives: of the requests of a caller    *)
(* that are charged to one window within WindowSeconds + KeySlack of each  *)
(* other, from any instant t on, no more than one budget is admitted.      *)
(***************************************************************************)
BudgetHolds ==
    \A s \in Subject, w \in WindowNo, t \in 0..MaxTime :
        Cardinality({ q \in Admitted(s) :
                        /\ window[q] = w
                        /\ charged[q] \in t..(t + WindowSeconds + KeySlack - 1) })
            <= MaxRequests

\* How often the counter of a window can begin from nothing: its charges come
\* from a clock's spread before the window to a flight after it, and a new life
\* needs as long without a charge as the key lives.
Lives == 1 + (WindowSeconds - 1 + Spread + FlightTime) \div (WindowSeconds + KeySlack)

(***************************************************************************)
(* However late charges come, a window admits no more of a caller's        *)
(* requests than a budget for each life its counter can have.              *)
(***************************************************************************)
WindowBudget ==
    \A s \in Subject, w \in WindowNo :
        Cardinality({ q \in Admitted(s) : window[q] = w }) <= MaxRequests * Lives

(***************************************************************************)
(* What the docstring of app/rate_limit.py says: "A caller can briefly     *)
(* reach 2x the limit across a window boundary", no more: in no stretch of *)
(* a window's length, by the clocks of the replicas, are more than two     *)
(* budgets admitted.  A flight longer than the slack of the expiry breaks  *)
(* it: the counter of the window before the boundary is gone when the late *)
(* request is charged.                                                     *)
(***************************************************************************)
TwoBudgets ==
    \A s \in Subject : \A first \in Admitted(s) :
        Cardinality({ q \in Admitted(s) :
                        reading[q] \in reading[first]..(reading[first] + WindowSeconds - 1) })
            <= 2 * MaxRequests

(***************************************************************************)
(* A caller is refused only when its own requests have used the budget of  *)
(* the same window: no other caller's and no earlier window's, though      *)
(* requests that failed open may be among them.                            *)
(***************************************************************************)
LimitDeserved ==
    \A q \in Request :
        outcome[q] = "limited" =>
            Cardinality({ p \in Request \ {q} :
                            /\ count[p] # 0
                            /\ subject[p] = subject[q] /\ window[p] = window[q] }) >= MaxRequests
=============================================================================
