# Verification of the fraud detection service

TLA+ models of the event-driven fraud scorer in `src/`: a fleet of Kafka
workers that score card transactions with versioned rules and record each
decision exactly once, the rule sets and caches they score with, and the
services around them (dead letters and their replay, daily summary, token keys,
rate limit, paging). TLC checks
the models on small instances; TLAPS proves the main safety results for every
instance. Everything below refers to the Python sources under `src/`.

## 1. The system

| Component | Source | State it keeps | Operations | Interacts with |
|---|---|---|---|---|
| Kafka worker | `app/worker.py`, `app/kafka_config.py` | per assigned partition a queue, a task, `stopping`, `paused`; the client's positions and stored offsets | poll loop, `_on_assign/_on_revoke/_on_lost`, `_consume_partition`, `_handle`, `_shutdown` | broker (poll, commit), processing, DLQ |
| Processing | `app/processing.py`, `app/events.py`, `app/errors.py` | none | parse, look back at velocity, score, record; classify failures | worker, rule cache, decision store |
| Decision store | `app/database.py` | `transactions`, `transaction_history` | `record_decision`; reads for API, velocity, batch | processing, API |
| Dead-letter publisher | `app/dlq.py` | the producer's queue, a future per call | `publish` | worker |
| Rule-set versions | `app/database.py`, `app/api.py` | `rule_set_versions` | `create_rule_set_version`, `create_version` | API, cache |
| Rule-set cache | `app/cache.py` | one copy per process, one Redis entry | `get_active`, `write_rule_set_cache` | worker, API, Redis, PostgreSQL |
| Rule engine | `app/rules.py` | none | `validate_expression`, `_evaluate`, `evaluate_rule_set`, `parse_rule_set_definition`, `load_stored_definition` | API (publish), processing (score) |
| Token verification | `app/security.py` | JWKS keys, time of the last fetch | `_signing_key`, `_refresh` | API |
| Rate limiter | `app/rate_limit.py` | a Redis counter per caller and window | `enforce` | API |
| REST reads | `app/api.py`, `app/schemas.py` | none | keyset-paginated lists | decision store |
| Batch summary | `app/batch_worker.py` | none | `run_summary` over a window | decision store |
| DLQ replay | `scripts/replay_dlq.py` | its own consumer group | re-produce letters | DLQ, topic |
| Health, metrics, settings, migrations | `app/healthcheck.py`, `app/observability.py`, `app/settings.py`, `alembic/` | files, counters, configuration, DDL | | |

What is hard in it:

* **Rebalances against tasks.** Callbacks run on the poll thread while asyncio
  tasks are anywhere in their loops; a drain timeout cancels tasks whose
  requests are still under way; an evicted worker works on until it is told.
* **At-least-once delivery, exactly-once effect.** Redelivery, late commits of
  abandoned transactions and the same id from two partitions meet in
  `record_decision`'s two `ON CONFLICT` inserts.
* **One producer for all partitions' dead letters.** Reports are served on
  whichever thread is in `flush` and reach the event loop later; waits end in
  between, and a letter that was given up may be stored all the same.
* **Clocks.** The rate limit trusts the clock of each replica and charges a
  request some time after reading it, perhaps after the counter of its window
  has expired.
* **Backpressure.** Pausing happens in `_dispatch`, resuming at the end of a
  message's handling: a pause must never be left with nobody to lift it.
* **Three layers of caching** without coordination between a reader's
  write-back and a publisher's overwrite.
* **Two recursive definitions over one language:** what the static check
  accepts must be what the evaluator can run, although `and`, `or` and `if`
  hide branches from any one dry run.

What makes each part correct: the worker loses nothing, keeps the order of a
partition, commits forward only, dead-letters only what deserves it, holds a
bounded backlog and finally handles everything; the store keeps one decision per
transaction and one audit row per message; the cache bounds the age of the rules
in use; versions form one history; the engine never fails on a published rule;
a published dead letter is stored and comes back in order; a caller gets its
budget and no more than its counter's lives allow, on nobody else's account.
`PROJECT.json` lists the hazards line by line with the properties aimed at them.

## 2. Modules

| Module | What it is |
|---|---|
| `DecisionStore` | the two tables, the dead-letter topic and `record_decision`; the input topic is the constant `Log` |
| `PipelineContract` | abstract specification: what the fleet promises, with no worker in it |
| `Processing` | `process` and the statements of `record_decision` as concurrent database sessions |
| `FraudWorker` | the fleet over `DecisionStore`: one slot per worker and partition, the broker, requests that outlive their sender |
| `RuleSetCache` | publishers, PostgreSQL rows, the Redis entry, the providers and their concurrent `get_active` calls, a discrete clock |
| `RuleEngine` | expressions, the static check, the evaluator, rule sets from draft to scoring |
| `DeadLetterPublisher` | `publish` of several tasks through one producer |
| `ReplayDlq` | the replay script over any number of runs, composed with the publisher that fills its topic |
| `BatchSummary` | the daily summary, and the decisions added while it counts |
| `JwksVerifier` | the API's threads, the shared key set, the identity provider |
| `RateLimiter` | requests of several callers at replicas with their own clocks, and the counters in Redis |
| `Pagination` | clients walking the two paginated lists while rows are added |
| `MC…` | instances for TLC; `MCReaders` runs the two readers, summary and paging, side by side |
| `FraudWorkerProofs` (with the store), `ProcessingProofs`, `RuleSetCacheProofs`, `RuleEngineProofs`, `ReplayDlqProofs` (with the publisher), `RateLimiterProofs`, `JwksVerifierProofs`, `ReaderProofs` (summary and paging) | theorems |

`FraudWorker` extends `DecisionStore` (the composition of worker and store) and
instantiates `PipelineContract`, with the identity as the refinement mapping on
tables, topic and committed offsets and the workers' state hidden. `Processing`
instantiates the same contract `WITH` the committed rows alone as its tables.
The two meet in the contract: `FraudWorker` shows that its workers only ever take
the contract's steps, of which recording is one atomic step; `Processing` shows
that the statements of any number of sessions amount to that step, provided that
attempts start in turn, which `InOrder` of `FraudWorker` gives. `ReplayDlq` extends
`DeadLetterPublisher`, so that the topic it reads is the one tasks write, repeats
and late letters included.

### FraudWorker and the code

A slot `<<w, p>>` is the `_PartitionState` of a partition together with the
locals of its task. `pc` says where the task stands: `get` (waiting on its
queue), `process`, `publish` (the two calls of `_handle` that can fail),
`backoff`, `handled` (`_handle` returned true, the offset not yet stored),
`done`, `dead` (an exception left the task). `phase` says where the poll thread
stands: polling, blocked in `on_revoke` or `on_lost`, draining, or down.

* One action per thing that can happen between two awaits: `Poll` is poll and
  `_dispatch` with the pause; `Take`/`Quit` the two outcomes of `queue.get()`;
  `Record`, `Reject`, `FailTransient`, `FailUnexpected` the four outcomes of
  `process()`; `Publish`, `FailPublish` those of the DLQ; `Retry` the end of a
  backoff; `Finish` stores the offset, resumes the partition and goes round.
  `NextPass` is the head of `_handle`'s loop, where a stopping task abandons its
  message, leaving through the same resume check.
* Callbacks are split where the code waits: `Revoke`/`Lose`/`Shutdown` set
  `stopping`, empty the queues and wake the tasks; `Cancel` is the drain
  timeout; `FinishRevoke`/`FinishLose`/`Close` run once the tasks are over and
  commit what the code commits there.
* External, modelled from how the code uses it: the group coordinator assigns
  partitions, may evict a member and refuses commits of a non-owner; the client
  forgets positions, stored offsets and pauses of a partition it gives up; a
  PostgreSQL transaction or produce request whose client stopped waiting may
  take effect later (`LandWrite`, `LandLetter`) or never.
* Abstractions: a payload is its id, the compared fields as one value, and
  whether it parses; the result of scoring is any verdict; the two statements of
  `record_decision` are one step, being one transaction whose locks serialise
  equal ids; jitter and durations are left to interleaving.

### Processing and the code

A session is one attempt at one message, from `process()` to the answer of
`record_decision`, cut at its awaits: `Begin` (parse), `ScoreTransaction` (the
rules, and one snapshot for `get_velocity_aggregates`), `InsertDecision`,
`SelectExisting`, `InsertAudit`, `Commit`; `Rollback` is a failure anywhere. A row
carries its session until that commits. External, modelled from the SQL the code
sends to PostgreSQL under READ COMMITTED: other sessions see committed rows only,
an `ON CONFLICT DO NOTHING` waits for a session that is inserting the same key,
and goes on if that one rolls back. A decision's `verdict` is what scoring depends
on: the rules and the set of transactions counted; the sum of amounts is over
part of that set. The window counted over is that of the rule set in use. `pc = "crashed"` is the `AttributeError` of
`_decision_from_record(None)`, which `ExistingFound` excludes. Sessions are not tied
to workers: a redelivery, an evicted worker's attempt and a request whose client
has gone are all just sessions. What the caller does with a refusal or with repeated
failures is in as `DeadLetterRejected` and `GiveUp`.

### RuleSetCache and the code

Each call of `get_active` is cut at its awaits: `Lookup`, `ReadRedis` or
`FallThrough`, `ReadDatabase`, `Fill` (with or without Redis failing), then
`Activate`; `Refuse` is `CorruptRuleSetError`, `Raise` every other exception.
Publishing is `Begin` (read the current version, compare it with
`expected_current_version`), `Insert` (commit, or the unique constraint),
`Announce` (the Redis write) and `EndRequest` (a failure at any point). A row
edited in place is recorded in `edits`; the hash check is the fact `Intact`. A
value that was read and has not yet been put to use is in flight for at most
`OpDelay`: the code bounds each request (`redis_socket_timeout` 2 s, the
database's statement timeout 5 s), and the model takes the larger with the
event loop's delay as one constant. A SET that takes effect after its client
gave up is not an action of its own: a task still at `Fill` writes the same
entry at the same time. `announced` is a history variable.

### RuleEngine and the code

`visit` and `evaluate` are translated separately, each with the operators of the
function it stands for, and joined by a life cycle: an author grows a condition
(`Grow`), publishes it (`Publish`: validators, thresholds, dry run), and events
are scored (`ScoreTransaction`). `evaluate` keeps Python's truthiness, `bool` as
a kind of `int`, short-circuiting, and the arity each operator's function
accepts. Texts are names with a substring relation. A `Decimal` is an integer, and
a sum, difference or product beyond `MaxNumber` raises, as `Decimal` does beyond
its exponent; its precision is left out.

An expression is the sequence of its nodes in postfix order, each with the
distances back to its arguments. JSON nests its arguments, so `_evaluate` and
`visit` see them before they combine them, and the recursion of the code is a
recursive function on positions. A value carries its type and the key Python's `==`
compares. What a node does to the results of its arguments is `CheckNode` and
`EvaluateNode`; laziness is in the latter, which looks at a failed argument only
where the code would have evaluated it. `Tree` builds operations of up to three
arguments, which is what drafts grow by; `IsExpression`, from which soundness is
proved, has no such limit.

### The services and the code

* `DeadLetterPublisher`: `call` says where a task's `publish` stands (in `flush`,
  or waiting for the future); a `Ticket` names one call, and with it the future
  its callback belongs to. `Produce`/`ProduceRaises` are the outcomes of `produce`
  (a full queue or any other exception),
  `FlushReturns` the end of `flush` for either reason, `OnDelivery` the callback,
  `Settle` the function it schedules, `Return` and `Raise` the ends of `publish`, a
  cancellation included. External: librdkafka's queue, the broker's
  acknowledgement, and failures that do not tell whether the letter is, or will
  be, stored (`FailDelivery`, `LandLetter`).
* `ReplayDlq`: one partition of the dead-letter topic and one run after another
  of `main`'s loop: `List` (`--dry-run`), `Skip` (no source topic), or
  `Republish`, `Flush`, `Commit`. `End` is every way out of the loop, a kill
  included. External: the producer, which reports a letter as delivered or as
  failed or leaves it outstanding; `flush` counts only the last kind. A letter
  left outstanding, or reported as failed by a client that gave up on a request,
  may still arrive (`LandLate`).
* `BatchSummary`: `created_at` is the database's `now()`, the start of the
  transaction, so `Add` (the instant a row carries) and `CommitDecision` (when it
  becomes visible) are two steps. `Count` and `Group` are the two statements of
  `summarize_transactions`, each with what is visible at its own time. `Wake` and
  `Once` start a run, `FailRun` is an exception, `Stop` a signal or a crash. A
  time of day is a multiple of `Day` on the process's own clock (`Clock`), which is
  `Skew` away from the database's, by which rows are created and transactions begin.
  `asked` and `delay` are when the process began to wait and what
  `seconds_until_next_run` told it.
* `JwksVerifier`: a thread of the API's pool looks a kid up without the lock
  (`Lookup`), then waits for it and decides again (`Locked`). A fetch holds the
  lock; the provider answers with the keys of some instant during it (`Answer`).
  `FetchTime` bounds a fetch; httpx limits each of its phases to 5 s, so this is
  an assumption on the provider. A token without a kid changes nothing and is left out.
* `RateLimiter`: `Deny` is every 401 and 403 before the limiter; `Enforce` the head
  of `enforce` (clock and key); `Charge` the `MULTI` of `INCR` and `EXPIRE` at
  Redis, also after the client stopped waiting; `Answer` the 429 or not; `FailOpen`
  any exception. `charged` is a history variable, the instant of the `INCR`.
  `FlightTime` (the client's socket timeout), `Spread` (how far clocks differ) and
  `KeySlack` (what `EXPIRE` adds to the window) are independent of each other: a
  counter may be gone when a request of its window arrives.
  `Retry-After` and the hash of the subject are layout.
* `Pagination`: a row is its sort key. A query's answer is described by what it
  contains (`IsResult`: newest first, and only older rows than those are left out by the
  limit), not by how PostgreSQL finds it. The filters of a walk stay the same and
  read immutable columns, so they only choose `Row`; the cursor's encoding
  restores the same key, and a token that cannot be decoded is refused without
  effect. A corrupt stored version makes the version list fail as a whole, and
  is left out.

## 3. Runs

| Run | Instance | Shows |
|---|---|---|
| `handover` | 2 workers, 1 partition, 2 messages with one id and different data, watermark 1, 1 fault, 1 surprise, 2 rebalances/crashes | `TypeOK`, `NoLoss`, `InOrder`, `NoStuckPause`, `BacklogBounded`, `AuditExact`, `PermanentNotRecorded`, `FirstDecisionWins`, `CommitNeverBackward`, `ImplementsContract` |
| `race` | 2 sessions, 2 partitions: one user's three events out of time order, a message that does not parse, then one of their ids with other data, published twice; 2 rule sets with windows 1 and 0, 1 message given up | `TypeOK`, `ExistingFound`, `ResultTrue`, `VelocityExact`, `ImplementsContract` |
| `progress` | 2 workers, a message that is not JSON before a good one, fairness, 1 fault, 2 surprises (a message is given up after 2), 1 churn | `OutageNeverDeadLetters`, `EveryMessageHandled` |
| `staleness` | 1 pod with 2 tasks, 2 publishers, 2 versions, local TTL 1, Redis TTL 2, delay 0, time 4 | `TypeOK`, `StalenessBound`, `VersionHistory` |
| `rule_soundness` | every expression of depth ≤ 3 over 17 leaves, 4 fillers and all operators; numbers up to 4; 32 events | `TypeSound`, `ScoringNeverFails` |
| `replay` | 2 tasks with 2 letters and 1, three calls of the first or one of each, a queue of 1, a letter of other origin; batches of 2, 2 runs | `TypeOK`, `ReturnedStored`, `NothingPassedOver`, `OrderKept`, `ReplayInSourceOrder` |
| `readers` | 2 decisions, day 3, window 5, a clock 1 ahead, transactions, runs and wake-ups up to 1 late, time 7; 4 ids, 2 timestamps (ties), pages of 2, 4 versions, 4 pages | `TypeOK`, `NothingBetweenRuns`, `BreakdownCoversTotal`, `PageTypeOK`, `CompleteWalk`, `CompleteVersionWalk` |
| `rotation` | 2 threads, 2 keys, interval 2, fetches up to 1, time 4 | `TypeOK`, `RotationNoticed`, `SuccessThrottles` |
| `rate_limit` | 3 requests, 2 callers, 2 replicas a tick apart, budget 1, window 2, slack 1, flights up to 2, time 4 | `TypeOK`, `BudgetHolds`, `WindowBudget`, `LimitDeserved` |
| `long_outage` | violation of `RetriesForever` | finding 1 |
| `prompt_switch` | violation of `PromptSwitch` | finding 2 |
| `late_charge` | violation of `TwoBudgets`: 3 requests of one caller, one clock, budget 1, in ticks of half a second window 4, slack 2 (the code's second), flights up to 4 (the default timeout), time 7 | finding 3 |

**Bounds.** Environment events that could happen for ever (`MaxFaults`,
`MaxSurprises`, `MaxChurn`, `MaxGiveUps`, `MaxTries`, `MaxTime`, `MaxVersion`,
`MaxRuns`, `MaxReports`, `MaxPages`) are capped in guards. Two
workers and two churns cover a handover, a handover back, and a crash in the
middle of one; two messages are enough for order and for a commit that would
pass one; a watermark of 1 makes its half zero, the sharp case for resuming, and
a second message would pass it if the pause came late. Two tasks of one
pod are enough for a write-back and an out-of-order return; pods share only the
Redis entry, and the proof covers any number of them. With TTLs of 1 and 2 the staleness bound is 3, and `MaxTime` 4 lets a
copy pass it; the mutant with a lasting Redis entry is caught there. A delay of 0
still lets every step of the others come between two steps of a call, within one
instant; flights that last are in `prompt_switch` (delay 1) and, for any delay,
in the proof. The rule limits
(24 deep, 400 nodes) are scaled to 3 and 6; one leaf is already too deep. Numbers
of at most 4 let a rule set pass its dry run with the amount 2 and overflow on an event. Two
sessions are the holder of a key and the one that waits; the three events of one
user give a predecessor inside the window, one outside by its later event time,
and one exactly at its end. Three calls of `publish` by one task let a report outlive
its call, a retry succeed, and a later letter follow the retried one; one call of
each task lets a queue of 1 fill with another's letter. Two replay runs of two
letters each interrupt, repeat and finish. In `rate_limit` flights and clock
difference exceed the slack, as the code's do, so that a counter of a window of
two dies between two of its charges (`Lives` is 2). Two
reports are one pair of neighbouring windows; two threads are a fetch and a
waiter, and time 4 passes the interval and a fetch (`RotationNoticed`'s bound of
3); four ids give two full pages and a row that arrives in between.

**Deadlock.** The worker runs end when the log is consumed, every fault is spent
and the fleet idles, a rule draft ends refused, and replay runs, pages and
requests run out: `CHECK_DEADLOCK FALSE` there. The session, cache and key
runs check deadlock. For sessions this says little, since one that waits for
another's key may always fail instead; that they never wait in a circle is the
theorem `WaitsAreOrdered`.

**Fairness** (`FairSpec`, used by `progress` and `long_outage`): weak fairness
on polling and on a task's ready steps (asyncio runs every ready task; backoffs
are timers), on the end of a callback whose tasks are over, on learning of an
eviction, on restarts by the orchestrator, and on the broker's handing out free
partitions and expiring dead members. No failure, rebalance or late request is
fair, and neither are the drain timeout and the background commit: progress does
not depend on them.

**Findings**

1. *A long outage kills a partition's task* (`app/worker.py:88`).
   `retry_delay` computes `initial * 2 ** (attempt - 1)` before capping it and
   raises `OverflowError` from attempt 1025 on. The call stands in an `except`
   clause that nothing encloses, so the task ends; the module's docstring
   promises retries "indefinitely". With a cap of 30 s this takes
   several hours of failing. `BackoffLimit` is that number in the model; 2 in the run.
   All other properties are checked and proved with the dying task in the model.
2. *A write-back can undo a publication's cache overwrite* (`app/cache.py:149`).
   A task that read the previous version from PostgreSQL just before the
   publication writes it over the publisher's entry. Workers then lag up to
   the two TTLs even though "that Redis write" succeeded, which the README
   excludes. `StalenessBound` shows that it gets no worse than that. A pod may even go from the
   new version back to the old one.
3. *A late request meets an expired counter* (`app/rate_limit.py:63`). The docstring
   says a caller can "briefly reach 2x the limit across a window boundary". The key
   of a window lives its length and one second from its last charge, while a
   request may reach Redis up to `redis_socket_timeout_seconds` (2.0 by default,
   `app/settings.py:76`) after its window was fixed. If nothing else is charged in
   between, a request late in the window finds the key gone and is counted from one:
   with the window before and the one after the boundary, three budgets in a
   stretch of one window's length. `WindowBudget` shows that it stays at
   two for one window at the default settings, and the theorem `EnoughSlack` that a
   slack of a flight and the clocks' spread would make the docstring true. With
   clocks apart, a stretch of real time may also touch three windows; `TwoBudgets`
   counts by the replicas' clocks.

Also noticed, where the code and its words differ but no run refutes the words:

* `app/database.py:513` says consecutive daily runs count every decision "exactly
  once". A window has no upper end: what is added between the start of a run and
  its count is counted again the next day, and runs that start late leave gaps.
  `NothingBetweenRuns` gives the overlap that rules out a miss.
* `app/security.py:71` says keys are fetched "at most once" per interval. The time
  is remembered only when a fetch succeeds (line 96), so while the provider is down
  every unknown kid fetches. `SuccessThrottles` states what does hold.
* `scripts/replay_dlq.py:5` says offsets are committed "only after each message is
  re-published". `flush` (line 60) returns the number of letters still outstanding,
  0 for one whose delivery failed, and no callback is given: a letter the broker
  refused is committed and counted as replayed. `NothingPassedOver` shows that
  refused letters are the only ones passed over.
* `app/processing.py:60` says "replays and consumer lag do not change the result".
  `VelocityExact` shows it for messages handled in turn. A message that was
  dead-lettered and is recorded late, or replayed, comes after its successors, which
  were scored without it, and may count them by event time.
* `app/rules.py:265` calls a comparison of a boolean with a number one that "can
  never be equal"; `_equals(True, 1)` holds. Refusing it is right, and needed for
  `TypeSound`.
* `app/rules.py:427` says "Static checks cannot catch type errors", which the dry
  run is there for. `DryRunAddsOverflowOnly` shows that it finds none that
  `validate_expression` has let through.
* `README.md:332` says that "a broken rule is rejected with a 422 instead of
  failing live transactions". That holds for everything but arithmetic: a rule that
  multiplies literals of thousands of digits with a field can pass the dry run and
  raise on some events (`app/rules.py:345`). `ScoringNeverFails` says that nothing
  else can, and the run contains such a rule.
* `app/dlq.py:120` says the delivery callback "has run or never will" after
  `flush`, which a flush that timed out does not ensure; the model lets such a
  letter arrive, and its report be served, late, and `ReturnedStored` and
  `ReplayInSourceOrder` hold all the same.

## 4. Proofs

All theorems hold for any sets of workers, partitions, messages, sessions, pods,
tasks, requests, threads and keys, any log and any settings. Most assumptions only
type the constants and ask for positive sizes (`LogAssumption`, `WorkerAssumption`,
`SessionAssumption`, `CacheAssumption`, `PublisherAssumption`, `ReplayAssumption`,
`JwksAssumption`, `BatchAssumption`, `PageAssumption`, `LimiterAssumption`, and `RuleAssumption`: events have the
required variables, of their declared types, as the event's schema ensures, and
expressions are trees). One says more: `KeyedByUser` (producers key
messages by user, so a user's events are in one partition, which
`app/worker.py` relies on). The timed models also take the bounds `OpDelay`,
`FetchTime`, `OpenTime` and `FlightTime` on what is under way from their actions'
guards.

* **Fleet** (`FraudWorkerProofs`). `NoLoss` is not inductive: that an offset may
  be committed depends on where it came from. `Inv` follows it back: a
  committed offset was stored by the owner (`OwnerInv`); a stored offset follows
  a handled message (`OrderInv`); a task's message follows everything handled;
  the queue holds consecutive offsets that end at the fetch position
  (`QueueInv`), which began at the committed offset. `LetterInv` and `LateInv`
  carry the justification of dead letters and the order of abandoned requests;
  both survive because conflicts, audit rows and letters are never undone
  (`Monotone`, over `StoreGrows`). One lemma per
  action; `HandleStep` and `TaskStep` are the shared parts. From `Invariance`
  follow `TypeCorrect`, `NothingLost`, `HandledInOrder`, `AuditTrailExact`,
  `DeadLettersJustified`, `PermanentLettersUnrecorded`, `DecisionsStand`, `CommitsMoveForward` and
  `FleetImplementsContract`: every step maps to a contract step or a stutter,
  including the late requests of workers that are gone.
  Backpressure is an invariant of its own on top (`PauseInv`): a partition that is
  not paused is below the watermark, and a slot is told to stop only while its poll
  thread stands in a callback, so nothing is queued behind the wake-up mark.
  `QueuesBounded` and `PausesEnd` follow.
* **Sessions** (`ProcessingProofs`). Every step but `Commit` leaves the committed
  rows alone. `UniqueRows` and `UniqueAudit` range over uncommitted rows too, since
  an uncommitted row holds its key; `RowInv` and `AuditRowInv` say what a session
  has written or found, `MessageInv` what it knows of its message. All of it stays
  true while others commit, because committed rows and letters are never removed.
  `WaitsAreOrdered` follows from the types: a session that holds a row stands at its
  audit insert or later, one that holds an audit row at its commit.
  `RereadFinds`, `AnswersTrue` and `SessionsImplementContract` follow: a `Commit` is
  the contract's `Decide`, everything else but a dead letter a stutter. For
  `VelocityIsExact`, `VInv` adds that a scored session's count is the one its message
  deserves. It stays so because whatever is recorded later among the
  predecessors of a message whose turn has come was dead-lettered, and those are
  excepted. What the fleet's model shows of the atomic `record_decision` holds of its
  statements too: `SessionsAuditExact` from the same invariant, and through the contract
  `SessionsPermanentNotRecorded` and `SessionsDecisionsStand`.
* **Cache** (`RuleSetCacheProofs`). Each copy carries a bound on when its
  version was last the active one: a row read at `t` was active at `t`, an
  entry at most one flight before it was set, a call's answer and a pod's copy
  one TTL and one flight later. `Inv` states these per place (`EntryInv`, `CallInv`,
  `CopyInv`, `RequestInv`) with the history they need (`HistoryInv`:
  a publisher that read `n` finds all of `1..n` there when it inserts `n + 1`).
  `HistoryIsLinear` and `StalenessBounded` follow.
* **Dead letters and replay** (`ReplayDlqProofs`). A report concerns the current
  letter of its task only while the call its ticket names is the current one, and
  reports success only of a stored letter (`QueueInv`, `WakeupInv`, `FutureInv`):
  `PublishedIsStored`. So a letter is first queued when its predecessors are stored
  (`StoredInOrder`), however late it lands. On the replay's side, what a run has
  gone past, what it holds and what is committed have all their predecessors
  re-published, refused or without a source topic (`PollInv`, `HandInv`,
  `LatePassed`): `ReplayPassesNothing` and `ReplayKeepsOrder`. The two orders
  together give `SourceOrderRestored`.
* **Rate limit** (`RateLimiterProofs`). Two requests charged to one key less than
  its life apart got different replies (`Distinct`), because every charge renews the
  expiry; and a reply of `n` has all smaller numbers before it (`Dense`). So the
  admitted requests of a window charged within one life inject into `1..MaxRequests`
  (`BudgetKept`). The charges of a window span at most its length, the spread and a
  flight (`ChargeSpan`), which `Lives` stretches of a key's life cover:
  `WindowBudgetKept`, as an admitted request is determined by its stretch and its
  reply. Nothing is assumed of
  flights against slack; `EnoughSlack` is the docstring's claim under that condition.
  A refused request has as many others of its own caller before it as the budget
  (`RefusalsDeserved`).
* **Keys** (`JwksVerifierProofs`). What the key set lacks was published no earlier
  than `FetchTime` before the last successful fetch (`KeysInv`), and a refusal is given
  within the interval of such a fetch: `RotationsNoticed`. `FetchesInv`
  orders past fetches against the lock's holder: `SuccessesThrottle`.
* **Rules** (`RuleEngineProofs`). The heart is `NodeSound`: whatever a node's
  arguments are, if its check accepts their types, it evaluates to a value of the
  type the check gave it, or passes on the overflow of an argument it evaluated, or
  overflows itself. It is a case per kind of node, with `EagerResult`, `LazyResult`
  and `CallResult` for what operators have in common. `ExpressionSound` lifts it to
  expressions of any size: both recursions satisfy their equations
  (`FixedPoint`) because arguments stand before their node (`ArgsLocal`), and a least
  position where soundness failed would contradict `NodeSound` (`UpTo`, the induction over
  positions, by the least element of a set). `EngineInv` says that drafts are
  well-formed, whatever they grow by, and that what is published was validated.
  `TypeSoundness`, `PublishedRulesScore` and `DryRunAddsOverflowOnly` follow.
* **Paging** (`ReaderProofs`). The cursor is the last row listed, so whatever was
  stored when the walk began is listed or below the cursor (`WalkInv`); a query
  that leaves out rows is full and leaves out only what is below its last row, and
  the extra row is what tells. Rows inserted above the cursor do not matter, those
  below join the list in their place. For versions, the list is a run of
  consecutive numbers down to the next `before_version` (`VersionInv`).
  `PagesTypeCorrect`, `WalksComplete` and `VersionWalksComplete` follow.
  As the model describes a query by its answer, `QueryAnswered` proves that there
  always is one: over finitely many rows, an answer to a limit is extended to the
  next limit by the newest row it leaves out.
* **Summary** (`ReaderProofs`). The delay worked out is at least one, at most a day,
  and leads to a time of day also from that very instant (`NextDelay`), which is
  what `SummaryTypeCorrect` needs. A row not visible yet is at most `OpenTime`
  old, so a count has every row of its window created `OpenTime` before it
  (`CountInv`); with two counts a row is old enough for the first or young enough
  for the second: `NoDecisionBetweenRuns`. `BreakdownsCover` holds as rows in a window
  stay there.

Only model-checked: liveness (`EveryMessageHandled`; fairness is outside the
prover's reach). The three runs that expect a violation show counterexamples, which
need no proof. Every other property of every run is also a theorem.

## 5. Plan

Done: decision store, contract, worker and their proofs; rule cache and versions
with proofs; rule engine; the services; the statements of `record_decision`
as sessions that refine the contract, the dead-letter publisher and the replay
composed with it, the rate limiter, and theorems for all of these; then type
soundness of the rule language and completeness of the paginated walks as theorems.

Next, in this order:

1. `ReplayDlq` composed with `PipelineContract`: a replayed letter is a new message
   at the end of its partition and adds at most what that could, also when the
   dead-lettered one was recorded late.
2. Staleness as a refinement of an abstract "version active at some recent time"
   register, and scoring against it.

Not modelled: HTTP layer, schemas, logging, metrics and health files (no state
another part reads); settings (their limits are the modules' assumptions);
migrations (their constraints are in the models); the precision of
`Decimal`; the worker's timer for being outside the group, which only decides
when `Shutdown` happens; the timeout of `_run_on_loop`, which is longer than the
drain's and matters only if the event loop itself hangs.
