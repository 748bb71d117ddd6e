---------------------------- MODULE FraudWorker ----------------------------
(***************************************************************************)
(* The Kafka worker fleet (app/worker.py) over the decision store.         *)
(*                                                                         *)
(* Each worker process runs a poll loop and one asyncio task per assigned  *)
(* partition.  A slot <<w, p>> is the _PartitionState worker w keeps for   *)
(* partition p together with the local variables of its task (the loops    *)
(* of _consume_partition and _handle).  librdkafka calls the rebalance     *)
(* callbacks on the poll thread, which blocks until the event loop has     *)
(* stopped the tasks; phase[w] is where that thread stands.                *)
(*                                                                         *)
(* The broker (external) keeps the committed offsets and who owns each     *)
(* partition, and fences commits of anyone else.  A database transaction   *)
(* or a produce request whose client stopped waiting (crash, cancellation, *)
(* lost acknowledgement) may still take effect later, or never.            *)
(***************************************************************************)
EXTENDS DecisionStore

CONSTANTS
    Worker,         \* worker processes
    Nobody,         \* owner of an unassigned partition
    HighWatermark,  \* WORKER_PARTITION_HIGH_WATERMARK
    MaxUnexpected,  \* WORKER_MAX_UNEXPECTED_ERROR_ATTEMPTS
    BackoffLimit,   \* last attempt retry_delay can compute a delay for (1024)
    MaxFaults,      \* bound: transient failures and failed DLQ publishes
    MaxSurprises,   \* bound: unexpected failures
    MaxChurn        \* bound: revocations, shutdowns, crashes and evictions

ASSUME WorkerAssumption ==
    /\ Nobody \notin Worker
    /\ HighWatermark \in Nat \ {0}
    /\ MaxUnexpected \in Nat \ {0}
    /\ BackoffLimit \in Nat
    /\ MaxFaults \in Nat /\ MaxSurprises \in Nat /\ MaxChurn \in Nat

Slot == Worker \X Partition
Wake == 0           \* the None that _stop_partitions queues; offsets start at 1

VARIABLES
    \* the process
    phase,          \* phase[w]: polling, in on_revoke or on_lost, draining, down
    \* the slot: _PartitionState and the locals of its task
    pc,             \* where the task stands; "none" when the slot does not exist
    queue,          \* state.queue: offsets
    stopping,       \* state.stopping
    paused,         \* state.paused
    cur,            \* the message _handle is working on
    attempt,        \* _handle's attempt
    unexpected,     \* _handle's unexpected_failures
    letter,         \* the class of _handle's pending_letter, "none" without one
    \* the consumer client, per assigned partition
    position,       \* next offset to fetch
    stored,         \* offset given to store_offsets, 0 if none
    \* the broker
    committed, owner,
    \* requests nobody waits for any more
    lateWrites,     \* record_decision transactions
    lateLetters,    \* produce requests to the DLQ
    \* what the environment has spent of its bounds
    faults, surprises, churn

taskVars == <<cur, attempt, unexpected, letter>>
clientVars == <<position, stored>>
slotVars == <<pc, queue, stopping, paused, taskVars, clientVars>>
brokerVars == <<committed, owner>>
lateVars == <<lateWrites, lateLetters>>
boundVars == <<faults, surprises, churn>>
vars == <<storeVars, phase, slotVars, brokerVars, lateVars, boundVars>>

Phase == {"polling", "revoking", "losing", "draining", "down"}
PC == {"none", "get", "process", "publish", "handled", "backoff", "done", "dead"}

LateWrite == [source : Source, verdict : Verdict]

\* Every variable has the values the code can give it.
TypeOK ==
    /\ StoreTypeOK
    /\ phase \in [Worker -> Phase]
    /\ pc \in [Slot -> PC]
    /\ queue \in [Slot -> Seq(Nat)]
    /\ stopping \in [Slot -> BOOLEAN]
    /\ paused \in [Slot -> BOOLEAN]
    /\ cur \in [Slot -> Nat]
    /\ attempt \in [Slot -> Nat]
    /\ unexpected \in [Slot -> Nat]
    /\ letter \in [Slot -> {"none", "permanent", "unexpected"}]
    /\ position \in [Slot -> Nat]
    /\ stored \in [Slot -> Nat]
    /\ committed \in [Partition -> Nat]
    /\ owner \in [Partition -> Worker \cup {Nobody}]
    /\ lateWrites \subseteq LateWrite
    /\ lateLetters \subseteq DeadLetter
    /\ faults \in Nat /\ surprises \in Nat /\ churn \in Nat

Init ==
    /\ StoreInit
    /\ phase = [w \in Worker |-> "polling"]
    /\ pc = [s \in Slot |-> "none"]
    /\ queue = [s \in Slot |-> <<>>]
    /\ stopping = [s \in Slot |-> FALSE]
    /\ paused = [s \in Slot |-> FALSE]
    /\ cur = [s \in Slot |-> 0]
    /\ attempt = [s \in Slot |-> 0]
    /\ unexpected = [s \in Slot |-> 0]
    /\ letter = [s \in Slot |-> "none"]
    /\ position = [s \in Slot |-> 0]
    /\ stored = [s \in Slot |-> 0]
    /\ committed = [p \in Partition |-> 1]
    /\ owner = [p \in Partition |-> Nobody]
    /\ lateWrites = {}
    /\ lateLetters = {}
    /\ faults = 0 /\ surprises = 0 /\ churn = 0

-----------------------------------------------------------------------------
Held(w) == { p \in Partition : pc[<<w, p>>] # "none" }
Busy(s) == pc[s] \in {"process", "publish", "handled", "backoff"}
Ended(s) == pc[s] \in {"done", "dead"}
Current(s) == <<s[2], cur[s]>>

\* The member no longer owns what it still works on, and has not been told.
Evicted(w) == \E p \in Held(w) : owner[p] # w

\* Mutant: a committed offset is taken for the last handled message.
Assign_skips(w, p) ==
    LET s == <<w, p>>
    IN  /\ phase[w] = "polling"
        /\ owner[p] = Nobody
        /\ pc[s] = "none"
        /\ ~Evicted(w)
        /\ owner' = [owner EXCEPT ![p] = w]
        /\ pc' = [pc EXCEPT ![s] = "get"]
        /\ position' = [position EXCEPT ![s] = committed[p] + 1]
        /\ UNCHANGED <<storeVars, phase, queue, stopping, paused, taskVars, stored,
                       committed, lateVars, boundVars>>

(***************************************************************************)
(* Partitions arrive: _on_assign, _start_partitions.  Fetching starts at   *)
(* the committed offset.                                                   *)
(***************************************************************************)
Assign(w, p) ==
    LET s == <<w, p>>
    IN  /\ phase[w] = "polling"
        /\ owner[p] = Nobody
        /\ pc[s] = "none"
        /\ ~Evicted(w)
        /\ owner' = [owner EXCEPT ![p] = w]
        /\ pc' = [pc EXCEPT ![s] = "get"]
        /\ position' = [position EXCEPT ![s] = committed[p]]
        /\ UNCHANGED <<storeVars, phase, queue, stopping, paused, taskVars, stored,
                       committed, lateVars, boundVars>>

\* Mutants: the watermarks off by one.
ShouldPause_late(backlog) == backlog > HighWatermark
ShouldResume_late(backlog) == backlog < HighWatermark \div 2

ShouldPause(backlog) == backlog >= HighWatermark
ShouldResume(backlog) == backlog <= HighWatermark \div 2

\* Mutant: enable.auto.offset.store, the offset is stored when poll returns it.
Poll_autostore(s) ==
    /\ phase[s[1]] = "polling"
    /\ pc[s] # "none"
    /\ ~paused[s]
    /\ position[s] <= Len(Log[s[2]])
    /\ queue' = [queue EXCEPT ![s] = Append(@, position[s])]
    /\ position' = [position EXCEPT ![s] = @ + 1]
    /\ stored' = [stored EXCEPT ![s] = position[s] + 1]
    /\ paused' = [paused EXCEPT ![s] = ShouldPause(Len(queue[s]) + 1)]
    /\ UNCHANGED <<storeVars, phase, pc, stopping, taskVars,
                   brokerVars, lateVars, boundVars>>

(***************************************************************************)
(* poll returns the next message of a partition that is not paused and     *)
(* _dispatch queues it; no callback can run between the two.               *)
(***************************************************************************)
Poll(s) ==
    /\ phase[s[1]] = "polling"
    /\ pc[s] # "none"
    /\ ~paused[s]
    /\ position[s] <= Len(Log[s[2]])
    /\ queue' = [queue EXCEPT ![s] = Append(@, position[s])]
    /\ position' = [position EXCEPT ![s] = @ + 1]
    /\ paused' = [paused EXCEPT ![s] = ShouldPause(Len(queue[s]) + 1)]
    /\ UNCHANGED <<storeVars, phase, pc, stopping, taskVars, stored,
                   brokerVars, lateVars, boundVars>>

-----------------------------------------------------------------------------
\* queue.get() returned: a message for _handle ...
Take(s) ==
    /\ pc[s] = "get"
    /\ queue[s] # <<>>
    /\ Head(queue[s]) # Wake
    /\ ~stopping[s]
    /\ pc' = [pc EXCEPT ![s] = "process"]
    /\ queue' = [queue EXCEPT ![s] = Tail(@)]
    /\ cur' = [cur EXCEPT ![s] = Head(queue[s])]
    /\ attempt' = [attempt EXCEPT ![s] = 1]
    /\ unexpected' = [unexpected EXCEPT ![s] = 0]
    /\ letter' = [letter EXCEPT ![s] = "none"]
    /\ UNCHANGED <<storeVars, phase, stopping, paused, clientVars,
                   brokerVars, lateVars, boundVars>>

\* ... or the wake-up call, or anything once stopping is set: leave the loop.
Quit(s) ==
    /\ pc[s] = "get"
    /\ queue[s] # <<>>
    /\ Head(queue[s]) = Wake \/ stopping[s]
    /\ pc' = [pc EXCEPT ![s] = "done"]
    /\ UNCHANGED <<storeVars, phase, queue, stopping, paused, taskVars, clientVars,
                   brokerVars, lateVars, boundVars>>

\* process() parses, scores and records; its transaction commits.
Record(s) ==
    /\ pc[s] = "process"
    /\ \E v \in Verdict : record_decision(Current(s), v)
    /\ pc' = [pc EXCEPT ![s] = "handled"]
    /\ UNCHANGED <<dlq, phase, queue, stopping, paused, taskVars, clientVars,
                   brokerVars, lateVars, boundVars>>

\* The head of _handle's loop: another pass, or abandon the message for redelivery,
\* which leaves through the end of _consume_partition's loop.
NextPass(s, step) ==
    /\ pc' = [pc EXCEPT ![s] = IF stopping[s] THEN "done" ELSE step]
    /\ attempt' = [attempt EXCEPT ![s] = IF stopping[s] THEN @ ELSE @ + 1]
    /\ paused' = [paused EXCEPT ![s] = @ /\ ~(stopping[s] /\ ShouldResume(Len(queue[s])))]

\* Mutant: the letter is published without its failure class.
Reject_unclassified(s) ==
    /\ pc[s] = "process"
    /\ Unrecordable(Current(s))
    /\ NextPass(s, "publish")
    /\ UNCHANGED <<storeVars, phase, queue, stopping, cur, unexpected, letter,
                   clientVars, brokerVars, lateVars, boundVars>>

\* PERMANENT: the payload is refused, or the stored row differs.
Reject(s) ==
    /\ pc[s] = "process"
    /\ Unrecordable(Current(s))
    /\ letter' = [letter EXCEPT ![s] = "permanent"]
    /\ NextPass(s, "publish")
    /\ UNCHANGED <<storeVars, phase, queue, stopping, cur, unexpected, clientVars,
                   brokerVars, lateVars, boundVars>>

(***************************************************************************)
(* retry_delay multiplies a float by 2 ** (attempt - 1), which raises      *)
(* OverflowError from attempt 1025 on; nothing catches it and the          *)
(* partition's task ends.                                                  *)
(***************************************************************************)
RetryDelayDefined(n) == n <= BackoffLimit
BackOff(s) == pc' = [pc EXCEPT ![s] = IF RetryDelayDefined(attempt[s]) THEN "backoff" ELSE "dead"]

\* A request that was under way when its client stopped waiting for it.
AbandonWrite(s) ==
    \E v \in Verdict :
        lateWrites' = lateWrites \cup {[source |-> Current(s), verdict |-> v]}

\* TRANSIENT: a dependency is down, or answered too late.
FailTransient(s) ==
    /\ pc[s] = "process"
    /\ MessageAt(Current(s)).valid
    /\ faults < MaxFaults
    /\ faults' = faults + 1
    /\ AbandonWrite(s)
    /\ BackOff(s)
    /\ UNCHANGED <<storeVars, phase, queue, stopping, paused, taskVars, clientVars,
                   brokerVars, lateLetters, surprises, churn>>

\* Mutant: dead-letters one failure early.
GivesUp_early(n) == n + 1 >= MaxUnexpected

GivesUp(n) == n >= MaxUnexpected

(***************************************************************************)
(* UNEXPECTED: retried, and dead-lettered at the last permitted failure.   *)
(* parse_transaction_event may raise something else than InvalidEventError *)
(* for a bad payload; no request is under way then.                        *)
(***************************************************************************)
FailUnexpected(s) ==
    /\ pc[s] = "process"
    /\ surprises < MaxSurprises
    /\ surprises' = surprises + 1
    /\ IF MessageAt(Current(s)).valid THEN AbandonWrite(s) ELSE UNCHANGED lateWrites
    /\ unexpected' = [unexpected EXCEPT ![s] = @ + 1]
    /\ IF GivesUp(unexpected[s] + 1)
       THEN /\ letter' = [letter EXCEPT ![s] = "unexpected"]
            /\ NextPass(s, "publish")
       ELSE /\ BackOff(s)
            /\ UNCHANGED <<letter, attempt, paused>>
    /\ UNCHANGED <<storeVars, phase, queue, stopping, cur, clientVars,
                   brokerVars, lateLetters, faults, churn>>

PendingLetter(s) == [source |-> Current(s), class |-> letter[s]]

\* publish() returned: the DLQ broker acknowledged the letter.
Publish(s) ==
    /\ pc[s] = "publish"
    /\ dlq' = dlq \cup {PendingLetter(s)}
    /\ pc' = [pc EXCEPT ![s] = "handled"]
    /\ UNCHANGED <<transactions, history, phase, queue, stopping, paused, taskVars,
                   clientVars, brokerVars, lateVars, boundVars>>

\* publish() raised: only the publish is tried again.
FailPublish(s) ==
    /\ pc[s] = "publish"
    /\ faults < MaxFaults
    /\ faults' = faults + 1
    /\ lateLetters' = lateLetters \cup {PendingLetter(s)}
    /\ BackOff(s)
    /\ UNCHANGED <<storeVars, phase, queue, stopping, paused, taskVars, clientVars,
                   brokerVars, lateWrites, surprises, churn>>

\* Mutant: after a failure the message counts as done.
Retry_never(s) ==
    /\ pc[s] = "backoff"
    /\ pc' = [pc EXCEPT ![s] = "handled"]
    /\ UNCHANGED <<storeVars, phase, queue, stopping, paused, taskVars,
                   clientVars, brokerVars, lateVars, boundVars>>

\* The backoff ends, by its timeout or because stopping was set.
Retry(s) ==
    /\ pc[s] = "backoff"
    /\ NextPass(s, IF letter[s] = "none" THEN "process" ELSE "publish")
    /\ UNCHANGED <<storeVars, phase, queue, stopping, cur, unexpected, letter,
                   clientVars, brokerVars, lateVars, boundVars>>

(***************************************************************************)
(* _handle returned True: store the offset after the message (refused by   *)
(* the client when the partition was lost meanwhile), resume the partition *)
(* if its backlog has shrunk, and go round the loop.                       *)
(***************************************************************************)
Finish(s) ==
    /\ pc[s] = "handled"
    /\ \/ stored' = [stored EXCEPT ![s] = cur[s] + 1]
       \/ owner[s[2]] # s[1] /\ UNCHANGED stored
    /\ paused' = [paused EXCEPT ![s] = @ /\ ~ShouldResume(Len(queue[s]))]
    /\ pc' = [pc EXCEPT ![s] = IF stopping[s] THEN "done" ELSE "get"]
    /\ UNCHANGED <<storeVars, phase, queue, stopping, taskVars, position,
                   brokerVars, lateVars, boundVars>>

-----------------------------------------------------------------------------
(***************************************************************************)
(* Offsets reach the broker.  consumer.commit and close send every stored  *)
(* offset of the member, the background commit one partition's; the broker *)
(* refuses partitions the member does not own.                             *)
(***************************************************************************)
CommitStored(w, P) ==
    committed' = [p \in Partition |->
                    IF p \in P /\ owner[p] = w /\ stored[<<w, p>>] # 0
                    THEN stored[<<w, p>>] ELSE committed[p]]

AutoCommit(s) ==
    /\ phase[s[1]] # "down"
    /\ stored[s] # 0
    /\ owner[s[2]] = s[1]
    /\ stored[s] # committed[s[2]]
    /\ CommitStored(s[1], {s[2]})
    /\ UNCHANGED <<storeVars, phase, slotVars, owner, lateVars, boundVars>>

\* Mutant: the queue is emptied but the idle task is not woken.
StopPartitions_silent(w, P) ==
    /\ stopping' = [s \in Slot |-> stopping[s] \/ (s[1] = w /\ s[2] \in P)]
    /\ queue' = [s \in Slot |-> IF s[1] = w /\ s[2] \in P THEN <<>> ELSE queue[s]]

\* The head of _stop_partitions: set stopping, empty the queue, wake the task.
StopPartitions(w, P) ==
    /\ stopping' = [s \in Slot |-> stopping[s] \/ (s[1] = w /\ s[2] \in P)]
    /\ queue' = [s \in Slot |-> IF s[1] = w /\ s[2] \in P THEN <<Wake>> ELSE queue[s]]

Spend == churn < MaxChurn /\ churn' = churn + 1

\* A cooperative rebalance takes some partitions: on_revoke.
Revoke(w, P) ==
    /\ phase[w] = "polling"
    /\ P # {} /\ P \subseteq Held(w)
    /\ ~Evicted(w)
    /\ Spend
    /\ phase' = [phase EXCEPT ![w] = "revoking"]
    /\ StopPartitions(w, P)
    /\ UNCHANGED <<storeVars, pc, paused, taskVars, clientVars,
                   brokerVars, lateVars, faults, surprises>>

\* The group drops a member that still runs (a long pause, a network split) ...
Evict(w) ==
    /\ \E p \in Partition : owner[p] = w
    /\ phase[w] # "down"
    /\ Spend
    /\ owner' = [p \in Partition |-> IF owner[p] = w THEN Nobody ELSE owner[p]]
    /\ UNCHANGED <<storeVars, phase, slotVars, committed, lateVars, faults, surprises>>

\* ... and the member learns of it at a later poll: on_lost.
Lose(w) ==
    /\ phase[w] = "polling"
    /\ Evicted(w)
    /\ phase' = [phase EXCEPT ![w] = "losing"]
    /\ StopPartitions(w, Held(w))
    /\ UNCHANGED <<storeVars, pc, paused, taskVars, clientVars,
                   brokerVars, lateVars, boundVars>>

\* SIGTERM, a fatal Kafka error, or too long outside the group: run() ends in _shutdown.
Shutdown(w) ==
    /\ phase[w] = "polling"
    /\ Spend
    /\ phase' = [phase EXCEPT ![w] = "draining"]
    /\ StopPartitions(w, Held(w))
    /\ UNCHANGED <<storeVars, pc, paused, taskVars, clientVars,
                   brokerVars, lateVars, faults, surprises>>

Stopping(w) == { p \in Held(w) : stopping[<<w, p>>] }

\* The requests of w's tasks in S that will finish without them.
AbandonRequests(S) ==
    /\ \E v \in Verdict :
          lateWrites' = lateWrites \cup
             { [source |-> Current(s), verdict |-> v] :
                  s \in { t \in S : pc[t] = "process" /\ MessageAt(Current(t)).valid } }
    /\ lateLetters' = lateLetters \cup { PendingLetter(s) : s \in { t \in S : pc[t] = "publish" } }

\* The drain timeout of _stop_partitions: cancel the tasks still pending.  A task at
\* "handled" is one whose reply the loop has not delivered yet.
Cancel(w) ==
    LET S == { s \in {w} \X Stopping(w) : ~Ended(s) }
    IN  /\ S # {}
        /\ AbandonRequests(S)
        /\ pc' = [s \in Slot |-> IF s \in S THEN "done" ELSE pc[s]]
        /\ UNCHANGED <<storeVars, phase, queue, stopping, paused, taskVars, clientVars,
                       brokerVars, boundVars>>

\* Mutant: the slot is popped but its stored offset is kept for the next assignment.
DropSlots_keepsOffset(w, P) ==
    LET In(s) == s[1] = w /\ s[2] \in P
    IN  /\ pc' = [s \in Slot |-> IF In(s) THEN "none" ELSE pc[s]]
        /\ queue' = [s \in Slot |-> IF In(s) THEN <<>> ELSE queue[s]]
        /\ stopping' = [s \in Slot |-> stopping[s] /\ ~In(s)]
        /\ paused' = [s \in Slot |-> paused[s] /\ ~In(s)]
        /\ UNCHANGED <<taskVars, clientVars>>

\* self._partitions.pop(...), and with the task go its locals and the client's offsets.
DropSlots(w, P) ==
    LET In(s) == s[1] = w /\ s[2] \in P
    IN  /\ pc' = [s \in Slot |-> IF In(s) THEN "none" ELSE pc[s]]
        /\ queue' = [s \in Slot |-> IF In(s) THEN <<>> ELSE queue[s]]
        /\ stopping' = [s \in Slot |-> stopping[s] /\ ~In(s)]
        /\ paused' = [s \in Slot |-> paused[s] /\ ~In(s)]
        /\ cur' = [s \in Slot |-> IF In(s) THEN 0 ELSE cur[s]]
        /\ attempt' = [s \in Slot |-> IF In(s) THEN 0 ELSE attempt[s]]
        /\ unexpected' = [s \in Slot |-> IF In(s) THEN 0 ELSE unexpected[s]]
        /\ letter' = [s \in Slot |-> IF In(s) THEN "none" ELSE letter[s]]
        /\ position' = [s \in Slot |-> IF In(s) THEN 0 ELSE position[s]]
        /\ stored' = [s \in Slot |-> IF In(s) THEN 0 ELSE stored[s]]

GiveUpOwnership(w, P) ==
    owner' = [p \in Partition |-> IF p \in P /\ owner[p] = w THEN Nobody ELSE owner[p]]

Drained(w) == \A p \in Stopping(w) : Ended(<<w, p>>)

\* on_revoke ends: the tasks are gone, then the commit, which may fail.
FinishRevoke(w) ==
    /\ phase[w] = "revoking"
    /\ Drained(w)
    /\ CommitStored(w, Held(w)) \/ UNCHANGED committed
    /\ GiveUpOwnership(w, Stopping(w))
    /\ DropSlots(w, Stopping(w))
    /\ phase' = [phase EXCEPT ![w] = "polling"]
    /\ UNCHANGED <<storeVars, lateVars, boundVars>>

\* on_lost ends: nothing is committed.
FinishLose(w) ==
    /\ phase[w] = "losing"
    /\ Drained(w)
    /\ DropSlots(w, Stopping(w))
    /\ phase' = [phase EXCEPT ![w] = "polling"]
    /\ UNCHANGED <<storeVars, brokerVars, lateVars, boundVars>>

\* _shutdown ends: close() commits, which may fail, and leaves the group.
Close(w) ==
    /\ phase[w] = "draining"
    /\ Drained(w)
    /\ CommitStored(w, Held(w)) \/ UNCHANGED committed
    /\ GiveUpOwnership(w, Partition)
    /\ DropSlots(w, Held(w))
    /\ phase' = [phase EXCEPT ![w] = "down"]
    /\ UNCHANGED <<storeVars, lateVars, boundVars>>

\* The process dies between any two steps; its requests may outlive it.
Crash(w) ==
    /\ phase[w] # "down"
    /\ Spend
    /\ AbandonRequests({w} \X Partition)
    /\ DropSlots(w, Partition)
    /\ phase' = [phase EXCEPT ![w] = "down"]
    /\ UNCHANGED <<storeVars, brokerVars, faults, surprises>>

\* The orchestrator starts the process again.
Restart(w) ==
    /\ phase[w] = "down"
    /\ phase' = [phase EXCEPT ![w] = "polling"]
    /\ UNCHANGED <<storeVars, slotVars, brokerVars, lateVars, boundVars>>

\* session.timeout.ms: the broker takes back what a dead incarnation owned.
Expire(p) ==
    /\ owner[p] # Nobody
    /\ pc[<<owner[p], p>>] = "none"
    /\ owner' = [owner EXCEPT ![p] = Nobody]
    /\ UNCHANGED <<storeVars, phase, slotVars, committed, lateVars, boundVars>>

\* A request nobody waits for takes effect after all.
LandWrite(u) ==
    /\ record_decision(u.source, u.verdict)
    /\ lateWrites' = lateWrites \ {u}
    /\ UNCHANGED <<dlq, phase, slotVars, brokerVars, lateLetters, boundVars>>

LandLetter(l) ==
    /\ dlq' = dlq \cup {l}
    /\ lateLetters' = lateLetters \ {l}
    /\ UNCHANGED <<transactions, history, phase, slotVars, brokerVars, lateWrites, boundVars>>

-----------------------------------------------------------------------------
Process(s) == Record(s) \/ Reject(s)

Task(s) ==
    \/ Take(s) \/ Quit(s)
    \/ Process(s) \/ Publish(s) \/ Retry(s) \/ Finish(s)

Failure(s) == FailTransient(s) \/ FailUnexpected(s) \/ FailPublish(s)

Rebalance(w) ==
    \/ \E p \in Partition : Assign(w, p)
    \/ \E P \in SUBSET Partition : Revoke(w, P)
    \/ Evict(w) \/ Lose(w) \/ Shutdown(w)
    \/ Cancel(w) \/ FinishRevoke(w) \/ FinishLose(w) \/ Close(w)
    \/ Crash(w) \/ Restart(w)

Next ==
    \/ \E s \in Slot : Poll(s) \/ Task(s) \/ Failure(s) \/ AutoCommit(s)
    \/ \E w \in Worker : Rebalance(w)
    \/ \E p \in Partition : Expire(p)
    \/ \E u \in lateWrites : LandWrite(u)
    \/ \E l \in lateLetters : LandLetter(l)

Spec == Init /\ [][Next]_vars

(***************************************************************************)
(* A running process keeps polling and keeps stepping its tasks (asyncio   *)
(* schedules every ready task), a backoff timer fires, a callback ends     *)
(* once its tasks have, the group hands out unowned partitions, a dead     *)
(* member's session expires and the orchestrator restarts a process that   *)
(* exited.  Nothing that hurts is fair.                                    *)
(***************************************************************************)
Fairness ==
    /\ \A s \in Slot : WF_vars(Poll(s)) /\ WF_vars(Task(s))
    /\ \A w \in Worker :
          WF_vars(Lose(w) \/ FinishRevoke(w) \/ FinishLose(w) \/ Close(w) \/ Restart(w))
    /\ \A p \in Partition : WF_vars(\E w \in Worker : Assign(w, p)) /\ WF_vars(Expire(p))

FairSpec == Spec /\ Fairness

-----------------------------------------------------------------------------
(***************************************************************************)
(* "An offset is never committed ahead of an unfinished message": whatever *)
(* crashes, evictions and lost acknowledgements happen, every message      *)
(* before a committed offset has an audit row or a dead letter.            *)
(***************************************************************************)
NoLoss == \A p \in Partition : HandledBelow(p, committed[p])

(***************************************************************************)
(* A message is worked on only when all earlier ones of its partition are  *)
(* handled, so the velocity look-back sees the user's earlier events.      *)
(* This holds for an evicted worker that does not know it yet too.         *)
(***************************************************************************)
InOrder == \A s \in Slot : Busy(s) => HandledBelow(s[2], cur[s])

(***************************************************************************)
(* An outage does not empty good traffic into the DLQ: a permanent letter  *)
(* is about a message that cannot be recorded, an unexpected one comes     *)
(* after at least MaxUnexpected unexpected failures.                       *)
(***************************************************************************)
OutageNeverDeadLetters ==
    \A l \in dlq :
        /\ l.class = "permanent" => Unrecordable(l.source)
        /\ l.class = "unexpected" => surprises >= MaxUnexpected

\* A partition's backlog never exceeds the watermark at which it is paused.
BacklogBounded == \A s \in Slot : Len(queue[s]) <= HighWatermark

(***************************************************************************)
(* A paused partition always has work whose end will look at the backlog   *)
(* again: pausing can never leave a partition silent for good.  (A task    *)
(* that died is the exception, see RetriesForever.)                        *)
(***************************************************************************)
NoStuckPause ==
    \A s \in Slot :
        paused[s] /\ ~stopping[s] /\ pc[s] # "dead" => Busy(s) \/ queue[s] # <<>>

\* A late commit of an earlier owner never rewinds the group.
CommitNeverBackward ==
    [][\A p \in Partition : committed'[p] >= committed[p]]_committed

(***************************************************************************)
(* Once failures and rebalances stop, every message ends up decided or     *)
(* dead-lettered: no pause, wake-up, stop or retry is lost.                *)
(***************************************************************************)
EveryMessageHandled == \A src \in Source : <>Handled(src)

(***************************************************************************)
(* "Transient -> retry with capped exponential backoff and jitter,         *)
(* indefinitely" (the docstring of app/worker.py): a message a worker has  *)
(* begun is handled in the end, however many attempts an outage costs.     *)
(***************************************************************************)
RetriesForever ==
    \A src \in Source : (\E s \in Slot : Busy(s) /\ Current(s) = src) ~> Handled(src)

\* The fleet as a whole does only what the contract allows.
Contract == INSTANCE PipelineContract
ImplementsContract == Contract!ContractSpec
=============================================================================
