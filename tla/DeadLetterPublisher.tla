------------------------ MODULE DeadLetterPublisher ------------------------
(***************************************************************************)
(* DeadLetterPublisher.publish (app/dlq.py): the partition tasks of a      *)
(* worker publish their dead letters, in order, through one producer and   *)
(* wait for the broker's acknowledgement.                                  *)
(*                                                                         *)
(* librdkafka (external) keeps a bounded queue, settles each message as    *)
(* acknowledged or failed, and calls on_delivery on whichever thread is in *)
(* flush, the task's own or another's.  A failure does not say whether the *)
(* broker has the letter, or will have it.  The callback only schedules    *)
(* `settle' on the event loop; flush may return, and the wait for the      *)
(* future time out, at any point of that.  The topic is one partition.     *)
(***************************************************************************)
EXTENDS Integers, Sequences, FiniteSets

CONSTANTS
    Task,           \* partition tasks that dead-letter
    Letters,        \* [Task -> Nat]: how many letters each has
    QueueSize,      \* queue.buffering.max.messages
    MaxTries,       \* bound: how often the tasks may have called publish, [Task -> Nat]s
    Foreign,        \* number of letters of other origin already in the topic
    NoHeader        \* one of those: it has no dlq.* headers

ASSUME PublisherAssumption ==
    /\ NoHeader \notin Task \X Nat
    /\ Letters \in [Task -> Nat]
    /\ MaxTries \subseteq [Task -> Nat]
    /\ QueueSize \in Nat \ {0} /\ Foreign \in Nat

VARIABLES
    call,           \* call[t]: where publish stands
    letter,         \* letter[t]: number of the task's current letter
    tries,          \* tries[t]: calls of publish so far; names the current one
    future,         \* future[t]: delivered, of the current call
    queue,          \* the producer's messages, reports included
    wakeups,        \* settle calls scheduled on the loop
    dlq,            \* the topic: letters in the order they were stored
    lateLetters     \* letters reported as failed that may still be stored

publishVars == <<call, letter, tries, future>>
producerVars == <<queue, wakeups, dlq, lateLetters>>
publisherVars == <<publishVars, producerVars>>

Ticket == Task \X Nat      \* a call of publish

PublisherTypeOK ==
    /\ call \in [Task -> {"idle", "flush", "await"}]
    /\ letter \in [Task -> Nat]
    /\ tries \in [Task -> Nat]
    /\ future \in [Task -> {"pending", "result", "exception"}]
    /\ queue \subseteq [ticket : Ticket, letter : Task \X Nat, state : {"queued", "acked", "failed"}]
    /\ wakeups \subseteq [ticket : Ticket, err : BOOLEAN]
    /\ dlq \in Seq((Task \X Nat) \cup {NoHeader})
    /\ lateLetters \subseteq Task \X Nat

PublisherInit ==
    /\ call = [t \in Task |-> "idle"]
    /\ letter = [t \in Task |-> 1]
    /\ tries = [t \in Task |-> 0]
    /\ future = [t \in Task |-> "pending"]
    /\ queue = {}
    /\ wakeups = {}
    /\ dlq = [i \in 1..Foreign |-> NoHeader]
    /\ lateLetters = {}

-----------------------------------------------------------------------------
(* publish *)

Current(t) == <<t, letter[t]>>

\* _handle calls publish for the next letter, or for the same one again.
Call(t) ==
    /\ call[t] = "idle"
    /\ letter[t] <= Letters[t]
    /\ tries' = [tries EXCEPT ![t] = @ + 1]
    /\ tries' \in MaxTries

\* produce() queues the letter; flush runs on a thread of its own.
Produce(t) ==
    /\ Call(t)
    /\ Cardinality(queue) < QueueSize
    /\ queue' = queue \cup {[ticket |-> <<t, tries'[t]>>, letter |-> Current(t), state |-> "queued"]}
    /\ call' = [call EXCEPT ![t] = "flush"]
    /\ UNCHANGED <<letter, future, wakeups, dlq, lateLetters>>

\* produce raises: TransientError for the BufferError of a full queue, or whatever
\* else it raised.  Nothing is queued.
ProduceRaises(t) ==
    /\ Call(t)
    /\ UNCHANGED <<call, letter, future, producerVars>>

\* flush returns: the queue is empty, or the timeout passed.
FlushReturns(t) ==
    /\ call[t] = "flush"
    /\ call' = [call EXCEPT ![t] = "await"]
    /\ UNCHANGED <<letter, tries, future, producerVars>>

\* Mutant: an error in the delivery report is overlooked.
Settle_blind(w) ==
    LET t == w.ticket[1]
    IN  /\ wakeups' = wakeups \ {w}
        /\ future' = IF w.ticket[2] = tries[t] /\ call[t] # "idle" /\ future[t] = "pending"
                     THEN [future EXCEPT ![t] = "result"]
                     ELSE future
        /\ UNCHANGED <<call, letter, tries, queue, dlq, lateLetters>>

\* The loop runs settle: a future that is done, or whose call is over, is left alone.
Settle(w) ==
    LET t == w.ticket[1]
    IN  /\ wakeups' = wakeups \ {w}
        /\ future' = IF w.ticket[2] = tries[t] /\ call[t] # "idle" /\ future[t] = "pending"
                     THEN [future EXCEPT ![t] = IF w.err THEN "exception" ELSE "result"]
                     ELSE future
        /\ UNCHANGED <<call, letter, tries, queue, dlq, lateLetters>>

Leave(t) ==
    /\ call' = [call EXCEPT ![t] = "idle"]
    /\ future' = [future EXCEPT ![t] = "pending"]

\* Mutant: flush has returned, so the letter is taken for delivered.
Return_unawaited(t) ==
    /\ call[t] = "await"
    /\ future[t] # "exception"
    /\ Leave(t)
    /\ letter' = [letter EXCEPT ![t] = @ + 1]
    /\ UNCHANGED <<tries, producerVars>>

\* publish returns; the task goes on to its next letter.
Return(t) ==
    /\ call[t] = "await"
    /\ future[t] = "result"
    /\ Leave(t)
    /\ letter' = [letter EXCEPT ![t] = @ + 1]
    /\ UNCHANGED <<tries, producerVars>>

(***************************************************************************)
(* publish raises: the report was an error, wait_for timed out, or the     *)
(* task was cancelled (the thread in flush goes on).  Its letter stays the *)
(* task's, or that of the partition's next owner.                          *)
(***************************************************************************)
Raise(t) ==
    /\ call[t] # "idle"
    /\ Leave(t)
    /\ UNCHANGED <<letter, tries, producerVars>>

-----------------------------------------------------------------------------
(* the producer and the broker *)

Report(m, state) == queue' = (queue \ {m}) \cup {[m EXCEPT !.state = state]}

Acknowledge(m) ==
    /\ m.state = "queued"
    /\ Report(m, "acked")
    /\ dlq' = Append(dlq, m.letter)
    /\ UNCHANGED <<publishVars, wakeups, lateLetters>>

\* Reported as failed: never sent, stored without an acknowledgement, or under way.
FailDelivery(m) ==
    /\ m.state = "queued"
    /\ Report(m, "failed")
    /\ \/ UNCHANGED <<dlq, lateLetters>>
       \/ dlq' = Append(dlq, m.letter) /\ UNCHANGED lateLetters
       \/ lateLetters' = lateLetters \cup {m.letter} /\ UNCHANGED dlq
    /\ UNCHANGED <<publishVars, wakeups>>

LandLetter(l) ==
    /\ dlq' = Append(dlq, l)
    /\ lateLetters' = lateLetters \ {l}
    /\ UNCHANGED <<publishVars, queue, wakeups>>

\* A thread in flush serves the report: on_delivery, call_soon_threadsafe(settle).
OnDelivery(m) ==
    /\ m.state # "queued"
    /\ queue' = queue \ {m}
    /\ wakeups' = wakeups \cup {[ticket |-> m.ticket, err |-> m.state = "failed"]}
    /\ UNCHANGED <<publishVars, dlq, lateLetters>>

PublisherNext ==
    \/ \E t \in Task : Produce(t) \/ ProduceRaises(t) \/ FlushReturns(t) \/ Return(t) \/ Raise(t)
    \/ \E w \in wakeups : Settle(w)
    \/ \E m \in queue : Acknowledge(m) \/ FailDelivery(m) \/ OnDelivery(m)
    \/ \E l \in lateLetters : LandLetter(l)

-----------------------------------------------------------------------------
(***************************************************************************)
(* "The source offset is only committed after this returns": when publish  *)
(* has returned for a letter the topic holds it, whichever of the task's   *)
(* calls the report belongs to, whoever served it and whenever the waits   *)
(* ended.                                                                  *)
(***************************************************************************)
ReturnedStored ==
    \A t \in Task : \A n \in 1..(letter[t] - 1) : \E i \in 1..Len(dlq) : dlq[i] = <<t, n>>
=============================================================================
