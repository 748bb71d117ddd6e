----------------------------- MODULE ReplayDlq -----------------------------
(***************************************************************************)
(* scripts/replay_dlq.py: copies one partition of the dead-letter topic    *)
(* back to the source topic, one letter at a time, under a consumer group  *)
(* of its own, in as many runs as the operator starts, while workers go on *)
(* publishing letters (DeadLetterPublisher).                               *)
(*                                                                         *)
(* The producer (external) reports a message as delivered, or as failed,   *)
(* or not at all before flush times out; flush counts only the last as     *)
(* outstanding.  A message that a run left outstanding may still arrive.   *)
(***************************************************************************)
EXTENDS DeadLetterPublisher

CONSTANTS
    MaxBatch,       \* --max
    MaxRuns         \* bound: runs the operator starts

ASSUME ReplayAssumption ==
    /\ MaxBatch \in Nat /\ MaxRuns \in Nat

VARIABLES
    pc,             \* where the run stands; "off" between runs
    dry,            \* --dry-run
    position,       \* next letter the run's consumer returns
    replayed,       \* the run's count
    sent,           \* what became of the letter in hand
    committed,      \* the replay group's offset
    topic,          \* letters re-published, in the order they arrived
    late,           \* letters of ended runs, or that failed, still on their way
    rejected,       \* history: letters whose delivery failed
    runs

letterVars == <<committed, topic, late, rejected>>
replayVars == <<pc, dry, position, replayed, sent, letterVars, runs>>
vars == <<publisherVars, replayVars>>

Offset == 1..Len(dlq)

\* headers.get("dlq.source.topic"), which publish always sets.
SourceTopic(o) == dlq[o] # NoHeader

\* Every variable has the values the code can give it, and a letter is with the
\* producer only while a run waits for it.
TypeOK ==
    /\ PublisherTypeOK
    /\ pc \in {"off", "poll", "flush", "commit"}
    /\ dry \in BOOLEAN
    /\ position \in Nat /\ replayed \in Nat /\ runs \in Nat
    /\ sent \in {"none", "queued", "delivered", "failed"}
    /\ pc \in {"off", "poll"} => sent = "none"
    /\ committed \in 1..(Len(dlq) + 1)
    /\ topic \in Seq(Offset)
    /\ late \subseteq Offset
    /\ rejected \subseteq Offset

Init ==
    /\ PublisherInit
    /\ pc = "off" /\ dry = FALSE
    /\ position = 1 /\ replayed = 0 /\ sent = "none"
    /\ committed = 1
    /\ topic = <<>>
    /\ late = {} /\ rejected = {}
    /\ runs = 0

\* Mutant: a run starts after the offset the last one committed.
Start_skips ==
    /\ pc = "off"
    /\ runs < MaxRuns
    /\ runs' = runs + 1
    /\ dry' \in BOOLEAN
    /\ pc' = "poll"
    /\ position' = IF committed > 1 THEN committed + 1 ELSE committed
    /\ UNCHANGED <<replayed, sent, letterVars>>

\* The group starts at its committed offset, or at the earliest letter.
Start ==
    /\ pc = "off"
    /\ runs < MaxRuns
    /\ runs' = runs + 1
    /\ dry' \in BOOLEAN
    /\ pc' = "poll"
    /\ position' = committed
    /\ UNCHANGED <<replayed, sent, letterVars>>

InHand == position - 1

\* The loop's head: poll returns the letter at the consumer's position.
Next_letter(step, counted) ==
    /\ pc = "poll"
    /\ replayed < MaxBatch
    /\ position <= Len(dlq)
    /\ position' = position + 1
    /\ pc' = step
    /\ replayed' = replayed + counted
    /\ UNCHANGED <<dry, letterVars, runs>>

List == dry /\ Next_letter("poll", 1) /\ UNCHANGED sent

\* A letter that does not name its topic is passed over, uncommitted.
Skip == ~dry /\ Next_letter("poll", 0) /\ ~SourceTopic(position) /\ UNCHANGED sent

Republish == ~dry /\ Next_letter("flush", 0) /\ SourceTopic(position) /\ sent' = "queued"

\* The letter is reported as delivered, or as failed, which does not say that the
\* broker will not have it.
Deliver ==
    /\ sent = "queued"
    /\ sent' = "delivered"
    /\ topic' = Append(topic, InHand)
    /\ UNCHANGED <<pc, dry, position, replayed, committed, late, rejected, runs>>

Fail ==
    /\ sent = "queued"
    /\ sent' = "failed"
    /\ rejected' = rejected \cup {InHand}
    /\ late' \in {late, late \cup {InHand}}
    /\ UNCHANGED <<pc, dry, position, replayed, committed, topic, runs>>

\* Mutant: the result of flush is not looked at.
Flush_unchecked ==
    /\ pc = "flush"
    /\ pc' = "commit"
    /\ UNCHANGED <<dry, position, replayed, sent, letterVars, runs>>

\* flush returned 0: nothing is outstanding.
Flush ==
    /\ pc = "flush"
    /\ sent /= "queued"
    /\ pc' = "commit"
    /\ UNCHANGED <<dry, position, replayed, sent, letterVars, runs>>

\* commit(message): the offset after it.
Commit ==
    /\ pc = "commit"
    /\ committed' = position
    /\ replayed' = replayed + 1
    /\ pc' = "poll"
    /\ sent' = "none"
    /\ UNCHANGED <<dry, position, topic, late, rejected, runs>>

\* Mutant: the next run reuses the producer of the last.
End_keepsProducer ==
    /\ pc /= "off"
    /\ pc' = "off"
    /\ dry' = FALSE /\ position' = 1 /\ replayed' = 0
    /\ UNCHANGED <<sent, letterVars, runs>>

\* The run ends: --max is reached, no letter came in time, an error, a flush that
\* timed out, a commit that raised, or a kill.  None of them commits.
End ==
    /\ pc /= "off"
    /\ pc' = "off"
    /\ late' = IF sent = "queued" THEN late \cup {InHand} ELSE late
    /\ dry' = FALSE /\ position' = 1 /\ replayed' = 0 /\ sent' = "none"
    /\ UNCHANGED <<committed, topic, rejected, runs>>

LandLate(o) ==
    /\ late' = late \ {o}
    /\ topic' = Append(topic, o)
    /\ UNCHANGED <<pc, dry, position, replayed, sent, committed, rejected, runs>>

Replay ==
    \/ Start \/ List \/ Skip \/ Republish \/ Flush \/ Commit \/ End
    \/ Deliver \/ Fail
    \/ \E o \in late : LandLate(o)

Next ==
    \/ Replay /\ UNCHANGED publisherVars
    \/ PublisherNext /\ UNCHANGED replayVars

Spec == Init /\ [][Next]_vars

-----------------------------------------------------------------------------
Arrived(o, n) == \E i \in 1..n : topic[i] = o

(***************************************************************************)
(* "an interrupted run can simply be re-run": whatever interrupts the runs,*)
(* every letter the group has passed that names its topic was re-published *)
(* or was refused by the broker.                                           *)
(***************************************************************************)
NothingPassedOver ==
    \A o \in 1..(committed - 1) :
        SourceTopic(o) => Arrived(o, Len(topic)) \/ o \in rejected

(***************************************************************************)
(* "per-user ordering is kept relative to each other": a letter arrives    *)
(* only after every earlier one that was not refused, over any number of   *)
(* interrupted runs and late deliveries (repetitions may follow).          *)
(***************************************************************************)
OrderKept ==
    \A i \in 1..Len(topic) : \A o \in 1..(topic[i] - 1) :
        SourceTopic(o) /\ o \notin rejected => Arrived(o, i - 1)

(***************************************************************************)
(* From a worker through the dead-letter topic back to the source topic: a *)
(* partition's dead-lettered messages come back in the order they had, as  *)
(* far as the broker took them, whatever was retried, repeated or late on  *)
(* the way.                                                                *)
(***************************************************************************)
ReplayInSourceOrder ==
    \A i \in 1..Len(topic) : \A t \in Task : \A n \in 1..Letters[t] :
        dlq[topic[i]] = <<t, n>> =>
            \A m \in 1..(n - 1) :
                \/ \E j \in 1..(i - 1) : dlq[topic[j]] = <<t, m>>
                \/ \E o \in rejected : dlq[o] = <<t, m>>
=============================================================================
