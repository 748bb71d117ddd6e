-------------------------- MODULE ReplayDlqProofs --------------------------
(***************************************************************************)
(* Proofs about DeadLetterPublisher and ReplayDlq, for any tasks, letters, *)
(* queue, number of calls and number of runs.                              *)
(*                                                                         *)
(* Publishing: a report concerns the current letter of its task as long as *)
(* the call it belongs to is the current one, and says "acknowledged" only *)
(* of a letter that is stored.  So a letter is first queued when all its   *)
(* predecessors are stored, and is stored after them however late.         *)
(*                                                                         *)
(* Replaying: what a run has gone past, what is committed and what comes   *)
(* late all have their predecessors re-published or refused.  The two      *)
(* orders together are ReplayInSourceOrder.                                *)
(***************************************************************************)
EXTENDS ReplayDlq, TLAPS

Stored(l) == \E i \in 1..Len(dlq) : dlq[i] = l

\* The task's call that the ticket names is under way.
IsCurrent(ticket) == ticket[2] = tries[ticket[1]] /\ call[ticket[1]] # "idle"

QueueInv ==
    \A m \in queue :
        /\ m.letter[1] = m.ticket[1]
        /\ m.letter[2] <= letter[m.ticket[1]]
        /\ m.ticket[2] <= tries[m.ticket[1]]
        /\ IsCurrent(m.ticket) => m.letter = Current(m.ticket[1])
        /\ m.state = "acked" => Stored(m.letter)

WakeupInv ==
    \A w \in wakeups :
        /\ w.ticket[2] <= tries[w.ticket[1]]
        /\ IsCurrent(w.ticket) /\ ~w.err => Stored(Current(w.ticket[1]))

FutureInv == \A t \in Task : future[t] = "result" => Stored(Current(t))

LateInv == \A l \in lateLetters : l[2] <= letter[l[1]]

\* A task's letters are stored in their order, repetitions aside.
StoredInOrder ==
    \A i \in 1..Len(dlq) : \A t \in Task, n \in Nat :
        dlq[i] = <<t, n>> => \A m \in 1..(n - 1) : \E j \in 1..(i - 1) : dlq[j] = <<t, m>>

PublisherInv ==
    /\ PublisherTypeOK
    /\ QueueInv /\ WakeupInv /\ FutureInv /\ LateInv
    /\ ReturnedStored /\ StoredInOrder

\* The topic only gains letters, at its end.
TopicGrows ==
    /\ Len(dlq') \in Nat /\ Len(dlq) <= Len(dlq')
    /\ \A i \in 1..Len(dlq) : dlq'[i] = dlq[i]

----------------------------------------------------------------------------
(* Publishing *)

\* A letter that is stored stays.
LEMMA StoredStays ==
    ASSUME PublisherTypeOK, TopicGrows, NEW l, Stored(l)
    PROVE  Stored(l)'
  <1>1. PICK i \in 1..Len(dlq) : dlq[i] = l
    BY DEF Stored
  <1>2. i \in 1..Len(dlq') /\ dlq'[i] = l
    BY <1>1 DEF PublisherTypeOK, TopicGrows
  <1> QED
    BY <1>2 DEF Stored

\* The initial states satisfy the invariant.
LEMMA PublisherStarts == PublisherInit => PublisherInv
  <1> SUFFICES ASSUME PublisherInit PROVE PublisherInv
    OBVIOUS
  <1>1. PublisherTypeOK
    <2>1. dlq \in Seq((Task \X Nat) \cup {NoHeader})
      BY PublisherAssumption DEF PublisherInit
    <2> QED
      BY <2>1 DEF PublisherInit, PublisherTypeOK
  <1>2. QueueInv /\ WakeupInv /\ FutureInv /\ LateInv /\ ReturnedStored
    BY DEF PublisherInit, QueueInv, WakeupInv, FutureInv, LateInv, ReturnedStored
  <1>3. StoredInOrder
    <2>1. Len(dlq) = Foreign /\ \A i \in 1..Len(dlq) : dlq[i] = NoHeader
      BY PublisherAssumption DEF PublisherInit
    <2>2. \A t \in Task, n \in Nat : <<t, n>> # NoHeader
      BY PublisherAssumption
    <2> QED
      BY <2>1, <2>2 DEF StoredInOrder
  <1> QED
    BY <1>1, <1>2, <1>3 DEF PublisherInv

\* Storing a letter of a task that has come to it keeps the order.
LEMMA StoreLetter ==
    ASSUME PublisherInv, NEW l \in Task \X Nat, l[2] <= letter[l[1]], dlq' = Append(dlq, l)
    PROVE  /\ dlq' \in Seq((Task \X Nat) \cup {NoHeader})
           /\ StoredInOrder' /\ TopicGrows /\ Stored(l)'
  <1>0. dlq \in Seq((Task \X Nat) \cup {NoHeader}) /\ Len(dlq) \in Nat
    BY DEF PublisherInv, PublisherTypeOK
  <1>1. /\ dlq' \in Seq((Task \X Nat) \cup {NoHeader})
        /\ Len(dlq') = Len(dlq) + 1 /\ dlq'[Len(dlq) + 1] = l
        /\ \A i \in 1..Len(dlq) : dlq'[i] = dlq[i]
    BY <1>0
  <1>2. TopicGrows /\ Stored(l)'
    BY <1>0, <1>1 DEF TopicGrows, Stored
  <1>3. StoredInOrder'
    <2> SUFFICES ASSUME NEW i \in 1..Len(dlq'), NEW t \in Task, NEW n \in Nat, dlq'[i] = <<t, n>>,
                        NEW m \in 1..(n - 1)
                 PROVE  \E j \in 1..(i - 1) : dlq'[j] = <<t, m>>
      BY DEF StoredInOrder
    <2>1. CASE i \in 1..Len(dlq)
      <3>1. dlq[i] = <<t, n>>
        BY <1>1, <2>1
      <3>2. PICK j \in 1..(i - 1) : dlq[j] = <<t, m>>
        BY <2>1, <3>1 DEF PublisherInv, StoredInOrder
      <3>3. j \in 1..Len(dlq)
        BY <1>0, <2>1
      <3>4. dlq'[j] = <<t, m>>
        BY <1>1, <3>2, <3>3
      <3> QED
        BY <3>4
    <2>2. CASE i = Len(dlq) + 1
      <3>1. l = <<t, n>>
        BY <1>1, <2>2
      <3>2. m \in 1..(letter[t] - 1)
        BY <3>1 DEF PublisherInv, PublisherTypeOK
      <3>3. PICK j \in 1..Len(dlq) : dlq[j] = <<t, m>>
        BY <3>2 DEF PublisherInv, ReturnedStored
      <3>4. dlq'[j] = <<t, m>> /\ j \in 1..(i - 1)
        BY <1>0, <1>1, <2>2, <3>3
      <3> QED
        BY <3>4
    <2>3. i \in 1..Len(dlq) \/ i = Len(dlq) + 1
      BY <1>0, <1>1
    <2> QED
      BY <2>1, <2>2, <2>3
  <1> QED
    BY <1>1, <1>2, <1>3

\* The parts of what the producer holds.
LEMMA QueueParts ==
    ASSUME PublisherTypeOK
    PROVE  /\ \A m \in queue : /\ m.ticket \in Ticket /\ m.ticket[1] \in Task /\ m.ticket[2] \in Nat
                               /\ m.letter \in Task \X Nat
                               /\ m.letter[1] \in Task /\ m.letter[2] \in Nat
                               /\ m.state \in {"queued", "acked", "failed"}
           /\ \A w \in wakeups : w.ticket \in Ticket /\ w.ticket[1] \in Task /\ w.ticket[2] \in Nat
           /\ \A l \in lateLetters : l \in Task \X Nat /\ l[1] \in Task /\ l[2] \in Nat
           /\ Len(dlq) \in Nat
  BY DEF PublisherTypeOK, Ticket

\* What stays when a task's own steps leave the producer alone.
LEMMA SameTopic ==
    ASSUME PublisherTypeOK, UNCHANGED dlq
    PROVE  TopicGrows /\ (\A l : Stored(l)' <=> Stored(l)) /\ (StoredInOrder => StoredInOrder')
  <1>1. Len(dlq) \in Nat
    BY DEF PublisherTypeOK
  <1>2. TopicGrows
    BY <1>1 DEF TopicGrows
  <1>3. \A l : Stored(l)' <=> Stored(l)
    BY DEF Stored
  <1>4. StoredInOrder => StoredInOrder'
    <2> SUFFICES ASSUME StoredInOrder,
                        NEW i \in 1..Len(dlq'), NEW t \in Task, NEW n \in Nat, dlq'[i] = <<t, n>>,
                        NEW m \in 1..(n - 1)
                 PROVE  \E j \in 1..(i - 1) : dlq'[j] = <<t, m>>
      BY DEF StoredInOrder
    <2>1. i \in 1..Len(dlq) /\ dlq[i] = <<t, n>>
      OBVIOUS
    <2>2. PICK j \in 1..(i - 1) : dlq[j] = <<t, m>>
      BY <2>1 DEF StoredInOrder
    <2> QED
      BY <2>2
  <1> QED
    BY <1>2, <1>3, <1>4

\* publish is called: a new ticket.
LEMMA CallStep ==
    ASSUME PublisherInv, NEW t \in Task, Produce(t) \/ ProduceRaises(t)
    PROVE  PublisherInv' /\ TopicGrows
  <1>0. /\ UNCHANGED <<letter, future, wakeups, dlq, lateLetters>> /\ PublisherTypeOK
        /\ call[t] = "idle" /\ tries'[t] = tries[t] + 1 /\ tries \in [Task -> Nat]
        /\ tries' \in [Task -> Nat]
        /\ \A p \in Task \ {t} : tries'[p] = tries[p] /\ call'[p] = call[p]
        /\ call' \in [Task -> {"idle", "flush", "await"}]
    <2>1. /\ UNCHANGED <<letter, future, wakeups, dlq, lateLetters>> /\ PublisherTypeOK /\ Call(t)
          /\ call' = call \/ call' = [call EXCEPT ![t] = "flush"]
      BY DEF PublisherInv, Produce, ProduceRaises, producerVars
    <2>2. tries \in [Task -> Nat] /\ call \in [Task -> {"idle", "flush", "await"}]
      BY <2>1 DEF PublisherTypeOK
    <2>3. /\ call[t] = "idle" /\ tries'[t] = tries[t] + 1 /\ tries' \in [Task -> Nat]
          /\ \A p \in Task \ {t} : tries'[p] = tries[p]
      BY <2>1, <2>2 DEF Call
    <2> QED
      BY <2>1, <2>2, <2>3
  <1> DEFINE n == [ticket |-> <<t, tries'[t]>>, letter |-> Current(t), state |-> "queued"]
  <1>1. \A m \in queue' : m \in queue \/ m = n
    BY DEF Produce, ProduceRaises, producerVars
  <1>2. Current(t) \in Task \X Nat /\ \A p \in Task : Current(p)' = Current(p)
    BY <1>0 DEF Current, PublisherTypeOK
  <1>3. TopicGrows /\ (\A l : Stored(l)' <=> Stored(l)) /\ StoredInOrder'
    BY <1>0, SameTopic DEF PublisherInv
  <1>4. PublisherTypeOK'
    <2>1. n \in [ticket : Ticket, letter : Task \X Nat, state : {"queued", "acked", "failed"}]
      BY <1>0, <1>2 DEF Ticket
    <2> HIDE DEF n
    <2> QED
      BY <1>0, <1>1, <2>1 DEF PublisherTypeOK
  <1>5. \A k \in Task \X Nat : k[2] <= tries[k[1]] /\ IsCurrent(k)' => IsCurrent(k)
    BY <1>0 DEF IsCurrent
  <1>6. QueueInv'
    <2> SUFFICES ASSUME NEW m \in queue'
                 PROVE  (/\ m.letter[1] = m.ticket[1]
                         /\ m.letter[2] <= letter[m.ticket[1]]
                         /\ m.ticket[2] <= tries[m.ticket[1]]
                         /\ IsCurrent(m.ticket) => m.letter = Current(m.ticket[1])
                         /\ m.state = "acked" => Stored(m.letter))'
      BY DEF QueueInv
    <2>1. CASE m \in queue
      <3>1. m.ticket \in Task \X Nat /\ m.ticket[1] \in Task /\ m.ticket[2] \in Nat
        BY <1>0, <2>1, QueueParts DEF Ticket
      <3>2. tries[m.ticket[1]] <= tries'[m.ticket[1]]
        BY <1>0, <3>1
      <3> QED
        BY <1>0, <1>2, <1>3, <1>5, <2>1, <3>1, <3>2 DEF PublisherInv, QueueInv
    <2>2. CASE m = n
      BY <1>0, <1>2, <2>2 DEF Current, PublisherTypeOK
    <2> QED
      BY <1>1, <2>1, <2>2
  <1>7. WakeupInv'
    <2> SUFFICES ASSUME NEW w \in wakeups
                 PROVE  (/\ w.ticket[2] <= tries[w.ticket[1]]
                         /\ IsCurrent(w.ticket) /\ ~w.err => Stored(Current(w.ticket[1])))'
      BY <1>0 DEF WakeupInv
    <2>1. w.ticket \in Task \X Nat /\ w.ticket[1] \in Task /\ w.ticket[2] \in Nat
      BY <1>0, QueueParts DEF Ticket
    <2>2. tries[w.ticket[1]] <= tries'[w.ticket[1]]
      BY <1>0, <2>1
    <2> QED
      BY <1>0, <1>2, <1>3, <1>5, <2>1, <2>2 DEF PublisherInv, WakeupInv
  <1>8. FutureInv' /\ LateInv' /\ ReturnedStored'
    BY <1>0, <1>2, <1>3 DEF PublisherInv, FutureInv, LateInv, ReturnedStored
  <1> QED
    BY <1>3, <1>4, <1>6, <1>7, <1>8 DEF PublisherInv

\* flush returns, or publish raises.
LEMMA WaitStep ==
    ASSUME PublisherInv, NEW t \in Task, FlushReturns(t) \/ Raise(t)
    PROVE  PublisherInv' /\ TopicGrows
  <1>0. /\ UNCHANGED <<letter, tries, queue, wakeups, dlq, lateLetters>> /\ PublisherTypeOK
        /\ call[t] # "idle" /\ call' \in [Task -> {"idle", "flush", "await"}]
        /\ \A p \in Task \ {t} : call'[p] = call[p]
        /\ future' \in [Task -> {"pending", "result", "exception"}]
        /\ \A p \in Task : future'[p] \in {"pending", future[p]}
    BY DEF PublisherInv, PublisherTypeOK, FlushReturns, Raise, Leave, producerVars
  <1>1. \A p \in Task : Current(p)' = Current(p)
    BY <1>0 DEF Current
  <1>2. TopicGrows /\ (\A l : Stored(l)' <=> Stored(l)) /\ StoredInOrder'
    BY <1>0, SameTopic DEF PublisherInv
  <1>3. PublisherTypeOK'
    BY <1>0 DEF PublisherTypeOK
  <1>4. \A k \in Task \X Nat : IsCurrent(k)' => IsCurrent(k)
    BY <1>0 DEF IsCurrent
  <1>5. QueueInv' /\ WakeupInv'
    <2>1. \A m \in queue : m.ticket \in Task \X Nat /\ m.ticket[1] \in Task
      BY <1>0, QueueParts DEF Ticket
    <2>2. \A w \in wakeups : w.ticket \in Task \X Nat /\ w.ticket[1] \in Task
      BY <1>0, QueueParts DEF Ticket
    <2>3. QueueInv'
      BY <1>0, <1>1, <1>2, <1>4, <2>1 DEF PublisherInv, QueueInv
    <2>4. WakeupInv'
      BY <1>0, <1>1, <1>2, <1>4, <2>2 DEF PublisherInv, WakeupInv
    <2> QED
      BY <2>3, <2>4
  <1>6. FutureInv' /\ LateInv' /\ ReturnedStored'
    BY <1>0, <1>1, <1>2 DEF PublisherInv, FutureInv, LateInv, ReturnedStored
  <1> QED
    BY <1>2, <1>3, <1>5, <1>6 DEF PublisherInv

\* publish returns: the letter is stored.
LEMMA ReturnStep ==
    ASSUME PublisherInv, NEW t \in Task, Return(t)
    PROVE  PublisherInv' /\ TopicGrows
  <1>0. /\ UNCHANGED <<tries, queue, wakeups, dlq, lateLetters>> /\ PublisherTypeOK
        /\ call'[t] = "idle" /\ call' \in [Task -> {"idle", "flush", "await"}]
        /\ \A p \in Task \ {t} : call'[p] = call[p] /\ letter'[p] = letter[p]
        /\ future' \in [Task -> {"pending", "result", "exception"}] /\ future'[t] = "pending"
        /\ \A p \in Task \ {t} : future'[p] = future[p]
        /\ future[t] = "result"
        /\ letter' \in [Task -> Nat] /\ letter'[t] = letter[t] + 1
    BY DEF PublisherInv, PublisherTypeOK, Return, Leave, producerVars
  <1>1. \A p \in Task \ {t} : Current(p)' = Current(p)
    BY <1>0 DEF Current
  <1>2. TopicGrows /\ (\A l : Stored(l)' <=> Stored(l)) /\ StoredInOrder'
    BY <1>0, SameTopic DEF PublisherInv
  <1>3. PublisherTypeOK'
    BY <1>0 DEF PublisherTypeOK
  <1>4. \A k \in Task \X Nat : IsCurrent(k)' => IsCurrent(k) /\ k[1] # t
    BY <1>0 DEF IsCurrent
  <1>5. \A p \in Task : letter[p] <= letter'[p]
    <2>1. \A p \in Task : letter[p] \in Nat
      BY <1>0 DEF PublisherTypeOK
    <2> QED
      BY <1>0, <2>1
  <1>6. QueueInv'
    <2>1. \A m \in queue : /\ m.ticket \in Task \X Nat /\ m.ticket[1] \in Task
                           /\ m.letter[2] \in Nat
      BY <1>0, QueueParts DEF Ticket
    <2> QED
      BY <1>0, <1>1, <1>2, <1>4, <1>5, <2>1 DEF PublisherInv, QueueInv, PublisherTypeOK
  <1>7. WakeupInv'
    <2>1. \A w \in wakeups : w.ticket \in Task \X Nat /\ w.ticket[1] \in Task
      BY <1>0, QueueParts DEF Ticket
    <2> QED
      BY <1>0, <1>1, <1>2, <1>4, <2>1 DEF PublisherInv, WakeupInv
  <1>8. LateInv'
    <2>1. \A l \in lateLetters : l[1] \in Task /\ l[2] \in Nat
      BY <1>0, QueueParts
    <2> QED
      BY <1>0, <1>5, <2>1 DEF PublisherInv, LateInv, PublisherTypeOK
  <1>9. FutureInv'
    BY <1>0, <1>1, <1>2 DEF PublisherInv, FutureInv
  <1>10. ReturnedStored'
    <2> SUFFICES ASSUME NEW p \in Task, NEW n \in 1..(letter'[p] - 1) PROVE Stored(<<p, n>>)
      BY <1>0 DEF ReturnedStored, Stored
    <2>1. CASE n \in 1..(letter[p] - 1)
      BY <2>1 DEF PublisherInv, ReturnedStored, Stored
    <2>2. CASE p = t /\ n = letter[t]
      BY <1>0, <2>2 DEF PublisherInv, FutureInv, Current
    <2> QED
      BY <1>0, <2>1, <2>2 DEF PublisherTypeOK
  <1> QED
    BY <1>2, <1>3, <1>6, <1>7, <1>8, <1>9, <1>10 DEF PublisherInv

\* The loop settles a future.
LEMMA SettleStep ==
    ASSUME PublisherInv, NEW w \in wakeups, Settle(w)
    PROVE  PublisherInv' /\ TopicGrows
  <1> DEFINE t == w.ticket[1]
  <1>0. /\ UNCHANGED <<call, letter, tries, queue, dlq, lateLetters>> /\ PublisherTypeOK
        /\ t \in Task /\ wakeups' \subseteq wakeups
    BY QueueParts DEF PublisherInv, Settle
  <1>1. \A p \in Task : Current(p)' = Current(p)
    BY <1>0 DEF Current
  <1>2. TopicGrows /\ (\A l : Stored(l)' <=> Stored(l)) /\ StoredInOrder'
    BY <1>0, SameTopic DEF PublisherInv
  <1>3. /\ future' \in [Task -> {"pending", "result", "exception"}]
        /\ \A p \in Task : future'[p] = "result" =>
              future[p] = "result" \/ (p = t /\ IsCurrent(w.ticket) /\ ~w.err)
    BY <1>0 DEF Settle, PublisherTypeOK, IsCurrent
  <1>4. PublisherTypeOK'
    BY <1>0, <1>3 DEF PublisherTypeOK
  <1>5. FutureInv'
    BY <1>0, <1>1, <1>2, <1>3 DEF PublisherInv, FutureInv, WakeupInv
  <1>6. QueueInv'
    BY <1>0, <1>2 DEF PublisherInv, QueueInv, IsCurrent, Current
  <1>7. WakeupInv'
    BY <1>0, <1>2 DEF PublisherInv, WakeupInv, IsCurrent, Current
  <1>8. LateInv' /\ ReturnedStored'
    BY <1>0 DEF PublisherInv, LateInv, ReturnedStored
  <1> QED
    BY <1>2, <1>4, <1>5, <1>6, <1>7, <1>8 DEF PublisherInv

\* The broker stores a letter, or not, and the producer's report says so.
LEMMA ReportStep ==
    ASSUME PublisherInv, NEW m \in queue, Acknowledge(m) \/ FailDelivery(m)
    PROVE  PublisherInv' /\ TopicGrows
  <1>0. UNCHANGED <<call, letter, tries, future, wakeups>> /\ PublisherTypeOK /\ m.state = "queued"
    BY DEF PublisherInv, Acknowledge, FailDelivery, publishVars
  <1>1. /\ m.letter \in Task \X Nat /\ m.letter[1] \in Task /\ m.letter[2] <= letter[m.letter[1]]
        /\ m.ticket \in Ticket
    BY <1>0, QueueParts DEF PublisherInv, QueueInv
  <1>2. /\ dlq' \in Seq((Task \X Nat) \cup {NoHeader}) /\ StoredInOrder' /\ TopicGrows
        /\ Acknowledge(m) => Stored(m.letter)'
    <2>1. CASE dlq' = Append(dlq, m.letter)
      <3>1. PICK l : l = m.letter
        OBVIOUS
      <3>2. StoredInOrder' /\ TopicGrows /\ Stored(l)' /\ dlq' \in Seq((Task \X Nat) \cup {NoHeader})
        BY <1>1, <2>1, <3>1, StoreLetter
      <3> QED
        BY <3>1, <3>2
    <2>2. CASE UNCHANGED dlq /\ ~Acknowledge(m)
      BY <1>0, <2>2, SameTopic DEF PublisherInv, PublisherTypeOK
    <2> QED
      BY <2>1, <2>2 DEF Acknowledge, FailDelivery
  <1>3. \A l : Stored(l) => Stored(l)'
    BY <1>0, <1>2, StoredStays
  <1>4. PICK n : /\ queue' = (queue \ {m}) \cup {n}
                 /\ n.ticket = m.ticket /\ n.letter = m.letter
                 /\ n.state \in {"acked", "failed"} /\ (n.state = "acked" => Acknowledge(m))
                 /\ n \in [ticket : Ticket, letter : Task \X Nat, state : {"queued", "acked", "failed"}]
    <2>0. m \in [ticket : Ticket, letter : Task \X Nat, state : {"queued", "acked", "failed"}]
      BY <1>0 DEF PublisherTypeOK
    <2>1. CASE Acknowledge(m)
      <3> DEFINE a == [m EXCEPT !.state = "acked"]
      <3>1. /\ queue' = (queue \ {m}) \cup {a}
            /\ a.ticket = m.ticket /\ a.letter = m.letter /\ a.state = "acked"
            /\ a \in [ticket : Ticket, letter : Task \X Nat, state : {"queued", "acked", "failed"}]
        BY <2>0, <2>1 DEF Acknowledge, Report
      <3> QED
        BY <2>1, <3>1
    <2>2. CASE FailDelivery(m)
      <3> DEFINE f == [m EXCEPT !.state = "failed"]
      <3>1. /\ queue' = (queue \ {m}) \cup {f}
            /\ f.ticket = m.ticket /\ f.letter = m.letter /\ f.state = "failed"
            /\ f \in [ticket : Ticket, letter : Task \X Nat, state : {"queued", "acked", "failed"}]
        BY <2>0, <2>2 DEF FailDelivery, Report
      <3> QED
        BY <3>1
    <2> QED
      BY <2>1, <2>2
  <1>5. lateLetters' \subseteq lateLetters \cup {m.letter}
    BY DEF Acknowledge, FailDelivery
  <1>6. PublisherTypeOK'
    BY <1>0, <1>1, <1>2, <1>4, <1>5 DEF PublisherTypeOK
  <1>7. /\ \A p : Current(p)' = Current(p)
        /\ \A k : IsCurrent(k)' <=> IsCurrent(k)
    BY <1>0 DEF Current, IsCurrent
  <1>8. QueueInv'
    <2> SUFFICES ASSUME NEW x \in queue'
                 PROVE  (/\ x.letter[1] = x.ticket[1]
                         /\ x.letter[2] <= letter[x.ticket[1]]
                         /\ x.ticket[2] <= tries[x.ticket[1]]
                         /\ IsCurrent(x.ticket) => x.letter = Current(x.ticket[1])
                         /\ x.state = "acked" => Stored(x.letter))'
      BY DEF QueueInv
    <2>1. CASE x \in queue
      BY <1>0, <1>3, <1>7, <2>1 DEF PublisherInv, QueueInv
    <2>2. CASE x = n
      <3>1. /\ x.letter[1] = x.ticket[1]
            /\ x.letter[2] <= letter[x.ticket[1]]
            /\ x.ticket[2] <= tries[x.ticket[1]]
            /\ IsCurrent(x.ticket) => x.letter = Current(x.ticket[1])
        BY <1>4, <2>2 DEF PublisherInv, QueueInv
      <3>2. x.state = "acked" => Stored(x.letter)'
        BY <1>2, <1>4, <2>2 DEF Stored
      <3> QED
        BY <1>0, <1>7, <3>1, <3>2
    <2> QED
      BY <1>4, <2>1, <2>2
  <1>9. WakeupInv' /\ FutureInv'
    BY <1>0, <1>3, <1>7 DEF PublisherInv, WakeupInv, FutureInv
  <1>10. LateInv'
    BY <1>0, <1>1, <1>5 DEF PublisherInv, LateInv
  <1>11. ReturnedStored'
    BY <1>0, <1>3 DEF PublisherInv, ReturnedStored, Stored
  <1> QED
    BY <1>2, <1>6, <1>8, <1>9, <1>10, <1>11 DEF PublisherInv

\* A letter given up is stored after all.
LEMMA LandStep ==
    ASSUME PublisherInv, NEW l \in lateLetters, LandLetter(l)
    PROVE  PublisherInv' /\ TopicGrows
  <1>0. UNCHANGED <<call, letter, tries, future, queue, wakeups>> /\ PublisherTypeOK
        /\ lateLetters' \subseteq lateLetters /\ dlq' = Append(dlq, l)
    BY DEF PublisherInv, LandLetter, publishVars
  <1>1. l \in Task \X Nat /\ l[2] <= letter[l[1]]
    BY <1>0, QueueParts DEF PublisherInv, LateInv
  <1>2. dlq' \in Seq((Task \X Nat) \cup {NoHeader}) /\ StoredInOrder' /\ TopicGrows
    BY <1>0, <1>1, StoreLetter
  <1>3. \A x : Stored(x) => Stored(x)'
    BY <1>0, <1>2, StoredStays
  <1>4. /\ \A p : Current(p)' = Current(p)
        /\ \A k : IsCurrent(k)' <=> IsCurrent(k)
    BY <1>0 DEF Current, IsCurrent
  <1>5. PublisherTypeOK'
    BY <1>0, <1>2 DEF PublisherTypeOK
  <1>6. QueueInv'
    BY <1>0, <1>3, <1>4 DEF PublisherInv, QueueInv
  <1>7. WakeupInv' /\ FutureInv' /\ LateInv'
    BY <1>0, <1>3, <1>4 DEF PublisherInv, WakeupInv, FutureInv, LateInv
  <1>8. ReturnedStored'
    BY <1>0, <1>3 DEF PublisherInv, ReturnedStored, Stored
  <1> QED
    BY <1>2, <1>5, <1>6, <1>7, <1>8 DEF PublisherInv

\* A report is served.
LEMMA DeliveryStep ==
    ASSUME PublisherInv, NEW m \in queue, OnDelivery(m)
    PROVE  PublisherInv' /\ TopicGrows
  <1> DEFINE w == [ticket |-> m.ticket, err |-> m.state = "failed"]
  <1>0. /\ UNCHANGED <<call, letter, tries, future, dlq, lateLetters>> /\ PublisherTypeOK
        /\ queue' \subseteq queue /\ m.state # "queued"
        /\ wakeups' = wakeups \cup {w}
    BY DEF PublisherInv, OnDelivery, publishVars
  <1>1. TopicGrows /\ (\A l : Stored(l)' <=> Stored(l)) /\ StoredInOrder'
    BY <1>0, SameTopic DEF PublisherInv
  <1>2. /\ \A p : Current(p)' = Current(p)
        /\ \A k : IsCurrent(k)' <=> IsCurrent(k)
    BY <1>0 DEF Current, IsCurrent
  <1>3. w.ticket = m.ticket /\ (~w.err => m.state # "failed") /\ w.err \in BOOLEAN
    OBVIOUS
  <1>4. m.ticket \in Ticket /\ m.state \in {"queued", "acked", "failed"}
    BY <1>0, QueueParts
  <1>5. w \in [ticket : Ticket, err : BOOLEAN]
    BY <1>4
  <1> HIDE DEF w
  <1>6. PublisherTypeOK'
    BY <1>0, <1>5 DEF PublisherTypeOK
  <1>7. WakeupInv'
    <2>1. /\ w.ticket[2] <= tries[w.ticket[1]]
          /\ IsCurrent(w.ticket) /\ ~w.err => Stored(Current(w.ticket[1]))
      BY <1>0, <1>3, <1>4 DEF PublisherInv, QueueInv
    <2> QED
      BY <1>0, <1>1, <1>2, <2>1 DEF PublisherInv, WakeupInv
  <1>8. QueueInv'
    BY <1>0, <1>1, <1>2 DEF PublisherInv, QueueInv
  <1>9. FutureInv' /\ LateInv' /\ ReturnedStored'
    BY <1>0, <1>1, <1>2 DEF PublisherInv, FutureInv, LateInv, ReturnedStored
  <1> QED
    BY <1>1, <1>6, <1>7, <1>8, <1>9 DEF PublisherInv

\* Every step of tasks, producer and broker.
LEMMA PublisherKeeps ==
    ASSUME PublisherInv, PublisherNext
    PROVE  PublisherInv' /\ TopicGrows
  BY CallStep, WaitStep, ReturnStep, SettleStep, ReportStep, LandStep, DeliveryStep DEF PublisherNext

----------------------------------------------------------------------------
(* Replaying *)

\* Every letter before offset n is dealt with.
Passed(n) == \A o \in 1..(n - 1) : SourceTopic(o) => Arrived(o, Len(topic)) \/ o \in rejected

PollInv == pc = "poll" /\ ~dry => position \in 1..(Len(dlq) + 1) /\ Passed(position)

HandInv ==
    pc \in {"flush", "commit"} =>
        /\ ~dry /\ position \in 2..(Len(dlq) + 1) /\ Passed(InHand)
        /\ sent # "none"
        /\ sent = "delivered" => Arrived(InHand, Len(topic))
        /\ sent = "failed" => InHand \in rejected
        /\ pc = "commit" => sent # "queued"

LatePassed == \A o \in late : Passed(o)

Inv ==
    /\ PublisherInv
    /\ TypeOK
    /\ PollInv /\ HandInv /\ LatePassed
    /\ NothingPassedOver /\ OrderKept

\* Arrivals and refusals are only added.
ArrivalsGrow ==
    /\ Len(topic') \in Nat /\ Len(topic) <= Len(topic')
    /\ \A i \in 1..Len(topic) : topic'[i] = topic[i]
    /\ rejected \subseteq rejected'

\* The initial states satisfy the invariant.
LEMMA InitInv == Init => Inv
  <1> SUFFICES ASSUME Init PROVE Inv
    OBVIOUS
  <1>1. PublisherInv /\ Len(dlq) \in Nat
    BY PublisherStarts DEF Init, PublisherInv, PublisherTypeOK
  <1>2. TypeOK
    <2>1. <<>> \in Seq(Offset)
      OBVIOUS
    <2>2. dry \in BOOLEAN
      BY DEF Init
    <2>3. committed = 1
      BY DEF Init
    <2>4. committed \in 1..(Len(dlq) + 1)
      BY <1>1, <2>3
    <2> QED
      BY <1>1, <2>1, <2>2, <2>4 DEF Init, TypeOK, PublisherInv
  <1>3. PollInv /\ HandInv /\ LatePassed /\ NothingPassedOver /\ OrderKept
    BY DEF Init, PollInv, HandInv, LatePassed, NothingPassedOver, OrderKept
  <1> QED
    BY <1>1, <1>2, <1>3 DEF Inv

\* The parts of the state that the order rests on.
LEMMA ReplayParts ==
    ASSUME TypeOK
    PROVE  /\ Len(dlq) \in Nat /\ Len(topic) \in Nat /\ position \in Nat
           /\ committed \in 1..(Len(dlq) + 1)
           /\ \A i \in 1..Len(topic) : topic[i] \in 1..Len(dlq)
           /\ \A o \in late : o \in 1..Len(dlq)
  BY DEF TypeOK, PublisherTypeOK, Offset

\* What has arrived, or was dealt with, stays so.
LEMMA PassedStays ==
    ASSUME TypeOK, TopicGrows, ArrivalsGrow
    PROVE  /\ \A o, n : n \in 0..Len(topic) /\ Arrived(o, n) => Arrived(o, n)'
           /\ \A o : Arrived(o, Len(topic)) => Arrived(o, Len(topic))'
           /\ \A n \in 1..(Len(dlq) + 1) : Passed(n) => Passed(n)'
  <1>0. Len(topic) \in Nat /\ Len(dlq) \in Nat
    BY ReplayParts
  <1>1. \A o, n : n \in 0..Len(topic) /\ Arrived(o, n) => Arrived(o, n)'
    BY <1>0 DEF Arrived, ArrivalsGrow
  <1>2. ASSUME NEW o, Arrived(o, Len(topic)) PROVE Arrived(o, Len(topic))'
    <2>1. PICK i \in 1..Len(topic) : topic[i] = o
      BY <1>2 DEF Arrived
    <2>2. i \in 1..Len(topic') /\ topic'[i] = o
      BY <1>0, <2>1 DEF ArrivalsGrow
    <2> QED
      BY <2>2 DEF Arrived
  <1>3. ASSUME NEW n \in 1..(Len(dlq) + 1), Passed(n) PROVE Passed(n)'
    <2> SUFFICES ASSUME NEW o \in 1..(n - 1), SourceTopic(o)'
                 PROVE  Arrived(o, Len(topic))' \/ o \in rejected'
      BY DEF Passed
    <2>1. o \in 1..Len(dlq)
      BY <1>0
    <2>2. SourceTopic(o)
      BY <2>1 DEF TopicGrows, SourceTopic
    <2> QED
      BY <1>2, <1>3, <2>2 DEF Passed, ArrivalsGrow
  <1> QED
    BY <1>1, <1>2, <1>3

\* Arrivals that come in order keep the order.
LEMMA OrderStays ==
    ASSUME TypeOK, OrderKept, TopicGrows, ArrivalsGrow,
           \A i \in 1..Len(topic') : i \notin 1..Len(topic) =>
                i = Len(topic) + 1 /\ topic'[i] \in 1..Len(dlq) /\ Passed(topic'[i])
    PROVE  OrderKept'
  <1>0. Len(topic) \in Nat /\ Len(dlq) \in Nat /\ \A i \in 1..Len(topic) : topic[i] \in 1..Len(dlq)
    BY ReplayParts
  <1> SUFFICES ASSUME NEW i \in 1..Len(topic'), NEW o \in 1..(topic'[i] - 1),
                      SourceTopic(o)', o \notin rejected'
               PROVE  Arrived(o, i - 1)'
    BY DEF OrderKept
  <1>1. topic'[i] \in 1..Len(dlq)
    BY <1>0 DEF ArrivalsGrow
  <1>2. o \in 1..Len(dlq) /\ SourceTopic(o) /\ o \notin rejected
    BY <1>0, <1>1 DEF TopicGrows, SourceTopic, ArrivalsGrow
  <1>3. Arrived(o, i - 1) /\ i - 1 \in 0..Len(topic)
    <2>1. CASE i \in 1..Len(topic)
      BY <1>0, <1>2, <2>1 DEF OrderKept, ArrivalsGrow
    <2>2. CASE i \notin 1..Len(topic)
      <3>1. i - 1 = Len(topic) /\ Passed(topic'[i])
        BY <1>0, <2>2
      <3>2. Arrived(o, Len(topic))
        BY <1>2, <3>1 DEF Passed
      <3> QED
        BY <1>0, <3>1, <3>2
    <2> QED
      BY <2>1, <2>2
  <1> QED
    BY <1>3, PassedStays

\* A step of the replay leaves the publisher alone.
LEMMA SamePublisher ==
    ASSUME PublisherInv, UNCHANGED publisherVars
    PROVE  PublisherInv' /\ TopicGrows /\ UNCHANGED dlq
  <1>0. UNCHANGED <<call, letter, tries, future, queue, wakeups, dlq, lateLetters>> /\ PublisherTypeOK
    BY DEF PublisherInv, publisherVars, publishVars, producerVars
  <1>1. TopicGrows /\ (\A l : Stored(l)' <=> Stored(l)) /\ StoredInOrder'
    BY <1>0, SameTopic DEF PublisherInv
  <1>2. /\ \A p : Current(p)' = Current(p)
        /\ \A k : IsCurrent(k)' <=> IsCurrent(k)
    BY <1>0 DEF Current, IsCurrent
  <1>3. PublisherTypeOK'
    BY <1>0 DEF PublisherTypeOK
  <1>4. QueueInv'
    BY <1>0, <1>1, <1>2 DEF PublisherInv, QueueInv
  <1>5. WakeupInv' /\ FutureInv' /\ LateInv' /\ ReturnedStored'
    BY <1>0, <1>1, <1>2 DEF PublisherInv, WakeupInv, FutureInv, LateInv, ReturnedStored
  <1> QED
    BY <1>0, <1>1, <1>3, <1>4, <1>5 DEF PublisherInv

\* What a step of the replay has to respect.
LEMMA ReplayStep ==
    ASSUME Inv, UNCHANGED publisherVars, TypeOK', ArrivalsGrow, PollInv', HandInv',
           \A i \in 1..Len(topic') : i \notin 1..Len(topic) =>
                i = Len(topic) + 1 /\ topic'[i] \in 1..Len(dlq) /\ Passed(topic'[i]),
           \A o \in late' : o \in late \/ (o \in 1..Len(dlq) /\ Passed(o)),
           committed' = committed \/ Passed(committed')
    PROVE  Inv'
  <1>0. PublisherInv' /\ TopicGrows /\ UNCHANGED dlq /\ TypeOK
    BY SamePublisher DEF Inv
  <1>1. Len(dlq) \in Nat /\ \A o \in late : o \in 1..Len(dlq)
    BY <1>0, ReplayParts
  <1>2. OrderKept'
    BY <1>0, OrderStays DEF Inv
  <1>3. LatePassed'
    <2>1. \A o \in late' : o \in 1..(Len(dlq) + 1) /\ Passed(o)
      BY <1>1 DEF Inv, LatePassed
    <2> QED
      BY <1>0, <2>1, PassedStays DEF LatePassed
  <1>4. NothingPassedOver'
    <2>1. PICK n : n = committed'
      OBVIOUS
    <2>2. n \in 1..(Len(dlq) + 1)
      BY <1>0, <2>1 DEF TypeOK
    <2>3. Passed(n)
      BY <2>1 DEF Inv, NothingPassedOver, Passed
    <2>4. Passed(n)'
      BY <1>0, <2>2, <2>3, PassedStays
    <2> QED
      BY <2>1, <2>4 DEF NothingPassedOver, Passed
  <1> QED
    BY <1>0, <1>2, <1>3, <1>4 DEF Inv

\* Nothing arrives and nothing is refused.
LEMMA SameArrivals ==
    ASSUME Inv, UNCHANGED <<topic, rejected>>, UNCHANGED publisherVars
    PROVE  /\ ArrivalsGrow /\ (\A n : Passed(n)' <=> Passed(n))
           /\ \A o, n : Arrived(o, n)' <=> Arrived(o, n)
  <1>0. UNCHANGED dlq /\ Len(topic) \in Nat
    BY SamePublisher, ReplayParts DEF Inv
  <1>1. \A o, n : Arrived(o, n)' <=> Arrived(o, n)
    BY DEF Arrived
  <1>2. \A n : Passed(n)' <=> Passed(n)
    BY <1>0, <1>1 DEF Passed, SourceTopic
  <1> QED
    BY <1>0, <1>1, <1>2 DEF ArrivalsGrow

\* A run starts, or lists or skips a letter, or takes the next one.
LEMMA PollStep ==
    ASSUME Inv, UNCHANGED publisherVars, Start \/ List \/ Skip \/ Republish
    PROVE  Inv'
  <1>0. /\ UNCHANGED <<committed, topic, late, rejected>> /\ TypeOK /\ UNCHANGED dlq
        /\ PublisherTypeOK'
    BY SamePublisher DEF Inv, Start, List, Skip, Republish, Next_letter, letterVars, PublisherInv
  <1>1. /\ ArrivalsGrow /\ (\A n : Passed(n)' <=> Passed(n))
        /\ \A o, n : Arrived(o, n)' <=> Arrived(o, n)
    BY <1>0, SameArrivals
  <1>2. /\ Len(dlq) \in Nat /\ position \in Nat /\ committed \in 1..(Len(dlq) + 1) /\ replayed \in Nat
    BY <1>0, ReplayParts DEF TypeOK
  <1>3. TypeOK'
    <2>1. /\ pc' \in {"off", "poll", "flush", "commit"} /\ dry' \in BOOLEAN
          /\ sent' \in {"none", "queued", "delivered", "failed"}
          /\ pc' \in {"off", "poll"} => sent' = "none"
      BY <1>0 DEF Start, List, Skip, Republish, Next_letter, TypeOK
    <2>2. position' \in Nat /\ replayed' \in Nat /\ runs' \in Nat
      BY <1>0, <1>2 DEF Start, List, Skip, Republish, Next_letter, TypeOK
    <2> QED
      BY <1>0, <2>1, <2>2 DEF TypeOK, Offset
  <1>4. PollInv' /\ HandInv'
    <2>1. CASE Start
      <3>1. Passed(committed) /\ pc' = "poll" /\ position' = committed
        BY <2>1 DEF Inv, NothingPassedOver, Passed, Start
      <3> QED
        BY <1>0, <1>1, <1>2, <3>1 DEF PollInv, HandInv
    <2>2. CASE List
      BY <2>2 DEF List, Next_letter, PollInv, HandInv
    <2>3. CASE Skip
      <3>1. /\ pc = "poll" /\ ~dry /\ pc' = "poll" /\ position' = position + 1
            /\ position <= Len(dlq) /\ ~SourceTopic(position)
        BY <2>3 DEF Skip, Next_letter
      <3>2. position \in 1..(Len(dlq) + 1) /\ Passed(position)
        BY <3>1 DEF Inv, PollInv
      <3>3. Passed(position + 1)
        BY <1>2, <3>1, <3>2 DEF Passed
      <3> QED
        BY <1>0, <1>1, <1>2, <3>1, <3>2, <3>3 DEF PollInv, HandInv
    <2>4. CASE Republish
      <3>1. /\ pc = "poll" /\ ~dry /\ dry' = dry /\ pc' = "flush" /\ position' = position + 1
            /\ position <= Len(dlq) /\ sent' = "queued"
        BY <2>4 DEF Republish, Next_letter
      <3>2. position \in 1..(Len(dlq) + 1) /\ Passed(position)
        BY <3>1 DEF Inv, PollInv
      <3>3. InHand' = position /\ position' \in 2..(Len(dlq) + 1)
        BY <1>2, <3>1, <3>2 DEF InHand
      <3>4. Passed(InHand)'
        BY <1>0, <1>1, <3>2, <3>3 DEF Passed
      <3> QED
        BY <1>0, <3>1, <3>3, <3>4 DEF PollInv, HandInv
    <2> QED
      BY <2>1, <2>2, <2>3, <2>4
  <1> QED
    BY <1>0, <1>1, <1>3, <1>4, ReplayStep

\* The producer settles the letter in hand.
LEMMA SentStep ==
    ASSUME Inv, UNCHANGED publisherVars, Deliver \/ Fail
    PROVE  Inv'
  <1>0. /\ UNCHANGED <<pc, dry, position, replayed, committed, runs>> /\ TypeOK /\ UNCHANGED dlq
        /\ sent = "queued" /\ PublisherTypeOK' /\ TopicGrows
    BY SamePublisher DEF Inv, Deliver, Fail, PublisherInv
  <1>1. /\ Len(dlq) \in Nat /\ Len(topic) \in Nat /\ topic \in Seq(1..Len(dlq))
        /\ position \in Nat
    BY <1>0, ReplayParts DEF TypeOK, Offset
  <1>2. /\ pc = "flush" /\ ~dry /\ position \in 2..(Len(dlq) + 1) /\ Passed(InHand)
    BY <1>0 DEF Inv, HandInv, TypeOK
  <1>3. InHand \in 1..Len(dlq) /\ InHand' = InHand
    BY <1>0, <1>1, <1>2 DEF InHand
  <1>4. CASE Deliver
    <2>1. /\ topic' = Append(topic, InHand) /\ rejected' = rejected /\ sent' = "delivered"
          /\ late' = late
      BY <1>4 DEF Deliver
    <2>2. /\ topic' \in Seq(1..Len(dlq)) /\ Len(topic') = Len(topic) + 1
          /\ topic'[Len(topic) + 1] = InHand
          /\ \A i \in 1..Len(topic) : topic'[i] = topic[i]
      BY <1>1, <1>3, <2>1
    <2>3. ArrivalsGrow
      BY <1>1, <2>1, <2>2 DEF ArrivalsGrow
    <2>4. \A i \in 1..Len(topic') : i \notin 1..Len(topic) =>
             i = Len(topic) + 1 /\ topic'[i] \in 1..Len(dlq) /\ Passed(topic'[i])
      BY <1>1, <1>2, <1>3, <2>2
    <2>5. TypeOK'
      BY <1>0, <1>2, <2>1, <2>2 DEF TypeOK, Offset
    <2>6. PollInv' /\ HandInv'
      <3>1. Arrived(InHand, Len(topic))'
        BY <1>1, <1>3, <2>2 DEF Arrived
      <3>2. Passed(InHand)'
        <4>1. PICK n : n = InHand
          OBVIOUS
        <4>2. Passed(n)'
          BY <1>0, <1>1, <1>2, <1>3, <2>3, <4>1, PassedStays
        <4> QED
          BY <1>3, <4>1, <4>2 DEF Passed
      <3> QED
        BY <1>0, <1>2, <2>1, <3>1, <3>2 DEF PollInv, HandInv
    <2> QED
      BY <1>0, <2>1, <2>3, <2>4, <2>5, <2>6, ReplayStep
  <1>5. CASE Fail
    <2>1. /\ topic' = topic /\ rejected' = rejected \cup {InHand} /\ sent' = "failed"
          /\ late' = late \/ late' = late \cup {InHand}
      BY <1>5 DEF Fail
    <2>2. ArrivalsGrow
      BY <1>1, <2>1 DEF ArrivalsGrow
    <2>3. TypeOK'
      BY <1>0, <1>2, <1>3, <2>1 DEF TypeOK, Offset
    <2>4. PollInv' /\ HandInv'
      <3>1. Passed(InHand)'
        <4>1. PICK n : n = InHand
          OBVIOUS
        <4>2. Passed(n)'
          BY <1>0, <1>1, <1>2, <1>3, <2>2, <4>1, PassedStays
        <4> QED
          BY <1>3, <4>1, <4>2 DEF Passed
      <3> QED
        BY <1>0, <1>2, <1>3, <2>1, <3>1 DEF PollInv, HandInv
    <2>5. \A o \in late' : o \in late \/ (o \in 1..Len(dlq) /\ Passed(o))
      BY <1>2, <1>3, <2>1
    <2> QED
      BY <1>0, <2>1, <2>2, <2>3, <2>4, <2>5, ReplayStep
  <1> QED
    BY <1>4, <1>5

\* flush has returned 0; then the offset is committed.
LEMMA FlushStep ==
    ASSUME Inv, UNCHANGED publisherVars, Flush \/ Commit
    PROVE  Inv'
  <1>0. /\ UNCHANGED <<dry, position, topic, late, rejected, runs>> /\ TypeOK /\ UNCHANGED dlq
        /\ PublisherTypeOK'
    BY SamePublisher DEF Inv, Flush, Commit, letterVars, PublisherInv
  <1>1. /\ ArrivalsGrow /\ (\A n : Passed(n)' <=> Passed(n))
        /\ \A o, n : Arrived(o, n)' <=> Arrived(o, n)
    BY <1>0, SameArrivals
  <1>2. Len(dlq) \in Nat /\ position \in Nat
    BY <1>0, ReplayParts
  <1>3. CASE Flush
    <2>1. /\ pc = "flush" /\ sent # "queued" /\ pc' = "commit" /\ UNCHANGED <<sent, replayed, committed>>
      BY <1>3 DEF Flush, letterVars
    <2>2. TypeOK'
      BY <1>0, <2>1 DEF TypeOK, Offset
    <2>3. InHand' = InHand
      BY <1>0 DEF InHand
    <2>4. HandInv
      BY DEF Inv
    <2>5. HandInv' /\ PollInv'
      BY <1>0, <1>1, <2>1, <2>3, <2>4 DEF HandInv, PollInv, Passed
    <2> QED
      BY <1>0, <1>1, <2>1, <2>2, <2>5, ReplayStep
  <1>4. CASE Commit
    <2>1. /\ pc = "commit" /\ pc' = "poll" /\ sent' = "none" /\ committed' = position
          /\ replayed' = replayed + 1
      BY <1>4 DEF Commit
    <2>2. /\ position \in 2..(Len(dlq) + 1) /\ Passed(InHand)
          /\ Arrived(InHand, Len(topic)) \/ InHand \in rejected
      BY <1>0, <2>1 DEF Inv, HandInv, TypeOK
    <2>3. Passed(position)
      <3> SUFFICES ASSUME NEW o \in 1..(position - 1), SourceTopic(o)
                   PROVE  Arrived(o, Len(topic)) \/ o \in rejected
        BY DEF Passed
      <3>1. o = InHand \/ o \in 1..(InHand - 1)
        BY <1>2, <2>2 DEF InHand
      <3> QED
        BY <2>2, <3>1 DEF Passed
    <2>4. TypeOK'
      <3>1. committed' \in 1..(Len(dlq) + 1) /\ replayed' \in Nat
        BY <1>0, <1>2, <2>1, <2>2 DEF TypeOK
      <3> QED
        BY <1>0, <2>1, <3>1 DEF TypeOK, Offset
    <2>5. HandInv' /\ PollInv'
      <3>1. position' \in 1..(Len(dlq') + 1) /\ Passed(position)'
        <4>1. PICK n : n = position
          OBVIOUS
        <4>2. n = position' /\ n \in 2..(Len(dlq) + 1) /\ Passed(n)
          BY <1>0, <2>2, <2>3, <4>1
        <4>3. n \in 1..(Len(dlq) + 1)
          BY <1>2, <4>2
        <4> QED
          BY <1>0, <1>1, <4>2, <4>3 DEF Passed
      <3> QED
        BY <2>1, <3>1 DEF HandInv, PollInv
    <2> QED
      BY <1>0, <1>1, <2>1, <2>3, <2>4, <2>5, ReplayStep
  <1> QED
    BY <1>3, <1>4

\* The run ends, and may leave its letter with the producer.
LEMMA EndStep ==
    ASSUME Inv, UNCHANGED publisherVars, End
    PROVE  Inv'
  <1>0. /\ UNCHANGED <<committed, topic, rejected, runs>> /\ TypeOK /\ UNCHANGED dlq
        /\ PublisherTypeOK' /\ pc' = "off" /\ dry' = FALSE /\ position' = 1 /\ replayed' = 0
        /\ sent' = "none"
    BY SamePublisher DEF Inv, End, PublisherInv
  <1>1. ArrivalsGrow /\ Len(dlq) \in Nat /\ position \in Nat
    BY <1>0, SameArrivals, ReplayParts
  <1>2. \A o \in late' : o \in late \/ (o \in 1..Len(dlq) /\ Passed(o))
    <2>1. CASE sent = "queued"
      <3>1. late' = late \cup {InHand}
        BY <2>1 DEF End
      <3>2. position \in 2..(Len(dlq) + 1) /\ Passed(InHand)
        BY <1>0, <2>1 DEF Inv, HandInv, TypeOK
      <3>3. InHand \in 1..Len(dlq)
        BY <1>1, <3>2 DEF InHand
      <3> QED
        BY <3>1, <3>2, <3>3
    <2>2. CASE sent # "queued"
      BY <2>2 DEF End
    <2> QED
      BY <2>1, <2>2
  <1>3. TypeOK'
    <2>1. late' \subseteq 1..Len(dlq) /\ dry' \in BOOLEAN
      BY <1>0, <1>2 DEF TypeOK, Offset
    <2> QED
      BY <1>0, <2>1 DEF TypeOK, Offset
  <1>4. PollInv' /\ HandInv'
    BY <1>0 DEF PollInv, HandInv
  <1> QED
    BY <1>0, <1>1, <1>2, <1>3, <1>4, ReplayStep

\* A letter of an ended run arrives.
LEMMA LandLateStep ==
    ASSUME Inv, UNCHANGED publisherVars, NEW o \in late, LandLate(o)
    PROVE  Inv'
  <1>0. /\ UNCHANGED <<pc, dry, position, replayed, sent, committed, rejected, runs>> /\ TypeOK
        /\ UNCHANGED dlq /\ PublisherTypeOK' /\ TopicGrows /\ late' \subseteq late
        /\ topic' = Append(topic, o)
    BY SamePublisher DEF Inv, LandLate, PublisherInv
  <1>1. /\ Len(dlq) \in Nat /\ Len(topic) \in Nat /\ topic \in Seq(1..Len(dlq))
        /\ position \in Nat /\ o \in 1..Len(dlq)
    BY <1>0, ReplayParts DEF TypeOK, Offset
  <1>2. Passed(o)
    BY DEF Inv, LatePassed
  <1>3. /\ topic' \in Seq(1..Len(dlq)) /\ Len(topic') = Len(topic) + 1
        /\ topic'[Len(topic) + 1] = o
        /\ \A i \in 1..Len(topic) : topic'[i] = topic[i]
    BY <1>0, <1>1
  <1>4. ArrivalsGrow
    BY <1>0, <1>1, <1>3 DEF ArrivalsGrow
  <1>5. \A i \in 1..Len(topic') : i \notin 1..Len(topic) =>
           i = Len(topic) + 1 /\ topic'[i] \in 1..Len(dlq) /\ Passed(topic'[i])
    BY <1>1, <1>2, <1>3
  <1>6. TypeOK'
    BY <1>0, <1>3 DEF TypeOK, Offset
  <1>7. PollInv' /\ HandInv'
    <2>1. PICK n, h : n = position /\ h = InHand
      OBVIOUS
    <2>2. n = position' /\ h = InHand' /\ h = n - 1
      BY <1>0, <2>1 DEF InHand
    <2>3. ASSUME pc = "poll", ~dry PROVE n \in 1..(Len(dlq) + 1) /\ Passed(n)'
      BY <1>0, <1>4, <2>1, <2>3, PassedStays DEF Inv, PollInv
    <2>4. ASSUME pc \in {"flush", "commit"}
          PROVE  /\ n \in 2..(Len(dlq) + 1) /\ Passed(h)'
                 /\ sent = "delivered" => Arrived(h, Len(topic))'
      <3>1. /\ n \in 2..(Len(dlq) + 1) /\ Passed(h)
            /\ sent = "delivered" => Arrived(h, Len(topic))
        BY <2>1, <2>4 DEF Inv, HandInv
      <3>2. h \in 1..(Len(dlq) + 1)
        <4>1. h = n - 1 /\ n \in 2..(Len(dlq) + 1)
          BY <2>2, <3>1
        <4> QED
          BY <1>1, <4>1
      <3> QED
        BY <1>0, <1>4, <3>1, <3>2, PassedStays
    <2>5. PollInv'
      BY <1>0, <2>2, <2>3 DEF PollInv, Passed
    <2>6. HandInv'
      BY <1>0, <2>1, <2>2, <2>4 DEF Inv, HandInv, Passed
    <2> QED
      BY <2>5, <2>6
  <1> QED
    BY <1>0, <1>4, <1>5, <1>6, <1>7, ReplayStep

\* Letters are added to the topic while a run goes on.
LEMMA PublisherStep ==
    ASSUME Inv, PublisherNext, UNCHANGED replayVars
    PROVE  Inv'
  <1>0. /\ UNCHANGED <<pc, dry, position, replayed, sent, committed, topic, late, rejected, runs>>
        /\ TypeOK /\ PublisherInv' /\ TopicGrows /\ PublisherTypeOK'
    BY PublisherKeeps DEF Inv, replayVars, letterVars, PublisherInv
  <1>1. /\ Len(dlq) \in Nat /\ Len(topic) \in Nat /\ Len(dlq') \in Nat /\ Len(dlq) <= Len(dlq')
        /\ committed \in 1..(Len(dlq) + 1)
        /\ \A o \in late : o \in 1..Len(dlq)
    BY <1>0, ReplayParts DEF TopicGrows
  <1>2. ArrivalsGrow
    BY <1>0, <1>1 DEF ArrivalsGrow
  <1>3. TypeOK'
    <2>1. 1..Len(dlq) \subseteq 1..Len(dlq')
      BY <1>1
    <2>2. topic \in Seq(1..Len(dlq'))
      <3>1. PICK S, T : S = 1..Len(dlq) /\ T = 1..Len(dlq')
        OBVIOUS
      <3>2. topic \in Seq(S) /\ S \subseteq T
        BY <1>0, <2>1, <3>1 DEF TypeOK, Offset
      <3>3. topic \in Seq(T)
        BY <3>2
      <3> QED
        BY <3>1, <3>3
    <2>3. committed \in 1..(Len(dlq') + 1)
      BY <1>1
    <2> QED
      BY <1>0, <2>1, <2>2, <2>3 DEF TypeOK, Offset
  <1>4. \A n \in 1..(Len(dlq) + 1) : Passed(n) => Passed(n)'
    BY <1>0, <1>2, PassedStays
  <1>5. OrderKept'
    BY <1>0, <1>2, OrderStays DEF Inv
  <1>6. LatePassed'
    BY <1>0, <1>1, <1>4 DEF Inv, LatePassed
  <1>7. NothingPassedOver'
    <2>1. PICK n : n = committed
      OBVIOUS
    <2>2. Passed(n)'
      BY <1>1, <1>4, <2>1 DEF Inv, NothingPassedOver, Passed
    <2> QED
      BY <1>0, <2>1, <2>2 DEF NothingPassedOver, Passed
  <1>8. PollInv'
    <2> SUFFICES ASSUME pc = "poll", ~dry
                 PROVE  position \in 1..(Len(dlq') + 1) /\ Passed(position)'
      BY <1>0 DEF PollInv
    <2>1. PICK n : n = position
      OBVIOUS
    <2>2. n \in 1..(Len(dlq) + 1) /\ Passed(n)
      BY <2>1 DEF Inv, PollInv
    <2>3. Passed(n)' /\ n \in 1..(Len(dlq') + 1)
      BY <1>1, <1>4, <2>2
    <2> QED
      BY <1>0, <2>1, <2>3 DEF Passed
  <1>9. HandInv'
    <2> SUFFICES ASSUME pc \in {"flush", "commit"}
                 PROVE  /\ ~dry /\ position \in 2..(Len(dlq') + 1) /\ Passed(InHand)'
                        /\ sent # "none"
                        /\ sent = "delivered" => Arrived(InHand, Len(topic))
                        /\ sent = "failed" => InHand \in rejected
                        /\ pc = "commit" => sent # "queued"
      BY <1>0 DEF HandInv, InHand, Arrived
    <2>1. HandInv
      BY DEF Inv
    <2>2. PICK n : n = InHand
      OBVIOUS
    <2>3. position \in 2..(Len(dlq) + 1) /\ n = position - 1 /\ Passed(n)
      BY <2>1, <2>2 DEF HandInv, InHand
    <2>4. n \in 1..(Len(dlq) + 1) /\ position \in 2..(Len(dlq') + 1)
      BY <1>1, <2>3
    <2>5. Passed(n)'
      BY <1>4, <2>3, <2>4
    <2>6. Passed(InHand)'
      BY <1>0, <2>2, <2>5 DEF Passed, InHand
    <2> QED
      BY <2>1, <2>4, <2>6 DEF HandInv
  <1> QED
    BY <1>0, <1>3, <1>5, <1>6, <1>7, <1>8, <1>9 DEF Inv

\* Every step keeps the invariant.
LEMMA InvStep == Inv /\ [Next]_vars => Inv'
  <1> SUFFICES ASSUME Inv, [Next]_vars PROVE Inv'
    OBVIOUS
  <1>1. CASE UNCHANGED vars
    <2>1. /\ UNCHANGED publisherVars
          /\ UNCHANGED <<pc, dry, position, replayed, sent, committed, topic, late, rejected, runs>>
      BY <1>1 DEF vars, replayVars, letterVars
    <2>2. PublisherInv' /\ UNCHANGED dlq /\ PublisherTypeOK'
      BY <2>1, SamePublisher DEF Inv, PublisherInv
    <2>3. /\ ArrivalsGrow /\ (\A n : Passed(n)' <=> Passed(n))
          /\ \A o, n : Arrived(o, n)' <=> Arrived(o, n)
      BY <2>1, SameArrivals
    <2>4. TypeOK'
      BY <2>1, <2>2 DEF Inv, TypeOK, Offset
    <2>5. PollInv' /\ HandInv'
      BY <2>1, <2>2, <2>3 DEF Inv, PollInv, HandInv, Passed, InHand
    <2> QED
      BY <2>1, <2>3, <2>4, <2>5, ReplayStep
  <1>2. CASE Replay /\ UNCHANGED publisherVars
    BY <1>2, PollStep, SentStep, FlushStep, EndStep, LandLateStep DEF Replay
  <1>3. CASE PublisherNext /\ UNCHANGED replayVars
    BY <1>3, PublisherStep
  <1> QED
    BY <1>1, <1>2, <1>3 DEF Next

\* The invariant holds throughout.
LEMMA Invariance == Spec => []Inv
  BY InitInv, InvStep, PTL DEF Spec

----------------------------------------------------------------------------
(***************************************************************************)
(* The state of publisher and replay keeps its types; a letter is with the *)
(* script's producer only while a run waits for it.                        *)
(***************************************************************************)
THEOREM ReplayTypeCorrect == Spec => []TypeOK
  BY Invariance, PTL DEF Inv

(***************************************************************************)
(* When DeadLetterPublisher.publish has returned, the topic holds the      *)
(* letter, so the source offset may be stored.                             *)
(***************************************************************************)
THEOREM PublishedIsStored == Spec => []ReturnedStored
  BY Invariance, PTL DEF Inv, PublisherInv

(***************************************************************************)
(* The replay group's offset passes only letters that were re-published,   *)
(* or refused by the broker, or have no source topic.                      *)
(***************************************************************************)
THEOREM ReplayPassesNothing == Spec => []NothingPassedOver
  BY Invariance, PTL DEF Inv

(***************************************************************************)
(* Interrupted runs and late deliveries of replay_dlq.py keep the order of *)
(* first arrivals.                                                         *)
(***************************************************************************)
THEOREM ReplayKeepsOrder == Spec => []OrderKept
  BY Invariance, PTL DEF Inv

(***************************************************************************)
(* From publish through the dead-letter topic and the replay, a task's     *)
(* letters come back in their order, as far as the broker took them.       *)
(***************************************************************************)
THEOREM SourceOrderRestored == Spec => []ReplayInSourceOrder
  <1>1. Inv => ReplayInSourceOrder
    <2> SUFFICES ASSUME Inv, NEW i \in 1..Len(topic), NEW t \in Task, NEW n \in 1..Letters[t],
                        dlq[topic[i]] = <<t, n>>, NEW m \in 1..(n - 1)
                 PROVE  \/ \E j \in 1..(i - 1) : dlq[topic[j]] = <<t, m>>
                        \/ \E o \in rejected : dlq[o] = <<t, m>>
      BY DEF ReplayInSourceOrder
    <2>1. topic[i] \in 1..Len(dlq) /\ Len(dlq) \in Nat /\ n \in Nat
      BY ReplayParts, PublisherAssumption DEF Inv
    <2>2. PICK o \in 1..(topic[i] - 1) : dlq[o] = <<t, m>>
      BY <2>1 DEF Inv, PublisherInv, StoredInOrder
    <2>3. SourceTopic(o)
      <3>1. <<t, m>> # NoHeader
        BY PublisherAssumption
      <3> QED
        BY <2>2, <3>1 DEF SourceTopic
    <2>4. o \in rejected \/ Arrived(o, i - 1)
      BY <2>3 DEF Inv, OrderKept
    <2> QED
      BY <2>2, <2>4 DEF Arrived
  <1> QED
    BY <1>1, Invariance, PTL
=============================================================================
