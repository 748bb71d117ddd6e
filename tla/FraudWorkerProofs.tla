------------------------- MODULE FraudWorkerProofs -------------------------
(***************************************************************************)
(* Proofs about FraudWorker, for every number of workers, partitions and   *)
(* messages and every setting.                                             *)
(***************************************************************************)
EXTENDS FraudWorker, TLAPS

(***************************************************************************)
(* The store: what record_decision guarantees about the tables, for every  *)
(* log and every value of the constants.                                   *)
(***************************************************************************)
\* What a source is: a partition and an offset of its log.
LEMMA SourceFacts ==
    /\ \A src \in Source : /\ src[1] \in Partition
                           /\ src[2] \in 1..Len(Log[src[1]])
                           /\ src = <<src[1], src[2]>>
                           /\ MessageAt(src) \in Message
    /\ \A p \in Partition, o \in Nat : o \in 1..Len(Log[p]) => <<p, o>> \in Source
<1>1. \A src \in Source : /\ src[1] \in Partition
                          /\ src[2] \in 1..Len(Log[src[1]])
                          /\ src = <<src[1], src[2]>>
  BY DEF Source
<1>2. \A p \in Partition : Log[p] \in Seq(Message)
  BY LogAssumption
<1>3. \A src \in Source : MessageAt(src) \in Message
  <2>1. TAKE src \in Source
  <2>2. Log[src[1]] \in Seq(Message) /\ src[2] \in 1..Len(Log[src[1]])
    BY <1>1, <1>2
  <2>3. QED
    BY <2>2 DEF MessageAt
<1>4. \A p \in Partition, o \in Nat : o \in 1..Len(Log[p]) => <<p, o>> \in Source
  BY DEF Source
<1>5. QED
  BY <1>1, <1>3, <1>4

(***************************************************************************)
(* The tables and the topic only grow, so what is handled stays handled    *)
(* and what cannot be recorded stays unrecordable.                         *)
(***************************************************************************)
StoreGrows ==
    /\ transactions \subseteq transactions'
    /\ history \subseteq history'
    /\ dlq \subseteq dlq'

LEMMA StoreMonotone ==
    ASSUME StoreGrows
    PROVE  /\ \A src : Handled(src) => Handled(src)'
           /\ \A p, n : HandledBelow(p, n) => HandledBelow(p, n)'
           /\ \A src : Unrecordable(src) => Unrecordable(src)'
<1>1. \A src : Handled(src) => Handled(src)'
  BY DEF StoreGrows, Handled, Recorded, DeadLettered
<1>2. \A p, n : HandledBelow(p, n) => HandledBelow(p, n)'
  BY <1>1 DEF HandledBelow
<1>3. \A src : Unrecordable(src) => Unrecordable(src)'
  BY DEF StoreGrows, Unrecordable, Conflicts, Stored
<1>4. QED
  BY <1>1, <1>2, <1>3

(***************************************************************************)
(* record_decision: the message has its audit row, nothing stored changes, *)
(* and the audit trail stays exact.                                        *)
(***************************************************************************)
LEMMA RecordKeepsAudit ==
    ASSUME StoreTypeOK, AuditExact,
           NEW src \in Source, NEW v \in Verdict, record_decision(src, v)
    PROVE  /\ transactions' \subseteq Decision /\ history' \subseteq AuditRow
           /\ transactions \subseteq transactions' /\ history \subseteq history'
           /\ Recorded(src)'
           /\ AuditExact'
<1> DEFINE m == MessageAt(src)
<1>0. m \in Message /\ m.tx \in Transaction /\ m.data \in Data /\ m.valid
  BY SourceFacts DEF Message, record_decision
<1>1. CASE Evaluate(src, v)
  <2> DEFINE r == [tx |-> m.tx, data |-> m.data, verdict |-> v]
             h == [source |-> src, outcome |-> "evaluated", decision |-> r]
  <2>1. r \in Decision /\ h \in AuditRow
    BY <1>0 DEF Decision, AuditRow
  <2>2. /\ \A t \in transactions : t.tx # m.tx
        /\ transactions' = transactions \cup {r}
    BY <1>1 DEF Evaluate, Stored
  <2>3. \A g \in history : g.source # src
    BY <2>2 DEF AuditExact
  <2>4. history' = history \cup {h}
    BY <1>1, <2>3 DEF Evaluate, AppendAudit, history_values
  <2>5. r.tx = m.tx /\ r.data = m.data /\ h.source = src /\ h.decision = r /\ h.outcome = "evaluated"
    OBVIOUS
  <2> HIDE DEF r, h
  <2>6. AuditExact'
    <3>1. (\A r1, r2 \in transactions : r1.tx = r2.tx => r1 = r2)'
      BY <2>2, <2>5 DEF AuditExact
    <3>2. (\A t \in transactions : \E g \in history : g.decision = t /\ g.outcome = "evaluated")'
      BY <2>2, <2>4, <2>5 DEF AuditExact
    <3>3. (\A g \in history : /\ MessageAt(g.source).valid
                              /\ g.decision \in transactions
                              /\ g.decision.tx = MessageAt(g.source).tx
                              /\ g.decision.data = MessageAt(g.source).data)'
      BY <1>0, <2>2, <2>4, <2>5 DEF AuditExact, MessageAt
    <3>4. (\A h1, h2 \in history : h1.source = h2.source => h1 = h2)'
      BY <2>3, <2>4, <2>5 DEF AuditExact
    <3>5. r \notin transactions
      BY <2>2, <2>5
    <3>6. \A g \in history : g.decision # r
      BY <3>5 DEF AuditExact
    <3>7. (\A h1, h2 \in { g \in history : g.outcome = "evaluated" } :
              h1.decision = h2.decision => h1 = h2)'
      BY <2>4, <2>5, <3>6 DEF AuditExact
    <3>8. QED
      BY <3>1, <3>2, <3>3, <3>4, <3>7 DEF AuditExact
  <2>7. Recorded(src)'
    BY <2>4, <2>5 DEF Recorded
  <2>8. QED
    BY <2>1, <2>2, <2>4, <2>6, <2>7 DEF StoreTypeOK
<1>2. CASE Duplicate(src)
  <2>1. PICK r \in Stored(m.tx) : /\ same_transaction(r, m)
                                  /\ AppendAudit(history_values(src, "duplicate", r))
                                  /\ UNCHANGED transactions
    BY <1>2 DEF Duplicate
  <2> DEFINE h == [source |-> src, outcome |-> "duplicate", decision |-> r]
  <2>2. r \in transactions /\ r.tx = m.tx /\ r.data = m.data
    BY <2>1 DEF Stored, same_transaction
  <2>3. h \in AuditRow
    BY <2>2 DEF AuditRow, StoreTypeOK
  <2>4. CASE \E g \in history : g.source = src
    <3>1. UNCHANGED <<transactions, history>>
      BY <2>1, <2>4 DEF AppendAudit, history_values
    <3>2. AuditExact'
      BY <3>1 DEF AuditExact, MessageAt
    <3>3. QED
      BY <2>4, <3>1, <3>2 DEF Recorded, StoreTypeOK
  <2>5. CASE ~ \E g \in history : g.source = src
    <3>1. history' = history \cup {h} /\ transactions' = transactions
      BY <2>1, <2>5 DEF AppendAudit, history_values
    <3>2. h.source = src /\ h.decision = r /\ h.outcome = "duplicate"
      OBVIOUS
    <3> HIDE DEF h
    <3>3. AuditExact'
      BY <1>0, <2>2, <2>5, <3>1, <3>2 DEF AuditExact, MessageAt
    <3>4. QED
      BY <2>3, <3>1, <3>2, <3>3 DEF Recorded, StoreTypeOK
  <2>6. QED
    BY <2>4, <2>5
<1>3. QED
  BY <1>1, <1>2 DEF record_decision

(***************************************************************************)
(* With an exact audit trail, a message that cannot be recorded has no     *)
(* audit row: the row's decision would be the stored one it conflicts with.*)
(***************************************************************************)
LEMMA UnrecordableNotRecorded ==
    ASSUME AuditExact, NEW src \in Source, Unrecordable(src)
    PROVE  ~Recorded(src)
BY DEF AuditExact, Unrecordable, Conflicts, Stored, same_transaction, Recorded

-----------------------------------------------------------------------------

(***************************************************************************)
(* The inductive invariant.  NoLoss is not inductive: that an offset may   *)
(* be committed follows from where it came from, through the offset stored *)
(* by the task, the message the task worked on, the queue, the fetch       *)
(* position and back to the committed offset the slot started at.          *)
(***************************************************************************)
NextUp(s) == position[s] - Len(queue[s])
Active(s) == ~stopping[s] /\ (pc[s] = "get" \/ Busy(s))

\* A queue holds consecutive offsets that end just before the fetch position.
QueueInv(s) ==
    /\ pc[s] = "none" => stored[s] = 0 /\ ~stopping[s] /\ queue[s] = <<>>
    /\ Active(s) =>
          /\ NextUp(s) >= 1
          /\ position[s] <= Len(Log[s[2]]) + 1
          /\ \A i \in 1..Len(queue[s]) : queue[s][i] = NextUp(s) + i - 1

\* What a slot is about to do, is doing or has stored has nothing unhandled before it.
OrderInv(s) ==
    /\ pc[s] = "get" /\ Active(s) => HandledBelow(s[2], NextUp(s)) /\ stored[s] <= NextUp(s)
    /\ Busy(s) => /\ cur[s] \in 1..Len(Log[s[2]])
                  /\ HandledBelow(s[2], cur[s])
                  /\ stored[s] <= cur[s]
                  /\ ~stopping[s] => cur[s] + 1 = NextUp(s)
    /\ pc[s] = "handled" => Handled(Current(s))
    /\ stored[s] <= Len(Log[s[2]]) + 1 /\ HandledBelow(s[2], stored[s])

\* The owner of a partition is never behind the committed offset.
OwnerInv(s) ==
    owner[s[2]] = s[1] =>
        /\ stored[s] # 0 => stored[s] >= committed[s[2]]
        /\ Busy(s) => cur[s] >= committed[s[2]]
        /\ pc[s] = "get" /\ Active(s) => NextUp(s) >= committed[s[2]]

\* A verdict of undeliverable is justified and stays so.
Justified(src, class) ==
    /\ class = "permanent" => Unrecordable(src)
    /\ class = "unexpected" => surprises >= MaxUnexpected

LetterInv(s) ==
    /\ pc[s] = "process" => letter[s] = "none"
    /\ pc[s] = "publish" => letter[s] # "none"
    /\ Busy(s) => unexpected[s] <= surprises /\ Justified(Current(s), letter[s])

SlotInv(s) == QueueInv(s) /\ OrderInv(s) /\ OwnerInv(s) /\ LetterInv(s)

\* The requests nobody waits for were in order and justified when they were sent.
LateInv ==
    /\ \A u \in lateWrites : HandledBelow(u.source[1], u.source[2])
    /\ \A l \in lateLetters : HandledBelow(l.source[1], l.source[2]) /\ Justified(l.source, l.class)

CommitInv ==
    \A p \in Partition : committed[p] \in 1..Len(Log[p]) + 1 /\ HandledBelow(p, committed[p])

StoreInv == LateInv /\ CommitInv /\ OutageNeverDeadLetters /\ AuditExact

IndInv == StoreInv /\ \A s \in Slot : SlotInv(s)

Inv == TypeOK /\ IndInv

-----------------------------------------------------------------------------
\* A slot is a worker and a partition.
LEMMA SlotFacts ==
    \A s \in Slot : s[1] \in Worker /\ s[2] \in Partition /\ s = <<s[1], s[2]>>
BY DEF Slot

\* The length of a partition's log is a number.
LEMMA LogFacts == \A p \in Partition : Len(Log[p]) \in Nat /\ Log[p] \in Seq(Message)
BY LogAssumption

\* A task's message is a message of the log.
LEMMA CurrentIsSource ==
    ASSUME Inv, NEW s \in Slot, Busy(s)
    PROVE  /\ Current(s) \in Source
           /\ Current(s)[1] = s[2] /\ Current(s)[2] = cur[s]
<1>1. cur[s] \in 1..Len(Log[s[2]]) /\ s[2] \in Partition
  BY SlotFacts DEF Inv, IndInv, SlotInv, OrderInv
<1>2. QED
  BY <1>1, SourceFacts DEF Current, Inv, TypeOK

\* What growth of the store and of the failure count preserves.
Grows == StoreGrows /\ surprises \in Nat /\ surprises' \in Nat /\ surprises' >= surprises

LEMMA Monotone ==
    ASSUME Grows
    PROVE  /\ \A src : Handled(src) => Handled(src)'
           /\ \A p, n : HandledBelow(p, n) => HandledBelow(p, n)'
           /\ \A src, class : Justified(src, class) => Justified(src, class)'
<1>1. \A src, class : Justified(src, class) => Justified(src, class)'
  BY StoreMonotone, WorkerAssumption DEF Justified, Grows
<1>2. QED
  BY <1>1, StoreMonotone DEF Grows

\* The parts of the invariant about the store follow when tables and topic stay as they are.
LEMMA StoreInvSameTables ==
    ASSUME Inv, UNCHANGED storeVars, Grows, LateInv', CommitInv'
    PROVE  StoreInv'
<1>1. OutageNeverDeadLetters'
  BY StoreMonotone, WorkerAssumption
     DEF OutageNeverDeadLetters, Inv, IndInv, StoreInv, storeVars, Grows, TypeOK
<1>2. AuditExact'
  BY DEF AuditExact, Inv, IndInv, StoreInv, storeVars, MessageAt
<1>3. QED
  BY <1>1, <1>2 DEF StoreInv

LEMMA LateInvSame ==
    ASSUME Inv, Grows, UNCHANGED lateVars
    PROVE  LateInv'
BY Monotone DEF LateInv, lateVars, Inv, IndInv, StoreInv

LEMMA CommitInvSame ==
    ASSUME Inv, Grows, UNCHANGED committed
    PROVE  CommitInv'
BY Monotone DEF CommitInv, Inv, IndInv, StoreInv

\* A slot that a step leaves alone keeps its invariant.
SlotFrame(t) ==
    UNCHANGED <<pc[t], queue[t], stopping[t], cur[t], unexpected[t], letter[t],
                position[t], stored[t]>>

\* The owner keeps the partition, and what was committed for it was stored by it.
OwnerKeeps(t) ==
    /\ owner[t[2]] = t[1]
    /\ \/ committed'[t[2]] = committed[t[2]]
       \/ stored[t] # 0 /\ committed'[t[2]] = stored[t]

LEMMA OtherSlot ==
    ASSUME Inv, Grows, NEW t \in Slot, SlotFrame(t),
           owner'[t[2]] = t[1] => OwnerKeeps(t)
    PROVE  SlotInv(t)'
<1> USE DEF SlotFrame, NextUp, Active, Busy
<1>0. SlotInv(t)
  BY DEF Inv, IndInv
<1>1. QueueInv(t)'
  BY <1>0 DEF SlotInv, QueueInv
<1>2. OrderInv(t)'
  BY <1>0, Monotone DEF SlotInv, OrderInv, Current
<1>3. OwnerInv(t)'
  <2>1. SUFFICES ASSUME owner'[t[2]] = t[1]
                 PROVE  OwnerInv(t)'
    BY DEF OwnerInv
  <2>2. stored[t] \in Nat /\ cur[t] \in Nat /\ position[t] \in Nat /\ Len(queue[t]) \in Nat
    BY DEF Inv, TypeOK
  <2>3. QED
    BY <1>0, <2>1, <2>2 DEF SlotInv, OwnerInv, OrderInv, OwnerKeeps
<1>4. LetterInv(t)'
  BY <1>0, Monotone DEF SlotInv, LetterInv, Current, Grows, Inv, TypeOK
<1>5. QED
  BY <1>1, <1>2, <1>3, <1>4 DEF SlotInv

\* A step of one task: its own slot, the store and the failure count.
LEMMA TaskStep ==
    ASSUME Inv, TypeOK', Grows, NEW s \in Slot, \A t \in Slot \ {s} : SlotFrame(t),
           UNCHANGED brokerVars, SlotInv(s)', StoreInv'
    PROVE  Inv'
<1>1. \A t \in Slot \ {s} : SlotInv(t)'
  BY OtherSlot DEF brokerVars, OwnerKeeps
<1>2. QED
  BY <1>1 DEF Inv, IndInv

-----------------------------------------------------------------------------
LEMMA AssignStep ==
    ASSUME Inv, NEW w \in Worker, NEW p \in Partition, Assign(w, p)
    PROVE  Inv'
<1> DEFINE s == <<w, p>>
<1>0. s \in Slot /\ s[1] = w /\ s[2] = p
  BY DEF Slot
<1>1. TypeOK'
  BY <1>0 DEF Inv, TypeOK, Assign, storeVars, taskVars, lateVars, boundVars, PC, StoreTypeOK
<1>2. Grows
  BY DEF Assign, Grows, StoreGrows, storeVars, boundVars, Inv, TypeOK
<1>3. StoreInv'
  BY <1>2, StoreInvSameTables, LateInvSame, CommitInvSame DEF Assign
<1>4. SlotInv(s)'
  <2> USE DEF NextUp, Active, Busy
  <2>1. /\ pc[s] = "none" /\ pc'[s] = "get" /\ queue'[s] = <<>> /\ ~stopping'[s]
        /\ position'[s] = committed[p] /\ stored'[s] = 0 /\ committed' = committed
    BY <1>0 DEF Assign, Inv, TypeOK, IndInv, SlotInv, QueueInv
  <2>2. committed[p] \in 1..Len(Log[p]) + 1 /\ HandledBelow(p, committed[p])'
    BY <1>2, <2>1, Monotone DEF Inv, IndInv, StoreInv, CommitInv
  <2>3. HandledBelow(p, 0)'
    BY LogFacts DEF HandledBelow
  <2>4. QED
    BY <1>0, <2>1, <2>2, <2>3, LogFacts DEF SlotInv, QueueInv, OrderInv, OwnerInv, LetterInv
<1>5. \A t \in Slot \ {s} : SlotInv(t)'
  <2>1. TAKE t \in Slot \ {s}
  <2>2. SlotFrame(t)
    BY <1>0 DEF SlotFrame, Assign, Inv, TypeOK, taskVars
  <2>3. owner'[t[2]] = t[1] => OwnerKeeps(t)
    BY <1>0, SlotFacts DEF Assign, Inv, TypeOK, OwnerKeeps
  <2>4. QED
    BY <1>2, <2>2, <2>3, OtherSlot
<1>6. QED
  BY <1>1, <1>3, <1>4, <1>5 DEF Inv, IndInv

LEMMA PollStep ==
    ASSUME Inv, NEW s \in Slot, Poll(s)
    PROVE  Inv'
<1>0. s[2] \in Partition /\ s[1] \in Worker
  BY SlotFacts
<1>1. TypeOK'
  BY SMTT(30) DEF Inv, TypeOK, Poll, ShouldPause, storeVars, taskVars, brokerVars, lateVars, boundVars,
         StoreTypeOK
<1>2. Grows
  BY DEF Poll, Grows, StoreGrows, storeVars, boundVars, Inv, TypeOK
<1>3. StoreInv'
  BY <1>2, StoreInvSameTables, LateInvSame, CommitInvSame DEF Poll, brokerVars
<1>4. SlotInv(s)'
  <2> USE DEF NextUp, Active, Busy
  <2>1. /\ UNCHANGED <<pc[s], stopping[s], cur[s], unexpected[s], letter[s], stored[s]>>
        /\ queue'[s] = Append(queue[s], position[s]) /\ position'[s] = position[s] + 1
        /\ pc[s] # "none" /\ position[s] <= Len(Log[s[2]])
        /\ queue[s] \in Seq(Nat) /\ position[s] \in Nat /\ stored[s] \in Nat
        /\ UNCHANGED brokerVars
    BY DEF Poll, Inv, TypeOK, taskVars
  <2>2. NextUp(s)' = NextUp(s) /\ Len(queue'[s]) = Len(queue[s]) + 1
    BY <2>1, SMTT(30)
  <2>3. SlotInv(s)
    BY DEF Inv, IndInv
  <2>4. QueueInv(s)'
    <3>1. SUFFICES ASSUME Active(s)'
                   PROVE  /\ NextUp(s)' >= 1
                          /\ (position[s] <= Len(Log[s[2]]) + 1)'
                          /\ \A i \in 1..Len(queue'[s]) : queue'[s][i] = NextUp(s) + i - 1
      BY <2>1, <2>2 DEF QueueInv
    <3>2. NextUp(s) >= 1 /\ \A i \in 1..Len(queue[s]) : queue[s][i] = NextUp(s) + i - 1
      BY <2>1, <2>3, <3>1 DEF SlotInv, QueueInv
    <3>3. \A i \in 1..Len(queue'[s]) :
            queue'[s][i] = IF i <= Len(queue[s]) THEN queue[s][i] ELSE position[s]
      BY <2>1, <2>2
    <3> DEFINE n == Len(queue[s])
    <3>4. n \in Nat /\ Len(queue'[s]) = n + 1 /\ NextUp(s) = position[s] - n
      BY <2>1, <2>2
    <3> HIDE DEF n
    <3>5. \A i \in 1..Len(queue'[s]) : queue'[s][i] = NextUp(s) + i - 1
      <4>1. TAKE i \in 1..Len(queue'[s])
      <4>2. CASE i \in 1..n
        BY <3>2, <3>3, <3>4, <4>2 DEF n
      <4>3. CASE i = n + 1
        <5>1. queue'[s][i] = position[s]
          BY <3>3, <3>4, <4>3 DEF n
        <5>2. QED
          BY <2>1, <3>4, <4>3, <5>1
      <4>4. QED
        BY <3>4, <4>2, <4>3
    <3>6. (position[s] <= Len(Log[s[2]]) + 1)'
      BY <1>0, <2>1, LogFacts
    <3>7. QED
      BY <2>2, <3>2, <3>5, <3>6
  <2>5. OrderInv(s)'
    BY <1>2, <2>1, <2>2, <2>3, Monotone DEF SlotInv, OrderInv, Current
  <2>6. OwnerInv(s)'
    BY <2>1, <2>2, <2>3 DEF SlotInv, OwnerInv, brokerVars
  <2>7. LetterInv(s)'
    BY <1>2, <2>1, <2>3, Monotone DEF SlotInv, LetterInv, Current, Poll, boundVars
  <2>8. QED
    BY <2>4, <2>5, <2>6, <2>7 DEF SlotInv
<1>5. \A t \in Slot \ {s} : SlotFrame(t)
  BY DEF SlotFrame, Poll, Inv, TypeOK, taskVars
<1>6. QED
  BY <1>1, <1>2, <1>3, <1>4, <1>5, TaskStep DEF Poll

LEMMA TakeStep ==
    ASSUME Inv, NEW s \in Slot, Take(s)
    PROVE  Inv'
<1>0. s[2] \in Partition /\ s[1] \in Worker
  BY SlotFacts
<1>1. TypeOK'
  <2>1. Head(queue[s]) \in Nat /\ Tail(queue[s]) \in Seq(Nat)
    BY DEF Inv, TypeOK, Take
  <2>2. QED
    BY <2>1 DEF Inv, TypeOK, Take, storeVars, clientVars, brokerVars, lateVars, boundVars,
                StoreTypeOK, PC
<1>2. Grows
  BY DEF Take, Grows, StoreGrows, storeVars, boundVars, Inv, TypeOK
<1>3. StoreInv'
  BY <1>2, StoreInvSameTables, LateInvSame, CommitInvSame DEF Take, brokerVars
<1>4. SlotInv(s)'
  <2> DEFINE n == Len(queue[s])
  <2>1. /\ pc[s] = "get" /\ ~stopping[s] /\ Active(s)
        /\ pc'[s] = "process" /\ letter'[s] = "none" /\ unexpected'[s] = 0
        /\ queue[s] \in Seq(Nat) /\ queue[s] # <<>>
        /\ queue'[s] = Tail(queue[s]) /\ cur'[s] = queue[s][1]
        /\ UNCHANGED <<stopping[s], position[s], stored[s], brokerVars>>
        /\ position[s] \in Nat /\ stored[s] \in Nat
    BY DEF Take, Inv, TypeOK, clientVars, Active
  <2>2. /\ n \in Nat \ {0} /\ Len(queue'[s]) = n - 1
        /\ \A i \in 1..n - 1 : queue'[s][i] = queue[s][i + 1]
    BY <2>1
  <2>3. SlotInv(s)
    BY DEF Inv, IndInv
  <2>4. /\ NextUp(s) \in Int /\ NextUp(s) = position[s] - n /\ NextUp(s) >= 1
        /\ position[s] <= Len(Log[s[2]]) + 1
        /\ \A i \in 1..n : queue[s][i] = NextUp(s) + i - 1
    BY <2>1, <2>2, <2>3 DEF SlotInv, QueueInv, NextUp
  <2>5. NextUp(s)' = NextUp(s) + 1
    BY <2>1, <2>2, <2>4 DEF NextUp
  <2> HIDE DEF n
  <2>6. cur'[s] = NextUp(s) /\ cur'[s] \in 1..Len(Log[s[2]])
    <3>1. 1 \in 1..n /\ Len(Log[s[2]]) \in Nat
      BY <1>0, <2>2, LogFacts
    <3>2. queue[s][1] = NextUp(s) + 1 - 1
      BY <2>4, <3>1
    <3>3. QED
      BY <2>1, <2>2, <2>4, <3>1, <3>2
  <2>7. QueueInv(s)'
    <3>1. \A i \in 1..n - 1 : queue'[s][i] = NextUp(s)' + i - 1
      <4>1. TAKE i \in 1..n - 1
      <4>2. i + 1 \in 1..n /\ queue'[s][i] = queue[s][i + 1]
        BY <2>2
      <4>3. queue[s][i + 1] = NextUp(s) + (i + 1) - 1
        BY <2>4, <4>2
      <4>4. QED
        BY <2>2, <2>4, <2>5, <4>2, <4>3
    <3>2. QED
      BY <2>1, <2>2, <2>4, <2>5, <3>1 DEF QueueInv
  <2>8. OrderInv(s)'
    BY <1>2, <2>1, <2>3, <2>5, <2>6, Monotone DEF SlotInv, OrderInv, Busy
  <2>9. OwnerInv(s)'
    BY <2>1, <2>3, <2>6 DEF SlotInv, OwnerInv, brokerVars
  <2>10. LetterInv(s)'
    BY <1>2, <2>1 DEF LetterInv, Justified, Grows
  <2>11. QED
    BY <2>7, <2>8, <2>9, <2>10 DEF SlotInv
<1>5. \A t \in Slot \ {s} : SlotFrame(t)
  BY DEF SlotFrame, Take, Inv, TypeOK, clientVars
<1>6. QED
  BY <1>1, <1>2, <1>3, <1>4, <1>5, TaskStep DEF Take

LEMMA QuitStep ==
    ASSUME Inv, NEW s \in Slot, Quit(s)
    PROVE  Inv'
<1>1. TypeOK'
  BY DEF Inv, TypeOK, Quit, storeVars, taskVars, clientVars, brokerVars, lateVars, boundVars,
         StoreTypeOK, PC
<1>2. Grows
  BY DEF Quit, Grows, StoreGrows, storeVars, boundVars, Inv, TypeOK
<1>3. StoreInv'
  BY <1>2, StoreInvSameTables, LateInvSame, CommitInvSame DEF Quit, brokerVars
<1>4. SlotInv(s)'
  <2>1. pc'[s] = "done" /\ UNCHANGED <<stored[s], brokerVars>>
    BY DEF Quit, Inv, TypeOK, clientVars
  <2>2. SlotInv(s)
    BY DEF Inv, IndInv
  <2>3. QED
    BY <1>2, <2>1, <2>2, Monotone
       DEF SlotInv, QueueInv, OrderInv, OwnerInv, LetterInv, Active, Busy, brokerVars
<1>5. \A t \in Slot \ {s} : SlotFrame(t)
  BY DEF SlotFrame, Quit, Inv, TypeOK, taskVars, clientVars
<1>6. QED
  BY <1>1, <1>2, <1>3, <1>4, <1>5, TaskStep DEF Quit

(***************************************************************************)
(* A step inside _handle: the message stays the same, the queue, the       *)
(* client's offsets and the broker are not touched.                        *)
(***************************************************************************)
HandleFrame(s) ==
    /\ UNCHANGED <<queue[s], stopping[s], position[s], stored[s], cur[s], brokerVars>>
    /\ \A t \in Slot \ {s} : SlotFrame(t)

LEMMA HandleStep ==
    ASSUME Inv, TypeOK', Grows, NEW s \in Slot, Busy(s), HandleFrame(s),
           pc'[s] \notin {"none", "get"},
           pc'[s] = "handled" => Handled(Current(s))',
           LetterInv(s)', StoreInv'
    PROVE  Inv'
<1>1. SlotInv(s)
  BY DEF Inv, IndInv
<1>2. NextUp(s)' = NextUp(s) /\ (Active(s)' => Active(s)) /\ Current(s)' = Current(s)
  BY DEF HandleFrame, NextUp, Active, Current, Busy
<1>3. QueueInv(s)'
  BY <1>1, <1>2 DEF SlotInv, QueueInv, HandleFrame
<1>4. OrderInv(s)'
  BY <1>1, <1>2, Monotone DEF SlotInv, OrderInv, HandleFrame
<1>5. OwnerInv(s)'
  BY <1>1, <1>2 DEF SlotInv, OwnerInv, HandleFrame, brokerVars
<1>6. SlotInv(s)'
  BY <1>3, <1>4, <1>5 DEF SlotInv
<1>7. QED
  BY <1>6, TaskStep DEF HandleFrame

LEMMA RetryStep ==
    ASSUME Inv, NEW s \in Slot, Retry(s)
    PROVE  Inv'
<1> USE DEF NextPass
<1>1. TypeOK'
  BY SMTT(30) DEF Inv, TypeOK, Retry, storeVars, clientVars, brokerVars, lateVars, boundVars,
         StoreTypeOK, PC
<1>2. Grows
  BY DEF Retry, Grows, StoreGrows, storeVars, boundVars, Inv, TypeOK
<1>3. StoreInv'
  BY <1>2, StoreInvSameTables, LateInvSame, CommitInvSame DEF Retry, brokerVars
<1>4. HandleFrame(s)
  BY DEF HandleFrame, SlotFrame, Retry, Inv, TypeOK, clientVars
<1>5. Busy(s) /\ pc'[s] \in {"done", "process", "publish"}
  BY DEF Busy, Retry, Inv, TypeOK
<1>6. LetterInv(s)'
  <2>1. LetterInv(s) /\ UNCHANGED <<letter[s], unexpected[s], cur[s], surprises>>
    BY DEF Inv, IndInv, SlotInv, Retry, boundVars
  <2>2. pc'[s] = IF stopping[s] THEN "done" ELSE IF letter[s] = "none" THEN "process" ELSE "publish"
    BY DEF Retry, Inv, TypeOK
  <2>3. QED
    BY <1>2, <1>5, <2>1, <2>2, Monotone DEF LetterInv, Current, Busy
<1>7. QED
  BY <1>1, <1>2, <1>3, <1>4, <1>5, <1>6, HandleStep

LEMMA RejectStep ==
    ASSUME Inv, NEW s \in Slot, Reject(s)
    PROVE  Inv'
<1> USE DEF NextPass
<1>1. TypeOK'
  BY DEF Inv, TypeOK, Reject, storeVars, clientVars, brokerVars, lateVars, boundVars,
         StoreTypeOK, PC
<1>2. Grows
  BY DEF Reject, Grows, StoreGrows, storeVars, boundVars, Inv, TypeOK
<1>3. StoreInv'
  BY <1>2, StoreInvSameTables, LateInvSame, CommitInvSame DEF Reject, brokerVars
<1>4. HandleFrame(s)
  BY DEF HandleFrame, SlotFrame, Reject, Inv, TypeOK, clientVars
<1>5. Busy(s) /\ pc'[s] \in {"done", "publish"}
  BY DEF Busy, Reject, Inv, TypeOK
<1>6. LetterInv(s)'
  <2>1. LetterInv(s) /\ UNCHANGED <<unexpected[s], cur[s], surprises>> /\ letter'[s] = "permanent"
    BY DEF Inv, IndInv, SlotInv, Reject, boundVars, TypeOK
  <2>2. Unrecordable(Current(s))' /\ Current(s)' = Current(s)
    BY <1>2, <2>1, StoreMonotone DEF Reject, Current, Grows
  <2>3. QED
    BY <1>5, <2>1, <2>2 DEF LetterInv, Justified
<1>7. QED
  BY <1>1, <1>2, <1>3, <1>4, <1>5, <1>6, HandleStep

\* A request of a busy task may be left to itself.
LEMMA AbandonedWriteInOrder ==
    ASSUME Inv, Grows, NEW s \in Slot, Busy(s), AbandonWrite(s), UNCHANGED lateLetters
    PROVE  LateInv' /\ lateWrites' \subseteq LateWrite
<1>1. PICK v \in Verdict : lateWrites' = lateWrites \cup {[source |-> Current(s), verdict |-> v]}
  BY DEF AbandonWrite
<1>2. Current(s) \in Source /\ Current(s)[1] = s[2] /\ Current(s)[2] = cur[s]
  BY CurrentIsSource
<1>3. HandledBelow(s[2], cur[s])
  BY DEF Inv, IndInv, SlotInv, OrderInv
<1>4. LateInv'
  BY <1>1, <1>2, <1>3, Monotone DEF LateInv, Inv, IndInv, StoreInv
<1>5. QED
  BY <1>1, <1>2, <1>4 DEF LateWrite, Inv, TypeOK

LEMMA FailTransientStep ==
    ASSUME Inv, NEW s \in Slot, FailTransient(s)
    PROVE  Inv'
<1> USE DEF BackOff
<1>0. Busy(s) /\ pc[s] = "process" /\ pc'[s] \in {"backoff", "dead"}
  BY DEF Busy, FailTransient, Inv, TypeOK
<1>1. Grows
  BY DEF FailTransient, Grows, StoreGrows, storeVars, Inv, TypeOK
<1>2. LateInv' /\ lateWrites' \subseteq LateWrite
  BY <1>0, <1>1, AbandonedWriteInOrder DEF FailTransient
<1>3. TypeOK'
  BY <1>2, SMTT(30) DEF Inv, TypeOK, FailTransient, storeVars, taskVars, clientVars, brokerVars,
              StoreTypeOK, PC
<1>4. StoreInv'
  BY <1>1, <1>2, StoreInvSameTables, CommitInvSame DEF FailTransient, brokerVars
<1>5. HandleFrame(s)
  BY DEF HandleFrame, SlotFrame, FailTransient, Inv, TypeOK, taskVars, clientVars
<1>6. LetterInv(s)'
  <2>1. LetterInv(s) /\ UNCHANGED <<letter[s], unexpected[s], cur[s], surprises>>
    BY DEF Inv, IndInv, SlotInv, FailTransient, taskVars
  <2>2. QED
    BY <1>0, <1>1, <2>1, Monotone DEF LetterInv, Current
<1>7. QED
  BY <1>0, <1>1, <1>3, <1>4, <1>5, <1>6, HandleStep

LEMMA FailUnexpectedStep ==
    ASSUME Inv, NEW s \in Slot, FailUnexpected(s)
    PROVE  Inv'
<1> USE DEF BackOff, NextPass
<1>0. Busy(s) /\ pc[s] = "process" /\ pc'[s] \in {"backoff", "dead", "publish", "done"}
  BY DEF Busy, FailUnexpected, Inv, TypeOK
<1>1. Grows
  BY DEF FailUnexpected, Grows, StoreGrows, storeVars, Inv, TypeOK
<1>2. LateInv' /\ lateWrites' \subseteq LateWrite
  <2>1. CASE MessageAt(Current(s)).valid
    BY <1>0, <1>1, <2>1, AbandonedWriteInOrder DEF FailUnexpected
  <2>2. CASE ~MessageAt(Current(s)).valid
    BY <1>1, <2>2, LateInvSame DEF FailUnexpected, Inv, TypeOK, lateVars
  <2>3. QED
    BY <2>1, <2>2
<1>3. TypeOK'
  <2>0. /\ pc \in [Slot -> PC] /\ attempt \in [Slot -> Nat] /\ paused \in [Slot -> BOOLEAN]
        /\ letter \in [Slot -> {"none", "permanent", "unexpected"}]
    BY DEF Inv, TypeOK
  <2>1. /\ letter' \in [Slot -> {"none", "permanent", "unexpected"}]
        /\ attempt' \in [Slot -> Nat] /\ pc' \in [Slot -> PC] /\ paused' \in [Slot -> BOOLEAN]
    <3>1. CASE GivesUp(unexpected[s] + 1)
      <4>1. /\ letter' = [letter EXCEPT ![s] = "unexpected"]
            /\ NextPass(s, "publish")
        BY <3>1 DEF FailUnexpected
      <4>2. QED
        BY <2>0, <4>1 DEF PC
    <3>2. CASE ~GivesUp(unexpected[s] + 1)
      <4>1. BackOff(s) /\ UNCHANGED <<letter, attempt, paused>>
        BY <3>2 DEF FailUnexpected
      <4>2. QED
        BY <2>0, <4>1 DEF PC
    <3>3. QED
      BY <3>1, <3>2
  <2>2. unexpected' \in [Slot -> Nat]
    BY DEF Inv, TypeOK, FailUnexpected
  <2>3. QED
    BY <1>2, <2>1, <2>2, SMTT(30)
       DEF Inv, TypeOK, FailUnexpected, storeVars, clientVars, brokerVars, StoreTypeOK
<1>4. StoreInv'
  BY <1>1, <1>2, StoreInvSameTables, CommitInvSame DEF FailUnexpected, brokerVars
<1>5. HandleFrame(s)
  BY DEF HandleFrame, SlotFrame, FailUnexpected, Inv, TypeOK, clientVars
<1>6. LetterInv(s)'
  <2>1. /\ LetterInv(s) /\ letter[s] = "none" /\ unexpected[s] \in Nat /\ surprises \in Nat
        /\ UNCHANGED cur[s] /\ surprises' = surprises + 1 /\ unexpected'[s] = unexpected[s] + 1
    BY <1>0 DEF Inv, IndInv, SlotInv, LetterInv, FailUnexpected, TypeOK
  <2>2. unexpected[s] <= surprises
    BY <1>0, <2>1 DEF LetterInv
  <2>3. CASE GivesUp(unexpected[s] + 1)
    <3>1. letter'[s] = "unexpected" /\ pc'[s] \in {"publish", "done"}
      BY <2>3 DEF FailUnexpected, Inv, TypeOK
    <3>2. surprises' >= MaxUnexpected
      BY <2>1, <2>2, <2>3, WorkerAssumption DEF GivesUp
    <3>3. QED
      BY <2>1, <2>2, <3>1, <3>2 DEF LetterInv, Justified
  <2>4. CASE ~GivesUp(unexpected[s] + 1)
    <3>1. letter'[s] = "none" /\ pc'[s] \in {"backoff", "dead"}
      BY <2>1, <2>4 DEF FailUnexpected, Inv, TypeOK
    <3>2. QED
      BY <2>1, <2>2, <3>1 DEF LetterInv, Justified
  <2>5. QED
    BY <2>3, <2>4
<1>7. QED
  BY <1>0, <1>1, <1>3, <1>4, <1>5, <1>6, HandleStep

\* The letter a publishing task holds is in order and justified.
LEMMA PendingLetterJustified ==
    ASSUME Inv, NEW s \in Slot, pc[s] = "publish"
    PROVE  /\ PendingLetter(s) \in DeadLetter /\ PendingLetter(s).source = Current(s)
           /\ HandledBelow(PendingLetter(s).source[1], PendingLetter(s).source[2])
           /\ Justified(PendingLetter(s).source, PendingLetter(s).class)
<1>0. Busy(s)
  BY DEF Busy
<1>1. Current(s) \in Source /\ Current(s)[1] = s[2] /\ Current(s)[2] = cur[s]
  BY <1>0, CurrentIsSource
<1>2. letter[s] \in {"permanent", "unexpected"} /\ Justified(Current(s), letter[s])
  BY <1>0 DEF Inv, TypeOK, IndInv, SlotInv, LetterInv
<1>3. HandledBelow(s[2], cur[s])
  BY <1>0 DEF Inv, IndInv, SlotInv, OrderInv
<1>4. PendingLetter(s).source = Current(s) /\ PendingLetter(s).class = letter[s]
  BY DEF PendingLetter
<1>5. PendingLetter(s) \in DeadLetter
  BY <1>1, <1>2 DEF PendingLetter, DeadLetter
<1>6. QED
  BY <1>1, <1>2, <1>3, <1>4, <1>5

LEMMA FailPublishStep ==
    ASSUME Inv, NEW s \in Slot, FailPublish(s)
    PROVE  Inv'
<1> USE DEF BackOff
<1>0. Busy(s) /\ pc[s] = "publish" /\ pc'[s] \in {"backoff", "dead"}
  BY DEF Busy, FailPublish, Inv, TypeOK
<1>1. Grows
  BY DEF FailPublish, Grows, StoreGrows, storeVars, Inv, TypeOK
<1>2. LateInv' /\ lateLetters' \subseteq DeadLetter
  <2>1. lateLetters' = lateLetters \cup {PendingLetter(s)} /\ lateWrites' = lateWrites
    BY DEF FailPublish
  <2>2. LateInv'
    BY <1>0, <1>1, <2>1, PendingLetterJustified, Monotone DEF LateInv, Inv, IndInv, StoreInv
  <2>3. QED
    BY <1>0, <2>1, <2>2, PendingLetterJustified DEF Inv, TypeOK
<1>3. TypeOK'
  BY <1>2 DEF Inv, TypeOK, FailPublish, storeVars, taskVars, clientVars, brokerVars,
              StoreTypeOK, PC
<1>4. StoreInv'
  BY <1>1, <1>2, StoreInvSameTables, CommitInvSame DEF FailPublish, brokerVars
<1>5. HandleFrame(s)
  BY DEF HandleFrame, SlotFrame, FailPublish, Inv, TypeOK, taskVars, clientVars
<1>6. LetterInv(s)'
  <2>1. LetterInv(s) /\ UNCHANGED <<letter[s], unexpected[s], cur[s], surprises>>
    BY DEF Inv, IndInv, SlotInv, FailPublish, taskVars
  <2>2. QED
    BY <1>0, <1>1, <2>1, Monotone DEF LetterInv, Current
<1>7. QED
  BY <1>0, <1>1, <1>3, <1>4, <1>5, <1>6, HandleStep

\* The parts about the store after a letter that is in order and justified was added.
LEMMA LetterAdded ==
    ASSUME Inv, NEW l \in DeadLetter, Justified(l.source, l.class),
           dlq' = dlq \cup {l}, UNCHANGED <<transactions, history, surprises>>
    PROVE  Grows /\ Handled(l.source)' /\ OutageNeverDeadLetters' /\ AuditExact' /\ StoreTypeOK'
<1>1. Grows
  BY DEF Grows, StoreGrows, Inv, TypeOK
<1>2. Handled(l.source)'
  BY DEF Handled, DeadLettered
<1>3. OutageNeverDeadLetters'
  BY <1>1, Monotone DEF OutageNeverDeadLetters, Justified, Inv, IndInv, StoreInv
<1>4. AuditExact'
  BY DEF AuditExact, Inv, IndInv, StoreInv, MessageAt
<1>5. StoreTypeOK'
  BY DEF StoreTypeOK, Inv, TypeOK
<1>6. QED
  BY <1>1, <1>2, <1>3, <1>4, <1>5

LEMMA PublishStep ==
    ASSUME Inv, NEW s \in Slot, Publish(s)
    PROVE  Inv'
<1>0. Busy(s) /\ pc[s] = "publish" /\ pc'[s] = "handled"
  BY DEF Busy, Publish, Inv, TypeOK
<1>1. /\ Grows /\ Handled(Current(s))' /\ OutageNeverDeadLetters' /\ AuditExact'
      /\ StoreTypeOK'
  <2>1. PICK l \in DeadLetter : l = PendingLetter(s)
    BY <1>0, PendingLetterJustified
  <2>2. Justified(l.source, l.class) /\ l.source = Current(s)
    BY <1>0, <2>1, PendingLetterJustified
  <2>3. dlq' = dlq \cup {l} /\ UNCHANGED <<transactions, history, surprises, Current(s)>>
    BY <2>1 DEF Publish, boundVars, Current, taskVars
  <2>4. Grows /\ Handled(l.source)' /\ OutageNeverDeadLetters' /\ AuditExact' /\ StoreTypeOK'
    BY <2>2, <2>3, LetterAdded
  <2>5. l.source = Current(s)'
    BY <2>2, <2>3
  <2>6. Handled(Current(s))'
    BY <2>4, <2>5 DEF Handled, Recorded, DeadLettered
  <2>7. QED
    BY <2>4, <2>6
<1>2. TypeOK'
  BY <1>1 DEF Inv, TypeOK, Publish, taskVars, clientVars, brokerVars, lateVars, boundVars, PC
<1>3. StoreInv'
  BY <1>1, LateInvSame, CommitInvSame DEF StoreInv, Publish, brokerVars
<1>4. HandleFrame(s)
  BY DEF HandleFrame, SlotFrame, Publish, Inv, TypeOK, taskVars, clientVars
<1>5. LetterInv(s)'
  <2>1. LetterInv(s) /\ UNCHANGED <<letter[s], unexpected[s], cur[s], surprises>>
    BY DEF Inv, IndInv, SlotInv, Publish, taskVars, boundVars
  <2>2. QED
    BY <1>0, <1>1, <2>1, Monotone DEF LetterInv, Current
<1>6. QED
  BY <1>0, <1>1, <1>2, <1>3, <1>4, <1>5, HandleStep

\* The parts about the store after record_decision.
LEMMA DecisionAdded ==
    ASSUME Inv, NEW src \in Source, NEW v \in Verdict, record_decision(src, v),
           UNCHANGED <<dlq, surprises>>
    PROVE  Grows /\ Handled(src)' /\ OutageNeverDeadLetters' /\ AuditExact' /\ StoreTypeOK'
<1>1. /\ transactions' \subseteq Decision /\ history' \subseteq AuditRow
      /\ transactions \subseteq transactions' /\ history \subseteq history'
      /\ Recorded(src)' /\ AuditExact'
  BY RecordKeepsAudit DEF Inv, TypeOK, IndInv, StoreInv
<1>2. Grows
  BY <1>1 DEF Grows, StoreGrows, Inv, TypeOK
<1>3. OutageNeverDeadLetters'
  BY <1>2, StoreMonotone DEF OutageNeverDeadLetters, Inv, IndInv, StoreInv, Grows
<1>4. QED
  BY <1>1, <1>2, <1>3 DEF StoreTypeOK, Handled, Inv, TypeOK

LEMMA RecordStep ==
    ASSUME Inv, NEW s \in Slot, Record(s)
    PROVE  Inv'
<1>0. Busy(s) /\ pc[s] = "process" /\ pc'[s] = "handled"
  BY DEF Busy, Record, Inv, TypeOK
<1>1. /\ Grows /\ Handled(Current(s))' /\ OutageNeverDeadLetters' /\ AuditExact'
      /\ StoreTypeOK'
  <2>1. PICK v \in Verdict : record_decision(Current(s), v)
    BY DEF Record
  <2>2. PICK src \in Source : src = Current(s)
    BY <1>0, CurrentIsSource
  <2>3. UNCHANGED Current(s) /\ UNCHANGED <<dlq, surprises>>
    BY DEF Record, Current, taskVars, boundVars
  <2>4. record_decision(src, v)
    BY <2>1, <2>2
  <2>5. Grows /\ Handled(src)' /\ OutageNeverDeadLetters' /\ AuditExact' /\ StoreTypeOK'
    BY <2>3, <2>4, DecisionAdded
  <2>6. src = Current(s)'
    BY <2>2, <2>3
  <2>7. Handled(Current(s))'
    BY <2>5, <2>6 DEF Handled, Recorded, DeadLettered
  <2>8. Grows /\ OutageNeverDeadLetters' /\ AuditExact' /\ StoreTypeOK'
    BY <2>5
  <2>9. QED
    BY <2>7, <2>8
<1>2. TypeOK'
  BY <1>1 DEF Inv, TypeOK, Record, taskVars, clientVars, brokerVars, lateVars, boundVars, PC
<1>3. StoreInv'
  BY <1>1, LateInvSame, CommitInvSame DEF StoreInv, Record, brokerVars
<1>4. HandleFrame(s)
  BY DEF HandleFrame, SlotFrame, Record, Inv, TypeOK, taskVars, clientVars
<1>5. LetterInv(s)'
  <2>1. LetterInv(s) /\ UNCHANGED <<letter[s], unexpected[s], cur[s], surprises>>
    BY DEF Inv, IndInv, SlotInv, Record, taskVars, boundVars
  <2>2. QED
    BY <1>0, <1>1, <2>1, Monotone DEF LetterInv, Current
<1>6. QED
  BY <1>0, <1>1, <1>2, <1>3, <1>4, <1>5, HandleStep

LEMMA FinishStep ==
    ASSUME Inv, NEW s \in Slot, Finish(s)
    PROVE  Inv'
<1>0. s[2] \in Partition /\ Busy(s) /\ pc[s] = "handled"
  BY SlotFacts DEF Finish, Busy
<1>1. TypeOK'
  <2>1. stored' \in [Slot -> Nat]
    <3>1. CASE stored' = [stored EXCEPT ![s] = cur[s] + 1]
      BY <3>1 DEF Inv, TypeOK
    <3>2. CASE UNCHANGED stored
      BY <3>2 DEF Inv, TypeOK
    <3>3. QED
      BY <3>1, <3>2 DEF Finish
  <2>2. pc' \in [Slot -> PC] /\ paused' \in [Slot -> BOOLEAN]
    BY DEF Inv, TypeOK, Finish, PC, ShouldResume
  <2>3. QED
    BY <2>1, <2>2 DEF Inv, TypeOK, Finish, storeVars, taskVars, brokerVars, lateVars, boundVars,
                      StoreTypeOK
<1>2. Grows
  BY DEF Finish, Grows, StoreGrows, storeVars, boundVars, Inv, TypeOK
<1>3. StoreInv'
  BY <1>2, StoreInvSameTables, LateInvSame, CommitInvSame DEF Finish, brokerVars
<1>4. SlotInv(s)'
  <2>1. /\ pc'[s] = IF stopping[s] THEN "done" ELSE "get"
        /\ UNCHANGED <<queue[s], position[s], stopping[s], brokerVars, cur[s]>>
        /\ stored'[s] = cur[s] + 1 \/ stored'[s] = stored[s]
    BY DEF Finish, Inv, TypeOK, taskVars
  <2>2. SlotInv(s)
    BY DEF Inv, IndInv
  <2>3. /\ cur[s] \in 1..Len(Log[s[2]]) /\ stored[s] <= cur[s] /\ stored[s] \in Nat
        /\ HandledBelow(s[2], cur[s]) /\ Handled(<<s[2], cur[s]>>)
    BY <1>0, <2>2 DEF SlotInv, OrderInv, Current, Inv, TypeOK
  <2>4. HandledBelow(s[2], cur[s] + 1)
    BY <1>0, <2>3, LogFacts DEF HandledBelow
  <2>5. HandledBelow(s[2], cur[s] + 1)' /\ HandledBelow(s[2], stored[s])'
    <3>1. HandledBelow(s[2], stored[s])
      BY <2>2 DEF SlotInv, OrderInv
    <3>2. HandledBelow(s[2], cur[s] + 1)'
      BY <1>2, <2>1, <2>4, Monotone
    <3>3. ASSUME stored'[s] = cur[s] + 1
          PROVE  HandledBelow(s[2], stored[s])'
      BY <1>2, <2>4, <3>3, Monotone
    <3>4. ASSUME stored'[s] = stored[s]
          PROVE  HandledBelow(s[2], stored[s])'
      BY <1>2, <3>1, <3>4, Monotone
    <3>5. QED
      BY <2>1, <3>2, <3>3, <3>4
  <2>6. /\ ~stopping[s] => cur[s] + 1 = NextUp(s)
        /\ NextUp(s)' = NextUp(s) /\ Active(s)' = ~stopping[s] /\ ~Busy(s)'
    BY <1>0, <2>1, <2>2 DEF SlotInv, OrderInv, NextUp, Active, Busy
  <2>7. QueueInv(s)'
    BY <1>0, <2>1, <2>2, <2>6 DEF SlotInv, QueueInv, Active
  <2>8. OrderInv(s)'
    <3>1. stored'[s] <= cur[s] + 1 /\ stored'[s] <= Len(Log[s[2]]) + 1
      BY <1>0, <2>1, <2>3, LogFacts
    <3>2. pc'[s] = "get" /\ Active(s)' => HandledBelow(s[2], NextUp(s))' /\ stored'[s] <= NextUp(s)'
      <4>1. ASSUME pc'[s] = "get", Active(s)'
            PROVE  NextUp(s)' = cur[s] + 1
        BY <2>6, <4>1
      <4>2. ASSUME pc'[s] = "get", Active(s)'
            PROVE  HandledBelow(s[2], NextUp(s))'
        BY <1>2, <2>4, <4>1, <4>2, Monotone
      <4>3. QED
        BY <3>1, <4>1, <4>2
    <3>3. pc'[s] # "handled"
      BY <2>1
    <3>4. QED
      BY <2>5, <2>6, <3>1, <3>2, <3>3 DEF OrderInv
  <2>9. OwnerInv(s)'
    <3>1. owner[s[2]] = s[1] =>
              cur[s] >= committed[s[2]] /\ (stored[s] # 0 => stored[s] >= committed[s[2]])
      BY <1>0, <2>2 DEF SlotInv, OwnerInv
    <3>2. committed[s[2]] \in Nat
      BY <1>0 DEF Inv, TypeOK
    <3>3. QED
      BY <2>1, <2>3, <2>6, <3>1, <3>2 DEF OwnerInv, brokerVars
  <2>10. LetterInv(s)'
    BY <2>1, <2>6 DEF LetterInv
  <2>11. QED
    BY <2>7, <2>8, <2>9, <2>10 DEF SlotInv
<1>5. \A t \in Slot \ {s} : SlotFrame(t)
  BY DEF SlotFrame, Finish, Inv, TypeOK, taskVars
<1>6. QED
  BY <1>1, <1>2, <1>3, <1>4, <1>5, TaskStep DEF Finish

-----------------------------------------------------------------------------
\* Committing stored offsets passes no unhandled message and moves no offset back.
LEMMA CommitKeepsOrder ==
    ASSUME Inv, Grows, NEW w \in Worker, NEW P, CommitStored(w, P) \/ UNCHANGED committed
    PROVE  /\ committed' \in [Partition -> Nat]
           /\ CommitInv'
           /\ \A p \in Partition : committed'[p] >= committed[p]
           /\ \A t \in Slot : owner[t[2]] = t[1] => OwnerKeeps(t)
<1>1. CASE UNCHANGED committed
  BY <1>1, CommitInvSame, SlotFacts DEF OwnerKeeps, Inv, TypeOK
<1>2. CASE CommitStored(w, P)
  <2>1. committed' \in [Partition -> Nat]
    BY <1>2, SlotFacts DEF CommitStored, Inv, TypeOK, Slot
  <2>2. ASSUME NEW p \in Partition
        PROVE  /\ committed'[p] \in 1..Len(Log[p]) + 1 /\ HandledBelow(p, committed[p])'
               /\ committed'[p] >= committed[p]
    <3> DEFINE s == <<w, p>>
    <3>1. s \in Slot /\ s[1] = w /\ s[2] = p /\ committed[p] \in Nat /\ stored[s] \in Nat
      BY DEF Slot, Inv, TypeOK
    <3>2. SlotInv(s) /\ committed[p] \in 1..Len(Log[p]) + 1 /\ HandledBelow(p, committed[p])
      BY <3>1 DEF Inv, IndInv, StoreInv, CommitInv
    <3>3. CASE p \in P /\ owner[p] = w /\ stored[s] # 0
      <4>1. committed'[p] = stored[s]
        BY <1>2, <3>3 DEF CommitStored
      <4>2. /\ stored[s] <= Len(Log[p]) + 1 /\ HandledBelow(p, stored[s])
            /\ stored[s] >= committed[p]
        BY <3>1, <3>2, <3>3 DEF SlotInv, OrderInv, OwnerInv
      <4>3. HandledBelow(p, committed[p])'
        BY <4>1, <4>2, Monotone
      <4>4. QED
        BY <3>1, <3>3, <4>1, <4>2, <4>3, LogFacts
    <3>4. CASE ~(p \in P /\ owner[p] = w /\ stored[s] # 0)
      <4>1. committed'[p] = committed[p]
        BY <1>2, <3>4 DEF CommitStored
      <4>2. QED
        BY <3>1, <3>2, <4>1, Monotone
    <3>5. QED
      BY <3>3, <3>4
  <2>3. ASSUME NEW t \in Slot, owner[t[2]] = t[1]
        PROVE  OwnerKeeps(t)
    BY <1>2, <2>3, SlotFacts DEF CommitStored, OwnerKeeps
  <2>4. QED
    BY <2>1, <2>2, <2>3 DEF CommitInv
<1>3. QED
  BY <1>1, <1>2

LEMMA AutoCommitStep ==
    ASSUME Inv, NEW s \in Slot, AutoCommit(s)
    PROVE  Inv'
<1>1. Grows
  BY DEF AutoCommit, Grows, StoreGrows, storeVars, boundVars, Inv, TypeOK
<1>2. /\ committed' \in [Partition -> Nat] /\ CommitInv'
      /\ \A t \in Slot : owner[t[2]] = t[1] => OwnerKeeps(t)
  BY <1>1, SlotFacts, CommitKeepsOrder DEF AutoCommit
<1>3. TypeOK'
  BY <1>2 DEF Inv, TypeOK, AutoCommit, storeVars, slotVars, taskVars, clientVars, lateVars,
              boundVars, StoreTypeOK
<1>4. StoreInv'
  BY <1>1, <1>2, StoreInvSameTables, LateInvSame DEF AutoCommit
<1>5. \A t \in Slot : SlotInv(t)'
  BY <1>1, <1>2, OtherSlot DEF AutoCommit, SlotFrame, slotVars, taskVars, clientVars
<1>6. QED
  BY <1>3, <1>4, <1>5 DEF Inv, IndInv

\* A slot whose task is told to stop keeps only what concerns its current message.
LEMMA StoppedSlot ==
    ASSUME Inv, Grows, UNCHANGED brokerVars, NEW t \in Slot, pc[t] # "none", stopping'[t],
           UNCHANGED <<pc[t], cur[t], unexpected[t], letter[t], stored[t]>>
    PROVE  SlotInv(t)'
<1> USE DEF Active, Busy
<1>0. SlotInv(t)
  BY DEF Inv, IndInv
<1>1. QueueInv(t)' /\ OwnerInv(t)'
  BY <1>0 DEF SlotInv, QueueInv, OwnerInv, brokerVars
<1>2. OrderInv(t)' /\ LetterInv(t)'
  BY <1>0, Monotone DEF SlotInv, OrderInv, LetterInv, Current, Grows, Inv, TypeOK
<1>3. QED
  BY <1>1, <1>2 DEF SlotInv

\* The common part of on_revoke, on_lost and _shutdown.
LEMMA StopStep ==
    ASSUME Inv, NEW w \in Worker, NEW P \in SUBSET Held(w), StopPartitions(w, P),
           phase' \in [Worker -> Phase], churn' \in Nat,
           UNCHANGED <<storeVars, pc, paused, taskVars, clientVars, brokerVars, lateVars,
                       faults, surprises>>
    PROVE  Inv'
<1>0. \A t \in Slot : t[1] = w /\ t[2] \in P => pc[t] # "none"
  BY SlotFacts DEF Held
<1>1. Grows
  BY DEF Grows, StoreGrows, storeVars, Inv, TypeOK
<1>2. TypeOK'
  <2>1. <<Wake>> \in Seq(Nat)
    BY DEF Wake
  <2>2. stopping' \in [Slot -> BOOLEAN] /\ queue' \in [Slot -> Seq(Nat)]
    BY <2>1 DEF StopPartitions, Inv, TypeOK
  <2>3. QED
    BY <2>2 DEF Inv, TypeOK, storeVars, taskVars, clientVars, brokerVars, lateVars, StoreTypeOK
<1>3. StoreInv'
  BY <1>1, StoreInvSameTables, LateInvSame, CommitInvSame DEF brokerVars
<1>4. ASSUME NEW t \in Slot
      PROVE  SlotInv(t)'
  <2>1. CASE t[1] = w /\ t[2] \in P
    <3>1. stopping'[t]
      BY <2>1 DEF StopPartitions
    <3>2. QED
      BY <1>0, <1>1, <2>1, <3>1, StoppedSlot DEF taskVars, clientVars
  <2>2. CASE ~(t[1] = w /\ t[2] \in P)
    <3>1. SlotFrame(t)
      BY <2>2 DEF StopPartitions, SlotFrame, taskVars, clientVars, Inv, TypeOK
    <3>2. QED
      BY <1>1, <3>1, OtherSlot DEF brokerVars, OwnerKeeps
  <2>3. QED
    BY <2>1, <2>2
<1>5. QED
  BY <1>2, <1>3, <1>4 DEF Inv, IndInv

LEMMA RevokeStep ==
    ASSUME Inv, NEW w \in Worker, NEW P \in SUBSET Partition, Revoke(w, P)
    PROVE  Inv'
<1>1. phase' \in [Worker -> Phase] /\ churn' \in Nat
  BY DEF Revoke, Spend, Inv, TypeOK, Phase
<1>2. QED
  BY <1>1, StopStep DEF Revoke

LEMMA LoseStep ==
    ASSUME Inv, NEW w \in Worker, Lose(w)
    PROVE  Inv'
<1>1. phase' \in [Worker -> Phase] /\ churn' \in Nat
  BY DEF Lose, Inv, TypeOK, Phase, boundVars
<1>2. QED
  BY <1>1, StopStep DEF Lose, boundVars

LEMMA ShutdownStep ==
    ASSUME Inv, NEW w \in Worker, Shutdown(w)
    PROVE  Inv'
<1>1. phase' \in [Worker -> Phase] /\ churn' \in Nat
  BY DEF Shutdown, Spend, Inv, TypeOK, Phase
<1>2. QED
  BY <1>1, StopStep DEF Shutdown

\* Steps that only take ownership away, or only change a phase.
LEMMA OwnershipStep ==
    ASSUME Inv, phase' \in [Worker -> Phase], owner' \in [Partition -> Worker \cup {Nobody}],
           churn' \in Nat, \A p \in Partition : owner'[p] \in {owner[p], Nobody},
           UNCHANGED <<storeVars, slotVars, committed, lateVars, faults, surprises>>
    PROVE  Inv'
<1>1. Grows
  BY DEF Grows, StoreGrows, storeVars, Inv, TypeOK
<1>2. TypeOK'
  BY DEF Inv, TypeOK, storeVars, slotVars, taskVars, clientVars, lateVars, StoreTypeOK
<1>3. StoreInv'
  BY <1>1, StoreInvSameTables, LateInvSame, CommitInvSame
<1>4. ASSUME NEW t \in Slot
      PROVE  SlotInv(t)'
  <2>1. SlotFrame(t)
    BY DEF SlotFrame, slotVars, taskVars, clientVars
  <2>2. owner'[t[2]] = t[1] => OwnerKeeps(t)
    BY SlotFacts, WorkerAssumption DEF OwnerKeeps
  <2>3. QED
    BY <1>1, <2>1, <2>2, OtherSlot
<1>5. QED
  BY <1>2, <1>3, <1>4 DEF Inv, IndInv

LEMMA EvictStep ==
    ASSUME Inv, NEW w \in Worker, Evict(w)
    PROVE  Inv'
<1>1. /\ owner' \in [Partition -> Worker \cup {Nobody}] /\ phase' = phase /\ churn' \in Nat
      /\ \A p \in Partition : owner'[p] \in {owner[p], Nobody}
  BY DEF Evict, Spend, Inv, TypeOK
<1>2. QED
  BY <1>1, OwnershipStep DEF Evict, Inv, TypeOK

LEMMA RestartStep ==
    ASSUME Inv, NEW w \in Worker, Restart(w)
    PROVE  Inv'
<1>1. /\ phase' \in [Worker -> Phase] /\ owner' = owner /\ churn' = churn
  BY DEF Restart, Inv, TypeOK, Phase, brokerVars, boundVars
<1>2. QED
  BY <1>1, OwnershipStep DEF Restart, Inv, TypeOK, brokerVars, boundVars

LEMMA ExpireStep ==
    ASSUME Inv, NEW p \in Partition, Expire(p)
    PROVE  Inv'
<1>1. /\ owner' \in [Partition -> Worker \cup {Nobody}] /\ phase' = phase /\ churn' = churn
      /\ \A q \in Partition : owner'[q] \in {owner[q], Nobody}
  BY DEF Expire, Inv, TypeOK, boundVars
<1>2. QED
  BY <1>1, OwnershipStep DEF Expire, Inv, TypeOK, boundVars

-----------------------------------------------------------------------------
\* The requests a cancelled or crashed process leaves behind are in order and justified.
LEMMA AbandonedRequestsInOrder ==
    ASSUME Inv, Grows, NEW S \in SUBSET Slot, AbandonRequests(S)
    PROVE  LateInv' /\ lateWrites' \subseteq LateWrite /\ lateLetters' \subseteq DeadLetter
<1> DEFINE W == { t \in S : pc[t] = "process" /\ MessageAt(Current(t)).valid }
           L == { t \in S : pc[t] = "publish" }
<1>1. PICK v \in Verdict :
         lateWrites' = lateWrites \cup { [source |-> Current(s), verdict |-> v] : s \in W }
  BY DEF AbandonRequests
<1>2. lateLetters' = lateLetters \cup { PendingLetter(s) : s \in L }
  BY DEF AbandonRequests
<1>3. ASSUME NEW s \in W
      PROVE  Current(s) \in Source /\ HandledBelow(Current(s)[1], Current(s)[2])
  <2>1. s \in Slot /\ Busy(s)
    BY DEF Busy
  <2>2. Current(s) \in Source /\ Current(s)[1] = s[2] /\ Current(s)[2] = cur[s]
    BY <2>1, CurrentIsSource
  <2>3. HandledBelow(s[2], cur[s])
    BY <2>1 DEF Inv, IndInv, SlotInv, OrderInv
  <2>4. QED
    BY <2>2, <2>3
<1>4. ASSUME NEW s \in L
      PROVE  /\ PendingLetter(s) \in DeadLetter
             /\ HandledBelow(PendingLetter(s).source[1], PendingLetter(s).source[2])
             /\ Justified(PendingLetter(s).source, PendingLetter(s).class)
  BY PendingLetterJustified
<1> HIDE DEF W, L
<1>5. ASSUME NEW u \in lateWrites'
      PROVE  u \in LateWrite /\ HandledBelow(u.source[1], u.source[2])
  <2>1. CASE u \in lateWrites
    BY <2>1 DEF Inv, TypeOK, IndInv, StoreInv, LateInv
  <2>2. CASE u \in { [source |-> Current(s), verdict |-> v] : s \in W }
    <3>1. PICK s \in W : u = [source |-> Current(s), verdict |-> v]
      BY <2>2
    <3>2. u.source = Current(s)
      BY <3>1
    <3>3. QED
      BY <1>3, <3>1, <3>2 DEF LateWrite
  <2>3. QED
    BY <1>1, <2>1, <2>2
<1>6. ASSUME NEW l \in lateLetters'
      PROVE  /\ l \in DeadLetter /\ HandledBelow(l.source[1], l.source[2])
             /\ Justified(l.source, l.class)
  <2>1. CASE l \in lateLetters
    BY <2>1 DEF Inv, TypeOK, IndInv, StoreInv, LateInv
  <2>2. CASE l \in { PendingLetter(s) : s \in L }
    <3>1. PICK s \in L : l = PendingLetter(s)
      BY <2>2
    <3>2. QED
      BY <1>4, <3>1
  <2>3. QED
    BY <1>2, <2>1, <2>2
<1>7. QED
  BY <1>5, <1>6, Monotone DEF LateInv

LEMMA CancelStep ==
    ASSUME Inv, NEW w \in Worker, Cancel(w)
    PROVE  Inv'
<1> DEFINE S == { s \in {w} \X Stopping(w) : ~Ended(s) }
<1>0. S \subseteq Slot
  BY DEF Slot, Stopping, Held
<1>1. /\ AbandonRequests(S)
      /\ pc' = [s \in Slot |-> IF s \in S THEN "done" ELSE pc[s]]
      /\ UNCHANGED <<storeVars, phase, queue, stopping, paused, taskVars, clientVars,
                     brokerVars, boundVars>>
  BY DEF Cancel
<1> HIDE DEF S
<1>2. Grows
  BY <1>1 DEF Grows, StoreGrows, storeVars, boundVars, Inv, TypeOK
<1>3. LateInv' /\ lateWrites' \subseteq LateWrite /\ lateLetters' \subseteq DeadLetter
  BY <1>0, <1>1, <1>2, AbandonedRequestsInOrder
<1>4. TypeOK'
  BY <1>1, <1>3 DEF Inv, TypeOK, storeVars, taskVars, clientVars, brokerVars, boundVars,
                    StoreTypeOK, PC
<1>5. StoreInv'
  BY <1>1, <1>2, <1>3, StoreInvSameTables, CommitInvSame DEF brokerVars
<1>6. ASSUME NEW t \in Slot
      PROVE  SlotInv(t)'
  <2>1. CASE t \in S
    <3>1. pc'[t] = "done" /\ UNCHANGED <<stored[t], brokerVars>>
      BY <1>1, <2>1 DEF clientVars
    <3>2. SlotInv(t)
      BY DEF Inv, IndInv
    <3>3. QED
      BY <1>2, <3>1, <3>2, Monotone
         DEF SlotInv, QueueInv, OrderInv, OwnerInv, LetterInv, Active, Busy, brokerVars
  <2>2. CASE t \notin S
    <3>1. SlotFrame(t)
      BY <1>1, <2>2 DEF SlotFrame, taskVars, clientVars
    <3>2. QED
      BY <1>1, <1>2, <3>1, OtherSlot DEF brokerVars, OwnerKeeps
  <2>3. QED
    BY <2>1, <2>2
<1>7. QED
  BY <1>4, <1>5, <1>6 DEF Inv, IndInv

(***************************************************************************)
(* The common part of the ends of on_revoke, on_lost and _shutdown and of  *)
(* a crash: slots vanish, ownership may go, stored offsets may be          *)
(* committed, requests may be left behind.                                 *)
(***************************************************************************)
LEMMA DropStep ==
    ASSUME Inv, NEW w \in Worker, NEW P \in SUBSET Partition, DropSlots(w, P),
           NEW Q, CommitStored(w, Q) \/ UNCHANGED committed,
           owner' \in [Partition -> Worker \cup {Nobody}],
           \A p \in Partition : owner'[p] \in {owner[p], Nobody},
           LateInv', lateWrites' \subseteq LateWrite, lateLetters' \subseteq DeadLetter,
           phase' \in [Worker -> Phase], churn' \in Nat,
           UNCHANGED <<storeVars, faults, surprises>>
    PROVE  Inv'
<1>1. Grows
  BY DEF Grows, StoreGrows, storeVars, Inv, TypeOK
<1>2. /\ committed' \in [Partition -> Nat] /\ CommitInv'
      /\ \A t \in Slot : owner[t[2]] = t[1] => OwnerKeeps(t)
  BY <1>1, CommitKeepsOrder
<1>3. TypeOK'
  <2>1. /\ pc' \in [Slot -> PC] /\ queue' \in [Slot -> Seq(Nat)]
        /\ stopping' \in [Slot -> BOOLEAN] /\ paused' \in [Slot -> BOOLEAN]
    BY DEF DropSlots, Inv, TypeOK, PC
  <2>2. /\ cur' \in [Slot -> Nat] /\ attempt' \in [Slot -> Nat] /\ unexpected' \in [Slot -> Nat]
        /\ letter' \in [Slot -> {"none", "permanent", "unexpected"}]
        /\ position' \in [Slot -> Nat] /\ stored' \in [Slot -> Nat]
    BY DEF DropSlots, Inv, TypeOK
  <2>3. QED
    BY <1>2, <2>1, <2>2 DEF Inv, TypeOK, storeVars, StoreTypeOK
<1>4. StoreInv'
  BY <1>1, <1>2, StoreInvSameTables
<1>5. ASSUME NEW t \in Slot
      PROVE  SlotInv(t)'
  <2>1. CASE t[1] = w /\ t[2] \in P
    <3>1. pc'[t] = "none" /\ stored'[t] = 0 /\ queue'[t] = <<>> /\ ~stopping'[t]
      BY <2>1 DEF DropSlots
    <3>2. t[2] \in Partition /\ Len(Log[t[2]]) \in Nat
      BY SlotFacts, LogFacts
    <3>3. HandledBelow(t[2], stored[t])'
      BY <3>1, <3>2 DEF HandledBelow
    <3>4. QED
      BY <3>1, <3>2, <3>3 DEF SlotInv, QueueInv, OrderInv, OwnerInv, LetterInv, Active, Busy
  <2>2. CASE ~(t[1] = w /\ t[2] \in P)
    <3>1. SlotFrame(t)
      BY <2>2 DEF DropSlots, SlotFrame, Inv, TypeOK
    <3>2. owner'[t[2]] = t[1] => OwnerKeeps(t)
      BY <1>2, SlotFacts, WorkerAssumption
    <3>3. QED
      BY <1>1, <3>1, <3>2, OtherSlot
  <2>3. QED
    BY <2>1, <2>2
<1>6. QED
  BY <1>3, <1>4, <1>5 DEF Inv, IndInv

LEMMA FinishRevokeStep ==
    ASSUME Inv, NEW w \in Worker, FinishRevoke(w)
    PROVE  Inv'
<1>1. /\ owner' \in [Partition -> Worker \cup {Nobody}] /\ phase' \in [Worker -> Phase]
      /\ \A p \in Partition : owner'[p] \in {owner[p], Nobody}
      /\ UNCHANGED <<storeVars, lateVars, faults, surprises, churn>>
  BY DEF FinishRevoke, GiveUpOwnership, Inv, TypeOK, Phase, boundVars
<1>2. LateInv'
  <2>1. Grows
    BY <1>1 DEF Grows, StoreGrows, storeVars, Inv, TypeOK
  <2>2. QED
    BY <1>1, <2>1, LateInvSame
<1>3. Stopping(w) \in SUBSET Partition
  BY DEF Stopping, Held
<1>4. QED
  BY <1>1, <1>2, <1>3, DropStep DEF FinishRevoke, Inv, TypeOK, lateVars

LEMMA FinishLoseStep ==
    ASSUME Inv, NEW w \in Worker, FinishLose(w)
    PROVE  Inv'
<1>1. /\ phase' \in [Worker -> Phase]
      /\ UNCHANGED <<storeVars, lateVars, faults, surprises, churn, owner, committed>>
  BY DEF FinishLose, Inv, TypeOK, Phase, boundVars, brokerVars
<1>2. LateInv'
  <2>1. Grows
    BY <1>1 DEF Grows, StoreGrows, storeVars, Inv, TypeOK
  <2>2. QED
    BY <1>1, <2>1, LateInvSame
<1>3. Stopping(w) \in SUBSET Partition
  BY DEF Stopping, Held
<1>4. QED
  BY <1>1, <1>2, <1>3, DropStep DEF FinishLose, Inv, TypeOK, lateVars

LEMMA CloseStep ==
    ASSUME Inv, NEW w \in Worker, Close(w)
    PROVE  Inv'
<1>1. /\ owner' \in [Partition -> Worker \cup {Nobody}] /\ phase' \in [Worker -> Phase]
      /\ \A p \in Partition : owner'[p] \in {owner[p], Nobody}
      /\ UNCHANGED <<storeVars, lateVars, faults, surprises, churn>>
  BY DEF Close, GiveUpOwnership, Inv, TypeOK, Phase, boundVars
<1>2. LateInv'
  <2>1. Grows
    BY <1>1 DEF Grows, StoreGrows, storeVars, Inv, TypeOK
  <2>2. QED
    BY <1>1, <2>1, LateInvSame
<1>3. Held(w) \in SUBSET Partition
  BY DEF Held
<1>4. QED
  BY <1>1, <1>2, <1>3, DropStep DEF Close, Inv, TypeOK, lateVars

LEMMA CrashStep ==
    ASSUME Inv, NEW w \in Worker, Crash(w)
    PROVE  Inv'
<1>1. /\ phase' \in [Worker -> Phase] /\ churn' \in Nat
      /\ UNCHANGED <<storeVars, faults, surprises, owner, committed>>
  BY DEF Crash, Spend, Inv, TypeOK, Phase, brokerVars
<1>2. LateInv' /\ lateWrites' \subseteq LateWrite /\ lateLetters' \subseteq DeadLetter
  <2>1. Grows
    BY <1>1 DEF Grows, StoreGrows, storeVars, Inv, TypeOK
  <2>2. {w} \X Partition \in SUBSET Slot
    BY DEF Slot
  <2>3. QED
    BY <2>1, <2>2, AbandonedRequestsInOrder DEF Crash
<1>3. QED
  BY <1>1, <1>2, DropStep DEF Crash, Inv, TypeOK

-----------------------------------------------------------------------------
\* A late request only adds to the store.
LEMMA LandStep ==
    ASSUME Inv, Grows, StoreTypeOK', OutageNeverDeadLetters', AuditExact',
           lateWrites' \subseteq lateWrites, lateLetters' \subseteq lateLetters,
           UNCHANGED <<phase, slotVars, brokerVars, boundVars>>
    PROVE  Inv'
<1>1. TypeOK'
  BY DEF Inv, TypeOK, slotVars, taskVars, clientVars, brokerVars, boundVars
<1>2. LateInv'
  BY Monotone DEF LateInv, Inv, IndInv, StoreInv
<1>3. StoreInv'
  BY <1>2, CommitInvSame DEF StoreInv, brokerVars
<1>4. \A t \in Slot : SlotInv(t)'
  BY OtherSlot DEF SlotFrame, slotVars, taskVars, clientVars, brokerVars, OwnerKeeps
<1>5. QED
  BY <1>1, <1>3, <1>4 DEF Inv, IndInv

LEMMA LandWriteStep ==
    ASSUME Inv, NEW u \in lateWrites, LandWrite(u)
    PROVE  Inv'
<1>1. u.source \in Source /\ u.verdict \in Verdict
  BY DEF Inv, TypeOK, LateWrite
<1>2. record_decision(u.source, u.verdict) /\ UNCHANGED <<dlq, surprises>>
  BY DEF LandWrite, boundVars
<1>3. Grows /\ OutageNeverDeadLetters' /\ AuditExact' /\ StoreTypeOK'
  BY <1>1, <1>2, DecisionAdded
<1>4. QED
  BY <1>3, LandStep DEF LandWrite

LEMMA LandLetterStep ==
    ASSUME Inv, NEW l \in lateLetters, LandLetter(l)
    PROVE  Inv'
<1>1. l \in DeadLetter /\ Justified(l.source, l.class)
  BY DEF Inv, TypeOK, IndInv, StoreInv, LateInv
<1>2. dlq' = dlq \cup {l} /\ UNCHANGED <<transactions, history, surprises>>
  BY DEF LandLetter, boundVars
<1>3. Grows /\ OutageNeverDeadLetters' /\ AuditExact' /\ StoreTypeOK'
  BY <1>1, <1>2, LetterAdded
<1>4. QED
  BY <1>3, LandStep DEF LandLetter

-----------------------------------------------------------------------------
LEMMA InitInv == Init => Inv
<1> SUFFICES ASSUME Init PROVE Inv
  OBVIOUS
<1>1. TypeOK
  BY DEF Init, TypeOK, StoreInit, StoreTypeOK, Phase, PC
<1>2. \A p \in Partition : HandledBelow(p, 0) /\ HandledBelow(p, 1)
  BY LogFacts DEF HandledBelow
<1>3. StoreInv
  BY <1>2, LogFacts
     DEF Init, StoreInit, StoreInv, LateInv, CommitInv, OutageNeverDeadLetters, AuditExact
<1>4. \A s \in Slot : SlotInv(s)
  BY <1>2, SlotFacts, LogFacts
     DEF Init, SlotInv, QueueInv, OrderInv, OwnerInv, LetterInv, Active, Busy
<1>5. QED
  BY <1>1, <1>3, <1>4 DEF Inv, IndInv

LEMMA NextInv == Inv /\ [Next]_vars => Inv'
<1> SUFFICES ASSUME Inv, [Next]_vars PROVE Inv'
  OBVIOUS
<1>1. CASE UNCHANGED vars
  <2>1. /\ phase' \in [Worker -> Phase] /\ owner' = owner /\ churn' = churn
        /\ UNCHANGED <<storeVars, slotVars, committed, lateVars, faults, surprises>>
    BY <1>1 DEF vars, brokerVars, boundVars, Inv, TypeOK
  <2>2. QED
    BY <2>1, OwnershipStep DEF Inv, TypeOK
<1>2. ASSUME NEW s \in Slot, Poll(s) \/ Task(s) \/ Failure(s) \/ AutoCommit(s)
      PROVE  Inv'
  BY <1>2, PollStep, TakeStep, QuitStep, RecordStep, RejectStep, PublishStep, RetryStep,
     FinishStep, FailTransientStep, FailUnexpectedStep, FailPublishStep, AutoCommitStep
     DEF Task, Process, Failure
<1>3. ASSUME NEW w \in Worker, Rebalance(w)
      PROVE  Inv'
  BY <1>3, AssignStep, RevokeStep, EvictStep, LoseStep, ShutdownStep, CancelStep,
     FinishRevokeStep, FinishLoseStep, CloseStep, CrashStep, RestartStep
     DEF Rebalance
<1>4. QED
  BY <1>1, <1>2, <1>3, ExpireStep, LandWriteStep, LandLetterStep DEF Next

-----------------------------------------------------------------------------
(***************************************************************************)
(* The invariant holds in every reachable state.                           *)
(***************************************************************************)
THEOREM Invariance == Spec => []Inv
<1>1. Init => Inv
  BY InitInv
<1>2. Inv /\ [Next]_vars => Inv'
  BY NextInv
<1>3. QED
  BY <1>1, <1>2, PTL DEF Spec

(***************************************************************************)
(* Every variable keeps its type.                                          *)
(***************************************************************************)
THEOREM TypeCorrect == Spec => []TypeOK
<1>1. Inv => TypeOK
  BY DEF Inv
<1>2. QED
  BY <1>1, Invariance, PTL

(***************************************************************************)
(* At least once, for any number of workers, partitions, messages, crashes *)
(* and failures: no committed offset passes an unhandled message.          *)
(***************************************************************************)
THEOREM NothingLost == Spec => []NoLoss
<1>1. Inv => NoLoss
  BY DEF Inv, IndInv, StoreInv, CommitInv, NoLoss
<1>2. QED
  BY <1>1, Invariance, PTL

(***************************************************************************)
(* In order: whoever works on a message, evicted workers included, all     *)
(* earlier messages of the partition are handled.                          *)
(***************************************************************************)
THEOREM HandledInOrder == Spec => []InOrder
<1>1. Inv => InOrder
  BY DEF Inv, IndInv, SlotInv, OrderInv, InOrder
<1>2. QED
  BY <1>1, Invariance, PTL

(***************************************************************************)
(* The audit trail is exact under every redelivery.                        *)
(***************************************************************************)
THEOREM AuditTrailExact == Spec => []AuditExact
<1>1. Inv => AuditExact
  BY DEF Inv, IndInv, StoreInv
<1>2. QED
  BY <1>1, Invariance, PTL

(***************************************************************************)
(* Only undeliverable messages are dead-lettered: those that no attempt    *)
(* can record, and those that failed unexpectedly too often.               *)
(***************************************************************************)
THEOREM DeadLettersJustified == Spec => []OutageNeverDeadLetters
<1>1. Inv => OutageNeverDeadLetters
  BY DEF Inv, IndInv, StoreInv
<1>2. QED
  BY <1>1, Invariance, PTL

(***************************************************************************)
(* A message dead-lettered as permanently undeliverable is not in the      *)
(* tables, also not through an abandoned attempt whose transaction commits *)
(* late: its letter needs a stored decision that it conflicts with, and    *)
(* stored decisions stay.                                                  *)
(***************************************************************************)
THEOREM PermanentLettersUnrecorded == Spec => []PermanentNotRecorded
<1>1. Inv => PermanentNotRecorded
  <2> SUFFICES ASSUME Inv, NEW l \in dlq, l.class = "permanent" PROVE ~Recorded(l.source)
    BY DEF PermanentNotRecorded
  <2>1. OutageNeverDeadLetters /\ AuditExact
    BY DEF Inv, IndInv, StoreInv
  <2>2. l.source \in Source /\ Unrecordable(l.source)
    BY <2>1 DEF OutageNeverDeadLetters, Inv, TypeOK, StoreTypeOK, DeadLetter
  <2>3. QED
    BY <2>1, <2>2, UnrecordableNotRecorded
<1>2. QED
  BY <1>1, Invariance, PTL

-----------------------------------------------------------------------------
(***************************************************************************)
(* Backpressure.  A partition is open only below the watermark, a slot is  *)
(* told to stop only while the poll thread stands in a callback, so that   *)
(* nothing is queued behind the wake-up call, and a pause has somebody to  *)
(* lift it.                                                                *)
(***************************************************************************)
Lifted(s) == paused[s] /\ ~stopping[s] /\ pc[s] # "dead" => Busy(s) \/ queue[s] # <<>>

PauseInv(s) ==
    /\ stopping[s] => phase[s[1]] \in {"revoking", "losing", "draining"}
    /\ Len(queue[s]) <= HighWatermark
    /\ ~paused[s] /\ ~stopping[s] => Len(queue[s]) < HighWatermark
    /\ Lifted(s)

Backpressure == \A s \in Slot : PauseInv(s)

\* Half of a watermark is below it.
LEMMA Watermarks ==
    /\ HighWatermark \div 2 \in Nat /\ HighWatermark \div 2 < HighWatermark
    /\ \A n \in Nat : ShouldResume(n) => n < HighWatermark
    /\ \A n \in Nat : ~ShouldResume(n) => n # 0
BY WorkerAssumption DEF ShouldResume

\* A queue with one more message.
LEMMA LongerQueue ==
    ASSUME NEW q \in Seq(Nat), NEW n \in Nat
    PROVE  Len(Append(q, n)) = Len(q) + 1 /\ Append(q, n) # <<>>
<1>1. Len(Append(q, n)) = Len(q) + 1 /\ Len(q) \in Nat
  OBVIOUS
<1>2. Len(Append(q, n)) # 0
  BY <1>1
<1>3. Len(<<>>) = 0
  OBVIOUS
<1>4. QED
  BY <1>1, <1>2, <1>3

\* What PauseInv speaks of, for a slot that a step leaves alone.
PauseFrame(t) == UNCHANGED <<pc[t], queue[t], stopping[t], paused[t], phase[t[1]]>>

LEMMA OtherPause ==
    ASSUME NEW t \in Slot, PauseInv(t), PauseFrame(t)
    PROVE  PauseInv(t)'
BY DEF PauseInv, PauseFrame, Lifted, Busy

\* A step of the task in slot s, or a message queued there.
LEMMA PauseTask ==
    ASSUME Inv, Backpressure, NEW s \in Slot, Poll(s) \/ Task(s) \/ Failure(s) \/ AutoCommit(s)
    PROVE  Backpressure'
<1> USE DEF Inv, TypeOK
<1>0. PauseInv(s) /\ Len(queue[s]) \in Nat /\ queue[s] \in Seq(Nat) /\ s[1] \in Worker
  BY SlotFacts DEF Backpressure
<1>1. CASE Poll(s)
  <2>1. /\ UNCHANGED <<pc, stopping, phase>> /\ phase[s[1]] = "polling" /\ ~paused[s]
        /\ queue'[s] = Append(queue[s], position[s])
        /\ paused'[s] <=> Len(queue[s]) + 1 >= HighWatermark
        /\ \A t \in Slot \ {s} : PauseFrame(t)
    BY <1>1 DEF Poll, PauseFrame, ShouldPause
  <2>2. Len(queue'[s]) = Len(queue[s]) + 1 /\ queue'[s] # <<>>
    <3>1. position[s] \in Nat
      OBVIOUS
    <3>2. QED
      BY <1>0, <2>1, <3>1, LongerQueue
  <2>3. ~stopping[s] /\ Len(queue[s]) < HighWatermark
    BY <1>0, <2>1 DEF PauseInv
  <2>4. PauseInv(s)'
    BY <1>0, <2>1, <2>2, <2>3, WorkerAssumption DEF PauseInv, Lifted
  <2>5. QED
    BY <2>1, <2>4, OtherPause DEF Backpressure
<1>2. CASE Take(s)
  <2>1. /\ UNCHANGED <<paused, stopping, phase>> /\ queue[s] # <<>>
        /\ pc'[s] = "process" /\ queue'[s] = Tail(queue[s])
        /\ \A t \in Slot \ {s} : PauseFrame(t)
    BY <1>2 DEF Take, PauseFrame
  <2>2. Len(queue'[s]) = Len(queue[s]) - 1
    BY <1>0, <2>1
  <2>3. PauseInv(s)'
    BY <1>0, <2>1, <2>2, WorkerAssumption DEF PauseInv, Lifted, Busy
  <2>4. QED
    BY <2>1, <2>3, OtherPause DEF Backpressure
<1>3. CASE Quit(s)
  <2>1. /\ UNCHANGED <<paused, stopping, phase, queue>> /\ queue[s] # <<>>
        /\ \A t \in Slot \ {s} : PauseFrame(t)
    BY <1>3 DEF Quit, PauseFrame
  <2>2. PauseInv(s)'
    BY <1>0, <2>1 DEF PauseInv, Lifted
  <2>3. QED
    BY <2>1, <2>2, OtherPause DEF Backpressure
<1>4. CASE Finish(s)
  <2>1. /\ UNCHANGED <<stopping, phase, queue>>
        /\ paused'[s] = (paused[s] /\ ~ShouldResume(Len(queue[s])))
        /\ \A t \in Slot \ {s} : PauseFrame(t)
    BY <1>4 DEF Finish, PauseFrame
  <2>2. paused'[s] => queue[s] # <<>>
    BY <1>0, <2>1, Watermarks
  <2>3. PauseInv(s)'
    BY <1>0, <2>1, <2>2, Watermarks DEF PauseInv, Lifted
  <2>4. QED
    BY <2>1, <2>3, OtherPause DEF Backpressure
<1>5. ASSUME NEW step \in PC, step \in {"process", "publish"}, NextPass(s, step),
             UNCHANGED <<phase, queue, stopping>>
      PROVE  Backpressure'
  <2>1. /\ pc'[s] = IF stopping[s] THEN "done" ELSE step
        /\ ~stopping[s] => paused'[s] = paused[s]
        /\ \A t \in Slot \ {s} : PauseFrame(t)
    BY <1>5 DEF NextPass, PauseFrame
  <2>2. PauseInv(s)'
    BY <1>0, <1>5, <2>1 DEF PauseInv, Lifted, Busy
  <2>3. QED
    BY <2>1, <2>2, OtherPause DEF Backpressure
<1>6. ASSUME pc'[s] \in {"handled", "backoff", "dead"}, \A t \in Slot \ {s} : pc'[t] = pc[t],
             UNCHANGED <<phase, queue, stopping, paused>>
      PROVE  Backpressure'
  <2>1. PauseInv(s)'
    BY <1>0, <1>6 DEF PauseInv, Lifted, Busy
  <2>2. \A t \in Slot \ {s} : PauseFrame(t)
    BY <1>6 DEF PauseFrame
  <2>3. QED
    BY <2>1, <2>2, OtherPause DEF Backpressure
<1>7. CASE Reject(s) \/ Retry(s)
  <2>1. \E step \in {"process", "publish"} : NextPass(s, step)
    BY <1>7 DEF Reject, Retry
  <2>2. QED
    BY <1>5, <1>7, <2>1 DEF Reject, Retry, PC
<1>8. CASE Record(s) \/ Publish(s)
  BY <1>6, <1>8 DEF Record, Publish
<1>9. CASE FailTransient(s) \/ FailPublish(s)
  BY <1>6, <1>9 DEF FailTransient, FailPublish, BackOff
<1>10. CASE FailUnexpected(s)
  <2>1. UNCHANGED <<phase, queue, stopping>>
    BY <1>10 DEF FailUnexpected
  <2>2. CASE GivesUp(unexpected[s] + 1)
    BY <1>5, <1>10, <2>1, <2>2 DEF FailUnexpected, PC
  <2>3. CASE ~GivesUp(unexpected[s] + 1)
    BY <1>6, <1>10, <2>1, <2>3 DEF FailUnexpected, BackOff
  <2>4. QED
    BY <2>2, <2>3
<1>11. CASE AutoCommit(s)
  BY <1>11, OtherPause DEF AutoCommit, slotVars, PauseFrame, Backpressure
<1>12. QED
  BY <1>1, <1>2, <1>3, <1>4, <1>7, <1>8, <1>9, <1>10, <1>11 DEF Task, Process, Failure

\* Slots that are told to stop, while their poll thread enters a callback.
LEMMA PauseStop ==
    ASSUME Inv, Backpressure, NEW w \in Worker, NEW P \in SUBSET Partition, StopPartitions(w, P),
           NEW ph \in {"revoking", "losing", "draining"},
           phase' = [phase EXCEPT ![w] = ph], UNCHANGED <<pc, paused>>
    PROVE  Backpressure'
<1>1. SUFFICES ASSUME NEW t \in Slot PROVE PauseInv(t)'
  BY DEF Backpressure
<1>2. PauseInv(t) /\ phase \in [Worker -> Phase] /\ t[1] \in Worker
  BY SlotFacts DEF Backpressure, Inv, TypeOK
<1>3. CASE t[1] = w /\ t[2] \in P
  <2>1. stopping'[t] /\ queue'[t] = <<Wake>> /\ phase'[t[1]] = ph
    BY <1>2, <1>3 DEF StopPartitions
  <2>2. Len(<<Wake>>) = 1
    OBVIOUS
  <2>3. QED
    BY <2>1, <2>2, WorkerAssumption DEF PauseInv, Lifted
<1>4. CASE ~(t[1] = w /\ t[2] \in P)
  <2>1. stopping'[t] = stopping[t] /\ queue'[t] = queue[t]
    BY <1>4 DEF StopPartitions, Inv, TypeOK
  <2>2. phase'[t[1]] = IF t[1] = w THEN ph ELSE phase[t[1]]
    BY <1>2
  <2>3. QED
    BY <1>2, <2>1, <2>2 DEF PauseInv, Lifted, Busy
<1>5. QED
  BY <1>3, <1>4

\* Slots that go away, with everyone that was told to stop, as the callback ends.
LEMMA PauseDrop ==
    ASSUME Inv, Backpressure, NEW w \in Worker, NEW P \in SUBSET Partition, DropSlots(w, P),
           Stopping(w) \subseteq P, NEW ph \in {"polling", "down"},
           phase' = [phase EXCEPT ![w] = ph]
    PROVE  Backpressure'
<1>1. SUFFICES ASSUME NEW t \in Slot PROVE PauseInv(t)'
  BY DEF Backpressure
<1>2. PauseInv(t) /\ QueueInv(t) /\ t[1] \in Worker /\ t[2] \in Partition /\ t = <<t[1], t[2]>>
  BY SlotFacts DEF Backpressure, Inv, IndInv, SlotInv
<1>3. CASE t[1] = w /\ t[2] \in P
  <2>1. ~stopping'[t] /\ ~paused'[t] /\ queue'[t] = <<>>
    BY <1>3 DEF DropSlots, Inv, TypeOK
  <2>2. QED
    BY <2>1, WorkerAssumption DEF PauseInv, Lifted
<1>4. CASE ~(t[1] = w /\ t[2] \in P)
  <2>1. UNCHANGED <<stopping[t], paused[t], queue[t], pc[t]>>
    BY <1>4 DEF DropSlots, Inv, TypeOK
  <2>2. t[1] = w => ~stopping[t]
    BY <1>2, <1>4 DEF Stopping, Held, QueueInv
  <2>3. t[1] # w => phase'[t[1]] = phase[t[1]]
    BY <1>2 DEF Inv, TypeOK
  <2>4. QED
    BY <1>2, <2>1, <2>2, <2>3 DEF PauseInv, Lifted, Busy
<1>5. QED
  BY <1>3, <1>4

LEMMA PauseRebalance ==
    ASSUME Inv, Backpressure, NEW w \in Worker, Rebalance(w)
    PROVE  Backpressure'
<1>1. Held(w) \in SUBSET Partition /\ Stopping(w) \subseteq Held(w)
  BY DEF Held, Stopping
<1>2. CASE \E p \in Partition : Assign(w, p)
  <2>1. PICK p \in Partition : Assign(w, p)
    BY <1>2
  <2>2. SUFFICES ASSUME NEW t \in Slot PROVE PauseInv(t)'
    BY DEF Backpressure
  <2>3. PauseInv(t) /\ UNCHANGED <<queue, stopping, paused, phase>>
    BY <2>1 DEF Assign, Backpressure
  <2>4. (pc[t] = "none" /\ pc'[t] = "get") \/ pc'[t] = pc[t]
    BY <2>1 DEF Assign, Inv, TypeOK
  <2>5. QED
    BY <2>3, <2>4 DEF PauseInv, Lifted, Busy
<1>3. CASE \E P \in SUBSET Partition : Revoke(w, P)
  BY <1>3, PauseStop DEF Revoke
<1>4. CASE Lose(w) \/ Shutdown(w)
  BY <1>1, <1>4, PauseStop DEF Lose, Shutdown
<1>5. CASE Cancel(w)
  <2>1. SUFFICES ASSUME NEW t \in Slot PROVE PauseInv(t)'
    BY DEF Backpressure
  <2>2. PauseInv(t) /\ UNCHANGED <<queue, stopping, paused, phase>>
    BY <1>5 DEF Cancel, Backpressure
  <2>3. stopping[t] \/ pc'[t] = pc[t]
    BY <1>5, SlotFacts DEF Cancel, Stopping
  <2>4. QED
    BY <2>2, <2>3 DEF PauseInv, Lifted, Busy
<1>6. CASE FinishRevoke(w) \/ FinishLose(w)
  BY <1>1, <1>6, PauseDrop DEF FinishRevoke, FinishLose
<1>7. CASE Close(w)
  BY <1>1, <1>7, PauseDrop DEF Close
<1>8. CASE Crash(w)
  BY <1>1, <1>8, PauseDrop DEF Crash
<1>9. CASE Evict(w)
  BY <1>9, OtherPause DEF Evict, slotVars, PauseFrame, Backpressure
<1>10. CASE Restart(w)
  <2>1. SUFFICES ASSUME NEW t \in Slot PROVE PauseInv(t)'
    BY DEF Backpressure
  <2>2. PauseInv(t) /\ UNCHANGED <<pc, queue, stopping, paused>> /\ t[1] \in Worker
    BY <1>10, SlotFacts DEF Restart, Backpressure, slotVars
  <2>3. phase'[t[1]] = phase[t[1]] \/ phase[t[1]] = "down"
    BY <1>10, <2>2 DEF Restart, Inv, TypeOK
  <2>4. QED
    BY <2>2, <2>3 DEF PauseInv, Lifted, Busy
<1>11. QED
  BY <1>2, <1>3, <1>4, <1>5, <1>6, <1>7, <1>8, <1>9, <1>10 DEF Rebalance

LEMMA PauseStep == Inv /\ Backpressure /\ [Next]_vars => Backpressure'
<1> SUFFICES ASSUME Inv, Backpressure, [Next]_vars PROVE Backpressure'
  OBVIOUS
<1>1. ASSUME UNCHANGED <<phase, slotVars>>
      PROVE  Backpressure'
  BY <1>1, OtherPause DEF slotVars, PauseFrame, Backpressure
<1>2. QED
  BY <1>1, PauseTask, PauseRebalance DEF Next, vars, Expire, LandWrite, LandLetter

LEMMA BackpressureHolds == Spec => []Backpressure
<1>1. Init => Backpressure
  BY WorkerAssumption DEF Init, Backpressure, PauseInv, Lifted
<1>2. QED
  BY <1>1, PauseStep, Invariance, PTL DEF Spec

(***************************************************************************)
(* However tasks, callbacks and _dispatch interleave, the queue of a       *)
(* partition never grows past WORKER_PARTITION_HIGH_WATERMARK.             *)
(***************************************************************************)
THEOREM QueuesBounded == Spec => []BacklogBounded
<1>1. Backpressure => BacklogBounded
  BY DEF Backpressure, PauseInv, BacklogBounded
<1>2. QED
  BY <1>1, BackpressureHolds, PTL

(***************************************************************************)
(* A pause set by _dispatch is never left without a task that will resume  *)
(* the partition at the end of _consume_partition's loop.                  *)
(***************************************************************************)
THEOREM PausesEnd == Spec => []NoStuckPause
<1>1. Backpressure => NoStuckPause
  BY DEF Backpressure, PauseInv, Lifted, NoStuckPause
<1>2. QED
  BY <1>1, BackpressureHolds, PTL

-----------------------------------------------------------------------------
(***************************************************************************)
(* The worker fleet implements the contract.  The contract's variables are *)
(* the fleet's, so its operators mean the same as the fleet's.             *)
(***************************************************************************)
LEMMA ContractOperators ==
    /\ \A p, n : Contract!HandledBelow(p, n) <=> HandledBelow(p, n)
    /\ \A src : Contract!Unrecordable(src) <=> Unrecordable(src)
    /\ Contract!Source = Source
    /\ Contract!contractVars = <<transactions, history, dlq, committed>>
<1>1. \A src : Contract!Handled(src) <=> Handled(src)
  BY DEF Contract!Handled, Contract!Recorded, Contract!DeadLettered, Handled, Recorded, DeadLettered
<1>2. \A p, n : Contract!HandledBelow(p, n) <=> HandledBelow(p, n)
  BY <1>1 DEF Contract!HandledBelow, HandledBelow
<1>3. \A src : Contract!Unrecordable(src) <=> Unrecordable(src)
  BY DEF Contract!Unrecordable, Contract!Conflicts, Contract!Stored, Contract!MessageAt,
         Contract!same_transaction, Unrecordable, Conflicts, Stored, MessageAt, same_transaction
<1>4. Contract!Source = Source
  BY DEF Contract!Source, Source
<1>5. Contract!contractVars = <<transactions, history, dlq, committed>>
  BY DEF Contract!contractVars
<1>6. QED
  BY <1>2, <1>3, <1>4, <1>5

LEMMA DecideStep ==
    ASSUME NEW src \in Source, NEW v \in Verdict, HandledBelow(src[1], src[2]),
           record_decision(src, v), UNCHANGED <<dlq, committed>>
    PROVE  Contract!ContractNext
<1>1. Contract!record_decision(src, v)
  BY DEF Contract!record_decision, Contract!Evaluate, Contract!Duplicate, Contract!AppendAudit,
         Contract!history_values, Contract!MessageAt, Contract!Stored, Contract!same_transaction,
         record_decision, Evaluate, Duplicate, AppendAudit, history_values, MessageAt, Stored,
         same_transaction
<1>2. Contract!Ready(src)
  BY ContractOperators DEF Contract!Ready
<1>3. Contract!Decide(src)
  BY <1>1, <1>2 DEF Contract!Decide
<1>4. src \in Contract!Source
  BY ContractOperators
<1>5. QED
  BY <1>3, <1>4, Zenon DEF Contract!ContractNext

LEMMA DeadLetterStep ==
    ASSUME NEW l \in DeadLetter, HandledBelow(l.source[1], l.source[2]),
           Justified(l.source, l.class), dlq' = dlq \cup {l},
           UNCHANGED <<transactions, history, committed>>
    PROVE  Contract!ContractNext
<1>1. /\ l.source \in Source /\ l.class \in {"permanent", "unexpected"}
      /\ l = [source |-> l.source, class |-> l.class]
  BY DEF DeadLetter
<1>2. Contract!Ready(l.source) /\ (l.class = "permanent" => Contract!Unrecordable(l.source))
  BY ContractOperators DEF Contract!Ready, Justified
<1>3. Contract!DeadLetterMessage(l.source, l.class)
  BY <1>1, <1>2 DEF Contract!DeadLetterMessage
<1>4. QED
  BY <1>1, <1>3, ContractOperators DEF Contract!ContractNext

LEMMA CommitStep ==
    ASSUME Inv, NEW w \in Worker, NEW P, CommitStored(w, P) \/ UNCHANGED committed,
           UNCHANGED <<storeVars, surprises>>
    PROVE  Contract!ContractNext
<1>1. Grows
  BY DEF Grows, StoreGrows, storeVars, Inv, TypeOK
<1>2. /\ committed' \in [Partition -> Nat]
      /\ CommitInv'
      /\ \A p \in Partition : committed'[p] >= committed[p]
  BY <1>1, CommitKeepsOrder
<1>3. \A p \in Partition : HandledBelow(p, committed'[p])
  BY <1>2 DEF CommitInv, HandledBelow, Handled, Recorded, DeadLettered, storeVars
<1>4. Contract!Commit
  BY <1>2, <1>3, ContractOperators DEF Contract!Commit, Contract!storeVars, storeVars
<1>5. QED
  BY <1>4 DEF Contract!ContractNext

\* Every step of the fleet is a step of the contract or leaves its variables alone.
LEMMA NextImplements ==
    ASSUME Inv, [Next]_vars
    PROVE  Contract!ContractNext \/ UNCHANGED <<transactions, history, dlq, committed>>
<1>1. CASE UNCHANGED vars
  BY <1>1 DEF vars, storeVars, brokerVars
<1>2. ASSUME NEW s \in Slot, Record(s)
      PROVE  Contract!ContractNext
  <2>1. Busy(s)
    BY <1>2 DEF Record, Busy
  <2>2. Current(s) \in Source /\ Current(s)[1] = s[2] /\ Current(s)[2] = cur[s]
    BY <2>1, CurrentIsSource
  <2>3. HandledBelow(Current(s)[1], Current(s)[2])
    BY <2>1, <2>2 DEF Inv, IndInv, SlotInv, OrderInv
  <2>4. PICK v \in Verdict : record_decision(Current(s), v)
    BY <1>2 DEF Record
  <2>5. PICK src \in Source : src = Current(s)
    BY <2>2
  <2>6. record_decision(src, v) /\ HandledBelow(src[1], src[2]) /\ UNCHANGED <<dlq, committed>>
    BY <1>2, <2>3, <2>4, <2>5 DEF Record, brokerVars
  <2>7. QED
    BY <2>6, DecideStep
<1>3. ASSUME NEW s \in Slot, Publish(s)
      PROVE  Contract!ContractNext
  <2>1. pc[s] = "publish"
    BY <1>3 DEF Publish
  <2>2. PICK l \in DeadLetter : l = PendingLetter(s)
    BY <2>1, PendingLetterJustified
  <2>3. /\ HandledBelow(l.source[1], l.source[2]) /\ Justified(l.source, l.class)
        /\ dlq' = dlq \cup {l} /\ UNCHANGED <<transactions, history, committed>>
    BY <1>3, <2>1, <2>2, PendingLetterJustified DEF Publish, brokerVars
  <2>4. QED
    BY <2>3, DeadLetterStep
<1>4. ASSUME NEW s \in Slot, AutoCommit(s)
      PROVE  Contract!ContractNext
  BY <1>4, CommitStep, SlotFacts DEF AutoCommit, boundVars
<1>5. ASSUME NEW w \in Worker, FinishRevoke(w) \/ Close(w)
      PROVE  Contract!ContractNext
  BY <1>5, CommitStep DEF FinishRevoke, Close, boundVars
<1>6. ASSUME NEW u \in lateWrites, LandWrite(u)
      PROVE  Contract!ContractNext
  <2>1. u.source \in Source /\ u.verdict \in Verdict /\ HandledBelow(u.source[1], u.source[2])
    BY DEF Inv, TypeOK, LateWrite, IndInv, StoreInv, LateInv
  <2>2. record_decision(u.source, u.verdict) /\ UNCHANGED <<dlq, committed>>
    BY <1>6 DEF LandWrite, brokerVars
  <2>3. QED
    BY <2>1, <2>2, DecideStep
<1>7. ASSUME NEW l \in lateLetters, LandLetter(l)
      PROVE  Contract!ContractNext
  <2>1. l \in DeadLetter /\ HandledBelow(l.source[1], l.source[2]) /\ Justified(l.source, l.class)
    BY DEF Inv, TypeOK, IndInv, StoreInv, LateInv
  <2>2. dlq' = dlq \cup {l} /\ UNCHANGED <<transactions, history, committed>>
    BY <1>7 DEF LandLetter, brokerVars
  <2>3. QED
    BY <2>1, <2>2, DeadLetterStep
<1>8. ASSUME NEW s \in Slot,
             \/ Poll(s) \/ Take(s) \/ Quit(s) \/ Reject(s) \/ Retry(s) \/ Finish(s)
             \/ FailTransient(s) \/ FailUnexpected(s) \/ FailPublish(s)
      PROVE  UNCHANGED <<transactions, history, dlq, committed>>
  BY <1>8 DEF Poll, Take, Quit, Reject, Retry, Finish, FailTransient, FailUnexpected, FailPublish,
              storeVars, brokerVars
<1>9. ASSUME NEW w \in Worker,
             \/ \E p \in Partition : Assign(w, p)
             \/ \E P \in SUBSET Partition : Revoke(w, P)
             \/ Evict(w) \/ Lose(w) \/ Shutdown(w) \/ Cancel(w) \/ FinishLose(w)
             \/ Crash(w) \/ Restart(w)
      PROVE  UNCHANGED <<transactions, history, dlq, committed>>
  BY <1>9 DEF Assign, Revoke, Evict, Lose, Shutdown, Cancel, FinishLose, Crash, Restart,
              storeVars, brokerVars
<1>10. ASSUME NEW p \in Partition, Expire(p)
       PROVE  UNCHANGED <<transactions, history, dlq, committed>>
  BY <1>10 DEF Expire, storeVars
<1>11. QED
  BY <1>1, <1>2, <1>3, <1>4, <1>5, <1>6, <1>7, <1>8, <1>9, <1>10
     DEF Next, Task, Process, Failure, Rebalance

(***************************************************************************)
(* The fleet of workers, with all its crashes, evictions and retries,      *)
(* does only what PipelineContract allows.                                 *)
(***************************************************************************)
THEOREM FleetImplementsContract == Spec => ImplementsContract
<1>1. Init => Contract!ContractInit
  BY DEF Init, StoreInit, Contract!ContractInit, Contract!StoreInit
<1>2. Inv /\ [Next]_vars => [Contract!ContractNext]_(Contract!contractVars)
  BY NextImplements DEF Contract!contractVars
<1>3. QED
  BY <1>1, <1>2, Invariance, PTL DEF Spec, ImplementsContract, Contract!ContractSpec

\* What a step of the contract does to decisions and to committed offsets.
LEMMA ContractStepGrows ==
    ASSUME Inv, [Next]_vars
    PROVE  /\ transactions \subseteq transactions' /\ history \subseteq history'
           /\ \A p \in Partition : committed'[p] >= committed[p]
<1>0. committed \in [Partition -> Nat]
  BY DEF Inv, TypeOK
<1>1. CASE UNCHANGED <<transactions, history, dlq, committed>>
  BY <1>0, <1>1
<1>2. ASSUME NEW src \in Source, Contract!Decide(src)
      PROVE  /\ transactions \subseteq transactions' /\ history \subseteq history'
             /\ UNCHANGED committed
  BY <1>2 DEF Contract!Decide, Contract!record_decision, Contract!Evaluate, Contract!Duplicate,
              Contract!AppendAudit
<1>3. ASSUME NEW src \in Source, NEW class, Contract!DeadLetterMessage(src, class)
      PROVE  UNCHANGED <<transactions, history, committed>>
  BY <1>3 DEF Contract!DeadLetterMessage
<1>4. CASE Contract!Commit
  BY <1>4 DEF Contract!Commit, Contract!storeVars
<1>5. QED
  BY <1>0, <1>1, <1>2, <1>3, <1>4, NextImplements, ContractOperators DEF Contract!ContractNext

(***************************************************************************)
(* The first decision on a transaction stands, and its audit row with it.  *)
(***************************************************************************)
THEOREM DecisionsStand == Spec => FirstDecisionWins
<1>1. Inv /\ [Next]_vars => [transactions \subseteq transactions' /\ history \subseteq history']_storeVars
  BY ContractStepGrows
<1>2. QED
  BY <1>1, Invariance, PTL DEF Spec, FirstDecisionWins

(***************************************************************************)
(* No commit, of whichever owner and however late, moves an offset back.   *)
(***************************************************************************)
THEOREM CommitsMoveForward == Spec => CommitNeverBackward
<1>1. Inv /\ [Next]_vars => [\A p \in Partition : committed'[p] >= committed[p]]_committed
  BY ContractStepGrows
<1>2. QED
  BY <1>1, Invariance, PTL DEF Spec, CommitNeverBackward
=============================================================================
