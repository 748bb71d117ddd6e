-------------------------- MODULE ProcessingProofs --------------------------
(***************************************************************************)
(* Proofs about Processing: any number of sessions, running the statements *)
(* of process() and record_decision concurrently and failing anywhere,     *)
(* implement the atomic steps of PipelineContract on the committed rows.   *)
(*                                                                         *)
(* Every step but Commit leaves the committed rows alone.  At a Commit the *)
(* session holds the key of its row, so no other row with the id exists,   *)
(* or it has found the committed row, which stays; the same goes for the   *)
(* audit row.  What a session has found out (its turn has come, the id is  *)
(* taken, the data conflict) stays true because committed rows and dead    *)
(* letters are never removed.                                              *)
(***************************************************************************)
EXTENDS Processing, TLAPS

\* One row per id and one audit row per message, uncommitted ones included.
UniqueRows == \A r1, r2 \in rows : r1.row.tx = r2.row.tx => r1 = r2
UniqueAudit == \A a1, a2 \in audit : a1.row.source = a2.row.source => a1 = a2

\* An audit row is about the stored decision of its message's transaction.
AuditInv ==
    \A h \in Committed(audit) :
        h.decision \in Committed(rows) /\ h.decision.tx = Store!MessageAt(h.source).tx

\* What the session has written, or found, for the transaction ...
RowInv(s) ==
    pc[s] \in {"audit", "commit"} =>
        /\ result[s] \in Result
        /\ result[s].decision.tx = Message(s).tx
        /\ result[s].decision.data = Message(s).data
        /\ result[s].outcome = "evaluated" => WrittenBy(rows, s) = {Written(result[s].decision, s)}
        /\ result[s].outcome = "duplicate" =>
              WrittenBy(rows, s) = {} /\ result[s].decision \in Committed(rows)

\* ... and for the message.
AuditRowInv(s) ==
    pc[s] = "commit" =>
        \/ WrittenBy(audit, s) = {Written(AuditRowOf(s), s)}
        \/ /\ WrittenBy(audit, s) = {}
           /\ \E h \in Committed(audit) : h.source = source[s]

\* What the session knows about its message.
MessageInv(s) ==
    /\ pc[s] # Idle => source[s] \in Store!Source /\ Store!Ready(source[s])
    /\ pc[s] \in {"score", "returned"} \cup InTransaction => Message(s).valid
    /\ pc[s] = "insert" => score[s] \in Verdict
    /\ pc[s] = "select" => Store!Stored(Message(s).tx) # {}
    /\ pc[s] = "rejected" => Store!Unrecordable(source[s])
    /\ pc[s] # "crashed"

\* What is returned is stored.
ReturnInv(s) ==
    pc[s] = "returned" =>
        /\ result[s].decision \in Committed(rows)
        /\ \E h \in Committed(audit) :
              /\ h.source = source[s]
              /\ h.decision = result[s].decision
              /\ result[s].outcome = "evaluated" => h.outcome = "evaluated"

SessionInv(s) == MessageInv(s) /\ RowInv(s) /\ AuditRowInv(s) /\ ReturnInv(s)

Inv ==
    /\ TypeOK
    /\ UniqueRows
    /\ UniqueAudit
    /\ AuditInv
    /\ \A s \in Session : SessionInv(s)

----------------------------------------------------------------------------
(* Tables with uncommitted rows *)

\* A committed row is one that carries no session.
LEMMA CommittedIn ==
    ASSUME NEW R, NEW x
    PROVE  x \in Committed(R) <=> \E r \in R : r.by = Nobody /\ r.row = x
  BY DEF Committed

\* A session's INSERT shows in nobody's table but its own.
LEMMA AfterInsert ==
    ASSUME NEW R, NEW x, NEW s \in Session
    PROVE  /\ Committed(R \cup {Written(x, s)}) = Committed(R)
           /\ WrittenBy(R \cup {Written(x, s)}, s) = WrittenBy(R, s) \cup {Written(x, s)}
           /\ \A p \in Session \ {s} : WrittenBy(R \cup {Written(x, s)}, p) = WrittenBy(R, p)
  <1>1. Nobody # s
    BY SessionAssumption
  <1>2. \A y : y \in Committed(R \cup {Written(x, s)}) <=> y \in Committed(R)
    BY <1>1 DEF Committed, Written
  <1>3. Committed(R \cup {Written(x, s)}) = Committed(R)
    BY <1>2
  <1>4. Written(x, s).by = s
    BY DEF Written
  <1>5. WrittenBy(R \cup {Written(x, s)}, s) = WrittenBy(R, s) \cup {Written(x, s)}
    BY <1>4 DEF WrittenBy
  <1>6. \A p \in Session \ {s} : WrittenBy(R \cup {Written(x, s)}, p) = WrittenBy(R, p)
    BY <1>4 DEF WrittenBy
  <1> QED
    BY <1>3, <1>5, <1>6

\* A rollback takes a session's rows away and no others.
LEMMA AfterRollback ==
    ASSUME NEW R, NEW s \in Session
    PROVE  /\ Committed(R \ WrittenBy(R, s)) = Committed(R)
           /\ WrittenBy(R \ WrittenBy(R, s), s) = {}
           /\ \A p \in Session \ {s} : WrittenBy(R \ WrittenBy(R, s), p) = WrittenBy(R, p)
  <1>1. Nobody # s
    BY SessionAssumption
  <1>2. \A y : y \in Committed(R \ WrittenBy(R, s)) <=> y \in Committed(R)
    BY <1>1 DEF Committed, WrittenBy
  <1> QED
    BY <1>2 DEF WrittenBy

\* A commit adds a session's rows to the committed ones.
LEMMA AfterCommit ==
    ASSUME NEW R, NEW s \in Session
    PROVE  /\ \A y : y \in Committed(Publish(R, s))
                       <=> y \in Committed(R) \/ \E r \in WrittenBy(R, s) : r.row = y
           /\ WrittenBy(Publish(R, s), s) = {}
           /\ \A p \in Session \ {s} : WrittenBy(Publish(R, s), p) = WrittenBy(R, p)
           /\ \A r \in Publish(R, s) : \E q \in R :
                 q.row = r.row /\ r = IF q.by = s THEN Written(q.row, Nobody) ELSE q
  <1>1. Nobody # s /\ Nobody \notin Session
    BY SessionAssumption
  <1>2. \A r : r \in Publish(R, s)
                 <=> \E q \in R : r = IF q.by = s THEN Written(q.row, Nobody) ELSE q
    BY DEF Publish
  <1>3. \A q : Written(q.row, Nobody).row = q.row /\ Written(q.row, Nobody).by = Nobody
    BY DEF Written
  <1>4. ASSUME NEW y
        PROVE  y \in Committed(Publish(R, s))
                 <=> y \in Committed(R) \/ \E r \in WrittenBy(R, s) : r.row = y
    <2>1. ASSUME NEW r \in Publish(R, s), r.by = Nobody, r.row = y
          PROVE  y \in Committed(R) \/ \E q \in WrittenBy(R, s) : q.row = y
      BY <1>2, <1>3, <2>1 DEF Committed, WrittenBy
    <2>2. ASSUME NEW q \in R, q.by = Nobody, q.row = y PROVE y \in Committed(Publish(R, s))
      <3>1. q \in Publish(R, s)
        BY <1>1, <1>2, <2>2
      <3> QED
        BY <3>1, <2>2, CommittedIn
    <2>3. ASSUME NEW q \in WrittenBy(R, s), q.row = y PROVE y \in Committed(Publish(R, s))
      <3>1. Written(q.row, Nobody) \in Publish(R, s)
        BY <1>2 DEF WrittenBy
      <3> QED
        BY <3>1, <1>3, <2>3, CommittedIn
    <2> QED
      BY <2>1, <2>2, <2>3, CommittedIn
  <1>5. WrittenBy(Publish(R, s), s) = {}
    BY <1>1, <1>2, <1>3 DEF WrittenBy
  <1>6. \A p \in Session \ {s} : WrittenBy(Publish(R, s), p) = WrittenBy(R, p)
    <2> SUFFICES ASSUME NEW p \in Session \ {s}, NEW r
                 PROVE  r \in WrittenBy(Publish(R, s), p) <=> r \in WrittenBy(R, p)
      OBVIOUS
    <2> QED
      BY <1>1, <1>2, <1>3 DEF WrittenBy
  <1>7. \A r \in Publish(R, s) : \E q \in R :
           q.row = r.row /\ r = IF q.by = s THEN Written(q.row, Nobody) ELSE q
    BY <1>2, <1>3
  <1> QED
    BY <1>4, <1>5, <1>6, <1>7

----------------------------------------------------------------------------
(* What stays true *)

\* Committed rows and dead letters are only added.
Grows ==
    /\ Committed(rows) \subseteq Committed(rows)'
    /\ Committed(audit) \subseteq Committed(audit)'
    /\ dlq \subseteq dlq'

\* A turn that has come stays.
LEMMA ReadyStays ==
    ASSUME Grows, NEW src, Store!Ready(src)
    PROVE  Store!Ready(src)'
  <1>1. \A x : Store!Handled(x) => Store!Handled(x)'
    BY DEF Grows, Store!Handled, Store!Recorded, Store!DeadLettered
  <1> QED
    BY <1>1 DEF Store!Ready, Store!HandledBelow

\* An id that is taken stays taken, and a conflict a conflict.
LEMMA StoredStays ==
    ASSUME Grows
    PROVE  /\ \A tx : Store!Stored(tx) # {} => Store!Stored(tx)' # {}
           /\ \A src : Store!Unrecordable(src) => Store!Unrecordable(src)'
  BY DEF Grows, Store!Stored, Store!Unrecordable, Store!Conflicts, Store!same_transaction

\* A step of one session leaves what is said of the others.
LEMMA OthersStay ==
    ASSUME Inv, Grows, NEW p \in Session,
           UNCHANGED <<pc[p], source[p], score[p], result[p], WrittenBy(rows, p), WrittenBy(audit, p)>>
    PROVE  SessionInv(p)'
  <1>0. SessionInv(p)
    BY DEF Inv
  <1>1. Message(p)' = Message(p) /\ AuditRowOf(p)' = AuditRowOf(p)
    BY DEF Message, Store!MessageAt, AuditRowOf, Store!history_values
  <1>2. MessageInv(p)'
    BY <1>0, <1>1, ReadyStays, StoredStays DEF SessionInv, MessageInv
  <1>3. RowInv(p)'
    BY <1>0, <1>1 DEF SessionInv, RowInv, Grows
  <1>4. AuditRowInv(p)'
    BY <1>0, <1>1 DEF SessionInv, AuditRowInv, Grows
  <1>5. ReturnInv(p)'
    BY <1>0 DEF SessionInv, ReturnInv, Grows
  <1> QED
    BY <1>2, <1>3, <1>4, <1>5 DEF SessionInv
----------------------------------------------------------------------------
(* Every step *)

\* The initial states satisfy the invariant.
LEMMA InitInv == Init => Inv
  <1> SUFFICES ASSUME Init PROVE Inv
    OBVIOUS
  <1>1. TypeOK
    BY DEF Init, TypeOK, PC, Idle, WrittenBy
  <1>2. UniqueRows /\ UniqueAudit
    BY DEF Init, UniqueRows, UniqueAudit
  <1>3. AuditInv
    BY DEF Init, AuditInv, Committed
  <1>4. \A s \in Session : SessionInv(s)
    BY DEF Init, SessionInv, MessageInv, RowInv, AuditRowInv, ReturnInv, Idle, InTransaction
  <1> QED
    BY <1>1, <1>2, <1>3, <1>4 DEF Inv

\* A message in the log has the types of its parts.
LEMMA MessageType ==
    ASSUME NEW src \in Store!Source
    PROVE  Store!MessageAt(src).tx \in Transaction /\ Store!MessageAt(src).data \in Data
  <1> DEFINE M == [tx : Transaction, data : Data, valid : BOOLEAN]
  <1>1. src[1] \in Partition /\ src[2] \in 1..Len(Log[src[1]])
    BY DEF Store!Source
  <1>2. Log[src[1]] \in Seq(M)
    BY <1>1, SessionAssumption
  <1>3. Log[src[1]][src[2]] \in M
    <2> HIDE DEF M
    <2> QED
      BY <1>1, <1>2
  <1> QED
    BY <1>3 DEF Store!MessageAt

\* The answer of a session, where there is one.
LEMMA AnswerType ==
    ASSUME Inv, NEW s \in Session, pc[s] \in {"audit", "commit"}
    PROVE  AuditRowOf(s) \in Store!AuditRow
  BY DEF Inv, SessionInv, RowInv, MessageInv, AuditRowOf, Store!history_values, Store!AuditRow,
         Result, Idle

\* Steps of a session that write nothing.
LEMMA QuietStep ==
    ASSUME Inv, TypeOK', NEW s \in Session, UNCHANGED tableVars, dlq \subseteq dlq',
           \A p \in Session \ {s} : UNCHANGED <<pc[p], source[p], score[p], result[p]>>,
           SessionInv(s)'
    PROVE  Inv'
  <1>1. Grows
    BY DEF Grows, tableVars
  <1>2. \A p \in Session : SessionInv(p)'
    BY <1>1, OthersStay DEF tableVars
  <1>3. UniqueRows' /\ UniqueAudit' /\ AuditInv'
    BY DEF Inv, UniqueRows, UniqueAudit, AuditInv, tableVars, Store!MessageAt
  <1> QED
    BY <1>2, <1>3 DEF Inv

\* A session that leaves has nothing left to say.
LEMMA LeaveInv ==
    ASSUME TypeOK, NEW s \in Session, Leave(s)
    PROVE  /\ SessionInv(s)'
           /\ \A p \in Session \ {s} : UNCHANGED <<pc[p], source[p], score[p], result[p]>>
           /\ pc' \in [Session -> PC] /\ pc'[s] = Idle
           /\ source' \in [Session -> Store!Source \cup {NoSource}]
           /\ score' \in [Session -> Verdict \cup {NoScore}]
           /\ result' \in [Session -> Result \cup {NoResult}]
  BY DEF TypeOK, Leave, PC, SessionInv, MessageInv, RowInv, AuditRowInv, ReturnInv, Idle, InTransaction

\* process() starts.
LEMMA BeginInv ==
    ASSUME Inv, NEW s \in Session, NEW src \in Store!Source, Begin(s, src)
    PROVE  Inv'
  <1>1. /\ pc'[s] = IF Store!MessageAt(src).valid THEN "score" ELSE "rejected"
        /\ source'[s] = src /\ pc[s] = Idle
    BY DEF Begin, Goto, Inv, TypeOK
  <1>2. TypeOK'
    BY DEF Begin, Goto, Inv, TypeOK, PC, Idle, WrittenBy, tableVars
  <1>3. Grows
    BY DEF Begin, Grows, tableVars
  <1>4. SessionInv(s)'
    <2>1. Store!Ready(src)'
      BY <1>3, ReadyStays DEF Begin
    <2>2. Message(s)' = Store!MessageAt(src)
      BY <1>1 DEF Message, Store!MessageAt
    <2>3. ~Store!MessageAt(src).valid => Store!Unrecordable(src)'
      BY DEF Store!Unrecordable, Store!MessageAt
    <2> QED
      BY <1>1, <2>1, <2>2, <2>3
      DEF SessionInv, MessageInv, RowInv, AuditRowInv, ReturnInv, InTransaction
  <1> QED
    BY <1>2, <1>4, QuietStep DEF Begin, Goto, Inv, TypeOK

\* The attempt is scored.
LEMMA ScoreInv ==
    ASSUME Inv, NEW s \in Session, ScoreTransaction(s)
    PROVE  Inv'
  <1>0. pc[s] = "score" /\ pc'[s] = "insert" /\ source' = source
    BY DEF ScoreTransaction, Goto, Inv, TypeOK
  <1>1. \A rules \in RuleSet : get_velocity_aggregates(Message(s), rules) \in SUBSET Transaction
    BY DEF get_velocity_aggregates, Inv, TypeOK, Committed, Store!Decision
  <1>2. score' \in [Session -> Verdict \cup {NoScore}] /\ score'[s] \in Verdict
    BY <1>1 DEF ScoreTransaction, Inv, TypeOK, Verdict
  <1>3. TypeOK'
    BY <1>2 DEF ScoreTransaction, Goto, Inv, TypeOK, PC, InTransaction, WrittenBy, tableVars
  <1>4. Grows
    BY DEF ScoreTransaction, Grows, tableVars
  <1>5. SessionInv(s)'
    <2>1. /\ source[s] \in Store!Source /\ Store!Ready(source[s])' /\ Message(s).valid
      BY <1>0, <1>4, ReadyStays DEF Inv, SessionInv, MessageInv, Idle
    <2>2. Message(s)' = Message(s)
      BY <1>0 DEF Message, Store!MessageAt
    <2> QED
      BY <1>0, <1>2, <2>1, <2>2
      DEF SessionInv, MessageInv, RowInv, AuditRowInv, ReturnInv
  <1> QED
    BY <1>3, <1>5, QuietStep DEF ScoreTransaction, Goto, Inv, TypeOK
\* INSERT INTO transactions: the row, held until the commit, or a conflict.
LEMMA InsertInv ==
    ASSUME Inv, NEW s \in Session, InsertDecision(s)
    PROVE  Inv'
  <1>0. /\ pc[s] = "insert" /\ source' = source /\ audit' = audit /\ dlq' = dlq
        /\ SessionInv(s) /\ TypeOK /\ Nobody # s
    BY SessionAssumption DEF InsertDecision, Inv
  <1>1. /\ source[s] \in Store!Source /\ Store!Ready(source[s]) /\ Message(s).valid
        /\ score[s] \in Verdict
    BY <1>0 DEF SessionInv, MessageInv, Idle, InTransaction
  <1>2. Message(s)' = Message(s)
    BY <1>0 DEF Message, Store!MessageAt
  <1>3. WrittenBy(rows, s) = {} /\ WrittenBy(audit, s) = {}
    BY <1>0 DEF TypeOK
  <1>4. CASE SameId(s) = {}
    <2> DEFINE r == NewDecision(s)
    <2>1. /\ rows' = rows \cup {Written(r, s)} /\ pc' = [pc EXCEPT ![s] = "audit"]
          /\ result' = [result EXCEPT ![s] = [outcome |-> "evaluated", decision |-> r]]
          /\ score' = [score EXCEPT ![s] = NoScore]
      BY <1>4 DEF InsertDecision, Goto, Returning, Forget
    <2>2. r \in Store!Decision /\ r.tx = Message(s).tx /\ r.data = Message(s).data
      BY <1>1, MessageType DEF NewDecision, Store!Decision, Message
    <2> HIDE DEF r
    <2>3. /\ pc'[s] = "audit" /\ result'[s] = [outcome |-> "evaluated", decision |-> r]
          /\ \A p \in Session \ {s} : UNCHANGED <<pc[p], source[p], score[p], result[p]>>
      BY <1>0, <2>1 DEF TypeOK
    <2>4. /\ Committed(rows') = Committed(rows)
          /\ WrittenBy(rows', s) = {Written(r, s)}
          /\ \A p \in Session \ {s} : WrittenBy(rows', p) = WrittenBy(rows, p)
      BY <1>3, <2>1, AfterInsert
    <2>5. TypeOK'
      <3>1. rows' \subseteq [row : Store!Decision, by : Session \cup {Nobody}]
        BY <1>0, <2>1, <2>2 DEF TypeOK, Written
      <3>2. /\ pc' \in [Session -> PC]
            /\ score' \in [Session -> Verdict \cup {NoScore}]
        BY <1>0, <2>1 DEF TypeOK, PC, InTransaction
      <3>3. result' \in [Session -> Result \cup {NoResult}]
        BY <1>0, <2>1, <2>2 DEF TypeOK, Result
      <3>4. \A p \in Session :
               /\ WrittenBy(rows', p) # {} => pc'[p] \in {"audit", "commit"}
               /\ WrittenBy(audit', p) # {} => pc'[p] = "commit"
        BY <1>0, <1>3, <2>3, <2>4 DEF TypeOK
      <3> QED
        BY <1>0, <3>1, <3>2, <3>3, <3>4 DEF TypeOK
    <2>6. Grows
      BY <1>0, <2>4 DEF Grows
    <2>7. SessionInv(s)'
      <3>1. MessageInv(s)'
        BY <1>0, <1>1, <1>2, <2>3, <2>6, ReadyStays DEF MessageInv, Idle
      <3>2. RowInv(s)'
        <4>1. result'[s] \in Result
          BY <2>2, <2>3 DEF Result
        <4> QED
          BY <1>2, <2>2, <2>3, <2>4, <4>1 DEF RowInv
      <3> QED
        BY <2>3, <3>1, <3>2 DEF SessionInv, AuditRowInv, ReturnInv
    <2>8. \A p \in Session : SessionInv(p)'
      BY <1>0, <2>3, <2>4, <2>6, <2>7, OthersStay
    <2>9. UniqueRows'
      <3>1. \A q \in rows : q.row.tx # r.tx
        BY <1>4, <2>2 DEF SameId
      <3>2. Written(r, s).row = r
        BY DEF Written
      <3> QED
        BY <2>1, <3>1, <3>2 DEF Inv, UniqueRows
    <2>10. UniqueAudit' /\ AuditInv'
      BY <1>0, <2>4 DEF Inv, UniqueAudit, AuditInv, Store!MessageAt
    <2> QED
      BY <2>5, <2>8, <2>9, <2>10 DEF Inv
  <1>5. CASE SameId(s) # {}
    <2>1. /\ pc' = [pc EXCEPT ![s] = "select"] /\ UNCHANGED <<rows, score, result>>
      BY <1>5 DEF InsertDecision, Goto
    <2>2. /\ pc'[s] = "select"
          /\ \A p \in Session \ {s} : UNCHANGED <<pc[p], source[p], score[p], result[p]>>
      BY <1>0, <2>1 DEF TypeOK
    <2>3. TypeOK'
      BY <1>0, <1>3, <2>1 DEF TypeOK, PC, InTransaction
    <2>4. Grows
      BY <1>0, <2>1 DEF Grows
    <2>5. Store!Stored(Message(s).tx)' # {}
      <3>1. PICK q \in SameId(s) : q \in WrittenBy(rows, Nobody)
        BY <1>5 DEF InsertDecision
      <3>2. q.row \in Store!Stored(Message(s).tx)
        BY <3>1, CommittedIn DEF SameId, WrittenBy, Store!Stored
      <3> QED
        BY <1>2, <2>1, <3>2 DEF Store!Stored
    <2>6. SessionInv(s)'
      BY <1>0, <1>1, <1>2, <2>2, <2>4, <2>5, ReadyStays
      DEF SessionInv, MessageInv, RowInv, AuditRowInv, ReturnInv, Idle
    <2> QED
      BY <1>0, <2>1, <2>2, <2>3, <2>6, QuietStep DEF tableVars
  <1> QED
    BY <1>4, <1>5

\* SELECT of the row that is there.
LEMMA SelectInv ==
    ASSUME Inv, NEW s \in Session, SelectExisting(s)
    PROVE  Inv'
  <1>0. /\ pc[s] = "select" /\ source' = source /\ UNCHANGED tableVars /\ dlq' = dlq
        /\ SessionInv(s) /\ TypeOK
        /\ score' = [score EXCEPT ![s] = NoScore]
    BY DEF SelectExisting, Inv, Forget
  <1>1. /\ source[s] \in Store!Source /\ Store!Ready(source[s]) /\ Message(s).valid
        /\ Store!Stored(Message(s).tx) # {}
    BY <1>0 DEF SessionInv, MessageInv, Idle, InTransaction
  <1>2. Message(s)' = Message(s)
    BY <1>0 DEF Message, Store!MessageAt
  <1>3. WrittenBy(rows, s) = {} /\ WrittenBy(audit, s) = {}
    BY <1>0 DEF TypeOK
  <1>4. Grows
    BY <1>0 DEF Grows, tableVars
  <1>5. PICK r \in Store!Stored(Message(s).tx) :
           IF Store!same_transaction(r, Message(s))
           THEN Goto(s, "audit") /\ Returning(s, "duplicate", r)
           ELSE Goto(s, "rejected") /\ UNCHANGED result
    BY <1>1 DEF SelectExisting
  <1>6. r \in Committed(rows) /\ r \in Store!Decision /\ r.tx = Message(s).tx
    <2>1. r \in Committed(rows) /\ r.tx = Message(s).tx
      BY DEF Store!Stored
    <2> QED
      BY <1>0, <2>1 DEF Committed, TypeOK
  <1>7. CASE Store!same_transaction(r, Message(s))
    <2>1. /\ pc' = [pc EXCEPT ![s] = "audit"]
          /\ result' = [result EXCEPT ![s] = [outcome |-> "duplicate", decision |-> r]]
      BY <1>5, <1>7 DEF Goto, Returning
    <2>2. /\ pc'[s] = "audit" /\ result'[s] = [outcome |-> "duplicate", decision |-> r]
          /\ \A p \in Session \ {s} : UNCHANGED <<pc[p], source[p], score[p], result[p]>>
      BY <1>0, <2>1 DEF TypeOK
    <2>3. TypeOK'
      <3>1. result' \in [Session -> Result \cup {NoResult}]
        BY <1>0, <1>6, <2>1 DEF TypeOK, Result
      <3> QED
        BY <1>0, <1>3, <2>1, <3>1 DEF TypeOK, PC, InTransaction, tableVars
    <2>4. MessageInv(s)'
      BY <1>0, <1>1, <1>2, <1>4, <2>2, ReadyStays DEF MessageInv, Idle
    <2>5. RowInv(s)'
      <3>1. result'[s] \in Result
        BY <1>6, <2>2 DEF Result
      <3>2. r.data = Message(s).data
        BY <1>7 DEF Store!same_transaction
      <3>3. WrittenBy(rows, s)' = {} /\ r \in Committed(rows)'
        BY <1>0, <1>3, <1>6 DEF tableVars
      <3> QED
        BY <1>2, <1>6, <2>2, <3>1, <3>2, <3>3 DEF RowInv
    <2>6. SessionInv(s)'
      BY <2>2, <2>4, <2>5 DEF SessionInv, AuditRowInv, ReturnInv
    <2> QED
      BY <1>0, <2>2, <2>3, <2>6, QuietStep
  <1>8. CASE ~Store!same_transaction(r, Message(s))
    <2>1. pc' = [pc EXCEPT ![s] = "rejected"] /\ UNCHANGED result
      BY <1>5, <1>8 DEF Goto
    <2>2. /\ pc'[s] = "rejected"
          /\ \A p \in Session \ {s} : UNCHANGED <<pc[p], source[p], score[p], result[p]>>
      BY <1>0, <2>1 DEF TypeOK
    <2>3. TypeOK'
      BY <1>0, <1>3, <2>1 DEF TypeOK, PC, InTransaction, tableVars
    <2>4. Store!Unrecordable(source[s])'
      <3>1. Store!Unrecordable(source[s])
        BY <1>8 DEF Store!Unrecordable, Store!Conflicts, Message
      <3> QED
        BY <1>0, <1>4, <3>1, StoredStays
    <2>5. SessionInv(s)'
      BY <1>0, <1>1, <1>4, <2>2, <2>4, ReadyStays
      DEF SessionInv, MessageInv, RowInv, AuditRowInv, ReturnInv, Idle, InTransaction
    <2> QED
      BY <1>0, <2>2, <2>3, <2>5, QuietStep
  <1> QED
    BY <1>7, <1>8
\* INSERT INTO transaction_history: the audit row, or one is there already.
LEMMA InsertAuditInv ==
    ASSUME Inv, NEW s \in Session, InsertAudit(s)
    PROVE  Inv'
  <1>0. /\ pc[s] = "audit" /\ pc' = [pc EXCEPT ![s] = "commit"]
        /\ UNCHANGED <<rows, dlq, source, score, result>>
        /\ SessionInv(s) /\ TypeOK /\ Nobody # s
    BY SessionAssumption DEF InsertAudit, Goto, Inv
  <1>1. /\ pc'[s] = "commit"
        /\ \A p \in Session \ {s} : UNCHANGED <<pc[p], source[p], score[p], result[p]>>
    BY <1>0 DEF TypeOK
  <1>2. Message(s)' = Message(s) /\ AuditRowOf(s)' = AuditRowOf(s)
    BY <1>0 DEF Message, Store!MessageAt, AuditRowOf, Store!history_values
  <1>3. WrittenBy(audit, s) = {} /\ AuditRowOf(s) \in Store!AuditRow /\ AuditRowOf(s).source = source[s]
    BY <1>0, AnswerType DEF TypeOK, AuditRowOf, Store!history_values
  <1>4. /\ Committed(audit') = Committed(audit)
        /\ \A p \in Session \ {s} : WrittenBy(audit', p) = WrittenBy(audit, p)
        /\ SameSource(s) = {} =>
              audit' = audit \cup {Written(AuditRowOf(s), s)}
              /\ WrittenBy(audit', s) = {Written(AuditRowOf(s), s)}
        /\ SameSource(s) # {} => audit' = audit
    <2>1. CASE SameSource(s) = {}
      <3> DEFINE h == AuditRowOf(s)
      <3>1. audit' = audit \cup {Written(h, s)}
        BY <2>1 DEF InsertAudit
      <3>2. /\ Committed(audit') = Committed(audit)
            /\ \A p \in Session \ {s} : WrittenBy(audit', p) = WrittenBy(audit, p)
            /\ WrittenBy(audit', s) = {Written(h, s)}
        <4>1. WrittenBy(audit, s) = {}
          BY <1>3
        <4> HIDE DEF h
        <4> QED
          BY <3>1, <4>1, AfterInsert
      <3> QED
        BY <2>1, <3>1, <3>2
    <2>2. CASE SameSource(s) # {}
      BY <2>2 DEF InsertAudit
    <2> QED
      BY <2>1, <2>2
  <1>5. Grows
    BY <1>0, <1>4 DEF Grows
  <1>6. TypeOK'
    <2>1. audit' \subseteq [row : Store!AuditRow, by : Session \cup {Nobody}]
      BY <1>0, <1>3, <1>4 DEF TypeOK, Written
    <2>2. \A p \in Session :
             /\ WrittenBy(rows, p) # {} => pc'[p] \in {"audit", "commit"}
             /\ WrittenBy(audit', p) # {} => pc'[p] = "commit"
      BY <1>0, <1>1, <1>4 DEF TypeOK
    <2> QED
      BY <1>0, <2>1, <2>2 DEF TypeOK, PC, InTransaction
  <1>7. SessionInv(s)'
    <2>1. MessageInv(s)'
      BY <1>0, <1>1, <1>2, <1>5, ReadyStays DEF SessionInv, MessageInv, Idle, InTransaction
    <2>2. RowInv(s)'
      BY <1>0, <1>1, <1>2 DEF SessionInv, RowInv
    <2>3. AuditRowInv(s)'
      <3>1. CASE SameSource(s) = {}
        BY <1>2, <1>4, <3>1 DEF AuditRowInv
      <3>2. CASE SameSource(s) # {}
        <4>1. PICK h \in SameSource(s) : h \in WrittenBy(audit, Nobody)
          BY <3>2 DEF InsertAudit
        <4>2. h.row \in Committed(audit) /\ h.row.source = source[s]
          BY <4>1, CommittedIn DEF SameSource, WrittenBy
        <4> QED
          BY <1>0, <1>3, <1>4, <3>2, <4>2 DEF AuditRowInv
      <3> QED
        BY <3>1, <3>2
    <2> QED
      BY <1>1, <2>1, <2>2, <2>3 DEF SessionInv, ReturnInv
  <1>8. \A p \in Session : SessionInv(p)'
    BY <1>0, <1>1, <1>4, <1>5, <1>7, OthersStay
  <1>9. UniqueAudit'
    <2>1. Written(AuditRowOf(s), s).row = AuditRowOf(s)
      BY DEF Written
    <2>2. SameSource(s) = {} => \A a \in audit : a.row.source # AuditRowOf(s).source
      BY <1>3 DEF SameSource
    <2> QED
      BY <1>4, <2>1, <2>2 DEF Inv, UniqueAudit
  <1>10. UniqueRows' /\ AuditInv'
    BY <1>0, <1>4 DEF Inv, UniqueRows, AuditInv, Store!MessageAt
  <1> QED
    BY <1>6, <1>8, <1>9, <1>10 DEF Inv

(***************************************************************************)
(* What a commit makes visible: the session's decision, new if the session *)
(* made it and there already if it found it, and its audit row, unless the *)
(* message has one.                                                        *)
(***************************************************************************)
LEMMA CommitEffect ==
    ASSUME Inv, NEW s \in Session, Commit(s)
    PROVE  /\ result[s].outcome = "evaluated" =>
                 /\ \A q \in Committed(rows) : q.tx # Message(s).tx
                 /\ Committed(rows)' = Committed(rows) \cup {result[s].decision}
           /\ result[s].outcome = "duplicate" =>
                 /\ result[s].decision \in Committed(rows)
                 /\ Committed(rows)' = Committed(rows)
           /\ \/ /\ \A h \in Committed(audit) : h.source # source[s]
                 /\ Committed(audit)' = Committed(audit) \cup {AuditRowOf(s)}
              \/ /\ \E h \in Committed(audit) : h.source = source[s]
                 /\ Committed(audit)' = Committed(audit)
  <1>0. /\ pc[s] = "commit" /\ rows' = Publish(rows, s) /\ audit' = Publish(audit, s)
        /\ SessionInv(s) /\ TypeOK /\ Nobody # s
    BY SessionAssumption DEF Commit, Inv
  <1>1. \A x : Written(x, s).row = x /\ Written(x, s).by = s
    BY DEF Written
  <1>2. AuditRowOf(s).source = source[s]
    BY DEF AuditRowOf, Store!history_values
  <1>3. ASSUME result[s].outcome = "evaluated"
        PROVE  /\ \A q \in Committed(rows) : q.tx # Message(s).tx
               /\ Committed(rows)' = Committed(rows) \cup {result[s].decision}
    <2>1. WrittenBy(rows, s) = {Written(result[s].decision, s)}
          /\ result[s].decision.tx = Message(s).tx
      BY <1>0, <1>3 DEF SessionInv, RowInv
    <2>2. Written(result[s].decision, s) \in rows
      BY <2>1 DEF WrittenBy
    <2>3. \A q \in Committed(rows) : q.tx # Message(s).tx
      BY <1>0, <1>1, <2>1, <2>2, CommittedIn DEF Inv, UniqueRows
    <2>4. \A y : y \in Committed(rows') <=> y \in Committed(rows) \cup {result[s].decision}
      BY <1>0, <1>1, <2>1, AfterCommit
    <2> QED
      BY <2>3, <2>4
  <1>4. ASSUME result[s].outcome = "duplicate"
        PROVE  /\ result[s].decision \in Committed(rows)
               /\ Committed(rows)' = Committed(rows)
    <2>1. WrittenBy(rows, s) = {} /\ result[s].decision \in Committed(rows)
      BY <1>0, <1>4 DEF SessionInv, RowInv
    <2>2. \A y : y \in Committed(rows') <=> y \in Committed(rows)
      BY <1>0, <2>1, AfterCommit
    <2> QED
      BY <2>1, <2>2
  <1>5. CASE WrittenBy(audit, s) = {Written(AuditRowOf(s), s)}
    <2>1. Written(AuditRowOf(s), s) \in audit
      BY <1>5 DEF WrittenBy
    <2>2. \A h \in Committed(audit) : h.source # source[s]
      BY <1>0, <1>1, <1>2, <2>1, CommittedIn DEF Inv, UniqueAudit
    <2>3. \A y : y \in Committed(audit') <=> y \in Committed(audit) \cup {AuditRowOf(s)}
      BY <1>0, <1>1, <1>5, AfterCommit
    <2> QED
      BY <1>3, <1>4, <2>2, <2>3
  <1>6. CASE WrittenBy(audit, s) = {} /\ \E h \in Committed(audit) : h.source = source[s]
    <2>1. \A y : y \in Committed(audit') <=> y \in Committed(audit)
      BY <1>0, <1>6, AfterCommit
    <2> QED
      BY <1>3, <1>4, <1>6, <2>1
  <1> QED
    BY <1>0, <1>5, <1>6 DEF SessionInv, AuditRowInv

\* COMMIT.
LEMMA CommitInv ==
    ASSUME Inv, NEW s \in Session, Commit(s)
    PROVE  Inv'
  <1>0. /\ pc[s] = "commit" /\ pc' = [pc EXCEPT ![s] = "returned"]
        /\ rows' = Publish(rows, s) /\ audit' = Publish(audit, s)
        /\ UNCHANGED <<dlq, source, score, result>>
        /\ SessionInv(s) /\ TypeOK
    BY DEF Commit, Goto, Inv
  <1>1. /\ pc'[s] = "returned"
        /\ \A p \in Session \ {s} : UNCHANGED <<pc[p], source[p], score[p], result[p]>>
    BY <1>0 DEF TypeOK
  <1>2. Message(s)' = Message(s)
    BY <1>0 DEF Message, Store!MessageAt
  <1>3. /\ result[s] \in Result /\ result[s].outcome \in {"evaluated", "duplicate"}
        /\ result[s].decision.tx = Message(s).tx
        /\ source[s] \in Store!Source /\ Store!Ready(source[s]) /\ Message(s).valid
    BY <1>0 DEF SessionInv, RowInv, MessageInv, Result, Idle, InTransaction
  <1>4. Grows /\ result[s].decision \in Committed(rows)'
    BY <1>0, <1>3, CommitEffect DEF Grows
  <1>5. /\ AuditRowOf(s).source = source[s] /\ AuditRowOf(s).decision = result[s].decision
        /\ AuditRowOf(s).outcome = result[s].outcome
    BY DEF AuditRowOf, Store!history_values
  <1>6. TypeOK'
    <2>1. /\ rows' \subseteq [row : Store!Decision, by : Session \cup {Nobody}]
          /\ audit' \subseteq [row : Store!AuditRow, by : Session \cup {Nobody}]
      BY <1>0 DEF TypeOK, Publish, Written
    <2>2. \A p \in Session :
             /\ WrittenBy(rows', p) # {} => pc'[p] \in {"audit", "commit"}
             /\ WrittenBy(audit', p) # {} => pc'[p] = "commit"
      BY <1>0, <1>1, AfterCommit DEF TypeOK
    <2> QED
      BY <1>0, <2>1, <2>2 DEF TypeOK, PC
  <1>7. AuditInv'
    <2>1. \A h \in Committed(audit)' : h \in Committed(audit) \/ h = AuditRowOf(s)
      BY CommitEffect
    <2> QED
      BY <1>3, <1>4, <1>5, <2>1 DEF Inv, AuditInv, Grows, Message, Store!MessageAt
  <1>8. SessionInv(s)'
    <2>1. MessageInv(s)'
      BY <1>0, <1>1, <1>2, <1>3, <1>4, ReadyStays DEF MessageInv, Idle, InTransaction
    <2>2. ReturnInv(s)'
      <3>1. CASE Committed(audit)' = Committed(audit) \cup {AuditRowOf(s)}
        BY <1>0, <1>1, <1>4, <1>5, <3>1 DEF ReturnInv
      <3>2. CASE \E h \in Committed(audit) : h.source = source[s]
        <4>1. PICK h \in Committed(audit) : h.source = source[s]
          BY <3>2
        <4>2. h.decision \in Committed(rows) /\ h.decision.tx = Message(s).tx
          BY <4>1 DEF Inv, AuditInv, Message
        <4>3. result[s].outcome = "duplicate" /\ result[s].decision \in Committed(rows)
          BY <1>3, <4>2, CommitEffect
        <4>4. h.decision = result[s].decision
          BY <1>3, <4>2, <4>3, CommittedIn DEF Inv, UniqueRows
        <4> QED
          BY <1>0, <1>1, <1>4, <4>1, <4>3, <4>4 DEF ReturnInv, Grows
      <3> QED
        BY <3>1, <3>2, CommitEffect
    <2> QED
      BY <1>1, <2>1, <2>2 DEF SessionInv, RowInv, AuditRowInv
  <1>9. \A p \in Session : SessionInv(p)'
    BY <1>0, <1>1, <1>4, <1>8, AfterCommit, OthersStay
  <1>10. UniqueRows' /\ UniqueAudit'
    BY <1>0, AfterCommit DEF Inv, UniqueRows, UniqueAudit
  <1> QED
    BY <1>6, <1>7, <1>9, <1>10 DEF Inv

\* A failure, and the end of the database transaction with it.
LEMMA RollbackInv ==
    ASSUME Inv, NEW s \in Session, Rollback(s)
    PROVE  Inv'
  <1>0. /\ rows' = rows \ WrittenBy(rows, s) /\ audit' = audit \ WrittenBy(audit, s)
        /\ dlq' = dlq /\ Leave(s) /\ TypeOK
    BY DEF Rollback, Inv
  <1>1. /\ Committed(rows') = Committed(rows) /\ Committed(audit') = Committed(audit)
        /\ WrittenBy(rows', s) = {} /\ WrittenBy(audit', s) = {}
        /\ \A p \in Session \ {s} : WrittenBy(rows', p) = WrittenBy(rows, p)
                                    /\ WrittenBy(audit', p) = WrittenBy(audit, p)
    <2>1. Committed(rows') = Committed(rows) /\ Committed(audit') = Committed(audit)
      BY <1>0, AfterRollback
    <2>2. WrittenBy(rows', s) = {} /\ WrittenBy(audit', s) = {}
      BY <1>0, AfterRollback
    <2>3. \A p \in Session \ {s} : WrittenBy(rows', p) = WrittenBy(rows, p)
      BY <1>0, AfterRollback
    <2>4. \A p \in Session \ {s} : WrittenBy(audit', p) = WrittenBy(audit, p)
      BY <1>0, AfterRollback
    <2> QED
      BY <2>1, <2>2, <2>3, <2>4
  <1>2. Grows
    BY <1>0, <1>1 DEF Grows
  <1>3. TypeOK'
    BY <1>0, <1>1, LeaveInv DEF TypeOK
  <1>4. \A p \in Session : SessionInv(p)'
    BY <1>0, <1>1, <1>2, LeaveInv, OthersStay
  <1>5. UniqueRows' /\ UniqueAudit'
    BY <1>0 DEF Inv, UniqueRows, UniqueAudit
  <1>6. AuditInv'
    BY <1>1 DEF Inv, AuditInv, Store!MessageAt
  <1> QED
    BY <1>3, <1>4, <1>5, <1>6 DEF Inv

\* The caller goes on, with or without a dead letter.
LEMMA ReturnInvStep ==
    ASSUME Inv, NEW s \in Session, Return(s) \/ DeadLetterRejected(s)
    PROVE  Inv'
  <1>1. /\ pc[s] \in {"returned", "rejected", "crashed"} /\ Leave(s) /\ UNCHANGED tableVars
        /\ dlq \subseteq dlq'
        /\ WrittenBy(rows, s) = {} /\ WrittenBy(audit, s) = {}
    BY DEF Return, DeadLetterRejected, Inv, TypeOK
  <1>2. dlq' \subseteq Store!DeadLetter
    <2>1. CASE Return(s)
      BY <2>1 DEF Return, Inv, TypeOK
    <2>2. CASE DeadLetterRejected(s)
      <3>1. source[s] \in Store!Source
        BY <2>2 DEF DeadLetterRejected, Inv, SessionInv, MessageInv, Idle
      <3> QED
        BY <2>2, <3>1 DEF DeadLetterRejected, Inv, TypeOK, Store!DeadLetter
    <2> QED
      BY <2>1, <2>2
  <1>3. TypeOK'
    BY <1>1, <1>2, LeaveInv DEF Inv, TypeOK, tableVars
  <1> QED
    BY <1>1, <1>3, LeaveInv, QuietStep DEF Inv

\* A message is given up.
LEMMA GiveUpInv ==
    ASSUME Inv, NEW src \in Store!Source, GiveUp(src)
    PROVE  Inv'
  <1>1. UNCHANGED <<tableVars, pc, source, score, result>> /\ dlq \subseteq dlq'
    BY DEF GiveUp
  <1>2. dlq' \subseteq Store!DeadLetter
    BY DEF GiveUp, Inv, TypeOK, Store!DeadLetter
  <1>3. Grows
    BY <1>1 DEF Grows, tableVars
  <1>4. \A p \in Session : SessionInv(p)'
    BY <1>1, <1>3, OthersStay DEF tableVars
  <1>5. TypeOK'
    BY <1>1, <1>2 DEF Inv, TypeOK, tableVars
  <1>6. UniqueRows' /\ UniqueAudit' /\ AuditInv'
    BY <1>1 DEF Inv, UniqueRows, UniqueAudit, AuditInv, tableVars, Store!MessageAt
  <1> QED
    BY <1>4, <1>5, <1>6 DEF Inv
\* Every step keeps the invariant.
LEMMA InvStep == Inv /\ [Next]_vars => Inv'
  <1> SUFFICES ASSUME Inv, [Next]_vars PROVE Inv'
    OBVIOUS
  <1>1. CASE UNCHANGED vars
    <2>1. Grows
      BY <1>1 DEF Grows, vars
    <2>2. \A p \in Session : SessionInv(p)'
      BY <1>1, <2>1, OthersStay DEF vars
    <2>3. TypeOK' /\ UniqueRows' /\ UniqueAudit' /\ AuditInv'
      BY <1>1 DEF vars, Inv, TypeOK, UniqueRows, UniqueAudit, AuditInv, Store!MessageAt
    <2> QED
      BY <2>2, <2>3 DEF Inv
  <1>2. CASE \E src \in Store!Source : GiveUp(src)
    BY <1>2, GiveUpInv
  <1>3. ASSUME NEW s \in Session, NEW src \in Store!Source, Begin(s, src) PROVE Inv'
    BY <1>3, BeginInv
  <1>4. ASSUME NEW s \in Session,
               \/ ScoreTransaction(s) \/ InsertDecision(s) \/ SelectExisting(s)
               \/ InsertAudit(s) \/ Commit(s) \/ Rollback(s)
               \/ Return(s) \/ DeadLetterRejected(s)
        PROVE  Inv'
    BY <1>4, ScoreInv, InsertInv, SelectInv, InsertAuditInv, CommitInv, RollbackInv, ReturnInvStep
  <1> QED
    BY <1>1, <1>2, <1>3, <1>4 DEF Next

\* The invariant holds throughout.
LEMMA Invariance == Spec => []Inv
  BY InitInv, InvStep, PTL DEF Spec

----------------------------------------------------------------------------
(* The refinement *)

\* Nothing is committed at first.
LEMMA InitImplements == Init => Store!ContractInit
  BY DEF Init, Committed, Store!ContractInit, Store!StoreInit

\* A commit is the contract's decision about the session's message.
LEMMA CommitImplements ==
    ASSUME Inv, NEW s \in Session, Commit(s)
    PROVE  Store!Decide(source[s])
  <1> DEFINE r == result[s].decision
             m == Store!MessageAt(source[s])
  <1>0. /\ pc[s] = "commit" /\ dlq' = dlq /\ SessionInv(s)
    BY DEF Commit, Inv
  <1>1. /\ r \in Store!Decision /\ result[s].outcome \in {"evaluated", "duplicate"}
        /\ r.tx = m.tx /\ r.data = m.data /\ m.valid /\ Store!Ready(source[s])
    BY <1>0 DEF SessionInv, RowInv, MessageInv, Result, Message, Idle, InTransaction
  <1>2. r.verdict \in Verdict /\ r = [tx |-> m.tx, data |-> m.data, verdict |-> r.verdict]
    BY <1>1 DEF Store!Decision
  <1>3. Store!AppendAudit(Store!history_values(source[s], result[s].outcome, r))
    <2>1. AuditRowOf(s) = Store!history_values(source[s], result[s].outcome, r)
      BY DEF AuditRowOf
    <2>2. AuditRowOf(s).source = source[s]
      BY DEF AuditRowOf, Store!history_values
    <2>3. Store!AppendAudit(AuditRowOf(s))
      BY <2>2, CommitEffect DEF Store!AppendAudit
    <2> QED
      BY <2>1, <2>3
  <1> HIDE DEF r
  <1>4. CASE result[s].outcome = "evaluated"
    <2>1. Store!Stored(m.tx) = {} /\ Committed(rows)' = Committed(rows) \cup {r}
      BY <1>4, CommitEffect DEF Store!Stored, Message, r
    <2>2. Store!Evaluate(source[s], r.verdict)
      BY <1>2, <1>3, <1>4, <2>1 DEF Store!Evaluate
    <2> QED
      BY <1>0, <1>1, <1>2, <2>2 DEF Store!Decide, Store!record_decision
  <1>5. CASE result[s].outcome = "duplicate"
    <2>1. r \in Store!Stored(m.tx) /\ Committed(rows)' = Committed(rows)
      BY <1>1, <1>5, CommitEffect DEF Store!Stored, r
    <2>2. Store!Duplicate(source[s])
      BY <1>1, <1>3, <1>5, <2>1 DEF Store!Duplicate, Store!same_transaction
    <2> QED
      BY <1>0, <1>1, <1>2, <2>2 DEF Store!Decide, Store!record_decision
  <1> QED
    BY <1>1, <1>4, <1>5

\* Every step is a step of the contract or none.
LEMMA StepImplements == Inv /\ [Next]_vars => [Store!ContractNext]_(Store!contractVars)
  <1> SUFFICES ASSUME Inv, [Next]_vars
               PROVE  Store!ContractNext \/ UNCHANGED Store!contractVars
    OBVIOUS
  <1> USE DEF Store!contractVars
  <1>1. CASE UNCHANGED vars
    BY <1>1 DEF vars
  <1>2. ASSUME NEW src \in Store!Source, GiveUp(src) PROVE Store!ContractNext
    <2>1. Store!DeadLetterMessage(src, "unexpected")
      BY <1>2 DEF GiveUp, tableVars, Store!DeadLetterMessage
    <2> QED
      BY <2>1 DEF Store!ContractNext
  <1>3. ASSUME NEW s \in Session,
               \/ \E src \in Store!Source : Begin(s, src)
               \/ ScoreTransaction(s) \/ SelectExisting(s) \/ Return(s)
        PROVE  UNCHANGED Store!contractVars
    BY <1>3 DEF Begin, ScoreTransaction, SelectExisting, Return, tableVars
  <1>4. ASSUME NEW s \in Session, InsertDecision(s) PROVE UNCHANGED Store!contractVars
    <2> DEFINE r == NewDecision(s)
    <2>1. rows' = rows \/ rows' = rows \cup {Written(r, s)}
      BY <1>4 DEF InsertDecision
    <2>2. Committed(rows') = Committed(rows)
      <3> HIDE DEF r
      <3> QED
        BY <2>1, AfterInsert
    <2> QED
      BY <1>4, <2>2 DEF InsertDecision
  <1>5. ASSUME NEW s \in Session, InsertAudit(s) PROVE UNCHANGED Store!contractVars
    <2> DEFINE h == AuditRowOf(s)
    <2>1. audit' = audit \/ audit' = audit \cup {Written(h, s)}
      BY <1>5 DEF InsertAudit
    <2>2. Committed(audit') = Committed(audit)
      <3> HIDE DEF h
      <3> QED
        BY <2>1, AfterInsert
    <2> QED
      BY <1>5, <2>2 DEF InsertAudit
  <1>6. ASSUME NEW s \in Session, Rollback(s) PROVE UNCHANGED Store!contractVars
    <2>1. Committed(rows') = Committed(rows) /\ Committed(audit') = Committed(audit)
      BY <1>6, AfterRollback DEF Rollback
    <2> QED
      BY <1>6, <2>1 DEF Rollback
  <1>7. ASSUME NEW s \in Session, Commit(s) PROVE Store!ContractNext
    <2>1. source[s] \in Store!Source
      BY <1>7 DEF Commit, Inv, SessionInv, MessageInv, Idle
    <2> QED
      BY <1>7, <2>1, CommitImplements DEF Store!ContractNext
  <1>8. ASSUME NEW s \in Session, DeadLetterRejected(s) PROVE Store!ContractNext
    <2>1. source[s] \in Store!Source /\ Store!Ready(source[s]) /\ Store!Unrecordable(source[s])
      BY <1>8 DEF DeadLetterRejected, Inv, SessionInv, MessageInv, Idle
    <2>2. Store!DeadLetterMessage(source[s], "permanent")
      BY <1>8, <2>1 DEF DeadLetterRejected, tableVars, Store!DeadLetterMessage
    <2> QED
      BY <2>1, <2>2 DEF Store!ContractNext
  <1> QED
    BY <1>1, <1>2, <1>3, <1>4, <1>5, <1>6, <1>7, <1>8 DEF Next

----------------------------------------------------------------------------
(***************************************************************************)
(* The sessions' state keeps its types, and no session leaves a row behind *)
(* that is not committed (record_decision's transaction).                  *)
(***************************************************************************)
THEOREM SessionsTypeCorrect == Spec => []TypeOK
  BY Invariance, PTL DEF Inv

\* s stands at an INSERT whose key h has inserted and not committed.
WaitsFor(s, h) ==
    \/ pc[s] = "insert" /\ SameId(s) \cap WrittenBy(rows, h) # {}
    \/ pc[s] = "audit" /\ SameSource(s) \cap WrittenBy(audit, h) # {}

LockOrder == [insert |-> 1, audit |-> 2, commit |-> 3]

\* Whoever is waited for stands at a later statement.
WaitsOrdered ==
    \A s, h \in Session :
        WaitsFor(s, h) => pc[h] \in {"audit", "commit"} /\ LockOrder[pc[s]] < LockOrder[pc[h]]

(***************************************************************************)
(* Sessions that wait for each other's keys never deadlock: whoever is     *)
(* waited for stands at a later statement, so a chain of waits ends, after *)
(* two links at most, at a session about to commit.  This rests on         *)
(* record_decision inserting into transactions before transaction_history, *)
(* and on one key of each at most.                                         *)
(***************************************************************************)
THEOREM WaitsAreOrdered == Spec => []WaitsOrdered
  <1>1. TypeOK => WaitsOrdered
    <2> SUFFICES ASSUME TypeOK, NEW s \in Session, NEW h \in Session, WaitsFor(s, h)
                 PROVE  pc[h] \in {"audit", "commit"} /\ LockOrder[pc[s]] < LockOrder[pc[h]]
      BY DEF WaitsOrdered
    <2>1. CASE pc[s] = "insert" /\ WrittenBy(rows, h) # {}
      BY <2>1 DEF TypeOK, LockOrder
    <2>2. CASE pc[s] = "audit" /\ WrittenBy(audit, h) # {}
      BY <2>2 DEF TypeOK, LockOrder
    <2> QED
      BY <2>1, <2>2 DEF WaitsFor
  <1> QED
    BY <1>1, SessionsTypeCorrect, PTL

(***************************************************************************)
(* The re-read after a conflict always finds the row: record_decision      *)
(* never calls _decision_from_record(None).                                *)
(***************************************************************************)
THEOREM RereadFinds == Spec => []ExistingFound
  <1>1. Inv => ExistingFound
    BY DEF Inv, SessionInv, MessageInv, ExistingFound
  <1> QED
    BY <1>1, Invariance, PTL

(***************************************************************************)
(* The RecordResult a caller gets names the stored decision, and its audit *)
(* row is there.                                                           *)
(***************************************************************************)
THEOREM AnswersTrue == Spec => []ResultTrue
  <1>1. Inv => ResultTrue
    BY DEF Inv, SessionInv, ReturnInv, ResultTrue
  <1> QED
    BY <1>1, Invariance, PTL

(***************************************************************************)
(* The statements of any number of concurrent, failing sessions implement  *)
(* the contract, whose record_decision is one atomic step.                 *)
(***************************************************************************)
THEOREM SessionsImplementContract == Spec => ImplementsContract
  <1>1. Init => Store!ContractInit
    BY InitImplements
  <1>2. Inv /\ [Next]_vars => [Store!ContractNext]_(Store!contractVars)
    BY StepImplements
  <1> QED
    BY <1>1, <1>2, Invariance, PTL DEF Spec, ImplementsContract, Store!ContractSpec
----------------------------------------------------------------------------
(* Velocity *)

\* As Before, for a message that may not be recorded yet.
BeforeMessage(src, d, rules) ==
    { e \in Evaluated :
        /\ e.source[1] = src[1] /\ e.source[2] < src[2]
        /\ UserOf[e.decision.data] = UserOf[d]
        /\ OccurredAt[e.decision.data] \in (OccurredAt[d] - Window[rules])..OccurredAt[d] }

\* The verdict counts what it should for the message, its own transaction aside.
Counted(src, d, v, own) ==
    /\ \A t \in v.counted : \E e \in BeforeMessage(src, d, v.rules) : e.decision.tx = t
    /\ \A e \in BeforeMessage(src, d, v.rules) :
          Store!DeadLettered(e.source) \/ e.decision.tx \in v.counted \/ e.decision.tx = own

\* Every decision was made for one message, whose turn had come.
OriginInv ==
    /\ \A h \in Committed(audit) :
          /\ h.source \in Store!Source /\ Store!Ready(h.source)
          /\ Store!MessageAt(h.source).valid
          /\ h.decision.data = Store!MessageAt(h.source).data
    /\ \A r \in Committed(rows) : \E h \in Evaluated : h.decision = r
    /\ \A h1, h2 \in Evaluated : h1.decision = h2.decision => h1 = h2

\* The count is right from the moment it is taken, unless somebody else has
\* handled the message before it is used.
VelocityInv(s) ==
    /\ (pc[s] = "insert" /\ ~Store!Handled(source[s])) =>
          Counted(source[s], Message(s).data, score[s], Message(s).tx)
    /\ (/\ pc[s] \in {"audit", "commit"}
        /\ result[s].outcome = "evaluated"
        /\ ~Store!DeadLettered(source[s])) =>
          Counted(source[s], Message(s).data, result[s].decision.verdict, Message(s).tx)

StoredVelocityInv ==
    \A h \in Evaluated :
        ~Store!DeadLettered(h.source) =>
            Counted(h.source, h.decision.data, h.decision.verdict, h.decision.tx)

VInv ==
    /\ Inv
    /\ OriginInv
    /\ StoredVelocityInv
    /\ \A s \in Session : VelocityInv(s)

\* A source is a pair of a partition and an offset in its log.
LEMMA SourceParts ==
    ASSUME NEW src \in Store!Source
    PROVE  /\ src[1] \in Partition /\ src[2] \in 1..Len(Log[src[1]]) /\ src = <<src[1], src[2]>>
           /\ Len(Log[src[1]]) \in Nat /\ src[2] \in Nat
  <1>1. src[1] \in Partition /\ src[2] \in 1..Len(Log[src[1]]) /\ src = <<src[1], src[2]>>
    BY DEF Store!Source
  <1>2. Log[src[1]] \in Seq([tx : Transaction, data : Data, valid : BOOLEAN])
    BY <1>1, SessionAssumption
  <1>3. Len(Log[src[1]]) \in Nat
    BY <1>2
  <1> QED
    BY <1>1, <1>3

\* Everything before a message whose turn has come is handled.
LEMMA EarlierHandled ==
    ASSUME NEW src \in Store!Source, NEW e \in Store!Source, Store!Ready(src),
           e[1] = src[1], e[2] < src[2]
    PROVE  Store!Handled(e)
  BY SourceParts DEF Store!Ready, Store!HandledBelow

\* New audit rows are about messages that had none.
AuditAdds ==
    \A h \in Committed(audit)' \ Committed(audit) : h.source \in Store!Source /\ ~Store!Recorded(h.source)

\* What is counted stays right: what is added before the message was dead-lettered.
LEMMA CountedStays ==
    ASSUME Grows, AuditAdds, NEW src \in Store!Source, NEW d, NEW v, NEW own,
           Store!Ready(src), Counted(src, d, v, own)
    PROVE  Counted(src, d, v, own)'
  <1>1. BeforeMessage(src, d, v.rules) \subseteq BeforeMessage(src, d, v.rules)'
    BY DEF BeforeMessage, Evaluated, Grows
  <1>2. \A x : Store!DeadLettered(x) => Store!DeadLettered(x)'
    BY DEF Grows, Store!DeadLettered
  <1>3. ASSUME NEW e \in BeforeMessage(src, d, v.rules)', e \notin BeforeMessage(src, d, v.rules)
        PROVE  Store!DeadLettered(e.source)'
    <2>1. /\ e \in Committed(audit)' \ Committed(audit)
          /\ e.source[1] = src[1] /\ e.source[2] < src[2]
      BY <1>3 DEF BeforeMessage, Evaluated
    <2>2. e.source \in Store!Source /\ ~Store!Recorded(e.source)
      BY <2>1 DEF AuditAdds
    <2>3. Store!Handled(e.source)
      BY <2>1, <2>2, EarlierHandled
    <2> QED
      BY <1>2, <2>2, <2>3 DEF Store!Handled
  <1> QED
    BY <1>1, <1>2, <1>3 DEF Counted

\* Steps that commit nothing add no audit row.
LEMMA StoredStay ==
    ASSUME VInv, Inv', Grows, Committed(rows)' = Committed(rows), Committed(audit)' = Committed(audit)
    PROVE  OriginInv' /\ StoredVelocityInv' /\ AuditAdds
  <1>1. AuditAdds
    BY DEF AuditAdds
  <1>2. Evaluated' = Evaluated
    BY DEF Evaluated
  <1>3. OriginInv'
    BY <1>2, ReadyStays DEF VInv, OriginInv, Store!MessageAt
  <1>4. StoredVelocityInv'
    <2> SUFFICES ASSUME NEW h \in Evaluated, ~Store!DeadLettered(h.source)'
                 PROVE  Counted(h.source, h.decision.data, h.decision.verdict, h.decision.tx)'
      BY <1>2 DEF StoredVelocityInv
    <2>1. ~Store!DeadLettered(h.source)
      BY DEF Grows, Store!DeadLettered
    <2>2. h.source \in Store!Source /\ Store!Ready(h.source)
      BY DEF VInv, OriginInv, Evaluated
    <2>3. Counted(h.source, h.decision.data, h.decision.verdict, h.decision.tx)
      BY <2>1 DEF VInv, StoredVelocityInv
    <2> QED
      BY <1>1, <2>2, <2>3, CountedStays
  <1> QED
    BY <1>1, <1>3, <1>4

\* A session that does not move keeps its count.
LEMMA CountStays ==
    ASSUME VInv, Grows, AuditAdds, NEW p \in Session,
           UNCHANGED <<pc[p], source[p], score[p], result[p]>>
    PROVE  VelocityInv(p)'
  <1>0. VelocityInv(p) /\ MessageInv(p)
    BY DEF VInv, Inv, SessionInv
  <1>1. Message(p)' = Message(p)
    BY DEF Message, Store!MessageAt
  <1>2. \A x : /\ Store!DeadLettered(x) => Store!DeadLettered(x)'
               /\ Store!Handled(x) => Store!Handled(x)'
    BY DEF Grows, Store!Handled, Store!Recorded, Store!DeadLettered
  <1>3. pc[p] # Idle => source[p] \in Store!Source /\ Store!Ready(source[p])
    BY <1>0 DEF MessageInv
  <1>4. PICK src, d, v, w, own :
           /\ src = source[p] /\ d = Message(p).data /\ own = Message(p).tx
           /\ v = score[p] /\ w = result[p].decision.verdict
    OBVIOUS
  <1>5. /\ src = source'[p] /\ d = Message(p)'.data /\ own = Message(p)'.tx
        /\ v = score'[p] /\ w = result'[p].decision.verdict
    BY <1>1, <1>4
  <1>6. ASSUME pc[p] = "insert", ~Store!Handled(source[p])' PROVE Counted(src, d, v, own)'
    <2>1. ~Store!Handled(src)
      BY <1>2, <1>4, <1>5, <1>6 DEF Store!Handled, Store!Recorded, Store!DeadLettered
    <2>2. Counted(src, d, v, own)
      BY <1>0, <1>4, <1>6, <2>1 DEF VelocityInv
    <2> QED
      BY <1>3, <1>4, <1>6, <2>2, CountedStays DEF Idle
  <1>7. ASSUME pc[p] \in {"audit", "commit"}, result[p].outcome = "evaluated",
               ~Store!DeadLettered(source[p])'
        PROVE  Counted(src, d, w, own)'
    <2>1. ~Store!DeadLettered(src)
      BY <1>2, <1>4, <1>5, <1>7 DEF Store!DeadLettered
    <2>2. Counted(src, d, w, own)
      BY <1>0, <1>4, <1>7, <2>1 DEF VelocityInv
    <2> QED
      BY <1>3, <1>4, <1>7, <2>2, CountedStays DEF Idle
  <1>8. ASSUME pc'[p] = "insert", ~Store!Handled(source[p])'
        PROVE  Counted(source[p], Message(p).data, score[p], Message(p).tx)'
    BY <1>5, <1>6, <1>8 DEF Counted, BeforeMessage
  <1>9. ASSUME pc'[p] \in {"audit", "commit"}, result'[p].outcome = "evaluated",
               ~Store!DeadLettered(source[p])'
        PROVE  Counted(source[p], Message(p).data, result[p].decision.verdict, Message(p).tx)'
    BY <1>5, <1>7, <1>9 DEF Counted, BeforeMessage
  <1> QED
    BY <1>8, <1>9 DEF VelocityInv
\* The initial states satisfy it.
LEMMA InitVelocity == Init => VInv
  <1> SUFFICES ASSUME Init PROVE VInv
    OBVIOUS
  <1>1. Committed(rows) = {} /\ Committed(audit) = {}
    BY DEF Init, Committed
  <1>2. OriginInv /\ StoredVelocityInv
    BY <1>1 DEF OriginInv, StoredVelocityInv, Evaluated
  <1>3. \A s \in Session : VelocityInv(s)
    BY DEF Init, VelocityInv, Idle
  <1> QED
    BY <1>2, <1>3, InitInv DEF VInv

\* Steps that commit nothing, of a session whose own count is right after them.
LEMMA QuietVelocity ==
    ASSUME VInv, Inv', NEW s \in Session, dlq \subseteq dlq',
           Committed(rows)' = Committed(rows), Committed(audit)' = Committed(audit),
           \A p \in Session \ {s} : UNCHANGED <<pc[p], source[p], score[p], result[p]>>,
           VelocityInv(s)'
    PROVE  VInv'
  <1>1. Grows
    BY DEF Grows
  <1>2. OriginInv' /\ StoredVelocityInv' /\ AuditAdds
    BY <1>1, StoredStay
  <1>3. \A p \in Session : VelocityInv(p)'
    BY <1>1, <1>2, CountStays
  <1> QED
    BY <1>2, <1>3 DEF VInv

\* A user's messages are in one partition.
LEMMA SamePartition ==
    ASSUME NEW a \in Store!Source, NEW b \in Store!Source,
           Store!MessageAt(a).valid, Store!MessageAt(b).valid,
           UserOf[Store!MessageAt(a).data] = UserOf[Store!MessageAt(b).data]
    PROVE  a[1] = b[1]
  BY KeyedByUser, SourceParts DEF Store!MessageAt

(***************************************************************************)
(* The query finds what it should when the message is still unhandled: the *)
(* user's rows are of this partition, and none is of a later message.      *)
(***************************************************************************)
LEMMA QueryCounts ==
    ASSUME VInv, NEW s \in Session, pc[s] = "score", ~Store!Handled(source[s]), NEW rules \in RuleSet
    PROVE  Counted(source[s], Message(s).data,
                   [counted |-> get_velocity_aggregates(Message(s), rules), rules |-> rules],
                   Message(s).tx)
  <1> DEFINE m == Message(s)
             src == source[s]
             C == get_velocity_aggregates(m, rules)
  <1>0. /\ src \in Store!Source /\ Store!Ready(src) /\ m.valid /\ m.data \in Data
        /\ m = Store!MessageAt(src)
    BY MessageType DEF VInv, Inv, SessionInv, MessageInv, Idle, Message
  <1>1. \A d \in Data : InWindow(d, m.data, rules) <=>
           OccurredAt[d] \in (OccurredAt[m.data] - Window[rules])..OccurredAt[m.data]
    BY <1>0, SessionAssumption DEF InWindow
  <1>2. \A r \in Committed(rows) : r.data \in Data
    BY DEF VInv, Inv, TypeOK, Committed, Store!Decision
  <1>3. \A h \in Evaluated : h.decision \in Committed(rows)
    BY DEF VInv, Inv, AuditInv, Evaluated
  <1>4. ASSUME NEW t \in C PROVE \E e \in BeforeMessage(src, m.data, rules) : e.decision.tx = t
    <2>1. PICK r \in Committed(rows) : /\ UserOf[r.data] = UserOf[m.data]
                                       /\ InWindow(r.data, m.data, rules) /\ r.tx = t
      BY <1>4 DEF get_velocity_aggregates
    <2>2. PICK e \in Evaluated : e.decision = r
      BY DEF VInv, OriginInv
    <2>3. /\ e.source \in Store!Source /\ Store!Ready(e.source)
          /\ Store!MessageAt(e.source).valid /\ r.data = Store!MessageAt(e.source).data
          /\ Store!Recorded(e.source)
      BY <2>2 DEF VInv, OriginInv, Evaluated, Store!Recorded
    <2>4. e.source[1] = src[1]
      BY <1>0, <2>1, <2>3, SamePartition
    <2>5. e.source # src
      BY <2>3 DEF Store!Handled
    <2>6. ~(src[2] < e.source[2])
      BY <1>0, <2>3, <2>4, EarlierHandled
    <2>7. e.source[2] < src[2]
      BY <1>0, <2>3, <2>4, <2>5, <2>6, SourceParts
    <2>8. e \in BeforeMessage(src, m.data, rules)
      BY <1>1, <1>2, <2>1, <2>2, <2>4, <2>7 DEF BeforeMessage
    <2> QED
      BY <2>1, <2>2, <2>8
  <1>5. ASSUME NEW e \in BeforeMessage(src, m.data, rules), e.decision.tx # m.tx PROVE e.decision.tx \in C
    <2>1. e \in Evaluated /\ e.decision \in Committed(rows)
      BY <1>3 DEF BeforeMessage
    <2>2. UserOf[e.decision.data] = UserOf[m.data] /\ InWindow(e.decision.data, m.data, rules)
      BY <1>1, <1>2, <2>1 DEF BeforeMessage
    <2> QED
      BY <1>5, <2>1, <2>2 DEF get_velocity_aggregates
  <1> QED
    BY <1>4, <1>5 DEF Counted

\* The count is taken.
LEMMA ScoreVelocity ==
    ASSUME VInv, NEW s \in Session, ScoreTransaction(s)
    PROVE  VInv'
  <1>0. Inv' /\ TypeOK
    BY ScoreInv DEF VInv, Inv
  <1>1. /\ pc[s] = "score" /\ pc'[s] = "insert" /\ UNCHANGED <<tableVars, dlq, source, result>>
        /\ \A p \in Session \ {s} : UNCHANGED <<pc[p], source[p], score[p], result[p]>>
    BY <1>0 DEF ScoreTransaction, Goto, TypeOK
  <1>rules. PICK rules \in RuleSet :
           score'[s] = [counted |-> get_velocity_aggregates(Message(s), rules), rules |-> rules]
    BY <1>0 DEF ScoreTransaction, TypeOK
  <1>2. Message(s)' = Message(s)
    BY <1>1 DEF Message, Store!MessageAt
  <1>3. ASSUME ~Store!Handled(source[s])'
        PROVE  Counted(source[s], Message(s).data, score[s], Message(s).tx)'
    <2>1. ~Store!Handled(source[s])
      BY <1>1, <1>3 DEF Store!Handled, Store!Recorded, Store!DeadLettered, tableVars
    <2>2. Counted(source[s], Message(s).data,
                  [counted |-> get_velocity_aggregates(Message(s), rules), rules |-> rules],
                  Message(s).tx)
      BY <1>1, <2>1, QueryCounts
    <2>3. UNCHANGED <<Evaluated, dlq>>
      BY <1>1 DEF Evaluated, tableVars
    <2> QED
      BY <1>1, <1>rules, <1>2, <2>2, <2>3 DEF Counted, BeforeMessage, Store!DeadLettered
  <1>4. VelocityInv(s)'
    BY <1>1, <1>3 DEF VelocityInv
  <1> QED
    BY <1>0, <1>1, <1>4, QuietVelocity DEF tableVars

\* The count is used, by a session that finds the id free.
LEMMA InsertVelocity ==
    ASSUME VInv, NEW s \in Session, InsertDecision(s)
    PROVE  VInv'
  <1>0. Inv /\ Inv' /\ TypeOK
    BY InsertInv DEF VInv, Inv
  <1>1. /\ pc[s] = "insert" /\ UNCHANGED <<audit, dlq, source>>
        /\ \A p \in Session \ {s} : UNCHANGED <<pc[p], source[p], score[p], result[p]>>
    BY <1>0 DEF InsertDecision, Goto, Returning, Forget, TypeOK
  <1>2. Message(s)' = Message(s)
    BY <1>1 DEF Message, Store!MessageAt
  <1>3. Committed(rows)' = Committed(rows)
    <2> DEFINE r == NewDecision(s)
    <2>1. rows' = rows \/ rows' = rows \cup {Written(r, s)}
      BY DEF InsertDecision
    <2>2. Committed(rows') = Committed(rows)
      <3> HIDE DEF r
      <3> QED
        BY <2>1, AfterInsert
    <2> QED
      BY <2>2
  <1>4. CASE SameId(s) # {}
    <2>1. pc'[s] = "select"
      BY <1>0, <1>4 DEF InsertDecision, Goto, TypeOK
    <2>2. VelocityInv(s)'
      BY <2>1 DEF VelocityInv
    <2> QED
      BY <1>0, <1>1, <1>3, <2>2, QuietVelocity
  <1>5. CASE SameId(s) = {}
    <2>1. /\ pc'[s] = "audit"
          /\ result'[s].decision.verdict = score[s]
      BY <1>0, <1>5 DEF InsertDecision, Goto, Returning, NewDecision, TypeOK
    <2>2. ~Store!Recorded(source[s])
      <3> SUFFICES ASSUME NEW h \in Committed(audit), h.source = source[s] PROVE FALSE
        BY DEF Store!Recorded
      <3>1. h.decision \in Committed(rows) /\ h.decision.tx = Message(s).tx
        BY <1>0 DEF Inv, AuditInv, Message
      <3> QED
        BY <1>5, <3>1, CommittedIn DEF SameId
    <2>3. UNCHANGED <<Evaluated, dlq>>
      BY <1>1 DEF Evaluated
    <2>4. ASSUME ~Store!DeadLettered(source[s])'
          PROVE  Counted(source[s], Message(s).data, result[s].decision.verdict, Message(s).tx)'
      <3>1. ~Store!Handled(source[s])
        BY <1>1, <2>2, <2>4 DEF Store!Handled, Store!DeadLettered
      <3>2. Counted(source[s], Message(s).data, score[s], Message(s).tx)
        BY <1>1, <3>1 DEF VInv, VelocityInv
      <3> QED
        BY <1>1, <1>2, <2>1, <2>3, <3>2 DEF Counted, BeforeMessage, Store!DeadLettered
    <2>5. VelocityInv(s)'
      BY <2>1, <2>4 DEF VelocityInv
    <2> QED
      BY <1>0, <1>1, <1>3, <2>5, QuietVelocity
  <1> QED
    BY <1>4, <1>5

\* Statements that leave the session without a count of its own.
LEMMA UncountedVelocity ==
    ASSUME VInv, NEW s \in Session,
           \/ \E src \in Store!Source : Begin(s, src)
           \/ SelectExisting(s) \/ Rollback(s) \/ Return(s) \/ DeadLetterRejected(s)
    PROVE  VInv'
  <1>0. Inv /\ Inv' /\ TypeOK
    BY BeginInv, SelectInv, RollbackInv, ReturnInvStep DEF VInv, Inv
  <1>1. /\ dlq \subseteq dlq'
        /\ \A p \in Session \ {s} : UNCHANGED <<pc[p], source[p], score[p], result[p]>>
    <2>1. CASE \E src \in Store!Source : Begin(s, src)
      BY <1>0, <2>1 DEF Begin, Goto, TypeOK
    <2>2. CASE SelectExisting(s)
      BY <1>0, <2>2 DEF SelectExisting, Goto, Returning, Forget, TypeOK
    <2>3. CASE Rollback(s) \/ Return(s) \/ DeadLetterRejected(s)
      BY <1>0, <2>3, LeaveInv DEF Rollback, Return, DeadLetterRejected
    <2> QED
      BY <2>1, <2>2, <2>3
  <1>2. Committed(rows)' = Committed(rows) /\ Committed(audit)' = Committed(audit)
    <2>1. CASE Rollback(s)
      <3>1. Committed(rows') = Committed(rows) /\ Committed(audit') = Committed(audit)
        BY <2>1, AfterRollback DEF Rollback
      <3> QED
        BY <3>1
    <2>2. CASE ~Rollback(s)
      BY <2>2 DEF Begin, SelectExisting, Return, DeadLetterRejected, tableVars
    <2> QED
      BY <2>1, <2>2
  <1>3. \/ pc'[s] \notin {"insert", "audit", "commit"}
        \/ pc'[s] = "audit" /\ result'[s].outcome = "duplicate"
    <2>1. CASE \E src \in Store!Source : Begin(s, src)
      BY <1>0, <2>1 DEF Begin, Goto, TypeOK
    <2>2. CASE SelectExisting(s)
      BY <1>0, <2>2 DEF SelectExisting, Goto, Returning, TypeOK
    <2>3. CASE Rollback(s) \/ Return(s) \/ DeadLetterRejected(s)
      BY <1>0, <2>3, LeaveInv DEF Rollback, Return, DeadLetterRejected, Idle
    <2> QED
      BY <2>1, <2>2, <2>3
  <1>4. VelocityInv(s)'
    BY <1>3 DEF VelocityInv
  <1> QED
    BY <1>0, <1>1, <1>2, <1>4, QuietVelocity

\* The count waits with the row.
LEMMA AuditVelocity ==
    ASSUME VInv, NEW s \in Session, InsertAudit(s)
    PROVE  VInv'
  <1>0. Inv /\ Inv' /\ TypeOK
    BY InsertAuditInv DEF VInv, Inv
  <1>1. /\ pc[s] = "audit" /\ pc'[s] = "commit" /\ UNCHANGED <<rows, dlq, source, score, result>>
        /\ \A p \in Session \ {s} : UNCHANGED <<pc[p], source[p], score[p], result[p]>>
    BY <1>0 DEF InsertAudit, Goto, TypeOK
  <1>2. Committed(audit)' = Committed(audit)
    <2> DEFINE h == AuditRowOf(s)
    <2>1. audit' = audit \/ audit' = audit \cup {Written(h, s)}
      BY DEF InsertAudit
    <2>2. Committed(audit') = Committed(audit)
      <3> HIDE DEF h
      <3> QED
        BY <2>1, AfterInsert
    <2> QED
      BY <2>2
  <1>3. Message(s)' = Message(s)
    BY <1>1 DEF Message, Store!MessageAt
  <1>4. UNCHANGED <<Evaluated, dlq>>
    BY <1>1, <1>2 DEF Evaluated
  <1>5. VelocityInv(s)
    BY DEF VInv
  <1>6. VelocityInv(s)'
    BY <1>1, <1>3, <1>4, <1>5 DEF VelocityInv, Counted, BeforeMessage, Store!DeadLettered
  <1> QED
    BY <1>0, <1>1, <1>2, <1>6, QuietVelocity

\* A message given up may still be recorded, but no longer counts.
LEMMA GiveUpVelocity ==
    ASSUME VInv, NEW src \in Store!Source, GiveUp(src)
    PROVE  VInv'
  <1>0. Inv'
    BY GiveUpInv DEF VInv
  <1>1. UNCHANGED <<tableVars, pc, source, score, result>> /\ dlq \subseteq dlq'
    BY DEF GiveUp
  <1>2. Grows
    BY <1>1 DEF Grows, tableVars
  <1>3. OriginInv' /\ StoredVelocityInv' /\ AuditAdds
    BY <1>0, <1>1, <1>2, StoredStay DEF tableVars
  <1>4. \A p \in Session : VelocityInv(p)'
    BY <1>1, <1>2, <1>3, CountStays
  <1> QED
    BY <1>0, <1>3, <1>4 DEF VInv

\* A commit stores the count that was taken.
LEMMA CommitVelocity ==
    ASSUME VInv, NEW s \in Session, Commit(s)
    PROVE  VInv'
  <1>0. Inv /\ Inv' /\ TypeOK
    BY CommitInv DEF VInv, Inv
  <1>1. /\ pc[s] = "commit" /\ pc'[s] = "returned" /\ UNCHANGED <<dlq, source, score, result>>
        /\ \A p \in Session \ {s} : UNCHANGED <<pc[p], source[p], score[p], result[p]>>
    BY <1>0 DEF Commit, Goto, TypeOK
  <1>2. /\ source[s] \in Store!Source /\ Store!Ready(source[s]) /\ Message(s).valid
        /\ result[s].outcome \in {"evaluated", "duplicate"}
        /\ result[s].decision.tx = Message(s).tx /\ result[s].decision.data = Message(s).data
    BY <1>0, <1>1 DEF Inv, SessionInv, MessageInv, RowInv, Result, Idle, InTransaction
  <1>3. PICK a : a = AuditRowOf(s)
    OBVIOUS
  <1>4. /\ a.source = source[s] /\ a.outcome = result[s].outcome /\ a.decision = result[s].decision
    BY <1>3 DEF AuditRowOf, Store!history_values
  <1>5. Grows
    BY <1>0, <1>1, <1>2, CommitEffect DEF Grows
  <1>6. \A h \in Committed(audit)' : h \in Committed(audit) \/ h = a
    BY <1>0, <1>3, CommitEffect
  <1>7. AuditAdds
    <2> SUFFICES ASSUME NEW h \in Committed(audit)', h \notin Committed(audit)
                 PROVE  h.source \in Store!Source /\ ~Store!Recorded(h.source)
      BY DEF AuditAdds
    <2>1. h = a /\ \A g \in Committed(audit) : g.source # source[s]
      BY <1>0, <1>6, CommitEffect
    <2> QED
      BY <1>2, <1>4, <2>1 DEF Store!Recorded
  <1>8. ASSUME result[s].outcome = "evaluated"
        PROVE  /\ a \in Evaluated'
               /\ Committed(rows)' = Committed(rows) \cup {a.decision}
               /\ \A h \in Evaluated : h.decision # a.decision
    <2>1. /\ \A q \in Committed(rows) : q.tx # Message(s).tx
          /\ Committed(rows)' = Committed(rows) \cup {a.decision}
      BY <1>0, <1>4, <1>8, CommitEffect
    <2>2. \A h \in Committed(audit) : h.source # source[s]
      BY <1>0, <2>1 DEF Inv, AuditInv, Message
    <2>3. a \in Committed(audit)'
      BY <1>0, <1>3, <2>2, CommitEffect
    <2>4. \A h \in Evaluated : h.decision \in Committed(rows)
      BY <1>0 DEF Inv, AuditInv, Evaluated
    <2> QED
      BY <1>2, <1>4, <1>8, <2>1, <2>3, <2>4 DEF Evaluated
  <1>9. /\ Evaluated \subseteq Evaluated'
        /\ \A h \in Evaluated' : h \in Evaluated \/ (h = a /\ result[s].outcome = "evaluated")
    BY <1>4, <1>5, <1>6 DEF Evaluated, Grows
  <1>10. OriginInv'
    <2>1. ASSUME NEW h \in Committed(audit)'
          PROVE  /\ h.source \in Store!Source /\ Store!Ready(h.source)'
                 /\ Store!MessageAt(h.source).valid
                 /\ h.decision.data = Store!MessageAt(h.source).data
      <3>1. CASE h \in Committed(audit)
        BY <1>5, <3>1, ReadyStays DEF VInv, OriginInv
      <3>2. CASE h = a
        <4>1. a.source \in Store!Source /\ Store!Ready(a.source)
          BY <1>2, <1>4
        <4>2. Store!Ready(a.source)'
          BY <1>5, <4>1, ReadyStays
        <4> QED
          BY <1>2, <1>4, <3>2, <4>1, <4>2 DEF Message
      <3> QED
        BY <1>6, <3>1, <3>2
    <2>2. ASSUME NEW r \in Committed(rows)' PROVE \E h \in Evaluated' : h.decision = r
      <3>1. CASE r \in Committed(rows)
        BY <1>9, <3>1 DEF VInv, OriginInv
      <3>2. CASE r \notin Committed(rows)
        BY <1>0, <1>2, <1>8, <3>2, CommitEffect
      <3> QED
        BY <3>1, <3>2
    <2>3. \A h1, h2 \in Evaluated' : h1.decision = h2.decision => h1 = h2
      BY <1>8, <1>9 DEF VInv, OriginInv
    <2> QED
      BY <2>1, <2>2, <2>3 DEF OriginInv, Store!MessageAt
  <1>11. StoredVelocityInv'
    <2> SUFFICES ASSUME NEW h \in Evaluated', ~Store!DeadLettered(h.source)'
                 PROVE  Counted(h.source, h.decision.data, h.decision.verdict, h.decision.tx)'
      BY DEF StoredVelocityInv
    <2>1. ~Store!DeadLettered(h.source)
      BY <1>1 DEF Store!DeadLettered
    <2>2. /\ h.source \in Store!Source /\ Store!Ready(h.source)
          /\ Counted(h.source, h.decision.data, h.decision.verdict, h.decision.tx)
      <3>1. CASE h \in Evaluated
        BY <2>1, <3>1 DEF VInv, OriginInv, StoredVelocityInv, Evaluated
      <3>2. CASE h = a /\ result[s].outcome = "evaluated"
        <4>1. Counted(source[s], Message(s).data, result[s].decision.verdict, Message(s).tx)
          BY <1>1, <1>4, <2>1, <3>2 DEF VInv, VelocityInv
        <4> QED
          BY <1>2, <1>4, <3>2, <4>1
      <3> QED
        BY <1>9, <3>1, <3>2
    <2> QED
      BY <1>5, <1>7, <2>2, CountedStays
  <1>12. \A p \in Session : VelocityInv(p)'
    <2>1. VelocityInv(s)'
      BY <1>1 DEF VelocityInv
    <2> QED
      BY <1>1, <1>5, <1>7, <2>1, CountStays
  <1> QED
    BY <1>0, <1>10, <1>11, <1>12 DEF VInv

\* Every step keeps the counts.
LEMMA VelocityStep == VInv /\ [Next]_vars => VInv'
  <1> SUFFICES ASSUME VInv, [Next]_vars PROVE VInv'
    OBVIOUS
  <1>1. CASE UNCHANGED vars
    <2>1. Grows /\ UNCHANGED <<rows, audit, dlq, pc, source, score, result>>
      BY <1>1 DEF Grows, vars
    <2>2. Inv'
      BY InvStep DEF VInv
    <2>3. OriginInv' /\ StoredVelocityInv' /\ AuditAdds
      BY <2>1, <2>2, StoredStay
    <2>4. \A p \in Session : VelocityInv(p)'
      BY <2>1, <2>3, CountStays
    <2> QED
      BY <2>2, <2>3, <2>4 DEF VInv
  <1>2. CASE \E src \in Store!Source : GiveUp(src)
    BY <1>2, GiveUpVelocity
  <1>3. ASSUME NEW s \in Session,
               \/ \E src \in Store!Source : Begin(s, src)
               \/ ScoreTransaction(s) \/ InsertDecision(s) \/ SelectExisting(s)
               \/ InsertAudit(s) \/ Commit(s) \/ Rollback(s)
               \/ Return(s) \/ DeadLetterRejected(s)
        PROVE  VInv'
    <2>1. CASE \/ \E src \in Store!Source : Begin(s, src)
               \/ SelectExisting(s) \/ Rollback(s) \/ Return(s) \/ DeadLetterRejected(s)
      BY <2>1, UncountedVelocity
    <2> QED
      BY <1>3, <2>1, ScoreVelocity, InsertVelocity, AuditVelocity, CommitVelocity
  <1> QED
    BY <1>1, <1>2, <1>3 DEF Next

\* The invariant with velocity holds throughout.
LEMMA VelocityInvariance == Spec => []VInv
  BY InitVelocity, VelocityStep, PTL DEF Spec

(***************************************************************************)
(* "replays and consumer lag do not change the result" (score_transaction):*)
(* a stored decision counts the user's earlier messages of the log, in the *)
(* window of event time, whoever attempted them and however often.         *)
(***************************************************************************)
THEOREM VelocityIsExact == Spec => []VelocityExact
  <1>1. VInv => VelocityExact
    <2> SUFFICES ASSUME VInv, NEW h \in Evaluated, ~Store!DeadLettered(h.source)
                 PROVE  /\ \A t \in h.decision.verdict.counted : \E e \in Before(h) : e.decision.tx = t
                        /\ \A e \in Before(h) : \/ Store!DeadLettered(e.source)
                                                \/ e.decision.tx \in h.decision.verdict.counted
      BY DEF VelocityExact
    <2>1. Counted(h.source, h.decision.data, h.decision.verdict, h.decision.tx)
      BY DEF VInv, StoredVelocityInv
    <2>2. Before(h) = BeforeMessage(h.source, h.decision.data, h.decision.verdict.rules)
      BY DEF Before, BeforeMessage
    <2>3. ASSUME NEW e \in Before(h) PROVE e.decision.tx # h.decision.tx
      <3>1. e \in Evaluated /\ e.source[2] < h.source[2]
        BY DEF Before
      <3>2. e.decision \in Committed(rows) /\ h.decision \in Committed(rows)
        BY <3>1 DEF VInv, Inv, AuditInv, Evaluated
      <3>3. e.decision.tx = h.decision.tx => e.decision = h.decision
        BY <3>2, CommittedIn DEF VInv, Inv, UniqueRows
      <3>4. h.source[2] \in Nat
        BY SourceParts DEF VInv, OriginInv, Evaluated
      <3>5. e # h
        BY <3>1, <3>4
      <3> QED
        BY <3>1, <3>3, <3>5 DEF VInv, OriginInv
    <2> QED
      BY <2>1, <2>2, <2>3 DEF Counted
  <1> QED
    BY <1>1, VelocityInvariance, PTL
----------------------------------------------------------------------------
(* What the contract gives to readers of the tables *)

(***************************************************************************)
(* Concurrent statements leave an exact audit trail: one decision per      *)
(* transaction, with one "evaluated" row, and one row per message that     *)
(* repeats the stored decision, whatever waits, fails and is retried       *)
(* between the two INSERTs of record_decision.                             *)
(***************************************************************************)
THEOREM SessionsAuditExact == Spec => []Store!AuditExact
  <1>1. VInv => Store!AuditExact
    <2> SUFFICES ASSUME VInv PROVE Store!AuditExact
      OBVIOUS
    <2>1. \A r1, r2 \in Committed(rows) : r1.tx = r2.tx => r1 = r2
      BY CommittedIn DEF VInv, Inv, UniqueRows
    <2>2. \A h1, h2 \in Committed(audit) : h1.source = h2.source => h1 = h2
      BY CommittedIn DEF VInv, Inv, UniqueAudit
    <2>3. \A r \in Committed(rows) :
             \E h \in Committed(audit) : h.decision = r /\ h.outcome = "evaluated"
      BY DEF VInv, OriginInv, Evaluated
    <2>4. \A h \in Committed(audit) :
             /\ Store!MessageAt(h.source).valid
             /\ h.decision \in Committed(rows)
             /\ h.decision.tx = Store!MessageAt(h.source).tx
             /\ h.decision.data = Store!MessageAt(h.source).data
      BY DEF VInv, Inv, AuditInv, OriginInv
    <2>5. \A h1, h2 \in { h \in Committed(audit) : h.outcome = "evaluated" } :
             h1.decision = h2.decision => h1 = h2
      BY DEF VInv, OriginInv, Evaluated
    <2> QED
      BY <2>1, <2>2, <2>3, <2>4, <2>5 DEF Store!AuditExact
  <1> QED
    BY <1>1, VelocityInvariance, PTL

\* Whatever implements the contract only adds rows and letters.
LEMMA ContractGrows ==
    ASSUME [Store!ContractNext]_(Store!contractVars)
    PROVE  Grows
  <1>1. ASSUME NEW src \in Store!Source, Store!Decide(src) PROVE Grows
    <2>1. PICK v \in Verdict : Store!record_decision(src, v)
      BY <1>1 DEF Store!Decide
    <2>2. dlq' = dlq
      BY <1>1 DEF Store!Decide
    <2>3. Committed(rows) \subseteq Committed(rows)' /\ Committed(audit) \subseteq Committed(audit)'
      BY <2>1 DEF Store!record_decision, Store!Evaluate, Store!Duplicate, Store!AppendAudit
    <2> QED
      BY <2>2, <2>3 DEF Grows
  <1>2. ASSUME NEW src \in Store!Source, NEW class \in {"permanent", "unexpected"},
               Store!DeadLetterMessage(src, class)
        PROVE  Grows
    BY <1>2 DEF Store!DeadLetterMessage, Grows
  <1>3. CASE Store!Commit
    BY <1>3 DEF Store!Commit, Store!storeVars, Grows
  <1>4. CASE UNCHANGED Store!contractVars
    BY <1>4 DEF Store!contractVars, Grows
  <1> QED
    BY <1>1, <1>2, <1>3, <1>4 DEF Store!ContractNext

\* Of a message in the topic as permanently undeliverable, no attempt can store a decision.
LettersDeserved ==
    \A l \in dlq : l.class = "permanent" => l.source \in Store!Source /\ Store!Unrecordable(l.source)

\* The contract keeps it so, as a conflict with a stored decision is for ever.
LEMMA ContractLetters ==
    ASSUME LettersDeserved, [Store!ContractNext]_(Store!contractVars)
    PROVE  LettersDeserved'
  <1>1. Grows
    BY ContractGrows
  <1>2. \A src : Store!Unrecordable(src) => Store!Unrecordable(src)'
    BY <1>1, StoredStays
  <1>3. ASSUME NEW src \in Store!Source, NEW class \in {"permanent", "unexpected"},
               Store!DeadLetterMessage(src, class)
        PROVE  LettersDeserved'
    <2>1. /\ dlq' = dlq \cup {[source |-> src, class |-> class]}
          /\ class = "permanent" => Store!Unrecordable(src)
      BY <1>3 DEF Store!DeadLetterMessage
    <2> QED
      BY <1>2, <2>1 DEF LettersDeserved, Store!Source
  <1>4. CASE dlq' = dlq
    BY <1>2, <1>4 DEF LettersDeserved, Store!Source
  <1> QED
    BY <1>3, <1>4 DEF Store!ContractNext, Store!Decide, Store!Commit, Store!storeVars, Store!contractVars

(***************************************************************************)
(* A message refused for good has no row in either table, also when other  *)
(* sessions are still at work on it: ConflictingDuplicateError is raised   *)
(* only for a row that is committed and stays.                             *)
(***************************************************************************)
THEOREM SessionsPermanentNotRecorded == Spec => []Store!PermanentNotRecorded
  <1>1. Store!ContractInit => LettersDeserved
    BY DEF Store!ContractInit, Store!StoreInit, LettersDeserved
  <1>2. Spec => []LettersDeserved
    <2>1. LettersDeserved /\ [Store!ContractNext]_(Store!contractVars) => LettersDeserved'
      BY ContractLetters
    <2> QED
      BY <1>1, <2>1, SessionsImplementContract, PTL DEF ImplementsContract, Store!ContractSpec
  <1>3. LettersDeserved /\ Store!AuditExact => Store!PermanentNotRecorded
    BY DEF LettersDeserved, Store!AuditExact, Store!PermanentNotRecorded, Store!Unrecordable,
           Store!Conflicts, Store!Stored, Store!same_transaction, Store!Recorded
  <1> QED
    BY <1>2, <1>3, SessionsAuditExact, PTL

(***************************************************************************)
(* The first decision stands: what a reader has seen in the tables is      *)
(* there unchanged ever after, whichever sessions race for the key.        *)
(***************************************************************************)
THEOREM SessionsDecisionsStand == Spec => Store!FirstDecisionWins
  <1>1. [Store!ContractNext]_(Store!contractVars) =>
            [/\ Committed(rows) \subseteq Committed(rows)'
             /\ Committed(audit) \subseteq Committed(audit)']_(Store!storeVars)
    BY ContractGrows DEF Grows
  <1> QED
    BY <1>1, SessionsImplementContract, PTL
    DEF ImplementsContract, Store!ContractSpec, Store!FirstDecisionWins
=============================================================================
