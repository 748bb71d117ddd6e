----------------------------- MODULE Processing -----------------------------
(***************************************************************************)
(* TransactionProcessor.process (app/processing.py) statement by           *)
(* statement, with the PostgreSQL transactions of record_decision          *)
(* (app/database.py) as concurrent sessions under READ COMMITTED.          *)
(*                                                                         *)
(* A session is one attempt at one message: a task of any worker, a        *)
(* redelivery, an evicted worker that does not know it, or a request whose *)
(* client has gone.  Nothing keeps two of them from the same message.  An  *)
(* attempt starts only when all earlier messages of the partition are      *)
(* handled, which is what FraudWorker guarantees (its InOrder).            *)
(*                                                                         *)
(* A row carries the session that wrote it until that session commits;     *)
(* others do not see it, but their INSERT of the same key waits for it.    *)
(* PipelineContract is instantiated with the committed rows alone, and the *)
(* sessions are shown to implement it: the statements, locks and           *)
(* rollbacks amount to its single atomic step.                             *)
(***************************************************************************)
EXTENDS Integers, Sequences, FiniteSets

CONSTANTS
    Partition, Transaction, Data, Log,  \* as in DecisionStore
    Session,        \* database sessions
    Nobody,         \* the writer of a committed row
    RuleSet,        \* what rule_sets.get_active() can return
    UserOf,         \* [Data -> users]; a user's messages share a partition
    OccurredAt,     \* [Data -> event time]
    Window,         \* [RuleSet -> velocity_window_seconds of its definition]
    MaxGiveUps      \* bound: messages dead-lettered as unexpected

\* Producers key messages by user_id, which puts a user's events in one partition.
ASSUME KeyedByUser ==
    \A p, q \in Partition : \A i \in 1..Len(Log[p]), j \in 1..Len(Log[q]) :
        UserOf[Log[p][i].data] = UserOf[Log[q][j].data] => p = q \/ ~Log[p][i].valid \/ ~Log[q][j].valid

ASSUME SessionAssumption ==
    /\ Nobody \notin Session
    /\ Log \in [Partition -> Seq([tx : Transaction, data : Data, valid : BOOLEAN])]
    /\ OccurredAt \in [Data -> Int] /\ Window \in [RuleSet -> Nat]

(***************************************************************************)
(* What scoring depends on besides the message: the rules, and the user's  *)
(* other transactions that were counted.  The amount the query returns is  *)
(* a sum over part of those, so it is theirs to decide too.                *)
(***************************************************************************)
Verdict == [counted : SUBSET Transaction, rules : RuleSet]

VARIABLES
    rows,           \* transactions, uncommitted rows included
    audit,          \* transaction_history, uncommitted rows included
    dlq,            \* dead letters the broker holds
    pc,             \* pc[s]: the statement session s comes to
    source,         \* source[s]: the message it is about
    score,          \* score[s]: the verdict of this attempt
    result          \* result[s]: RecordResult, the decision and how it came

tableVars == <<rows, audit>>
vars == <<rows, audit, dlq, pc, source, score, result>>

Committed(R) == { r.row : r \in { q \in R : q.by = Nobody } }

Store == INSTANCE PipelineContract
            WITH transactions <- Committed(rows), history <- Committed(audit),
                 committed <- [p \in Partition |-> 1]

Written(row, s) == [row |-> row, by |-> s]
Message(s) == Store!MessageAt(source[s])
WrittenBy(R, s) == { r \in R : r.by = s }

NoSource == <<>>
NoScore == [counted |-> {}, rules |-> Nobody]
NoResult == [outcome |-> "none"]

Idle == "idle"
InTransaction == {"insert", "select", "audit", "commit"}
PC == {Idle, "score", "rejected", "crashed", "returned"} \cup InTransaction

Result == [outcome : {"evaluated", "duplicate"}, decision : Store!Decision]

(***************************************************************************)
(* Types; and a session leaves no row behind that is not its own: rows     *)
(* wait for a commit only between the INSERT and the end of a transaction. *)
(***************************************************************************)
TypeOK ==
    /\ rows \subseteq [row : Store!Decision, by : Session \cup {Nobody}]
    /\ audit \subseteq [row : Store!AuditRow, by : Session \cup {Nobody}]
    /\ dlq \subseteq Store!DeadLetter
    /\ pc \in [Session -> PC]
    /\ source \in [Session -> Store!Source \cup {NoSource}]
    /\ score \in [Session -> Verdict \cup {NoScore}]
    /\ result \in [Session -> Result \cup {NoResult}]
    /\ \A s \in Session :
          /\ WrittenBy(rows, s) # {} => pc[s] \in {"audit", "commit"}
          /\ WrittenBy(audit, s) # {} => pc[s] = "commit"

Init ==
    /\ rows = {}
    /\ audit = {}
    /\ dlq = {}
    /\ pc = [s \in Session |-> Idle]
    /\ source = [s \in Session |-> NoSource]
    /\ score = [s \in Session |-> NoScore]
    /\ result = [s \in Session |-> NoResult]

-----------------------------------------------------------------------------
Goto(s, to) == pc' = [pc EXCEPT ![s] = to]

\* The attempt is over, whatever became of it.
Leave(s) ==
    /\ pc' = [pc EXCEPT ![s] = Idle]
    /\ source' = [source EXCEPT ![s] = NoSource]
    /\ score' = [score EXCEPT ![s] = NoScore]
    /\ result' = [result EXCEPT ![s] = NoResult]

\* process(): parse_transaction_event refuses the payload or the attempt goes on.
Begin(s, src) ==
    /\ pc[s] = Idle
    /\ Store!Ready(src)
    /\ Goto(s, IF Store!MessageAt(src).valid THEN "score" ELSE "rejected")
    /\ source' = [source EXCEPT ![s] = src]
    /\ UNCHANGED <<tableVars, dlq, score, result>>

\* Mutant: the window has no upper end.
InWindow_open(d, now, rules) == OccurredAt[d] >= OccurredAt[now] - Window[rules]

\* window_start <= occurred_at <= window_end, both in event time; the length is the rule set's.
InWindow(d, now, rules) ==
    /\ OccurredAt[d] >= OccurredAt[now] - Window[rules]
    /\ OccurredAt[d] <= OccurredAt[now]

\* The other transactions of the user that the query finds.
get_velocity_aggregates(m, rules) ==
    { r.tx : r \in { q \in Committed(rows) :
                        /\ UserOf[q.data] = UserOf[m.data]
                        /\ InWindow(q.data, m.data, rules)
                        /\ q.tx # m.tx } }

\* get_active and score_transaction; one committed snapshot is counted.
ScoreTransaction(s) ==
    /\ pc[s] = "score"
    /\ Goto(s, "insert")
    /\ \E rules \in RuleSet :
          score' = [score EXCEPT ![s] = [counted |-> get_velocity_aggregates(Message(s), rules),
                                         rules |-> rules]]
    /\ UNCHANGED <<tableVars, dlq, source, result>>

-----------------------------------------------------------------------------
NewDecision(s) == [tx |-> Message(s).tx, data |-> Message(s).data, verdict |-> score[s]]
SameId(s) == { r \in rows : r.row.tx = Message(s).tx }

Returning(s, outcome, r) == result' = [result EXCEPT ![s] = [outcome |-> outcome, decision |-> r]]

\* The attempt's own decision is not looked at after this statement.
Forget(s) == score' = [score EXCEPT ![s] = NoScore]

\* Mutant: a key another session is inserting counts as taken at once.
InsertDecision_nowait(s) ==
    /\ pc[s] = "insert"
    /\ IF SameId(s) = {}
       THEN /\ Goto(s, "audit")
            /\ rows' = rows \cup {Written(NewDecision(s), s)}
            /\ Returning(s, "evaluated", NewDecision(s))
            /\ Forget(s)
       ELSE /\ Goto(s, "select")
            /\ UNCHANGED <<rows, score, result>>
    /\ UNCHANGED <<audit, dlq, source>>

(***************************************************************************)
(* INSERT ... ON CONFLICT (transaction_id) DO NOTHING RETURNING: waits for *)
(* a session that is inserting the id; a committed row is a conflict.      *)
(***************************************************************************)
InsertDecision(s) ==
    /\ pc[s] = "insert"
    /\ SameId(s) \subseteq WrittenBy(rows, Nobody)
    /\ IF SameId(s) = {}
       THEN /\ Goto(s, "audit")
            /\ rows' = rows \cup {Written(NewDecision(s), s)}
            /\ Returning(s, "evaluated", NewDecision(s))
            /\ Forget(s)
       ELSE /\ Goto(s, "select")
            /\ UNCHANGED <<rows, score, result>>
    /\ UNCHANGED <<audit, dlq, source>>

\* Mutant: a duplicate answers with its own decision.
SelectExisting_own(s) ==
    LET existing == Store!Stored(Message(s).tx)
    IN  /\ pc[s] = "select"
        /\ IF existing = {}
           THEN Goto(s, "crashed") /\ UNCHANGED result
           ELSE \E r \in existing :
                   IF Store!same_transaction(r, Message(s))
                   THEN Goto(s, "audit") /\ Returning(s, "duplicate", NewDecision(s))
                   ELSE Goto(s, "rejected") /\ UNCHANGED result
        /\ Forget(s)
        /\ UNCHANGED <<tableVars, dlq, source>>

(***************************************************************************)
(* SELECT the row that is there, with the snapshot of this statement.  No  *)
(* row would be an AttributeError in _decision_from_record(None); other    *)
(* data raises ConflictingDuplicateError, which rolls back.                *)
(***************************************************************************)
SelectExisting(s) ==
    LET existing == Store!Stored(Message(s).tx)
    IN  /\ pc[s] = "select"
        /\ IF existing = {}
           THEN Goto(s, "crashed") /\ UNCHANGED result
           ELSE \E r \in existing :
                   IF Store!same_transaction(r, Message(s))
                   THEN Goto(s, "audit") /\ Returning(s, "duplicate", r)
                   ELSE Goto(s, "rejected") /\ UNCHANGED result
        /\ Forget(s)
        /\ UNCHANGED <<tableVars, dlq, source>>

SameSource(s) == { h \in audit : h.row.source = source[s] }

AuditRowOf(s) == Store!history_values(source[s], result[s].outcome, result[s].decision)

\* INSERT ... ON CONFLICT ON CONSTRAINT uq_transaction_history_source DO NOTHING
InsertAudit(s) ==
    /\ pc[s] = "audit"
    /\ SameSource(s) \subseteq WrittenBy(audit, Nobody)
    /\ Goto(s, "commit")
    /\ audit' = IF SameSource(s) = {}
                THEN audit \cup {Written(AuditRowOf(s), s)}
                ELSE audit
    /\ UNCHANGED <<rows, dlq, source, score, result>>

Publish(R, s) == { IF r.by = s THEN Written(r.row, Nobody) ELSE r : r \in R }

\* Mutant: the audit row is left to a transaction of its own.
Commit_rowFirst(s) ==
    /\ \/ /\ pc[s] = "audit"
          /\ WrittenBy(rows, s) # {}
          /\ rows' = Publish(rows, s)
          /\ UNCHANGED <<audit, pc>>
       \/ /\ pc[s] = "commit"
          /\ Goto(s, "returned")
          /\ rows' = Publish(rows, s)
          /\ audit' = Publish(audit, s)
    /\ UNCHANGED <<dlq, source, score, result>>

\* session.begin() ends: both rows become visible at once.
Commit(s) ==
    /\ pc[s] = "commit"
    /\ Goto(s, "returned")
    /\ rows' = Publish(rows, s)
    /\ audit' = Publish(audit, s)
    /\ UNCHANGED <<dlq, source, score, result>>

\* Mutant: a failed attempt leaves its rows behind.
Rollback_leaks(s) ==
    /\ pc[s] \in {"score"} \cup InTransaction
    /\ Leave(s)
    /\ UNCHANGED <<tableVars, dlq>>

(***************************************************************************)
(* The attempt fails at any statement: a timeout, a lost connection, a     *)
(* cancelled task, a dead process, a COMMIT that never arrived.  A client  *)
(* that is gone earlier than its session only keeps the locks for longer,  *)
(* as a slow session does.                                                 *)
(***************************************************************************)
Rollback(s) ==
    /\ pc[s] \in {"score"} \cup InTransaction
    /\ rows' = rows \ WrittenBy(rows, s)
    /\ audit' = audit \ WrittenBy(audit, s)
    /\ Leave(s)
    /\ UNCHANGED dlq

\* The caller has the answer, or the answer is lost.
Return(s) ==
    /\ pc[s] \in {"returned", "rejected", "crashed"}
    /\ Leave(s)
    /\ UNCHANGED <<tableVars, dlq>>

-----------------------------------------------------------------------------
\* The caller dead-letters what was refused ...
DeadLetterRejected(s) ==
    /\ pc[s] = "rejected"
    /\ dlq' = dlq \cup {[source |-> source[s], class |-> "permanent"]}
    /\ Leave(s)
    /\ UNCHANGED tableVars

\* ... or gives a message up after failures it could not explain.
GiveUp(src) ==
    /\ Cardinality({ l \in dlq : l.class = "unexpected" }) < MaxGiveUps
    /\ Store!Ready(src)
    /\ Store!MessageAt(src).valid
    /\ dlq' = dlq \cup {[source |-> src, class |-> "unexpected"]}
    /\ UNCHANGED <<tableVars, pc, source, score, result>>

Next ==
    \/ \E s \in Session :
          \/ \E src \in Store!Source : Begin(s, src)
          \/ ScoreTransaction(s) \/ InsertDecision(s) \/ SelectExisting(s)
          \/ InsertAudit(s) \/ Commit(s) \/ Rollback(s)
          \/ Return(s) \/ DeadLetterRejected(s)
    \/ \E src \in Store!Source : GiveUp(src)

Spec == Init /\ [][Next]_vars

-----------------------------------------------------------------------------
(***************************************************************************)
(* The statements of concurrent sessions do, to those who see committed    *)
(* rows only, what the atomic record_decision of the contract does, and a  *)
(* message is refused for good only if it can never be recorded.           *)
(***************************************************************************)
ImplementsContract == Store!ContractSpec

(***************************************************************************)
(* The re-read after a conflict finds the row: `existing' is never None    *)
(* although the session that made the conflict was not visible before.     *)
(***************************************************************************)
ExistingFound == \A s \in Session : pc[s] # "crashed"

(***************************************************************************)
(* What record_decision returns is what is stored: the decision is the     *)
(* committed one, whoever made it, the message has its audit row, and      *)
(* "evaluated" is returned only to the attempt that made the decision.     *)
(***************************************************************************)
ResultTrue ==
    \A s \in Session :
        pc[s] = "returned" =>
            /\ result[s].decision \in Committed(rows)
            /\ \E h \in Committed(audit) :
                  /\ h.source = source[s]
                  /\ h.decision = result[s].decision
                  /\ result[s].outcome = "evaluated" => h.outcome = "evaluated"

(***************************************************************************)
(* "replays and consumer lag do not change the result" (the docstring of   *)
(* score_transaction): the transactions counted for a decision are those   *)
(* of the user's earlier messages in the log whose event time is in the    *)
(* window, however often and by whomever the message was attempted.  Only  *)
(* messages that were dead-lettered, and may still be recorded late, can   *)
(* make a difference.                                                      *)
(***************************************************************************)
Evaluated == { h \in Committed(audit) : h.outcome = "evaluated" }

Before(h) ==
    { e \in Evaluated :
        /\ e.source[1] = h.source[1] /\ e.source[2] < h.source[2]
        /\ UserOf[e.decision.data] = UserOf[h.decision.data]
        /\ OccurredAt[e.decision.data] \in
              (OccurredAt[h.decision.data] - Window[h.decision.verdict.rules])
                  ..OccurredAt[h.decision.data] }

VelocityExact ==
    \A h \in Evaluated :
        LET counted == h.decision.verdict.counted
        IN  ~Store!DeadLettered(h.source) =>
                /\ \A t \in counted : \E e \in Before(h) : e.decision.tx = t
                /\ \A e \in Before(h) : Store!DeadLettered(e.source) \/ e.decision.tx \in counted
=============================================================================
