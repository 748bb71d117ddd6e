--------------------------- MODULE DecisionStore ---------------------------
(***************************************************************************)
(* What the pipeline leaves behind: the tables transactions and            *)
(* transaction_history (app/database.py) and the dead-letter topic, and    *)
(* the one operation that writes the tables, record_decision.  The Kafka   *)
(* topic that feeds them is the constant Log.                              *)
(*                                                                         *)
(* A row keeps the columns that decide something: the transaction id, the  *)
(* compared fields of _same_transaction as one value `data', and every     *)
(* scoring column (score, verdict, rules, versions) as one value           *)
(* `verdict', which differs between two attempts at the same message when  *)
(* the rules or the velocity counts changed in between.                    *)
(***************************************************************************)
EXTENDS Integers, Sequences, FiniteSets

CONSTANTS
    Partition,      \* partitions of the topic
    Transaction,    \* transaction ids
    Data,           \* user, amount, currency, category, occurred_at
    Verdict,        \* what scoring can return
    Log             \* [Partition -> Seq(Message)]: what producers published

(***************************************************************************)
(* A message parses to [tx, data] when valid; one that is not valid is     *)
(* refused by parse_transaction_event whatever else it holds.              *)
(***************************************************************************)
Message == [tx : Transaction, data : Data, valid : BOOLEAN]

ASSUME LogAssumption == Log \in [Partition -> Seq(Message)]

VARIABLES
    transactions,   \* decision rows
    history,        \* audit rows
    dlq             \* dead letters the broker holds

storeVars == <<transactions, history, dlq>>

(***************************************************************************)
(* Offsets count from 1; a source is a message's coordinates in Kafka.     *)
(***************************************************************************)
Source == UNION { {p} \X (1..Len(Log[p])) : p \in Partition }
MessageAt(src) == Log[src[1]][src[2]]

Decision == [tx : Transaction, data : Data, verdict : Verdict]
AuditRow == [source : Source, outcome : {"evaluated", "duplicate"}, decision : Decision]
DeadLetter == [source : Source, class : {"permanent", "unexpected"}]

StoreTypeOK ==
    /\ transactions \subseteq Decision
    /\ history \subseteq AuditRow
    /\ dlq \subseteq DeadLetter

StoreInit ==
    /\ transactions = {}
    /\ history = {}
    /\ dlq = {}

-----------------------------------------------------------------------------
Stored(tx) == { r \in transactions : r.tx = tx }

same_transaction(r, m) == r.data = m.data

\* The id is stored with other data: record_decision raises and rolls back.
Conflicts(src) ==
    \E r \in Stored(MessageAt(src).tx) : ~same_transaction(r, MessageAt(src))

\* Messages that no attempt can ever store.
Unrecordable(src) == ~MessageAt(src).valid \/ Conflicts(src)

history_values(src, outcome, r) == [source |-> src, outcome |-> outcome, decision |-> r]

\* Mutant: a plain INSERT, or one without the unique constraint on the source.
AppendAudit_plain(row) == history' = history \cup {row}

\* INSERT ... ON CONFLICT ON CONSTRAINT uq_transaction_history_source DO NOTHING
AppendAudit(row) ==
    history' = IF \E h \in history : h.source = row.source
               THEN history
               ELSE history \cup {row}

\* Mutant: ON CONFLICT DO UPDATE, the last decision wins.
Evaluate_upsert(src, v) ==
    LET m == MessageAt(src)
        r == [tx |-> m.tx, data |-> m.data, verdict |-> v]
    IN  /\ transactions' = (transactions \ Stored(m.tx)) \cup {r}
        /\ AppendAudit(history_values(src, "evaluated", r))

Evaluate(src, v) ==
    LET m == MessageAt(src)
        r == [tx |-> m.tx, data |-> m.data, verdict |-> v]
    IN  /\ Stored(m.tx) = {}
        /\ transactions' = transactions \cup {r}
        /\ AppendAudit(history_values(src, "evaluated", r))

\* Mutant: the stored row is not compared with the message.
Duplicate_unchecked(src) ==
    \E r \in Stored(MessageAt(src).tx) :
        /\ AppendAudit(history_values(src, "duplicate", r))
        /\ UNCHANGED transactions

Duplicate(src) ==
    LET m == MessageAt(src)
    IN  \E r \in Stored(m.tx) :
            /\ same_transaction(r, m)
            /\ AppendAudit(history_values(src, "duplicate", r))
            /\ UNCHANGED transactions

\* One database transaction: both rows or neither.
record_decision(src, v) ==
    /\ MessageAt(src).valid
    /\ Evaluate(src, v) \/ Duplicate(src)

-----------------------------------------------------------------------------
Recorded(src) == \E h \in history : h.source = src
DeadLettered(src) == \E l \in dlq : l.source = src
Handled(src) == Recorded(src) \/ DeadLettered(src)

\* Every message of p before offset n is handled.
HandledBelow(p, n) == \A o \in 1..Len(Log[p]) : o < n => Handled(<<p, o>>)

(***************************************************************************)
(* transactions holds one row per id (its primary key), each row has       *)
(* exactly one audit row that says "evaluated", every audit row repeats    *)
(* the stored decision of the message it names, and no message has two     *)
(* audit rows: a redelivered message neither adds nor changes a line of    *)
(* the audit trail (TransactionHistoryRecord, record_decision).            *)
(***************************************************************************)
AuditExact ==
    /\ \A r1, r2 \in transactions : r1.tx = r2.tx => r1 = r2
    /\ \A r \in transactions :
          \E h \in history : h.decision = r /\ h.outcome = "evaluated"
    /\ \A h \in history :
          /\ MessageAt(h.source).valid
          /\ h.decision \in transactions
          /\ h.decision.tx = MessageAt(h.source).tx
          /\ h.decision.data = MessageAt(h.source).data
    /\ \A h1, h2 \in history : h1.source = h2.source => h1 = h2
    /\ \A h1, h2 \in { h \in history : h.outcome = "evaluated" } :
          h1.decision = h2.decision => h1 = h2

(***************************************************************************)
(* A message dead-lettered as permanent left nothing in the tables, ever:  *)
(* a replay of the letter starts from a clean slate, and no transaction is *)
(* both decided and reported as undeliverable (ConflictingDuplicateError   *)
(* rolls the whole transaction back).                                      *)
(***************************************************************************)
PermanentNotRecorded ==
    \A l \in dlq : l.class = "permanent" => ~Recorded(l.source)

\* A stored decision and its audit row are written once and never change.
FirstDecisionWins ==
    [][transactions \subseteq transactions' /\ history \subseteq history']_storeVars
=============================================================================
