-------------------------- MODULE PipelineContract --------------------------
(***************************************************************************)
(* What the worker fleet promises, with no worker in it: each message of a *)
(* partition is decided or dead-lettered, in offset order, any number of   *)
(* times but with the first decision standing; a committed offset never    *)
(* passes an unhandled message and never moves back.  FraudWorker is shown *)
(* to implement it.                                                        *)
(***************************************************************************)
EXTENDS DecisionStore

VARIABLE committed      \* the group's committed offsets at the broker

contractVars == <<transactions, history, dlq, committed>>

\* The message's turn: everything before it in its partition is handled, so
\* the velocity look-back sees all of the user's earlier events.
Ready(src) == HandledBelow(src[1], src[2])

Decide(src) ==
    /\ Ready(src)
    /\ \E v \in Verdict : record_decision(src, v)
    /\ UNCHANGED <<dlq, committed>>

DeadLetterMessage(src, class) ==
    /\ Ready(src)
    /\ class = "permanent" => Unrecordable(src)
    /\ dlq' = dlq \cup {[source |-> src, class |-> class]}
    /\ UNCHANGED <<transactions, history, committed>>

\* One commit request may carry several partitions.
Commit ==
    /\ committed' \in [Partition -> Nat]
    /\ \A p \in Partition : committed'[p] >= committed[p] /\ HandledBelow(p, committed'[p])
    /\ UNCHANGED storeVars

ContractInit == StoreInit /\ committed = [p \in Partition |-> 1]

ContractNext ==
    \/ \E src \in Source : Decide(src)
    \/ \E src \in Source, class \in {"permanent", "unexpected"} : DeadLetterMessage(src, class)
    \/ Commit

ContractSpec == ContractInit /\ [][ContractNext]_contractVars
=============================================================================
