--------------------------- MODULE MCFraudWorker ---------------------------
(***************************************************************************)
(* Small instances of FraudWorker: the logs that the runs feed the fleet.  *)
(***************************************************************************)
EXTENDS FraudWorker, TLC

CONSTANTS t1, d1, d2

Event(t, d) == [tx |-> t, data |-> d, valid |-> TRUE]
Garbage == [tx |-> t1, data |-> d1, valid |-> FALSE]

\* A transaction, then its id again with other data.
LogConflict == [p \in Partition |-> <<Event(t1, d1), Event(t1, d2)>>]

\* A message that is not JSON, then a good one behind it.
LogGarbage == [p \in Partition |-> <<Garbage, Event(t1, d1)>>]

\* One event that is good, for long outages.
LogSingle == [p \in Partition |-> <<Event(t1, d1)>>]

WorkerSymmetry == Permutations(Worker)
=============================================================================
