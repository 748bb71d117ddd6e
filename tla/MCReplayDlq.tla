---------------------------- MODULE MCReplayDlq ----------------------------
(***************************************************************************)
(* A task with two letters and another with one share the producer, and a  *)
(* letter of unknown origin is in the topic from the start.                *)
(***************************************************************************)
EXTENDS ReplayDlq, TLC

CONSTANTS k1, k2

MCLetters == k1 :> 2 @@ k2 :> 1

\* Three calls of the first task, so that its second letter may follow a retry of its
\* first, or a call of each.
MCTries == { n \in [Task -> 0..3] : n[k1] + 2 * n[k2] <= 3 }
=============================================================================
