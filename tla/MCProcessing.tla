---------------------------- MODULE MCProcessing ----------------------------
(***************************************************************************)
(* An instance of Processing: one user's transactions with event times out *)
(* of order in p1; in p2, behind a payload that is not JSON, one of their  *)
(* ids for another user, published twice.                                  *)
(***************************************************************************)
EXTENDS Processing, TLC

CONSTANTS p1, p2, t1, t2, t3, d1, d2, d3, d4, u1, u2, r1, r2

Event(t, d) == [tx |-> t, data |-> d, valid |-> TRUE]
Garbage == [tx |-> t1, data |-> d1, valid |-> FALSE]

MCLog == p1 :> <<Event(t1, d1), Event(t2, d2), Event(t3, d3)>> @@ p2 :> <<Garbage, Event(t2, d4), Event(t2, d4)>>

MCUserOf == d1 :> u1 @@ d2 :> u1 @@ d3 :> u1 @@ d4 :> u2
MCOccurredAt == d1 :> 2 @@ d2 :> 1 @@ d3 :> 2 @@ d4 :> 1

\* The rule sets differ in the window: under r2 only the same instant is in it.
MCWindow == r1 :> 1 @@ r2 :> 0

SessionSymmetry == Permutations(Session)
=============================================================================
