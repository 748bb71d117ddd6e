----------------------------- MODULE MCReaders -----------------------------
(***************************************************************************)
(* The two readers of the decisions that workers keep adding: the daily    *)
(* summary over two days of a few instants each, and clients that walk     *)
(* small pages of rows that share timestamps.                              *)
(*                                                                         *)
(* The two share no variable, so each step of one is possible whatever the *)
(* other does; here one of them moves, and the other stays at its start.   *)
(***************************************************************************)
EXTENDS BatchSummary, Pagination, TLC

ReadersInit == Init /\ PageInit

ReadersNext ==
    \/ PageInit /\ Next /\ UNCHANGED pageVars
    \/ Init /\ PageNext /\ UNCHANGED vars

ReadersSpec == ReadersInit /\ [][ReadersNext]_<<vars, pageVars>>

DecisionSymmetry == Permutations(Decision)
=============================================================================
