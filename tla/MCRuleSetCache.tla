--------------------------- MODULE MCRuleSetCache ---------------------------
(***************************************************************************)
(* Small instances of RuleSetCache: the tasks of one pod.                  *)
(***************************************************************************)
EXTENDS RuleSetCache, TLC

CONSTANT pod1

OnePod == [r \in Reader |-> pod1]

\* The tasks of a pod are interchangeable, and so are the publishers.
CacheSymmetry == Permutations(Reader) \cup Permutations(Publisher)
=============================================================================
