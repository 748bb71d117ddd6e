--------------------------- MODULE MCJwksVerifier ---------------------------
(***************************************************************************)
(* A few threads and keys over a few intervals.                            *)
(***************************************************************************)
EXTENDS JwksVerifier, TLC

JwksSymmetry == Permutations(Thread) \cup Permutations(Kid)
=============================================================================
