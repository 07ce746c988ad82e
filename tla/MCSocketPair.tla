---------------------------- MODULE MCSocketPair -----------------------------
(***************************************************************************)
(* Instances of SocketPair for TLC: four numbers let one call and a file   *)
(* through, and make two calls run out at every step.                      *)
(***************************************************************************)
EXTENDS SocketPair, TLC

PairSymmetry == Permutations(Callers) \union Permutations(Fds)

==============================================================================
