----------------------------- MODULE MCBuildCache ----------------------------
(***************************************************************************)
(* Instances of BuildCache for TLC: builds are interchangeable.            *)
(***************************************************************************)
EXTENDS BuildCache, TLC

BuildSymmetry == Permutations(Builds)

==============================================================================
