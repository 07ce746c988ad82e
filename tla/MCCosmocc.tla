------------------------------- MODULE MCCosmocc -----------------------------
(***************************************************************************)
(* Instances of Cosmocc for TLC: the two programs the code names and one   *)
(* or two that it only meets in walk.                                      *)
(***************************************************************************)
EXTENDS Cosmocc

FourTools == {"apelink", "assimilate", "gcc", "ld"}
ThreeTools == {"apelink", "assimilate", "ld"}

==============================================================================
