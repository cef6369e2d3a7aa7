------------------------------- MODULE MCRegion -------------------------------
(* Instances of Region for TLC: payloads of one, two and three sectors, where   *)
(* an entry counts to two.                                                      *)
EXTENDS Region, TLC

CONSTANTS short, middle, long

MCPayloads == {short, middle, long}
MCNeed == (short :> 1) @@ (middle :> 2) @@ (long :> 3)

Symmetry == Permutations(Chunks)

===============================================================================
