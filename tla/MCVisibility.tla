----------------------------- MODULE MCVisibility -----------------------------
(* Instances of Visibility for TLC: a place six blocks and a 64th from the   *)
(* spawn, where a movement is relative but too long for a byte, and one out  *)
(* of sight.                                                                 *)
EXTENDS Visibility

MCPlaces == {0, 389, 5001}

===============================================================================
