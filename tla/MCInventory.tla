------------------------------ MODULE MCInventory ------------------------------
(* Instances of Inventory for TLC: slot 0, a main inventory of one slot and a  *)
(* hotbar of one, or of two where an operation goes over several slots.        *)
EXTENDS Inventory

MCMain == <<1>>
MCHotbar == <<2>>
MCWide == <<2, 3>>

Symmetry == Permutations(Kinds)

===============================================================================
