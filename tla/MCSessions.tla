------------------------------ MODULE MCSessions -------------------------------
(* Instances of Sessions for TLC.                                              *)
EXTENDS Sessions, TLC

\* Nothing tells one connection, or one name, from another.
Symmetry == Permutations(Conns) \cup Permutations(Names)

===============================================================================
