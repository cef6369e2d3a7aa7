---------------------------- MODULE MCChunkStream -----------------------------
(* Instances of ChunkStream for TLC.                                           *)
EXTENDS ChunkStream, TLC

\* Rows of two and three columns ...
MCPair == 0..1
MCCols == 0..2

\* ... stored under their own coordinates ...
MCLabel     == [c \in MCCols |-> c]

\* ... or with column 0 in the file in the place of column 1.
MCMoved == [c \in MCPair |-> 0]

\* Nothing tells one connection from another.
Symmetry == Permutations(Conns)

===============================================================================
