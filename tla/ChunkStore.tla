------------------------------ MODULE ChunkStore ------------------------------
(* What a region file promises: it keeps for each chunk the payload that was    *)
(* written last, and a write concerns no chunk but its own.  From the start of  *)
(* a write until one succeeds the payload of that chunk is unknown, for a write *)
(* may fail or a crash may interrupt it.                                        *)
CONSTANTS Chunks, Payloads, Empty, Unknown

VARIABLE store

Init == store = [c \in Chunks |-> Empty]

Begin(c) == store' = [store EXCEPT ![c] = Unknown]

Complete(c) ==
  /\ store[c] = Unknown
  /\ \E p \in Payloads : store' = [store EXCEPT ![c] = p]

Next == \E c \in Chunks : Begin(c) \/ Complete(c)

Spec == Init /\ [][Next]_store

===============================================================================
