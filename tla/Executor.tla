------------------------------- MODULE Executor -------------------------------
(* What minecpp/core/thread_pool.h promises: a job that was accepted while the *)
(* pool is open is begun once by some worker and finishes; shutdown returns    *)
(* only when nothing is pending or running ("semantica executor shutdown").    *)
(* ThreadPool implements this specification.                                   *)
CONSTANT Jobs

VARIABLES phase,      \* "off", "open" or "closing"
          pending,    \* accepted, not begun
          running,    \* begun by a worker
          finished    \* run to the end

vars == <<phase, pending, running, finished>>

Init ==
  /\ phase = "off"
  /\ pending = {} /\ running = {} /\ finished = {}

Open ==
  /\ phase = "off" /\ phase' = "open"
  /\ UNCHANGED <<pending, running, finished>>

Accept(j) ==
  /\ phase = "open"
  /\ j \notin pending \cup running \cup finished
  /\ pending' = pending \cup {j}
  /\ UNCHANGED <<phase, running, finished>>

Begin(j) ==
  /\ j \in pending
  /\ pending' = pending \ {j}
  /\ running' = running \cup {j}
  /\ UNCHANGED <<phase, finished>>

Finish(j) ==
  /\ j \in running
  /\ running' = running \ {j}
  /\ finished' = finished \cup {j}
  /\ UNCHANGED <<phase, pending>>

Close ==
  /\ phase = "open" /\ phase' = "closing"
  /\ UNCHANGED <<pending, running, finished>>

Closed ==
  /\ phase = "closing" /\ pending = {} /\ running = {}
  /\ phase' = "off"
  /\ UNCHANGED <<pending, running, finished>>

Next ==
  \/ Open \/ Close \/ Closed
  \/ \E j \in Jobs : Accept(j) \/ Begin(j) \/ Finish(j)

Spec == Init /\ [][Next]_vars

===============================================================================
