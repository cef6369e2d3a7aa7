--------------------------- MODULE ThreadPoolProofs ---------------------------
(* Theorems about ThreadPool, for every number of workers, lanes, slots and    *)
(* jobs.                                                                       *)
EXTENDS ThreadPool, TLAPS

-------------------------------------------------------------------------------
(* Rings as sequences.                                                         *)

RingsType == [Workers -> [Lanes -> Seq(Jobs)]]

\* A remainder by the worker count is a worker index (round robin, victims).
LEMMA ModWorker ==
  ASSUME NEW x \in Nat
  PROVE  x % N \in Workers
BY PoolConstants DEF Workers

\* Taking the head off one lane shifts that lane and leaves the others alone.
LEMMA AdvanceRing ==
  ASSUME NEW L \in RingsType, NEW v \in Workers, NEW l \in Lanes,
         L[v][l] # <<>>
  PROVE  LET M == [L EXCEPT ![v][l] = Tail(@)]
         IN
         /\ M \in RingsType
         /\ Len(M[v][l]) = Len(L[v][l]) - 1
         /\ \A i \in 1..Len(M[v][l]) : M[v][l][i] = L[v][l][i+1]
         /\ \A a \in Workers, b \in Lanes : <<a, b>> # <<v, l>> => M[a][b] = L[a][b]
         /\ Head(L[v][l]) = L[v][l][1]
         /\ Head(L[v][l]) \in Jobs
<1> DEFINE M == [L EXCEPT ![v][l] = Tail(@)]
<1>1. L[v][l] \in Seq(Jobs)
  BY DEF RingsType
<1>2. M[v][l] = Tail(L[v][l])
  BY DEF RingsType
<1>3. \A a \in Workers, b \in Lanes : <<a, b>> # <<v, l>> => M[a][b] = L[a][b]
  BY DEF RingsType
<1>4. M \in RingsType
  BY <1>1 DEF RingsType
<1>5. /\ Len(L[v][l]) \in Nat \ {0}
      /\ Head(L[v][l]) = L[v][l][1]
      /\ Head(L[v][l]) \in Jobs
      /\ Len(Tail(L[v][l])) = Len(L[v][l]) - 1
      /\ \A i \in 1..Len(Tail(L[v][l])) : Tail(L[v][l])[i] = L[v][l][i+1]
  <2> DEFINE s == L[v][l]
  <2>1. s \in Seq(Jobs) /\ s # <<>>
    BY <1>1
  <2> HIDE DEF s
  <2>2. Len(s) \in Nat \ {0} /\ Head(s) = s[1] /\ Head(s) \in Jobs
    BY <2>1
  <2>3. Len(Tail(s)) = Len(s) - 1 /\ \A i \in 1..Len(Tail(s)) : Tail(s)[i] = s[i+1]
    BY <2>1
  <2>4. QED
    BY <2>2, <2>3 DEF s
<1>6. QED
  BY <1>2, <1>3, <1>4, <1>5

\* Appending to one lane adds one position to it and leaves the others alone.
LEMMA AppendRing ==
  ASSUME NEW L \in RingsType, NEW v \in Workers, NEW l \in Lanes, NEW j \in Jobs
  PROVE  LET M == [L EXCEPT ![v][l] = Append(@, j)]
         IN
         /\ M \in RingsType
         /\ Len(M[v][l]) = Len(L[v][l]) + 1
         /\ \A i \in 1..Len(L[v][l]) : M[v][l][i] = L[v][l][i]
         /\ M[v][l][Len(L[v][l]) + 1] = j
         /\ \A a \in Workers, b \in Lanes : <<a, b>> # <<v, l>> => M[a][b] = L[a][b]
<1> DEFINE M == [L EXCEPT ![v][l] = Append(@, j)]
<1>1. L[v][l] \in Seq(Jobs)
  BY DEF RingsType
<1>2. M[v][l] = Append(L[v][l], j)
  BY DEF RingsType
<1>3. \A a \in Workers, b \in Lanes : <<a, b>> # <<v, l>> => M[a][b] = L[a][b]
  BY DEF RingsType
<1>4. M \in RingsType
  BY <1>1 DEF RingsType
<1>5. QED
  BY <1>1, <1>2, <1>3, <1>4

-------------------------------------------------------------------------------
(* Types.                                                                      *)

\* A thief that has found a count finds a victim that is a worker.
LEMMA VictimWorker ==
  ASSUME TypeOK, NEW w \in Workers, gn = N
  PROVE  Victim(w) \in Workers
<1>1. w + k[w] \in Nat
  BY DEF TypeOK, Workers
<1>2. QED
  BY <1>1, ModWorker DEF Victim

\* The pool starts with every variable in its range.
LEMMA TypesInit == Init => TypeOK
<1> SUFFICES ASSUME Init PROVE TypeOK
  OBVIOUS
<1> USE PoolConstants DEF Init
<1>1. 0 \in Workers /\ 0 \in Lanes
  BY DEF Workers, Lanes
<1>2. lanes \in [Workers -> [Lanes -> Seq(Jobs)]]
  OBVIOUS
<1>3. mu \in [Workers -> Workers \cup {Free, Dead, Tick}]
  OBVIOUS
<1>4. pc \in [Workers -> WorkerPc] /\ caller \in CallerPc
  BY DEF WorkerPc, CallerPc
<1>5. job \in [Workers -> Jobs \cup {NoJob}] /\ lane \in [Workers -> Lanes]
  BY <1>1
<1>6. done \in [Workers -> Nat] /\ k \in [Workers -> Nat] /\ ran \in [Jobs -> Nat]
  OBVIOUS
<1>7. knows \subseteq Workers \cup {Tick} /\ carries \subseteq Workers
  OBVIOUS
<1>8. QED
  BY <1>1, <1>2, <1>3, <1>4, <1>5, <1>6, <1>7 DEF TypeOK

\* The head of a lane that is not empty is a job.
LEMMA HeadIsJob ==
  ASSUME TypeOK, NEW v \in Workers, NEW l \in Lanes, lanes[v][l] # <<>>
  PROVE  /\ Head(lanes[v][l]) \in Jobs
         /\ [lanes EXCEPT ![v][l] = Tail(@)] \in RingsType
<1>1. lanes \in RingsType
  BY DEF TypeOK, RingsType
<1>2. QED
  BY <1>1, AdvanceRing

\* Reading a slot leaves job and lane well typed.
LEMMA ReadSlotTypes ==
  ASSUME TypeOK, NEW w \in Workers, NEW v \in Workers, NEW l \in Lanes,
         lanes[v][l] # <<>>, ReadSlot(w, v, l)
  PROVE  job' \in [Workers -> Jobs \cup {NoJob}] /\ lane' \in [Workers -> Lanes]
<1>1. Head(lanes[v][l]) \in Jobs
  BY HeadIsJob
<1>2. job' \in [Workers -> Jobs \cup {NoJob}]
  BY <1>1 DEF ReadSlot, TypeOK
<1>3. lane' \in [Workers -> Lanes]
  BY DEF ReadSlot, TypeOK
<1>4. QED
  BY <1>2, <1>3

\* Every step of a worker or of the tick thread keeps the types.
LEMMA TypesStep ==
  ASSUME TypeOK, LockInv, LifeInv, JobInv, Next
  PROVE  TypeOK'
<1> USE DEF globals, mutexes, locals, callerVars, history, Goto, Take, Lock, Unlock, Sees
<1>1. ASSUME NEW w \in Workers, LoopLock(w) PROVE TypeOK'
  <2>1. \/ \E l \in Lanes : Urgent(w, l) /\ ReadSlot(w, w, l)
        \/ UNCHANGED <<job, lane>>
    BY <1>1 DEF LoopLock
  <2>2. job' \in [Workers -> Jobs \cup {NoJob}] /\ lane' \in [Workers -> Lanes]
    BY <2>1, ReadSlotTypes DEF Urgent, TypeOK
  <2>3. pc' \in [Workers -> WorkerPc]
    BY <1>1 DEF LoopLock, TypeOK, WorkerPc
  <2>4. mu' \in [Workers -> Workers \cup {Free, Dead, Tick}]
    BY <1>1 DEF LoopLock, TypeOK
  <2>5. QED
    BY <1>1, <2>2, <2>3, <2>4 DEF LoopLock, TypeOK
<1>2. ASSUME NEW w \in Workers, Recheck(w) PROVE TypeOK'
  <2>1. \/ \E l \in Lanes : Urgent(w, l) /\ ReadSlot(w, w, l)
        \/ UNCHANGED <<job, lane>>
    BY <1>2 DEF Recheck
  <2>2. job' \in [Workers -> Jobs \cup {NoJob}] /\ lane' \in [Workers -> Lanes]
    BY <2>1, ReadSlotTypes DEF Urgent, TypeOK
  <2>3. pc' \in [Workers -> WorkerPc]
    BY <1>2 DEF Recheck, TypeOK, WorkerPc
  <2>4. mu' \in [Workers -> Workers \cup {Free, Dead, Tick}]
    BY <1>2 DEF Recheck, TypeOK
  <2>5. QED
    BY <1>2, <2>2, <2>3, <2>4 DEF Recheck, TypeOK
<1>3. ASSUME NEW w \in Workers, DrainLock(w) PROVE TypeOK'
  <2>1. \/ \E l \in Lanes : Urgent(w, l) /\ ReadSlot(w, w, l)
        \/ UNCHANGED <<job, lane>>
    BY <1>3 DEF DrainLock
  <2>2. job' \in [Workers -> Jobs \cup {NoJob}] /\ lane' \in [Workers -> Lanes]
    BY <2>1, ReadSlotTypes DEF Urgent, TypeOK
  <2>3. pc' \in [Workers -> WorkerPc]
    BY <1>3 DEF DrainLock, TypeOK, WorkerPc
  <2>4. mu' \in [Workers -> Workers \cup {Free, Dead, Tick}]
    BY <1>3 DEF DrainLock, TypeOK
  <2>5. QED
    BY <1>3, <2>2, <2>3, <2>4 DEF DrainLock, TypeOK
<1>4. ASSUME NEW w \in Workers, Pop(w) PROVE TypeOK'
  <2>1. w \in Workers /\ lane[w] \in Lanes /\ lanes[w][lane[w]] # <<>>
    BY <1>4 DEF Pop, JobInv, HandInv, LockInv, Holds, Reading, Source, TypeOK
  <2>2. lanes' \in [Workers -> [Lanes -> Seq(Jobs)]]
    BY <1>4, <2>1, HeadIsJob DEF Pop, Advance, RingsType
  <2>3. QED
    BY <1>4, <2>1, <2>2 DEF Pop, TypeOK, WorkerPc
<1>5. ASSUME NEW w \in Workers, DrainPop(w) PROVE TypeOK'
  <2>1. w \in Workers /\ lane[w] \in Lanes /\ lanes[w][lane[w]] # <<>>
    BY <1>5 DEF DrainPop, JobInv, HandInv, LockInv, Holds, Reading, Source, TypeOK
  <2>2. lanes' \in [Workers -> [Lanes -> Seq(Jobs)]]
    BY <1>5, <2>1, HeadIsJob DEF DrainPop, Advance, RingsType
  <2>3. QED
    BY <1>5, <2>1, <2>2 DEF DrainPop, TypeOK, WorkerPc
<1>6. ASSUME NEW w \in Workers, StealPop(w) PROVE TypeOK'
  <2>1. Victim(w) \in Workers /\ lane[w] \in Lanes /\ lanes[Victim(w)][lane[w]] # <<>>
    BY <1>6, VictimWorker DEF StealPop, JobInv, HandInv, LockInv, Holds, Reading, Source, TypeOK
  <2>2. lanes' \in [Workers -> [Lanes -> Seq(Jobs)]]
    BY <1>6, <2>1, HeadIsJob DEF StealPop, Advance, RingsType
  <2>3. QED
    BY <1>6, <2>1, <2>2 DEF StealPop, TypeOK, WorkerPc
<1>7. ASSUME NEW w \in Workers, Check(w) PROVE TypeOK'
  <2>1. pc' \in [Workers -> WorkerPc]
    BY <1>7 DEF Check, TypeOK, WorkerPc
  <2>2. /\ mu' \in [Workers -> Workers \cup {Free, Dead, Tick}]
        /\ knows' \subseteq Workers \cup {Tick} /\ carries' \subseteq Workers
    BY <1>7 DEF Check, TypeOK
  <2>3. QED
    BY <1>7, <2>1, <2>2 DEF Check, TypeOK
<1>8. ASSUME NEW w \in Workers, Wake(w) PROVE TypeOK'
  BY <1>8 DEF Wake, TypeOK, WorkerPc
<1>9. ASSUME NEW w \in Workers, Leave(w) PROVE TypeOK'
  BY <1>9 DEF Leave, TypeOK, WorkerPc
<1>10. ASSUME NEW w \in Workers, StealBusy(w) PROVE TypeOK'
  <2>1. k' \in [Workers -> Nat]
    BY <1>10 DEF StealBusy, TypeOK
  <2>2. QED
    BY <1>10, <2>1 DEF StealBusy, TypeOK
<1>11. ASSUME NEW w \in Workers, StealEnd(w) PROVE TypeOK'
  BY <1>11 DEF StealEnd, TypeOK, WorkerPc
<1>12. ASSUME NEW w \in Workers, StealTry(w) PROVE TypeOK'
  <2>1. Victim(w) \in Workers
    <3>1. gn = N
      BY <1>12 DEF StealTry, TypeOK
    <3>2. QED
      BY <3>1, VictimWorker
  <2>3. job' \in [Workers -> Jobs \cup {NoJob}] /\ lane' \in [Workers -> Lanes]
    <3>1. \/ \E l \in Lanes : Cold(Victim(w), l) /\ ReadSlot(w, Victim(w), l)
          \/ UNCHANGED <<job, lane>>
      BY <1>12 DEF StealTry
    <3>2. QED
      BY <3>1, <2>1, ReadSlotTypes DEF Cold, TypeOK
  <2>4. pc' \in [Workers -> WorkerPc]
    BY <1>12 DEF StealTry, TypeOK, WorkerPc
  <2>5. mu' \in [Workers -> Workers \cup {Free, Dead, Tick}]
    BY <1>12, <2>1 DEF StealTry, TypeOK
  <2>6. QED
    BY <1>12, <2>3, <2>4, <2>5 DEF StealTry, TypeOK
<1>13. ASSUME NEW w \in Workers, StealMiss(w) PROVE TypeOK'
  <2>1. Victim(w) \in Workers
    BY <1>13, VictimWorker DEF StealMiss, LockInv, Holds
  <2>2. k' \in [Workers -> Nat]
    <3>1. k' = [k EXCEPT ![w] = @ + 1] /\ k \in [Workers -> Nat]
      BY <1>13 DEF StealMiss, TypeOK
    <3>2. QED
      BY <3>1
  <2>3. pc' \in [Workers -> WorkerPc]
    BY <1>13 DEF StealMiss, TypeOK, WorkerPc
  <2>4. /\ mu' \in [Workers -> Workers \cup {Free, Dead, Tick}]
        /\ knows' \subseteq Workers \cup {Tick} /\ carries' \subseteq Workers
    BY <1>13, <2>1 DEF StealMiss, TypeOK
  <2>5. UNCHANGED <<globals, lanes, done, job, lane, callerVars, history>>
    BY <1>13 DEF StealMiss
  <2>6. QED
    BY <2>2, <2>3, <2>4, <2>5 DEF TypeOK
<1>14. ASSUME NEW w \in Workers, StealDestroyed(w) PROVE TypeOK'
  <2>1. Victim(w) \in Workers
    <3>1. gn = N
      BY <1>14 DEF StealDestroyed, TypeOK
    <3>2. QED
      BY <3>1, VictimWorker
  <2>2. \A l \in Lanes : Cold(Victim(w), l) =>
          /\ Head(lanes[Victim(w)][l]) \in Jobs
          /\ [lanes EXCEPT ![Victim(w)][l] = Tail(@)] \in RingsType
    BY <2>1, HeadIsJob DEF Cold
  <2>3. job' \in [Workers -> Jobs \cup {NoJob}] /\ lane' \in [Workers -> Lanes]
    <3>1. \/ \E l \in Lanes : Cold(Victim(w), l) /\ ReadSlot(w, Victim(w), l)
          \/ UNCHANGED <<job, lane>>
      BY <1>14 DEF StealDestroyed
    <3>2. QED
      BY <3>1, <2>1, ReadSlotTypes DEF Cold, TypeOK
  <2>4. pc' \in [Workers -> WorkerPc]
    BY <1>14 DEF StealDestroyed, TypeOK, WorkerPc
  <2>5. k' = [k EXCEPT ![w] = @ + 1] \/ UNCHANGED k
    BY <1>14 DEF StealDestroyed
  <2>6. k' \in [Workers -> Nat]
    <3>1. CASE k' = [k EXCEPT ![w] = @ + 1]
      BY <3>1 DEF TypeOK
    <3>2. CASE UNCHANGED k
      BY <3>2 DEF TypeOK
    <3>3. QED
      BY <2>5, <3>1, <3>2
  <2>7. \/ \E l \in Lanes : Cold(Victim(w), l) /\ lanes' = [lanes EXCEPT ![Victim(w)][l] = Tail(@)]
        \/ UNCHANGED lanes
    BY <1>14 DEF StealDestroyed
  <2>8. lanes' \in [Workers -> [Lanes -> Seq(Jobs)]]
    <3>1. lanes \in RingsType
      BY DEF TypeOK, RingsType
    <3>2. lanes' \in RingsType
      BY <2>2, <2>7, <3>1
    <3>3. QED
      BY <3>2 DEF RingsType
  <2>9. QED
    <3>1. UNCHANGED <<globals, mu, carries, done, callerVars, history>>
      BY <1>14 DEF StealDestroyed
    <3>2. knows' \subseteq Workers \cup {Tick}
      BY <1>14 DEF StealDestroyed, TypeOK
    <3>3. QED
      BY <3>1, <3>2, <2>3, <2>4, <2>6, <2>8 DEF TypeOK
<1>15. ASSUME NEW w \in Workers, Run(w) PROVE TypeOK'
  <2>1. job[w] \in Jobs
    BY <1>15 DEF Run, JobInv, HandInv, TypeOK
  <2>2. ran' \in [Jobs -> Nat] /\ done' \in [Workers -> Nat] /\ completed' \in Nat
    <3>1. ran' = [ran EXCEPT ![job[w]] = @ + 1]
      BY <1>15 DEF Run
    <3>2. ran' \in [Jobs -> Nat]
      BY <3>1, <2>1 DEF TypeOK
    <3>3. done' = [done EXCEPT ![w] = @ + 1] /\ completed' = completed + 1
      BY <1>15 DEF Run
    <3>4. QED
      BY <3>2, <3>3 DEF TypeOK
  <2>3. job' \in [Workers -> Jobs \cup {NoJob}]
    BY <1>15 DEF Run, TypeOK
  <2>4. pc' \in [Workers -> WorkerPc]
    BY <1>15 DEF Run, TypeOK, WorkerPc
  <2>5. QED
    BY <1>15, <2>2, <2>3, <2>4 DEF Run, TypeOK
<1>16. ASSUME InitCall PROVE TypeOK'
  BY <1>16, PoolConstants DEF InitCall, TypeOK, CallerPc
<1>17. ASSUME CreateFails PROVE TypeOK'
  BY <1>17, PoolConstants DEF CreateFails, TypeOK, CallerPc
<1>18. ASSUME ResetStats PROVE TypeOK'
  BY <1>18, PoolConstants DEF ResetStats, TypeOK, CallerPc
<1>19. ASSUME NEW w \in Workers, Fault(w) PROVE TypeOK'
  BY <1>19 DEF Fault, TypeOK, WorkerPc
<1>20. ASSUME Publish PROVE TypeOK'
  BY <1>20, PoolConstants DEF Publish, TypeOK, CallerPc
<1>21. ASSUME SubmitLock PROVE TypeOK'
  BY <1>21, PoolConstants DEF SubmitLock, TypeOK, CallerPc
<1>22. ASSUME SubmitFull PROVE TypeOK'
  BY <1>22, PoolConstants DEF SubmitFull, TypeOK, CallerPc
<1>23. ASSUME SubmitReturn PROVE TypeOK'
  BY <1>23, PoolConstants DEF SubmitReturn, TypeOK, CallerPc
<1>24. ASSUME ShutdownCall PROVE TypeOK'
  BY <1>24, PoolConstants DEF ShutdownCall, TypeOK, CallerPc
<1>25. ASSUME CreateWorker PROVE TypeOK'
  <2>1. created \in Workers
    BY <1>25, PoolConstants DEF CreateWorker, TypeOK, Workers
  <2>2. created + 1 \in 0..N
    BY <2>1, PoolConstants DEF Workers
  <2>3. QED
    BY <1>25, <2>1, <2>2 DEF CreateWorker, TypeOK, WorkerPc
<1>26. ASSUME NEW p \in Lanes, Submit(p) PROVE TypeOK'
  <2>1. rr % gn \in Workers
    BY <1>26, ModWorker DEF Submit, LifeInv, TypeOK
  <2>2. (rr + 1) % RRMOD \in Nat
    BY PoolConstants DEF TypeOK
  <2>3. sent + 1 \in 0..MaxJobs
    BY <1>26, PoolConstants DEF Submit, TypeOK
  <2>4. QED
    BY <1>26, <2>1, <2>2, <2>3 DEF Submit, TypeOK, CallerPc
<1>27. ASSUME SubmitPut PROVE TypeOK'
  <2>1. sent \in Jobs
    BY <1>27 DEF SubmitPut, JobInv
  <2>2. lanes' \in [Workers -> [Lanes -> Seq(Jobs)]]
    BY <1>27, <2>1, AppendRing DEF SubmitPut, TypeOK, RingsType
  <2>3. QED
    BY <1>27, <2>1, <2>2 DEF SubmitPut, TypeOK, CallerPc
<1>28. ASSUME Join PROVE TypeOK'
  <2>1. idx \in Workers /\ idx + 1 \in 0..N
    <3>1. idx < created /\ idx \in 0..N /\ created \in 0..N
      BY <1>28 DEF Join, TypeOK
    <3>2. QED
      BY <3>1, PoolConstants DEF Workers
  <2>2. QED
    BY <1>28, <2>1 DEF Join, TypeOK, WorkerPc
<1>29. ASSUME FreePool PROVE TypeOK'
  <2>1. lanes' \in [Workers -> [Lanes -> Seq(Jobs)]]
    BY <1>29 DEF FreePool
  <2>2. QED
    BY <1>29, <2>1 DEF FreePool, TypeOK, CallerPc
<1>30. QED
  BY <1>1, <1>2, <1>3, <1>4, <1>5, <1>6, <1>7, <1>8, <1>9, <1>10, <1>11, <1>12, <1>13, <1>14, <1>15, <1>16, <1>17, <1>18, <1>19, <1>20, <1>21, <1>22, <1>23, <1>24, <1>25, <1>26, <1>27, <1>28, <1>29 DEF Next, Worker, CallerProceeds

-------------------------------------------------------------------------------
(* Locks.                                                                      *)

\* A thread that takes no step keeps what it holds, as long as nobody touches
\* the mutexes it holds and those that are gone.
LEMMA HoldsFrame ==
  ASSUME TypeOK, NEW x \in Workers, Holds(x),
         pc'[x] = pc[x], k'[x] = k[x], gn' = gn,
         \A v \in Workers : mu[v] \in {x, Dead} => mu'[v] = mu[v]
  PROVE  Holds(x)'
<1>1. ASSUME pc[x] \in {"stealpop", "stealmiss"} PROVE Holds(x)'
  <2>1. gn = N /\ Victim(x) \in Workers
    BY <1>1, VictimWorker DEF Holds
  <2>2. Victim(x)' = Victim(x)
    BY DEF Victim
  <2>3. QED
    BY <1>1, <2>1, <2>2 DEF Holds
<1>2. ASSUME pc[x] \notin {"stealpop", "stealmiss"} PROVE Holds(x)'
  BY <1>2 DEF Holds
<1>3. QED
  BY <1>1, <1>2

\* The conditions on one thread.
LEMMA LifeAt ==
  ASSUME LifeInv, NEW x \in Workers
  PROVE  /\ pc[x] # "new" <=> Alive(x)
         /\ pc[x] \in {"drain", "drainpop", "drun", "exit"} => caller = "join"
         /\ pc[x] \in {"new", "exit"} => Empty(x)
BY DEF LifeInv

\* Whoever is inside a critical section still holds its mutex after any step,
\* also the thief whose victim is being joined.
LEMMA LockStep ==
  ASSUME IInv, TypeOK', Next
  PROVE  LockInv'
<1> USE DEF globals, mutexes, locals, callerVars, history, Goto, Take, Lock, Unlock, Sees
<1>0. TypeOK /\ LockInv /\ LifeInv /\ JobInv
  BY DEF IInv
<1>a. \A x \in Workers : x # Free /\ x # Dead /\ x # Tick
  BY PoolConstants DEF Workers, Free, Dead, Tick
<1>b. Free # Dead /\ Free # Tick /\ Dead # Tick
  BY PoolConstants DEF Free, Dead, Tick
<1>1. ASSUME NEW w \in Workers, LoopLock(w) PROVE LockInv'
  <2>1. ASSUME NEW x \in Workers, x # w PROVE Holds(x)'
    <3>1. pc'[x] = pc[x] /\ k'[x] = k[x] /\ gn' = gn
      BY <1>1, <1>0, <2>1 DEF LoopLock, TypeOK
    <3>2. \A v \in Workers : mu[v] \in {x, Dead} => mu'[v] = mu[v]
      BY <1>1, <1>0, <1>a, <1>b, <2>1 DEF LoopLock, TypeOK, LockInv, Holds
    <3>3. QED
      BY <3>1, <3>2, <1>0, HoldsFrame DEF LockInv
  <2>2. Holds(w)'
    BY <1>1, <1>0 DEF LoopLock, TypeOK, Holds, LockInv
  <2>3. caller' = "put" => mu'[tgt'] = Tick
    BY <1>1, <1>0, <1>a, <1>b DEF LoopLock, TypeOK, LockInv, Holds
  <2>4. QED
    BY <2>1, <2>2, <2>3 DEF LockInv
<1>2. ASSUME NEW w \in Workers, Pop(w) PROVE LockInv'
  <2>1. ASSUME NEW x \in Workers, x # w PROVE Holds(x)'
    <3>1. pc'[x] = pc[x] /\ k'[x] = k[x] /\ gn' = gn
      BY <1>2, <1>0, <2>1 DEF Pop, TypeOK
    <3>2. \A v \in Workers : mu[v] \in {x, Dead} => mu'[v] = mu[v]
      BY <1>2, <1>0, <1>a, <1>b, <2>1 DEF Pop, TypeOK, LockInv, Holds
    <3>3. QED
      BY <3>1, <3>2, <1>0, HoldsFrame DEF LockInv
  <2>2. Holds(w)'
    BY <1>2, <1>0 DEF Pop, TypeOK, Holds, LockInv
  <2>3. caller' = "put" => mu'[tgt'] = Tick
    BY <1>2, <1>0, <1>a, <1>b DEF Pop, TypeOK, LockInv, Holds
  <2>4. QED
    BY <2>1, <2>2, <2>3 DEF LockInv
<1>3. ASSUME NEW w \in Workers, Check(w) PROVE LockInv'
  <2>1. ASSUME NEW x \in Workers, x # w PROVE Holds(x)'
    <3>1. pc'[x] = pc[x] /\ k'[x] = k[x] /\ gn' = gn
      BY <1>3, <1>0, <2>1 DEF Check, TypeOK
    <3>2. \A v \in Workers : mu[v] \in {x, Dead} => mu'[v] = mu[v]
      BY <1>3, <1>0, <1>a, <1>b, <2>1 DEF Check, TypeOK, LockInv, Holds
    <3>3. QED
      BY <3>1, <3>2, <1>0, HoldsFrame DEF LockInv
  <2>2. Holds(w)'
    BY <1>3, <1>0 DEF Check, TypeOK, Holds, LockInv
  <2>3. caller' = "put" => mu'[tgt'] = Tick
    BY <1>3, <1>0, <1>a, <1>b DEF Check, TypeOK, LockInv, Holds
  <2>4. QED
    BY <2>1, <2>2, <2>3 DEF LockInv
<1>4. ASSUME NEW w \in Workers, Wake(w) PROVE LockInv'
  <2>1. ASSUME NEW x \in Workers, x # w PROVE Holds(x)'
    <3>1. pc'[x] = pc[x] /\ k'[x] = k[x] /\ gn' = gn
      BY <1>4, <1>0, <2>1 DEF Wake, TypeOK
    <3>2. \A v \in Workers : mu[v] \in {x, Dead} => mu'[v] = mu[v]
      BY <1>4, <1>0, <1>a, <1>b, <2>1 DEF Wake, TypeOK, LockInv, Holds
    <3>3. QED
      BY <3>1, <3>2, <1>0, HoldsFrame DEF LockInv
  <2>2. Holds(w)'
    BY <1>4, <1>0 DEF Wake, TypeOK, Holds, LockInv
  <2>3. caller' = "put" => mu'[tgt'] = Tick
    BY <1>4, <1>0, <1>a, <1>b DEF Wake, TypeOK, LockInv, Holds
  <2>4. QED
    BY <2>1, <2>2, <2>3 DEF LockInv
<1>5. ASSUME NEW w \in Workers, Recheck(w) PROVE LockInv'
  <2>1. ASSUME NEW x \in Workers, x # w PROVE Holds(x)'
    <3>1. pc'[x] = pc[x] /\ k'[x] = k[x] /\ gn' = gn
      BY <1>5, <1>0, <2>1 DEF Recheck, TypeOK
    <3>2. \A v \in Workers : mu[v] \in {x, Dead} => mu'[v] = mu[v]
      BY <1>5, <1>0, <1>a, <1>b, <2>1 DEF Recheck, TypeOK, LockInv, Holds
    <3>3. QED
      BY <3>1, <3>2, <1>0, HoldsFrame DEF LockInv
  <2>2. Holds(w)'
    BY <1>5, <1>0 DEF Recheck, TypeOK, Holds, LockInv
  <2>3. caller' = "put" => mu'[tgt'] = Tick
    BY <1>5, <1>0, <1>a, <1>b DEF Recheck, TypeOK, LockInv, Holds
  <2>4. QED
    BY <2>1, <2>2, <2>3 DEF LockInv
<1>6. ASSUME NEW w \in Workers, Leave(w) PROVE LockInv'
  <2>1. ASSUME NEW x \in Workers, x # w PROVE Holds(x)'
    <3>1. pc'[x] = pc[x] /\ k'[x] = k[x] /\ gn' = gn
      BY <1>6, <1>0, <2>1 DEF Leave, TypeOK
    <3>2. \A v \in Workers : mu[v] \in {x, Dead} => mu'[v] = mu[v]
      BY <1>6, <1>0, <1>a, <1>b, <2>1 DEF Leave, TypeOK, LockInv, Holds
    <3>3. QED
      BY <3>1, <3>2, <1>0, HoldsFrame DEF LockInv
  <2>2. Holds(w)'
    BY <1>6, <1>0 DEF Leave, TypeOK, Holds, LockInv
  <2>3. caller' = "put" => mu'[tgt'] = Tick
    BY <1>6, <1>0, <1>a, <1>b DEF Leave, TypeOK, LockInv, Holds
  <2>4. QED
    BY <2>1, <2>2, <2>3 DEF LockInv
<1>7. ASSUME NEW w \in Workers, StealTry(w) PROVE LockInv'
  <2>0. Victim(w) \in Workers /\ gn = N
    BY <1>7, <1>0, VictimWorker DEF StealTry, LockInv, Holds, TypeOK
  <2>1. ASSUME NEW x \in Workers, x # w PROVE Holds(x)'
    <3>1. pc'[x] = pc[x] /\ k'[x] = k[x] /\ gn' = gn
      BY <1>7, <1>0, <2>1 DEF StealTry, TypeOK
    <3>2. \A v \in Workers : mu[v] \in {x, Dead} => mu'[v] = mu[v]
      BY <1>7, <1>0, <1>a, <1>b, <2>0, <2>1 DEF StealTry, TypeOK, LockInv, Holds
    <3>3. QED
      BY <3>1, <3>2, <1>0, HoldsFrame DEF LockInv
  <2>2. Holds(w)'
    <3>1. Victim(w)' = Victim(w) /\ gn' = N
      BY <1>7, <1>0, <2>0 DEF StealTry, Victim
    <3>2. pc'[w] \in {"stealpop", "stealmiss"}
      BY <1>7, <1>0 DEF StealTry, TypeOK
    <3>3. mu'[Victim(w)] = w
      BY <1>7, <1>0, <2>0 DEF StealTry, TypeOK
    <3>4. QED
      BY <3>1, <3>2, <3>3 DEF Holds
  <2>3. caller' = "put" => mu'[tgt'] = Tick
    BY <1>7, <1>0, <1>a, <1>b, <2>0 DEF StealTry, TypeOK, LockInv, Holds
  <2>4. QED
    BY <2>1, <2>2, <2>3 DEF LockInv
<1>8. ASSUME NEW w \in Workers, StealPop(w) PROVE LockInv'
  <2>0. Victim(w) \in Workers /\ gn = N
    BY <1>8, <1>0, VictimWorker DEF StealPop, LockInv, Holds, TypeOK
  <2>1. ASSUME NEW x \in Workers, x # w PROVE Holds(x)'
    <3>1. pc'[x] = pc[x] /\ k'[x] = k[x] /\ gn' = gn
      BY <1>8, <1>0, <2>1 DEF StealPop, TypeOK
    <3>2. \A v \in Workers : mu[v] \in {x, Dead} => mu'[v] = mu[v]
      BY <1>8, <1>0, <1>a, <1>b, <2>0, <2>1 DEF StealPop, TypeOK, LockInv, Holds
    <3>3. QED
      BY <3>1, <3>2, <1>0, HoldsFrame DEF LockInv
  <2>2. Holds(w)'
    <3>1. Victim(w)' = Victim(w) \/ pc'[w] \notin {"stealpop", "stealmiss"}
      BY <1>8, <1>0 DEF StealPop, Victim, TypeOK
    <3>2. QED
      BY <1>8, <1>0, <2>0, <3>1 DEF StealPop, TypeOK, Holds, LockInv
  <2>3. caller' = "put" => mu'[tgt'] = Tick
    BY <1>8, <1>0, <1>a, <1>b, <2>0 DEF StealPop, TypeOK, LockInv, Holds
  <2>4. QED
    BY <2>1, <2>2, <2>3 DEF LockInv
<1>9. ASSUME NEW w \in Workers, StealMiss(w) PROVE LockInv'
  <2>0. Victim(w) \in Workers /\ gn = N
    BY <1>9, <1>0, VictimWorker DEF StealMiss, LockInv, Holds, TypeOK
  <2>1. ASSUME NEW x \in Workers, x # w PROVE Holds(x)'
    <3>1. pc'[x] = pc[x] /\ k'[x] = k[x] /\ gn' = gn
      BY <1>9, <1>0, <2>1 DEF StealMiss, TypeOK
    <3>2. \A v \in Workers : mu[v] \in {x, Dead} => mu'[v] = mu[v]
      BY <1>9, <1>0, <1>a, <1>b, <2>0, <2>1 DEF StealMiss, TypeOK, LockInv, Holds
    <3>3. QED
      BY <3>1, <3>2, <1>0, HoldsFrame DEF LockInv
  <2>2. Holds(w)'
    <3>1. Victim(w)' = Victim(w) \/ pc'[w] \notin {"stealpop", "stealmiss"}
      BY <1>9, <1>0 DEF StealMiss, Victim, TypeOK
    <3>2. QED
      BY <1>9, <1>0, <2>0, <3>1 DEF StealMiss, TypeOK, Holds, LockInv
  <2>3. caller' = "put" => mu'[tgt'] = Tick
    BY <1>9, <1>0, <1>a, <1>b, <2>0 DEF StealMiss, TypeOK, LockInv, Holds
  <2>4. QED
    BY <2>1, <2>2, <2>3 DEF LockInv
<1>10. ASSUME NEW w \in Workers, StealBusy(w) PROVE LockInv'
  <2>1. ASSUME NEW x \in Workers, x # w PROVE Holds(x)'
    <3>1. pc'[x] = pc[x] /\ k'[x] = k[x] /\ gn' = gn
      BY <1>10, <1>0, <2>1 DEF StealBusy, TypeOK
    <3>2. \A v \in Workers : mu[v] \in {x, Dead} => mu'[v] = mu[v]
      BY <1>10, <1>0, <1>a, <1>b, <2>1 DEF StealBusy, TypeOK, LockInv, Holds
    <3>3. QED
      BY <3>1, <3>2, <1>0, HoldsFrame DEF LockInv
  <2>2. Holds(w)'
    BY <1>10, <1>0 DEF StealBusy, TypeOK, Holds, LockInv
  <2>3. caller' = "put" => mu'[tgt'] = Tick
    BY <1>10, <1>0, <1>a, <1>b DEF StealBusy, TypeOK, LockInv, Holds
  <2>4. QED
    BY <2>1, <2>2, <2>3 DEF LockInv
<1>11. ASSUME NEW w \in Workers, StealDestroyed(w) PROVE LockInv'
  <2>1. ASSUME NEW x \in Workers, x # w PROVE Holds(x)'
    <3>1. pc'[x] = pc[x] /\ k'[x] = k[x] /\ gn' = gn
      BY <1>11, <1>0, <2>1 DEF StealDestroyed, TypeOK
    <3>2. \A v \in Workers : mu[v] \in {x, Dead} => mu'[v] = mu[v]
      BY <1>11, <1>0, <1>a, <1>b, <2>1 DEF StealDestroyed, TypeOK, LockInv, Holds
    <3>3. QED
      BY <3>1, <3>2, <1>0, HoldsFrame DEF LockInv
  <2>2. Holds(w)'
    <3>1. pc'[w] \in {"steal", "run"}
      BY <1>11, <1>0 DEF StealDestroyed, TypeOK
    <3>2. QED
      BY <3>1 DEF Holds
  <2>3. caller' = "put" => mu'[tgt'] = Tick
    BY <1>11, <1>0, <1>a, <1>b DEF StealDestroyed, TypeOK, LockInv, Holds
  <2>4. QED
    BY <2>1, <2>2, <2>3 DEF LockInv
<1>12. ASSUME NEW w \in Workers, StealEnd(w) PROVE LockInv'
  <2>1. ASSUME NEW x \in Workers, x # w PROVE Holds(x)'
    <3>1. pc'[x] = pc[x] /\ k'[x] = k[x] /\ gn' = gn
      BY <1>12, <1>0, <2>1 DEF StealEnd, TypeOK
    <3>2. \A v \in Workers : mu[v] \in {x, Dead} => mu'[v] = mu[v]
      BY <1>12, <1>0, <1>a, <1>b, <2>1 DEF StealEnd, TypeOK, LockInv, Holds
    <3>3. QED
      BY <3>1, <3>2, <1>0, HoldsFrame DEF LockInv
  <2>2. Holds(w)'
    BY <1>12, <1>0 DEF StealEnd, TypeOK, Holds, LockInv
  <2>3. caller' = "put" => mu'[tgt'] = Tick
    BY <1>12, <1>0, <1>a, <1>b DEF StealEnd, TypeOK, LockInv, Holds
  <2>4. QED
    BY <2>1, <2>2, <2>3 DEF LockInv
<1>13. ASSUME NEW w \in Workers, Run(w) PROVE LockInv'
  <2>1. ASSUME NEW x \in Workers, x # w PROVE Holds(x)'
    <3>1. pc'[x] = pc[x] /\ k'[x] = k[x] /\ gn' = gn
      BY <1>13, <1>0, <2>1 DEF Run, TypeOK
    <3>2. \A v \in Workers : mu[v] \in {x, Dead} => mu'[v] = mu[v]
      BY <1>13, <1>0, <1>a, <1>b, <2>1 DEF Run, TypeOK, LockInv, Holds
    <3>3. QED
      BY <3>1, <3>2, <1>0, HoldsFrame DEF LockInv
  <2>2. Holds(w)'
    BY <1>13, <1>0 DEF Run, TypeOK, Holds, LockInv
  <2>3. caller' = "put" => mu'[tgt'] = Tick
    BY <1>13, <1>0, <1>a, <1>b DEF Run, TypeOK, LockInv, Holds
  <2>4. QED
    BY <2>1, <2>2, <2>3 DEF LockInv
<1>14. ASSUME NEW w \in Workers, DrainLock(w) PROVE LockInv'
  <2>1. ASSUME NEW x \in Workers, x # w PROVE Holds(x)'
    <3>1. pc'[x] = pc[x] /\ k'[x] = k[x] /\ gn' = gn
      BY <1>14, <1>0, <2>1 DEF DrainLock, TypeOK
    <3>2. \A v \in Workers : mu[v] \in {x, Dead} => mu'[v] = mu[v]
      BY <1>14, <1>0, <1>a, <1>b, <2>1 DEF DrainLock, TypeOK, LockInv, Holds
    <3>3. QED
      BY <3>1, <3>2, <1>0, HoldsFrame DEF LockInv
  <2>2. Holds(w)'
    BY <1>14, <1>0 DEF DrainLock, TypeOK, Holds, LockInv
  <2>3. caller' = "put" => mu'[tgt'] = Tick
    BY <1>14, <1>0, <1>a, <1>b DEF DrainLock, TypeOK, LockInv, Holds
  <2>4. QED
    BY <2>1, <2>2, <2>3 DEF LockInv
<1>15. ASSUME NEW w \in Workers, DrainPop(w) PROVE LockInv'
  <2>1. ASSUME NEW x \in Workers, x # w PROVE Holds(x)'
    <3>1. pc'[x] = pc[x] /\ k'[x] = k[x] /\ gn' = gn
      BY <1>15, <1>0, <2>1 DEF DrainPop, TypeOK
    <3>2. \A v \in Workers : mu[v] \in {x, Dead} => mu'[v] = mu[v]
      BY <1>15, <1>0, <1>a, <1>b, <2>1 DEF DrainPop, TypeOK, LockInv, Holds
    <3>3. QED
      BY <3>1, <3>2, <1>0, HoldsFrame DEF LockInv
  <2>2. Holds(w)'
    BY <1>15, <1>0 DEF DrainPop, TypeOK, Holds, LockInv
  <2>3. caller' = "put" => mu'[tgt'] = Tick
    BY <1>15, <1>0, <1>a, <1>b DEF DrainPop, TypeOK, LockInv, Holds
  <2>4. QED
    BY <2>1, <2>2, <2>3 DEF LockInv
<1>16. ASSUME InitCall PROVE LockInv'
  <2>1. ASSUME NEW x \in Workers PROVE Holds(x)'
    <3>1. pc'[x] = pc[x] /\ k'[x] = k[x] /\ gn' = gn
      BY <1>16, <1>0 DEF InitCall, TypeOK
    <3>2. \A v \in Workers : mu[v] \in {x, Dead} => mu'[v] = mu[v]
      BY <1>16, <1>0, <1>a, <1>b DEF InitCall, TypeOK, LockInv
    <3>3. QED
      BY <3>1, <3>2, <1>0, HoldsFrame DEF LockInv
  <2>2. caller' = "put" => mu'[tgt'] = Tick
    BY <1>16, <1>0 DEF InitCall, TypeOK
  <2>3. QED
    BY <2>1, <2>2 DEF LockInv
<1>17. ASSUME CreateFails PROVE LockInv'
  <2>1. ASSUME NEW x \in Workers PROVE Holds(x)'
    <3>1. pc'[x] = pc[x] /\ k'[x] = k[x] /\ gn' = gn
      BY <1>17, <1>0 DEF CreateFails, TypeOK
    <3>2. \A v \in Workers : mu[v] \in {x, Dead} => mu'[v] = mu[v]
      BY <1>17, <1>0, <1>a, <1>b DEF CreateFails, TypeOK, LockInv
    <3>3. QED
      BY <3>1, <3>2, <1>0, HoldsFrame DEF LockInv
  <2>2. caller' = "put" => mu'[tgt'] = Tick
    BY <1>17, <1>0 DEF CreateFails, TypeOK
  <2>3. QED
    BY <2>1, <2>2 DEF LockInv
<1>18. ASSUME ResetStats PROVE LockInv'
  <2>1. ASSUME NEW x \in Workers PROVE Holds(x)'
    <3>1. pc'[x] = pc[x] /\ k'[x] = k[x] /\ gn' = gn
      BY <1>18, <1>0 DEF ResetStats, TypeOK
    <3>2. \A v \in Workers : mu[v] \in {x, Dead} => mu'[v] = mu[v]
      BY <1>18, <1>0, <1>a, <1>b DEF ResetStats, TypeOK, LockInv
    <3>3. QED
      BY <3>1, <3>2, <1>0, HoldsFrame DEF LockInv
  <2>2. caller' = "put" => mu'[tgt'] = Tick
    BY <1>18, <1>0 DEF ResetStats, TypeOK
  <2>3. QED
    BY <2>1, <2>2 DEF LockInv
<1>19. ASSUME NEW w \in Workers, Fault(w) PROVE LockInv'
  <2>1. ASSUME NEW x \in Workers, x # w PROVE Holds(x)'
    <3>1. pc'[x] = pc[x] /\ k'[x] = k[x] /\ gn' = gn
      BY <1>19, <1>0, <2>1 DEF Fault, TypeOK
    <3>2. \A v \in Workers : mu[v] \in {x, Dead} => mu'[v] = mu[v]
      BY <1>19, <1>0, <1>a, <1>b, <2>1 DEF Fault, TypeOK, LockInv, Holds
    <3>3. QED
      BY <3>1, <3>2, <1>0, HoldsFrame DEF LockInv
  <2>2. Holds(w)'
    BY <1>19, <1>0 DEF Fault, TypeOK, Holds, LockInv
  <2>3. caller' = "put" => mu'[tgt'] = Tick
    BY <1>19, <1>0, <1>a, <1>b DEF Fault, TypeOK, LockInv, Holds
  <2>4. QED
    BY <2>1, <2>2, <2>3 DEF LockInv
<1>20. ASSUME SubmitLock PROVE LockInv'
  <2>1. ASSUME NEW x \in Workers PROVE Holds(x)'
    <3>1. pc'[x] = pc[x] /\ k'[x] = k[x] /\ gn' = gn
      BY <1>20, <1>0 DEF SubmitLock, TypeOK
    <3>2. \A v \in Workers : mu[v] \in {x, Dead} => mu'[v] = mu[v]
      BY <1>20, <1>0, <1>a, <1>b DEF SubmitLock, TypeOK, LockInv
    <3>3. QED
      BY <3>1, <3>2, <1>0, HoldsFrame DEF LockInv
  <2>2. caller' = "put" => mu'[tgt'] = Tick
    BY <1>20, <1>0 DEF SubmitLock, TypeOK
  <2>3. QED
    BY <2>1, <2>2 DEF LockInv
<1>21. ASSUME SubmitPut PROVE LockInv'
  <2>1. ASSUME NEW x \in Workers PROVE Holds(x)'
    <3>1. pc'[x] = pc[x] /\ k'[x] = k[x] /\ gn' = gn
      BY <1>21, <1>0 DEF SubmitPut, TypeOK
    <3>2. \A v \in Workers : mu[v] \in {x, Dead} => mu'[v] = mu[v]
      BY <1>21, <1>0, <1>a, <1>b DEF SubmitPut, TypeOK, LockInv
    <3>3. QED
      BY <3>1, <3>2, <1>0, HoldsFrame DEF LockInv
  <2>2. caller' = "put" => mu'[tgt'] = Tick
    BY <1>21, <1>0 DEF SubmitPut, TypeOK
  <2>3. QED
    BY <2>1, <2>2 DEF LockInv
<1>22. ASSUME SubmitFull PROVE LockInv'
  <2>1. ASSUME NEW x \in Workers PROVE Holds(x)'
    <3>1. pc'[x] = pc[x] /\ k'[x] = k[x] /\ gn' = gn
      BY <1>22, <1>0 DEF SubmitFull, TypeOK
    <3>2. \A v \in Workers : mu[v] \in {x, Dead} => mu'[v] = mu[v]
      BY <1>22, <1>0, <1>a, <1>b DEF SubmitFull, TypeOK, LockInv
    <3>3. QED
      BY <3>1, <3>2, <1>0, HoldsFrame DEF LockInv
  <2>2. caller' = "put" => mu'[tgt'] = Tick
    BY <1>22, <1>0 DEF SubmitFull, TypeOK
  <2>3. QED
    BY <2>1, <2>2 DEF LockInv
<1>23. ASSUME SubmitReturn PROVE LockInv'
  <2>1. ASSUME NEW x \in Workers PROVE Holds(x)'
    <3>1. pc'[x] = pc[x] /\ k'[x] = k[x] /\ gn' = gn
      BY <1>23, <1>0 DEF SubmitReturn, TypeOK
    <3>2. \A v \in Workers : mu[v] \in {x, Dead} => mu'[v] = mu[v]
      BY <1>23, <1>0, <1>a, <1>b DEF SubmitReturn, TypeOK, LockInv
    <3>3. QED
      BY <3>1, <3>2, <1>0, HoldsFrame DEF LockInv
  <2>2. caller' = "put" => mu'[tgt'] = Tick
    BY <1>23, <1>0 DEF SubmitReturn, TypeOK
  <2>3. QED
    BY <2>1, <2>2 DEF LockInv
<1>24. ASSUME ShutdownCall PROVE LockInv'
  <2>1. ASSUME NEW x \in Workers PROVE Holds(x)'
    <3>1. pc'[x] = pc[x] /\ k'[x] = k[x] /\ gn' = gn
      BY <1>24, <1>0 DEF ShutdownCall, TypeOK
    <3>2. \A v \in Workers : mu[v] \in {x, Dead} => mu'[v] = mu[v]
      BY <1>24, <1>0, <1>a, <1>b DEF ShutdownCall, TypeOK, LockInv
    <3>3. QED
      BY <3>1, <3>2, <1>0, HoldsFrame DEF LockInv
  <2>2. caller' = "put" => mu'[tgt'] = Tick
    BY <1>24, <1>0 DEF ShutdownCall, TypeOK
  <2>3. QED
    BY <2>1, <2>2 DEF LockInv
<1>25. ASSUME NEW p \in Lanes, Submit(p) PROVE LockInv'
  <2>1. ASSUME NEW x \in Workers PROVE Holds(x)'
    <3>1. pc'[x] = pc[x] /\ k'[x] = k[x] /\ gn' = gn
      BY <1>25, <1>0 DEF Submit, TypeOK
    <3>2. \A v \in Workers : mu[v] \in {x, Dead} => mu'[v] = mu[v]
      BY <1>25, <1>0, <1>a, <1>b DEF Submit, TypeOK, LockInv
    <3>3. QED
      BY <3>1, <3>2, <1>0, HoldsFrame DEF LockInv
  <2>2. caller' = "put" => mu'[tgt'] = Tick
    BY <1>25, <1>0 DEF Submit, TypeOK
  <2>3. QED
    BY <2>1, <2>2 DEF LockInv
<1>26. ASSUME Publish PROVE LockInv'
  <2>1. ASSUME NEW x \in Workers PROVE Holds(x)'
    <3>1. pc[x] \notin {"stealpop", "stealmiss"}
      BY <1>26, <1>0, PoolConstants DEF Publish, LifeInv, LockInv, Holds
    <3>2. QED
      BY <1>26, <1>0, <3>1 DEF Publish, LockInv, Holds
  <2>2. QED
    BY <1>26, <2>1 DEF Publish, LockInv
<1>27. ASSUME CreateWorker PROVE LockInv'
  <2>1. created \in Workers /\ pc[created] = "new"
    BY <1>27, <1>0 DEF CreateWorker, TypeOK, Workers, LifeInv, Alive
  <2>2. ASSUME NEW x \in Workers PROVE Holds(x)'
    <3>1. pc[x] \notin {"stealpop", "stealmiss"}
      BY <1>27, <1>0, PoolConstants DEF CreateWorker, LifeInv, LockInv, Holds
    <3>2. mu[x] = x => x # created \/ pc[x] = "new"
      BY <2>1
    <3>3. QED
      BY <1>27, <1>0, <2>1, <3>1, <3>2 DEF CreateWorker, LockInv, Holds, TypeOK
  <2>3. QED
    BY <1>27, <2>2 DEF CreateWorker, LockInv
<1>28. ASSUME Join PROVE LockInv'
  <2>1. idx \in Workers /\ pc[idx] = "exit"
    BY <1>28, <1>0 DEF Join, TypeOK, Workers
  <2>2. \A v \in Workers : mu'[v] = mu[v] \/ (v = idx /\ mu'[v] = Dead)
    BY <1>28, <1>0 DEF Join, TypeOK
  <2>3. ASSUME NEW x \in Workers PROVE Holds(x)'
    <3>1. CASE x = idx
      BY <1>28, <1>0, <2>1, <3>1 DEF Join, Holds, TypeOK
    <3>2. CASE x # idx /\ pc[x] \in {"stealpop", "stealmiss"}
      <4>1. gn = N /\ Victim(x) \in Workers /\ Victim(x)' = Victim(x) /\ pc'[x] = pc[x]
        BY <1>28, <1>0, <3>2, VictimWorker DEF Join, LockInv, Holds, Victim, TypeOK
      <4>2. pc[x] = "stealpop" => Victim(x) # idx
        <5>1. Empty(idx)
          BY <1>0, <2>1 DEF LifeInv
        <5>2. pc[x] = "stealpop" => lanes[Victim(x)][lane[x]] # <<>> /\ lane[x] \in Lanes
          BY <1>0 DEF JobInv, HandInv, Reading, Source, TypeOK
        <5>3. QED
          BY <5>1, <5>2 DEF Empty
      <4>3. QED
        BY <1>28, <1>0, <2>2, <3>2, <4>1, <4>2 DEF Join, LockInv, Holds
    <3>3. CASE x # idx /\ pc[x] \notin {"stealpop", "stealmiss"}
      BY <1>28, <1>0, <2>2, <3>3 DEF Join, LockInv, Holds, TypeOK
    <3>4. QED
      BY <3>1, <3>2, <3>3
  <2>4. QED
    BY <1>28, <2>3 DEF Join, LockInv
<1>29. ASSUME FreePool PROVE LockInv'
  <2>1. \A x \in Workers : pc[x] = "new"
    BY <1>29, <1>0, LifeAt DEF FreePool, Alive, TypeOK, Workers
  <2>2. \A x \in Workers : Holds(x)'
    BY <1>29, <2>1 DEF FreePool, Holds
  <2>3. QED
    BY <1>29, <2>2 DEF FreePool, LockInv
<1>30. QED
  BY <1>1, <1>2, <1>3, <1>4, <1>5, <1>6, <1>7, <1>8, <1>9, <1>10, <1>11, <1>12, <1>13, <1>14, <1>15, <1>16, <1>17, <1>18, <1>19, <1>20, <1>21, <1>22, <1>23, <1>24, <1>25, <1>26, <1>27, <1>28, <1>29 DEF Next, Worker, CallerProceeds

-------------------------------------------------------------------------------
(* Threads.                                                                    *)


\* Threads exist exactly between their creation and their join, g_down is set
\* exactly while the pool closes, and who leaves has drained its ring.
LEMMA LifeStep ==
  ASSUME IInv, TypeOK', Next
  PROVE  LifeInv'
<1> USE DEF globals, mutexes, locals, callerVars, history, Goto, Take, Lock, Unlock, Sees
<1>0. TypeOK /\ LockInv /\ LifeInv /\ JobInv
  BY DEF IInv
<1>1. ASSUME NEW w \in Workers, LoopLock(w) PROVE LifeInv'
  <2>1. \A x \in Workers : Empty(x)' = Empty(x)
    BY <1>1 DEF LoopLock, Empty
  <2>2. ASSUME NEW x \in Workers
        PROVE  /\ pc'[x] # "new" <=> Alive(x)'
               /\ pc'[x] \in {"drain", "drainpop", "drun", "exit"} => caller' = "join"
               /\ pc'[x] \in {"new", "exit"} => Empty(x)'
    <3>1. CASE x = w
      BY <1>1, <1>0, <2>1, <3>1, LifeAt DEF LoopLock, Alive, LifeInv, TypeOK
    <3>2. CASE x # w
      BY <1>1, <1>0, <2>1, <3>2, LifeAt DEF LoopLock, Alive, TypeOK
    <3>3. QED
      BY <3>1, <3>2
  <2>3. QED
    BY <1>1, <1>0, <2>2 DEF LoopLock, LifeInv
<1>2. ASSUME NEW w \in Workers, Pop(w) PROVE LifeInv'
  <2>1. \A x \in Workers : x # w => Empty(x)' = Empty(x)
    BY <1>2, <1>0 DEF Pop, Advance, Empty, TypeOK
  <2>2. ASSUME NEW x \in Workers
        PROVE  /\ pc'[x] # "new" <=> Alive(x)'
               /\ pc'[x] \in {"drain", "drainpop", "drun", "exit"} => caller' = "join"
               /\ pc'[x] \in {"new", "exit"} => Empty(x)'
    <3>1. CASE x = w
      BY <1>2, <1>0, <2>1, <3>1, LifeAt DEF Pop, Alive, LifeInv, TypeOK
    <3>2. CASE x # w
      BY <1>2, <1>0, <2>1, <3>2, LifeAt DEF Pop, Alive, TypeOK
    <3>3. QED
      BY <3>1, <3>2
  <2>3. QED
    BY <1>2, <1>0, <2>2 DEF Pop, LifeInv
<1>3. ASSUME NEW w \in Workers, Check(w) PROVE LifeInv'
  <2>1. \A x \in Workers : Empty(x)' = Empty(x)
    BY <1>3 DEF Check, Empty
  <2>2. ASSUME NEW x \in Workers
        PROVE  /\ pc'[x] # "new" <=> Alive(x)'
               /\ pc'[x] \in {"drain", "drainpop", "drun", "exit"} => caller' = "join"
               /\ pc'[x] \in {"new", "exit"} => Empty(x)'
    <3>1. CASE x = w
      BY <1>3, <1>0, <2>1, <3>1, LifeAt DEF Check, Alive, LifeInv, TypeOK
    <3>2. CASE x # w
      BY <1>3, <1>0, <2>1, <3>2, LifeAt DEF Check, Alive, TypeOK
    <3>3. QED
      BY <3>1, <3>2
  <2>3. QED
    BY <1>3, <1>0, <2>2 DEF Check, LifeInv
<1>4. ASSUME NEW w \in Workers, Wake(w) PROVE LifeInv'
  <2>1. \A x \in Workers : Empty(x)' = Empty(x)
    BY <1>4 DEF Wake, Empty
  <2>2. ASSUME NEW x \in Workers
        PROVE  /\ pc'[x] # "new" <=> Alive(x)'
               /\ pc'[x] \in {"drain", "drainpop", "drun", "exit"} => caller' = "join"
               /\ pc'[x] \in {"new", "exit"} => Empty(x)'
    <3>1. CASE x = w
      BY <1>4, <1>0, <2>1, <3>1, LifeAt DEF Wake, Alive, LifeInv, TypeOK
    <3>2. CASE x # w
      BY <1>4, <1>0, <2>1, <3>2, LifeAt DEF Wake, Alive, TypeOK
    <3>3. QED
      BY <3>1, <3>2
  <2>3. QED
    BY <1>4, <1>0, <2>2 DEF Wake, LifeInv
<1>5. ASSUME NEW w \in Workers, Recheck(w) PROVE LifeInv'
  <2>1. \A x \in Workers : Empty(x)' = Empty(x)
    BY <1>5 DEF Recheck, Empty
  <2>2. ASSUME NEW x \in Workers
        PROVE  /\ pc'[x] # "new" <=> Alive(x)'
               /\ pc'[x] \in {"drain", "drainpop", "drun", "exit"} => caller' = "join"
               /\ pc'[x] \in {"new", "exit"} => Empty(x)'
    <3>1. CASE x = w
      BY <1>5, <1>0, <2>1, <3>1, LifeAt DEF Recheck, Alive, LifeInv, TypeOK
    <3>2. CASE x # w
      BY <1>5, <1>0, <2>1, <3>2, LifeAt DEF Recheck, Alive, TypeOK
    <3>3. QED
      BY <3>1, <3>2
  <2>3. QED
    BY <1>5, <1>0, <2>2 DEF Recheck, LifeInv
<1>6. ASSUME NEW w \in Workers, Leave(w) PROVE LifeInv'
  <2>1. \A x \in Workers : Empty(x)' = Empty(x)
    BY <1>6 DEF Leave, Empty
  <2>2. ASSUME NEW x \in Workers
        PROVE  /\ pc'[x] # "new" <=> Alive(x)'
               /\ pc'[x] \in {"drain", "drainpop", "drun", "exit"} => caller' = "join"
               /\ pc'[x] \in {"new", "exit"} => Empty(x)'
    <3>1. CASE x = w
      BY <1>6, <1>0, <2>1, <3>1, LifeAt DEF Leave, Alive, LifeInv, TypeOK
    <3>2. CASE x # w
      BY <1>6, <1>0, <2>1, <3>2, LifeAt DEF Leave, Alive, TypeOK
    <3>3. QED
      BY <3>1, <3>2
  <2>3. QED
    BY <1>6, <1>0, <2>2 DEF Leave, LifeInv
<1>7. ASSUME NEW w \in Workers, StealTry(w) PROVE LifeInv'
  <2>1. \A x \in Workers : Empty(x)' = Empty(x)
    BY <1>7 DEF StealTry, Empty
  <2>2. ASSUME NEW x \in Workers
        PROVE  /\ pc'[x] # "new" <=> Alive(x)'
               /\ pc'[x] \in {"drain", "drainpop", "drun", "exit"} => caller' = "join"
               /\ pc'[x] \in {"new", "exit"} => Empty(x)'
    <3>1. CASE x = w
      BY <1>7, <1>0, <2>1, <3>1, LifeAt DEF StealTry, Alive, LifeInv, TypeOK
    <3>2. CASE x # w
      BY <1>7, <1>0, <2>1, <3>2, LifeAt DEF StealTry, Alive, TypeOK
    <3>3. QED
      BY <3>1, <3>2
  <2>3. QED
    BY <1>7, <1>0, <2>2 DEF StealTry, LifeInv
<1>8. ASSUME NEW w \in Workers, StealPop(w) PROVE LifeInv'
  <2>1. \A x \in Workers : Empty(x) => Empty(x)'
    <3>1. Victim(w) \in Workers
      BY <1>8, <1>0, VictimWorker DEF StealPop, LockInv, Holds, TypeOK
    <3>2. ~Empty(Victim(w)) \/ UNCHANGED lanes
      BY <1>8, <1>0, <3>1 DEF StealPop, JobInv, HandInv, Reading, Source, Empty, Cold, TypeOK
    <3>3. \A x \in Workers : x # Victim(w) => lanes'[x] = lanes[x]
      BY <1>8, <1>0, <3>1 DEF StealPop, Advance, TypeOK
    <3>4. QED
      BY <3>2, <3>3 DEF Empty
  <2>2. ASSUME NEW x \in Workers
        PROVE  /\ pc'[x] # "new" <=> Alive(x)'
               /\ pc'[x] \in {"drain", "drainpop", "drun", "exit"} => caller' = "join"
               /\ pc'[x] \in {"new", "exit"} => Empty(x)'
    <3>1. CASE x = w
      BY <1>8, <1>0, <2>1, <3>1, LifeAt DEF StealPop, Alive, LifeInv, TypeOK
    <3>2. CASE x # w
      BY <1>8, <1>0, <2>1, <3>2, LifeAt DEF StealPop, Alive, TypeOK
    <3>3. QED
      BY <3>1, <3>2
  <2>3. QED
    BY <1>8, <1>0, <2>2 DEF StealPop, LifeInv
<1>9. ASSUME NEW w \in Workers, StealMiss(w) PROVE LifeInv'
  <2>1. \A x \in Workers : Empty(x)' = Empty(x)
    BY <1>9 DEF StealMiss, Empty
  <2>2. ASSUME NEW x \in Workers
        PROVE  /\ pc'[x] # "new" <=> Alive(x)'
               /\ pc'[x] \in {"drain", "drainpop", "drun", "exit"} => caller' = "join"
               /\ pc'[x] \in {"new", "exit"} => Empty(x)'
    <3>1. CASE x = w
      BY <1>9, <1>0, <2>1, <3>1, LifeAt DEF StealMiss, Alive, LifeInv, TypeOK
    <3>2. CASE x # w
      BY <1>9, <1>0, <2>1, <3>2, LifeAt DEF StealMiss, Alive, TypeOK
    <3>3. QED
      BY <3>1, <3>2
  <2>3. QED
    BY <1>9, <1>0, <2>2 DEF StealMiss, LifeInv
<1>10. ASSUME NEW w \in Workers, StealBusy(w) PROVE LifeInv'
  <2>1. \A x \in Workers : Empty(x)' = Empty(x)
    BY <1>10 DEF StealBusy, Empty
  <2>2. ASSUME NEW x \in Workers
        PROVE  /\ pc'[x] # "new" <=> Alive(x)'
               /\ pc'[x] \in {"drain", "drainpop", "drun", "exit"} => caller' = "join"
               /\ pc'[x] \in {"new", "exit"} => Empty(x)'
    <3>1. CASE x = w
      BY <1>10, <1>0, <2>1, <3>1, LifeAt DEF StealBusy, Alive, LifeInv, TypeOK
    <3>2. CASE x # w
      BY <1>10, <1>0, <2>1, <3>2, LifeAt DEF StealBusy, Alive, TypeOK
    <3>3. QED
      BY <3>1, <3>2
  <2>3. QED
    BY <1>10, <1>0, <2>2 DEF StealBusy, LifeInv
<1>11. ASSUME NEW w \in Workers, StealDestroyed(w) PROVE LifeInv'
  <2>1. \A x \in Workers : Empty(x) => Empty(x)'
    <3>1. Victim(w) \in Workers
      <4>1. gn = N
        BY <1>11, <1>0 DEF StealDestroyed, TypeOK
      <4>2. QED
        BY <4>1, <1>0, VictimWorker
    <3>2. ~Empty(Victim(w)) \/ UNCHANGED lanes
      BY <1>11, <1>0, <3>1 DEF StealDestroyed, JobInv, HandInv, Reading, Source, Empty, Cold, TypeOK
    <3>3. \A x \in Workers : x # Victim(w) => lanes'[x] = lanes[x]
      BY <1>11, <1>0, <3>1 DEF StealDestroyed, Advance, TypeOK
    <3>4. QED
      BY <3>2, <3>3 DEF Empty
  <2>2. ASSUME NEW x \in Workers
        PROVE  /\ pc'[x] # "new" <=> Alive(x)'
               /\ pc'[x] \in {"drain", "drainpop", "drun", "exit"} => caller' = "join"
               /\ pc'[x] \in {"new", "exit"} => Empty(x)'
    <3>1. CASE x = w
      BY <1>11, <1>0, <2>1, <3>1, LifeAt DEF StealDestroyed, Alive, LifeInv, TypeOK
    <3>2. CASE x # w
      BY <1>11, <1>0, <2>1, <3>2, LifeAt DEF StealDestroyed, Alive, TypeOK
    <3>3. QED
      BY <3>1, <3>2
  <2>3. QED
    BY <1>11, <1>0, <2>2 DEF StealDestroyed, LifeInv
<1>12. ASSUME NEW w \in Workers, StealEnd(w) PROVE LifeInv'
  <2>1. \A x \in Workers : Empty(x)' = Empty(x)
    BY <1>12 DEF StealEnd, Empty
  <2>2. ASSUME NEW x \in Workers
        PROVE  /\ pc'[x] # "new" <=> Alive(x)'
               /\ pc'[x] \in {"drain", "drainpop", "drun", "exit"} => caller' = "join"
               /\ pc'[x] \in {"new", "exit"} => Empty(x)'
    <3>1. CASE x = w
      BY <1>12, <1>0, <2>1, <3>1, LifeAt DEF StealEnd, Alive, LifeInv, TypeOK
    <3>2. CASE x # w
      BY <1>12, <1>0, <2>1, <3>2, LifeAt DEF StealEnd, Alive, TypeOK
    <3>3. QED
      BY <3>1, <3>2
  <2>3. QED
    BY <1>12, <1>0, <2>2 DEF StealEnd, LifeInv
<1>13. ASSUME NEW w \in Workers, Run(w) PROVE LifeInv'
  <2>1. \A x \in Workers : Empty(x)' = Empty(x)
    BY <1>13 DEF Run, Empty
  <2>2. ASSUME NEW x \in Workers
        PROVE  /\ pc'[x] # "new" <=> Alive(x)'
               /\ pc'[x] \in {"drain", "drainpop", "drun", "exit"} => caller' = "join"
               /\ pc'[x] \in {"new", "exit"} => Empty(x)'
    <3>1. CASE x = w
      BY <1>13, <1>0, <2>1, <3>1, LifeAt DEF Run, Alive, LifeInv, TypeOK
    <3>2. CASE x # w
      BY <1>13, <1>0, <2>1, <3>2, LifeAt DEF Run, Alive, TypeOK
    <3>3. QED
      BY <3>1, <3>2
  <2>3. QED
    BY <1>13, <1>0, <2>2 DEF Run, LifeInv
<1>14. ASSUME NEW w \in Workers, DrainLock(w) PROVE LifeInv'
  <2>1. \A x \in Workers : Empty(x)' = Empty(x)
    BY <1>14 DEF DrainLock, Empty
  <2>2. ASSUME NEW x \in Workers
        PROVE  /\ pc'[x] # "new" <=> Alive(x)'
               /\ pc'[x] \in {"drain", "drainpop", "drun", "exit"} => caller' = "join"
               /\ pc'[x] \in {"new", "exit"} => Empty(x)'
    <3>1. CASE x = w
      BY <1>14, <1>0, <2>1, <3>1, LifeAt DEF DrainLock, Alive, LifeInv, TypeOK
    <3>2. CASE x # w
      BY <1>14, <1>0, <2>1, <3>2, LifeAt DEF DrainLock, Alive, TypeOK
    <3>3. QED
      BY <3>1, <3>2
  <2>3. QED
    BY <1>14, <1>0, <2>2 DEF DrainLock, LifeInv
<1>15. ASSUME NEW w \in Workers, DrainPop(w) PROVE LifeInv'
  <2>1. \A x \in Workers : x # w => Empty(x)' = Empty(x)
    BY <1>15, <1>0 DEF DrainPop, Advance, Empty, TypeOK
  <2>2. ASSUME NEW x \in Workers
        PROVE  /\ pc'[x] # "new" <=> Alive(x)'
               /\ pc'[x] \in {"drain", "drainpop", "drun", "exit"} => caller' = "join"
               /\ pc'[x] \in {"new", "exit"} => Empty(x)'
    <3>1. CASE x = w
      BY <1>15, <1>0, <2>1, <3>1, LifeAt DEF DrainPop, Alive, LifeInv, TypeOK
    <3>2. CASE x # w
      BY <1>15, <1>0, <2>1, <3>2, LifeAt DEF DrainPop, Alive, TypeOK
    <3>3. QED
      BY <3>1, <3>2
  <2>3. QED
    BY <1>15, <1>0, <2>2 DEF DrainPop, LifeInv
<1>16. ASSUME InitCall PROVE LifeInv'
  <2>1. \A x \in Workers : pc'[x] \in {"new", "exit"} => Empty(x)'
    BY <1>16, <1>0, LifeAt DEF InitCall, Empty, TypeOK
  <2>2. \A x \in Workers :
          /\ pc'[x] # "new" <=> Alive(x)'
          /\ pc'[x] \in {"drain", "drainpop", "drun", "exit"} => caller' = "join"
    BY <1>16, <1>0, LifeAt, PoolConstants DEF InitCall, Alive, LifeInv, TypeOK, Workers
  <2>3. QED
    BY <1>16, <1>0, <2>1, <2>2, PoolConstants DEF InitCall, LifeInv, TypeOK
<1>17. ASSUME CreateWorker PROVE LifeInv'
  <2>0. /\ caller = "create" /\ caller' = "create" /\ created' = created + 1
        /\ created \in 0..N /\ created < N /\ N \in Nat
    BY <1>17, <1>0, PoolConstants DEF CreateWorker, TypeOK
  <2>1. created \in Workers /\ \A x \in Workers : x = created => Alive(x)'
    BY <2>0 DEF Workers, Alive
  <2>2. \A x \in Workers : x # created => Alive(x)' = Alive(x)
    BY <2>0 DEF Workers, Alive
  <2>3. \A x \in Workers : Empty(x)' = Empty(x)
    BY <1>17 DEF CreateWorker, Empty
  <2>4. pc \in [Workers -> WorkerPc] /\ pc' = [pc EXCEPT ![created] = "loop"]
    BY <1>17, <1>0 DEF CreateWorker, TypeOK
  <2>5. ASSUME NEW x \in Workers
        PROVE  /\ pc'[x] # "new" <=> Alive(x)'
               /\ pc'[x] \in {"drain", "drainpop", "drun", "exit"} => caller' = "join"
               /\ pc'[x] \in {"new", "exit"} => Empty(x)'
    <3>1. CASE x = created
      BY <2>1, <2>4, <3>1
    <3>2. CASE x # created
      BY <1>0, <2>0, <2>2, <2>3, <2>4, <3>2, LifeAt
    <3>3. QED
      BY <3>1, <3>2
  <2>6. QED
    BY <1>17, <1>0, <2>0, <2>5 DEF CreateWorker, LifeInv
<1>18. ASSUME CreateFails PROVE LifeInv'
  <2>0. /\ caller = "create" /\ caller' = "join" /\ created' = created /\ idx' = 0
        /\ created \in 0..N /\ N \in Nat
    BY <1>18, <1>0, PoolConstants DEF CreateFails, TypeOK
  <2>1. \A x \in Workers : Alive(x)' = Alive(x)
    BY <2>0 DEF Workers, Alive
  <2>2. \A x \in Workers : Empty(x)' = Empty(x)
    BY <1>18 DEF CreateFails, Empty
  <2>3. ASSUME NEW x \in Workers
        PROVE  /\ pc'[x] # "new" <=> Alive(x)'
               /\ pc'[x] \in {"drain", "drainpop", "drun", "exit"} => caller' = "join"
               /\ pc'[x] \in {"new", "exit"} => Empty(x)'
    BY <1>18, <1>0, <2>0, <2>1, <2>2, LifeAt DEF CreateFails
  <2>4. QED
    BY <1>18, <1>0, <2>0, <2>3 DEF CreateFails, LifeInv
<1>19. ASSUME ResetStats PROVE LifeInv'
  <2>1. \A x \in Workers : pc'[x] \in {"new", "exit"} => Empty(x)'
    BY <1>19, <1>0, LifeAt DEF ResetStats, Empty, TypeOK
  <2>2. \A x \in Workers :
          /\ pc'[x] # "new" <=> Alive(x)'
          /\ pc'[x] \in {"drain", "drainpop", "drun", "exit"} => caller' = "join"
    BY <1>19, <1>0, LifeAt, PoolConstants DEF ResetStats, Alive, LifeInv, TypeOK, Workers
  <2>3. QED
    BY <1>19, <1>0, <2>1, <2>2, PoolConstants DEF ResetStats, LifeInv, TypeOK
<1>20. ASSUME NEW w \in Workers, Fault(w) PROVE LifeInv'
  <2>1. \A x \in Workers : Empty(x)' = Empty(x)
    BY <1>20 DEF Fault, Empty
  <2>2. ASSUME NEW x \in Workers
        PROVE  /\ pc'[x] # "new" <=> Alive(x)'
               /\ pc'[x] \in {"drain", "drainpop", "drun", "exit"} => caller' = "join"
               /\ pc'[x] \in {"new", "exit"} => Empty(x)'
    <3>1. CASE x = w
      BY <1>20, <1>0, <2>1, <3>1, LifeAt DEF Fault, Alive, LifeInv, TypeOK
    <3>2. CASE x # w
      BY <1>20, <1>0, <2>1, <3>2, LifeAt DEF Fault, Alive, TypeOK
    <3>3. QED
      BY <3>1, <3>2
  <2>3. QED
    BY <1>20, <1>0, <2>2 DEF Fault, LifeInv
<1>21. ASSUME Publish PROVE LifeInv'
  <2>1. \A x \in Workers : pc'[x] \in {"new", "exit"} => Empty(x)'
    BY <1>21, <1>0, LifeAt DEF Publish, Empty, TypeOK
  <2>2. \A x \in Workers :
          /\ pc'[x] # "new" <=> Alive(x)'
          /\ pc'[x] \in {"drain", "drainpop", "drun", "exit"} => caller' = "join"
    BY <1>21, <1>0, LifeAt, PoolConstants DEF Publish, Alive, LifeInv, TypeOK, Workers
  <2>3. QED
    BY <1>21, <1>0, <2>1, <2>2, PoolConstants DEF Publish, LifeInv, TypeOK
<1>22. ASSUME SubmitLock PROVE LifeInv'
  <2>1. \A x \in Workers : pc'[x] \in {"new", "exit"} => Empty(x)'
    BY <1>22, <1>0, LifeAt DEF SubmitLock, Empty, TypeOK
  <2>2. \A x \in Workers :
          /\ pc'[x] # "new" <=> Alive(x)'
          /\ pc'[x] \in {"drain", "drainpop", "drun", "exit"} => caller' = "join"
    BY <1>22, <1>0, LifeAt, PoolConstants DEF SubmitLock, Alive, LifeInv, TypeOK, Workers
  <2>3. QED
    BY <1>22, <1>0, <2>1, <2>2, PoolConstants DEF SubmitLock, LifeInv, TypeOK
<1>23. ASSUME SubmitFull PROVE LifeInv'
  <2>1. \A x \in Workers : pc'[x] \in {"new", "exit"} => Empty(x)'
    BY <1>23, <1>0, LifeAt DEF SubmitFull, Empty, TypeOK
  <2>2. \A x \in Workers :
          /\ pc'[x] # "new" <=> Alive(x)'
          /\ pc'[x] \in {"drain", "drainpop", "drun", "exit"} => caller' = "join"
    BY <1>23, <1>0, LifeAt, PoolConstants DEF SubmitFull, Alive, LifeInv, TypeOK, Workers
  <2>3. QED
    BY <1>23, <1>0, <2>1, <2>2, PoolConstants DEF SubmitFull, LifeInv, TypeOK
<1>24. ASSUME SubmitReturn PROVE LifeInv'
  <2>1. \A x \in Workers : pc'[x] \in {"new", "exit"} => Empty(x)'
    BY <1>24, <1>0, LifeAt DEF SubmitReturn, Empty, TypeOK
  <2>2. \A x \in Workers :
          /\ pc'[x] # "new" <=> Alive(x)'
          /\ pc'[x] \in {"drain", "drainpop", "drun", "exit"} => caller' = "join"
    BY <1>24, <1>0, LifeAt, PoolConstants DEF SubmitReturn, Alive, LifeInv, TypeOK, Workers
  <2>3. QED
    BY <1>24, <1>0, <2>1, <2>2, PoolConstants DEF SubmitReturn, LifeInv, TypeOK
<1>25. ASSUME ShutdownCall PROVE LifeInv'
  <2>1. \A x \in Workers : pc'[x] \in {"new", "exit"} => Empty(x)'
    BY <1>25, <1>0, LifeAt DEF ShutdownCall, Empty, TypeOK
  <2>2. \A x \in Workers :
          /\ pc'[x] # "new" <=> Alive(x)'
          /\ pc'[x] \in {"drain", "drainpop", "drun", "exit"} => caller' = "join"
    BY <1>25, <1>0, LifeAt, PoolConstants DEF ShutdownCall, Alive, LifeInv, TypeOK, Workers
  <2>3. QED
    BY <1>25, <1>0, <2>1, <2>2, PoolConstants DEF ShutdownCall, LifeInv, TypeOK
<1>26. ASSUME Join PROVE LifeInv'
  <2>0. /\ caller = "join" /\ caller' = "join" /\ created' = created /\ idx' = idx + 1
        /\ created \in 0..N /\ idx \in 0..N /\ idx < created /\ N \in Nat
    BY <1>26, <1>0, PoolConstants DEF Join, TypeOK
  <2>1. idx \in Workers /\ \A x \in Workers : x = idx => ~Alive(x)'
    BY <2>0 DEF Workers, Alive
  <2>2. \A x \in Workers : x # idx => Alive(x)' = Alive(x)
    BY <2>0 DEF Workers, Alive
  <2>3. \A x \in Workers : Empty(x)' = Empty(x)
    BY <1>26 DEF Join, Empty
  <2>4. /\ pc \in [Workers -> WorkerPc] /\ pc' = [pc EXCEPT ![idx] = "new"]
        /\ pc[idx] = "exit"
    BY <1>26, <1>0 DEF Join, TypeOK
  <2>5. ASSUME NEW x \in Workers
        PROVE  /\ pc'[x] # "new" <=> Alive(x)'
               /\ pc'[x] \in {"drain", "drainpop", "drun", "exit"} => caller' = "join"
               /\ pc'[x] \in {"new", "exit"} => Empty(x)'
    <3>1. CASE x = idx
      BY <1>0, <2>1, <2>3, <2>4, <3>1, LifeAt
    <3>2. CASE x # idx
      BY <1>0, <2>0, <2>2, <2>3, <2>4, <3>2, LifeAt
    <3>3. QED
      BY <3>1, <3>2
  <2>6. QED
    BY <1>26, <1>0, <2>0, <2>5 DEF Join, LifeInv
<1>27. ASSUME FreePool PROVE LifeInv'
  <2>1. \A x \in Workers : pc[x] = "new"
    BY <1>27, <1>0, LifeAt DEF FreePool, Alive, TypeOK, Workers
  <2>2. \A x \in Workers : Empty(x)'
    BY <1>27 DEF FreePool, Empty
  <2>3. \A x \in Workers : ~Alive(x)'
    BY <1>27 DEF FreePool, Alive
  <2>4. QED
    BY <1>27, <1>0, <2>1, <2>2, <2>3, PoolConstants DEF FreePool, LifeInv, TypeOK
<1>28. ASSUME NEW p \in Lanes, Submit(p) PROVE LifeInv'
  <2>1. \A x \in Workers : pc'[x] \in {"new", "exit"} => Empty(x)'
    BY <1>28, <1>0, LifeAt DEF Submit, Empty, TypeOK
  <2>2. \A x \in Workers :
          /\ pc'[x] # "new" <=> Alive(x)'
          /\ pc'[x] \in {"drain", "drainpop", "drun", "exit"} => caller' = "join"
    BY <1>28, <1>0, LifeAt, PoolConstants DEF Submit, Alive, LifeInv, TypeOK, Workers
  <2>3. QED
    BY <1>28, <1>0, <2>1, <2>2, PoolConstants DEF Submit, LifeInv, TypeOK
<1>29. ASSUME SubmitPut PROVE LifeInv'
  <2>1. pc[tgt] \notin {"new", "exit"} /\ tgt \in Workers
    BY <1>29, <1>0, LifeAt DEF SubmitPut, Alive, TypeOK
  <2>2. \A x \in Workers : pc'[x] \in {"new", "exit"} => Empty(x)'
    BY <1>29, <1>0, <2>1, LifeAt DEF SubmitPut, Empty, TypeOK
  <2>3. \A x \in Workers :
          /\ pc'[x] # "new" <=> Alive(x)'
          /\ pc'[x] \in {"drain", "drainpop", "drun", "exit"} => caller' = "join"
    BY <1>29, <1>0, LifeAt DEF SubmitPut, Alive
  <2>4. QED
    BY <1>29, <1>0, <2>2, <2>3 DEF SubmitPut, LifeInv
<1>30. QED
  BY <1>1, <1>2, <1>3, <1>4, <1>5, <1>6, <1>7, <1>8, <1>9, <1>10, <1>11, <1>12, <1>13, <1>14, <1>15, <1>16, <1>17, <1>18, <1>19, <1>20, <1>21, <1>22, <1>23, <1>24, <1>25, <1>26, <1>27, <1>28, <1>29 DEF Next, Worker, CallerProceeds

-------------------------------------------------------------------------------
(* Jobs.                                                                       *)

\* A job that was read but not taken is still in a ring.
LEMMA ReadingInRing ==
  ASSUME TypeOK, LockInv, JobInv, NEW x \in Workers, Reading(x)
  PROVE  Source(x) \in Workers /\ job[x] \in Jobs /\ InRing(job[x])
<1>1. Source(x) \in Workers /\ lane[x] \in Lanes
  BY VictimWorker DEF Reading, Source, LockInv, Holds, TypeOK
<1>2. lanes \in RingsType /\ lanes[Source(x)][lane[x]] # <<>>
      /\ job[x] = Head(lanes[Source(x)][lane[x]])
  BY DEF JobInv, HandInv, TypeOK, RingsType
<1>3. job[x] \in Jobs /\ job[x] = lanes[Source(x)][lane[x]][1]
  <2>1. lanes[Source(x)][lane[x]] \in Seq(Jobs)
    BY <1>1, <1>2 DEF RingsType
  <2>2. \A s \in Seq(Jobs) : s # <<>> => Head(s) = s[1] /\ Head(s) \in Jobs
    OBVIOUS
  <2>3. QED
    BY <1>2, <2>1, <2>2
<1>4. 1 \in 1..Len(lanes[Source(x)][lane[x]])
  BY <1>1, <1>2 DEF RingsType
<1>5. QED
  BY <1>1, <1>3, <1>4 DEF InRing

\* Advancing a lane takes its head, and only its head, out of the rings.
LEMMA PopEffect ==
  ASSUME TypeOK, JobInv, NEW v \in Workers, NEW l \in Lanes, lanes[v][l] # <<>>,
         lanes' = [lanes EXCEPT ![v][l] = Tail(@)],
         accepted' = accepted, ran' = ran
  PROVE  /\ RingJobsDistinct' /\ RingJobsWait'
         /\ \A j : InRing(j)' <=> InRing(j) /\ j # Head(lanes[v][l])
         /\ \A a \in Workers, b \in Lanes : <<a, b>> # <<v, l>> => lanes'[a][b] = lanes[a][b]
         /\ Head(lanes[v][l]) \in accepted /\ ran[Head(lanes[v][l])] = 0
         /\ InRing(Head(lanes[v][l]))
<1>0. lanes \in RingsType /\ lanes' \in RingsType
  BY AdvanceRing DEF TypeOK, RingsType
<1>1. /\ Len(lanes'[v][l]) = Len(lanes[v][l]) - 1
      /\ \A i \in 1..Len(lanes'[v][l]) : lanes'[v][l][i] = lanes[v][l][i+1]
      /\ \A a \in Workers, b \in Lanes : <<a, b>> # <<v, l>> => lanes'[a][b] = lanes[a][b]
      /\ Head(lanes[v][l]) = lanes[v][l][1]
  BY <1>0, AdvanceRing
<1>2. \A a \in Workers, b \in Lanes : Len(lanes[a][b]) \in Nat /\ Len(lanes'[a][b]) \in Nat
  BY <1>0 DEF RingsType
<1>3. 1 \in 1..Len(lanes[v][l])
  BY <1>1, <1>2
<1> DEFINE from(a, b, i) == IF <<a, b>> = <<v, l>> THEN i + 1 ELSE i
<1>4. \A a \in Workers, b \in Lanes : \A i \in 1..Len(lanes'[a][b]) :
        /\ from(a, b, i) \in 1..Len(lanes[a][b])
        /\ lanes'[a][b][i] = lanes[a][b][from(a, b, i)]
        /\ <<a, b>> = <<v, l>> => from(a, b, i) # 1
        /\ i \in Nat /\ (from(a, b, i) = i \/ from(a, b, i) = i + 1)
  BY <1>1, <1>2
<1>5. \A a \in Workers, b \in Lanes : \A i1, i2 \in Nat :
        from(a, b, i1) = from(a, b, i2) => i1 = i2
  OBVIOUS
<1> HIDE DEF from
<1>6. RingJobsDistinct'
  <2>1. SUFFICES ASSUME NEW a1 \in Workers, NEW a2 \in Workers, NEW b1 \in Lanes, NEW b2 \in Lanes,
                        NEW i1 \in 1..Len(lanes'[a1][b1]), NEW i2 \in 1..Len(lanes'[a2][b2]),
                        lanes'[a1][b1][i1] = lanes'[a2][b2][i2]
                 PROVE  a1 = a2 /\ b1 = b2 /\ i1 = i2
    BY DEF RingJobsDistinct
  <2>2. lanes[a1][b1][from(a1, b1, i1)] = lanes[a2][b2][from(a2, b2, i2)]
    BY <1>4, <2>1
  <2>3. a1 = a2 /\ b1 = b2 /\ from(a1, b1, i1) = from(a2, b2, i2)
    BY <1>4, <2>2 DEF RingJobsDistinct, JobInv
  <2>4. QED
    BY <1>4, <1>5, <2>3
<1>7. RingJobsWait'
  BY <1>4 DEF RingJobsWait, JobInv
<1>8. \A j : InRing(j)' => InRing(j)
  BY <1>4 DEF InRing
<1>9. \A j : j = Head(lanes[v][l]) => ~InRing(j)'
  <2>1. SUFFICES ASSUME NEW a \in Workers, NEW b \in Lanes, NEW i \in 1..Len(lanes'[a][b]),
                        lanes'[a][b][i] = lanes[v][l][1]
                 PROVE  FALSE
    BY <1>1 DEF InRing
  <2>2. lanes[a][b][from(a, b, i)] = lanes[v][l][1] /\ from(a, b, i) \in 1..Len(lanes[a][b])
    BY <1>4, <2>1
  <2>3. a = v /\ b = l /\ from(a, b, i) = 1
    BY <1>3, <2>2 DEF RingJobsDistinct, JobInv
  <2>4. QED
    BY <1>4, <2>3
<1>10. ASSUME NEW j, InRing(j), j # Head(lanes[v][l]) PROVE InRing(j)'
  <2>1. PICK a \in Workers, b \in Lanes : \E i \in 1..Len(lanes[a][b]) : lanes[a][b][i] = j
    BY <1>10 DEF InRing
  <2>2. PICK i \in 1..Len(lanes[a][b]) : lanes[a][b][i] = j
    BY <2>1
  <2>3. CASE <<a, b>> = <<v, l>>
    <3>1. i # 1 /\ i - 1 \in 1..Len(lanes'[a][b]) /\ lanes'[a][b][i-1] = j
      BY <1>1, <1>2, <1>10, <2>2, <2>3
    <3>2. QED
      BY <3>1 DEF InRing
  <2>4. CASE <<a, b>> # <<v, l>>
    BY <1>1, <2>2, <2>4 DEF InRing
  <2>5. QED
    BY <2>3, <2>4
<1>11. Head(lanes[v][l]) \in accepted /\ ran[Head(lanes[v][l])] = 0 /\ InRing(Head(lanes[v][l]))
  BY <1>1, <1>3 DEF RingJobsWait, JobInv, InRing
<1>12. (\A j : InRing(j)' <=> InRing(j) /\ j # Head(lanes[v][l]))
  <2>1. TAKE j
  <2>2. InRing(j)' => j # Head(lanes[v][l])
    BY <1>9
  <2>3. QED
    BY <1>8, <1>10, <2>2
<1>13. QED
  BY <1>1, <1>6, <1>7, <1>11, <1>12

\* Appending the job being submitted puts it, and only it, into the rings.
LEMMA PushEffect ==
  ASSUME TypeOK, JobInv, NEW v \in Workers, NEW l \in Lanes, NEW s \in Jobs,
         s \notin accepted, ran[s] = 0,
         lanes' = [lanes EXCEPT ![v][l] = Append(@, s)],
         accepted' = accepted \cup {s}, ran' = ran
  PROVE  /\ RingJobsDistinct' /\ RingJobsWait'
         /\ \A j : InRing(j)' <=> InRing(j) \/ j = s
         /\ \A a \in Workers, b \in Lanes : lanes[a][b] # <<>> =>
              lanes'[a][b] # <<>> /\ Head(lanes'[a][b]) = Head(lanes[a][b])
<1>0. lanes \in RingsType /\ lanes' \in RingsType
  BY AppendRing DEF TypeOK, RingsType
<1>1. /\ Len(lanes'[v][l]) = Len(lanes[v][l]) + 1
      /\ \A i \in 1..Len(lanes[v][l]) : lanes'[v][l][i] = lanes[v][l][i]
      /\ lanes'[v][l][Len(lanes[v][l]) + 1] = s
      /\ \A a \in Workers, b \in Lanes : <<a, b>> # <<v, l>> => lanes'[a][b] = lanes[a][b]
  BY <1>0, AppendRing
<1>2. \A a \in Workers, b \in Lanes : Len(lanes[a][b]) \in Nat /\ Len(lanes'[a][b]) \in Nat
  BY <1>0 DEF RingsType
<1> DEFINE isNew(a, b, i) == a = v /\ b = l /\ i = Len(lanes[v][l]) + 1
<1>3. \A a \in Workers, b \in Lanes : \A i \in 1..Len(lanes'[a][b]) :
        IF isNew(a, b, i) THEN lanes'[a][b][i] = s
        ELSE i \in 1..Len(lanes[a][b]) /\ lanes'[a][b][i] = lanes[a][b][i]
  BY <1>1, <1>2
<1>4. \A a \in Workers, b \in Lanes : \A i \in 1..Len(lanes[a][b]) :
        /\ i \in 1..Len(lanes'[a][b]) /\ lanes'[a][b][i] = lanes[a][b][i]
        /\ lanes[a][b][i] # s
  BY <1>1, <1>2 DEF JobInv, RingJobsWait
<1>5. Len(lanes[v][l]) + 1 \in 1..Len(lanes'[v][l])
  BY <1>1, <1>2
<1>6. RingJobsDistinct'
  <2>1. SUFFICES ASSUME NEW a1 \in Workers, NEW a2 \in Workers, NEW b1 \in Lanes, NEW b2 \in Lanes,
                        NEW i1 \in 1..Len(lanes'[a1][b1]), NEW i2 \in 1..Len(lanes'[a2][b2]),
                        lanes'[a1][b1][i1] = lanes'[a2][b2][i2]
                 PROVE  a1 = a2 /\ b1 = b2 /\ i1 = i2
    BY DEF RingJobsDistinct
  <2>2. isNew(a1, b1, i1) <=> isNew(a2, b2, i2)
    BY <1>3, <1>4, <2>1
  <2>3. QED
    BY <1>3, <2>1, <2>2 DEF RingJobsDistinct, JobInv
<1>7. RingJobsWait'
  BY <1>3 DEF RingJobsWait, JobInv
<1>8. \A j : InRing(j)' <=> InRing(j) \/ j = s
  <2>1. ASSUME NEW j, InRing(j)' PROVE InRing(j) \/ j = s
    BY <1>3, <2>1 DEF InRing
  <2>2. ASSUME NEW j, InRing(j) PROVE InRing(j)'
    BY <1>4, <2>2 DEF InRing
  <2>3. \A j : j = s => InRing(j)'
    BY <1>1, <1>5 DEF InRing
  <2>4. QED
    BY <2>1, <2>2, <2>3
<1>9. ASSUME NEW a \in Workers, NEW b \in Lanes, lanes[a][b] # <<>>
      PROVE  lanes'[a][b] # <<>> /\ Head(lanes'[a][b]) = Head(lanes[a][b])
  <2>1. \A q \in Seq(Jobs) : q # <<>> => Append(q, s) # <<>> /\ Head(Append(q, s)) = Head(q)
    OBVIOUS
  <2>2. lanes[a][b] \in Seq(Jobs)
    BY <1>0 DEF RingsType
  <2>3. lanes'[a][b] = lanes[a][b] \/ lanes'[a][b] = Append(lanes[a][b], s)
    BY <1>0, <1>1 DEF RingsType
  <2>4. QED
    BY <1>9, <2>1, <2>2, <2>3
<1>10. QED
  BY <1>6, <1>7, <1>8, <1>9

\* A worker whose locals do not change keeps what it has in hand while the rings
\* do not change.
LEMMA HandFrame ==
  ASSUME NEW x \in Workers, HandInv(x),
         pc'[x] = pc[x], job'[x] = job[x], lane'[x] = lane[x],
         k'[x] = k[x], gn' = gn \/ ~Reading(x),
         lanes' = lanes, accepted' = accepted, ran' = ran
  PROVE  HandInv(x)'
<1>1. Reading(x)' = Reading(x) /\ Started(x)' = Started(x)
  BY DEF Reading, Started
<1>2. InRing(job[x])' = InRing(job[x])
  BY DEF InRing
<1>3. Reading(x) => Source(x)' = Source(x)
  BY DEF Reading, Source, Victim
<1>4. QED
  BY <1>1, <1>2, <1>3 DEF HandInv

\* Steps that move no job: the rings stay and so do the jobs that were started.
LEMMA StillStep ==
  ASSUME IInv, TypeOK', lanes' = lanes, ran' = ran, accepted' = accepted,
         \A x \in Workers : HandInv(x)',
         \A x \in Workers : Started(x)' <=> Started(x),
         \A x \in Workers : Started(x) => job'[x] = job[x],
         sent <= sent',
         caller' \in {"lock", "put"} => sent' \in Jobs \ accepted
  PROVE  /\ JobInv' /\ NeverTwice' /\ NothingLost'
         /\ Pending' = Pending /\ Running' = Running /\ Finished' = Finished
<1>1. TypeOK /\ JobInv /\ LockInv /\ NeverTwice /\ NothingLost
  BY DEF IInv
<1>2. RingJobsDistinct' /\ RingJobsWait' /\ \A j : InRing(j)' = InRing(j)
  BY <1>1 DEF JobInv, RingJobsDistinct, RingJobsWait, InRing
<1>3. \A w1, w2 \in Workers :
        Started(w1)' /\ Started(w2)' /\ job'[w1] = job'[w2] => w1 = w2
  BY <1>1 DEF JobInv
<1>4. accepted' \subseteq 1..sent'
  BY <1>1 DEF JobInv, TypeOK
<1>5. JobInv'
  BY <1>2, <1>3, <1>4 DEF JobInv
<1>6. NeverTwice'
  BY <1>1 DEF NeverTwice
<1>7. NothingLost'
  <2>1. SUFFICES ASSUME NEW j \in accepted
                 PROVE  ran[j] = 1 \/ InRing(j) \/ \E w \in Workers : job'[w] = j
    BY <1>2 DEF NothingLost
  <2>2. ASSUME NEW w \in Workers, job[w] = j PROVE InRing(j) \/ job'[w] = j
    <3>1. j # NoJob
      BY <1>1 DEF TypeOK, Jobs, NoJob
    <3>2. Reading(w) \/ Started(w)
      BY <1>1, <2>2, <3>1 DEF JobInv, HandInv
    <3>3. QED
      BY <1>1, <2>2, <3>2, ReadingInRing
  <2>3. QED
    BY <1>1, <2>2 DEF NothingLost
<1>8. Pending' = Pending /\ Finished' = Finished
  BY <1>2 DEF Pending, Finished
<1>9. Running' = Running
  BY DEF Running
<1>10. QED
  BY <1>5, <1>6, <1>7, <1>8, <1>9

\* Steps that take the job at the head of one lane: it goes from the ring into
\* the hands of worker w.
LEMMA TakeStep ==
  ASSUME IInv, TypeOK', NEW w \in Workers, NEW v \in Workers, NEW l \in Lanes,
         lanes[v][l] # <<>>,
         lanes' = [lanes EXCEPT ![v][l] = Tail(@)],
         ran' = ran, accepted' = accepted, sent' = sent, gn' = gn, caller' = caller,
         ~Started(w), pc'[w] \in {"leave", "run", "drun"},
         job'[w] = Head(lanes[v][l]),
         \A x \in Workers \ {w} : /\ pc'[x] = pc[x] /\ job'[x] = job[x]
                                  /\ lane'[x] = lane[x] /\ k'[x] = k[x]
                                  /\ Reading(x) => Source(x) # v
  PROVE  /\ JobInv' /\ NeverTwice' /\ NothingLost'
         /\ \E j \in Jobs : /\ j \in Pending
                           /\ Pending' = Pending \ {j} /\ Running' = Running \cup {j}
         /\ Finished' = Finished
<1>1. TypeOK /\ JobInv /\ LockInv /\ NeverTwice /\ NothingLost
  BY DEF IInv
<1>2. /\ RingJobsDistinct' /\ RingJobsWait'
      /\ \A j : InRing(j)' <=> InRing(j) /\ j # Head(lanes[v][l])
      /\ \A a \in Workers, b \in Lanes : <<a, b>> # <<v, l>> => lanes'[a][b] = lanes[a][b]
      /\ Head(lanes[v][l]) \in accepted /\ ran[Head(lanes[v][l])] = 0
      /\ InRing(Head(lanes[v][l]))
  BY <1>1, PopEffect
<1>3. job'[w] \in Jobs /\ job'[w] # NoJob
  BY <1>1, HeadIsJob DEF Jobs, NoJob
<1>4. Started(w)' /\ ~Reading(w)' /\ HandInv(w)'
  <2>1. Started(w)' /\ ~Reading(w)'
    BY <1>3 DEF Started, Reading
  <2>2. \A j : j = job'[w] => ~InRing(j)'
    BY <1>2
  <2>3. QED
    BY <1>2, <1>3, <2>1, <2>2 DEF HandInv
<1>5. ASSUME NEW x \in Workers \ {w}
      PROVE  HandInv(x)' /\ Started(x)' = Started(x) /\ Reading(x)' = Reading(x)
  <2>1. Reading(x)' = Reading(x) /\ Started(x)' = Started(x)
    BY DEF Reading, Started
  <2>2. Reading(x) => /\ Source(x)' = Source(x) /\ Source(x) \in Workers
                      /\ lanes'[Source(x)] [lane[x]] = lanes[Source(x)][lane[x]]
    <3>1. ASSUME Reading(x) PROVE Source(x)' = Source(x)
      BY DEF Source, Victim
    <3>2. ASSUME Reading(x) PROVE Source(x) \in Workers /\ lane[x] \in Lanes /\ Source(x) # v
      BY <1>1, <3>2, ReadingInRing DEF TypeOK
    <3>3. QED
      BY <1>2, <3>1, <3>2
  <2>3. InRing(job[x])' => InRing(job[x])
    BY <1>2
  <2>4. HandInv(x)
    BY <1>1 DEF JobInv
  <2>5. QED
    BY <2>1, <2>2, <2>3, <2>4 DEF HandInv
<1>6. \A w1, w2 \in Workers :
        Started(w1)' /\ Started(w2)' /\ job'[w1] = job'[w2] => w1 = w2
  <2>1. \A x \in Workers \ {w} : Started(x)' => job'[x] # job'[w]
    BY <1>1, <1>2, <1>5 DEF JobInv, HandInv
  <2>2. \A w1, w2 \in Workers \ {w} :
          Started(w1)' /\ Started(w2)' /\ job'[w1] = job'[w2] => w1 = w2
    BY <1>1, <1>5 DEF JobInv
  <2>3. QED
    BY <2>1, <2>2
<1>7. JobInv'
  BY <1>1, <1>2, <1>4, <1>5, <1>6 DEF JobInv
<1>8. NeverTwice'
  BY <1>1 DEF NeverTwice
<1>9. NothingLost'
  <2>1. SUFFICES ASSUME NEW j \in accepted
                 PROVE  ran[j] = 1 \/ InRing(j)' \/ \E x \in Workers : job'[x] = j
    BY DEF NothingLost
  <2>2. CASE j = Head(lanes[v][l])
    BY <2>2
  <2>3. CASE j # Head(lanes[v][l]) /\ InRing(j)
    BY <1>2, <2>3
  <2>4. ASSUME NEW x \in Workers, job[x] = j, ~InRing(j) PROVE job'[x] = j
    <3>1. j # NoJob
      BY <1>1 DEF TypeOK, Jobs, NoJob
    <3>2. Started(x)
      BY <1>1, <2>4, <3>1, ReadingInRing DEF JobInv, HandInv
    <3>3. QED
      BY <2>4, <3>2
  <2>5. QED
    BY <1>1, <2>2, <2>3, <2>4 DEF NothingLost
<1>10. Finished' = Finished
  BY DEF Finished
<1>11. /\ Head(lanes[v][l]) \in Jobs /\ Head(lanes[v][l]) \in Pending
       /\ Pending' = Pending \ {Head(lanes[v][l])}
       /\ Running' = Running \cup {Head(lanes[v][l])}
  <2>1. Head(lanes[v][l]) \in Jobs
    BY <1>3
  <2>2. Pending' = Pending \ {Head(lanes[v][l])} /\ Head(lanes[v][l]) \in Pending
    BY <1>2, <2>1 DEF Pending
  <2>3. ASSUME NEW j \in Jobs
        PROVE  (\E x \in Workers : Started(x)' /\ job'[x] = j)
                 <=> (\E x \in Workers : Started(x) /\ job[x] = j) \/ j = job'[w]
    <3>1. \A x \in Workers \ {w} : Started(x)' /\ job'[x] = j <=> Started(x) /\ job[x] = j
      BY <1>5
    <3>2. QED
      BY <1>4, <3>1
  <2>4. Running' = Running \cup {Head(lanes[v][l])}
    BY <2>1, <2>3 DEF Running
  <2>5. QED
    BY <2>1, <2>2, <2>4
<1>12. QED
  BY <1>7, <1>8, <1>9, <1>10, <1>11

\* Whoever reads a slot holds the mutex of that ring.
LEMMA ReadingHolds ==
  ASSUME LockInv, NEW x \in Workers, Reading(x)
  PROVE  mu[Source(x)] = x
BY DEF LockInv, Holds, Reading, Source

\* No step duplicates or loses a job, and every step is one the executor allows.
LEMMA JobsStep ==
  ASSUME IInv, TypeOK', Next
  PROVE  JobInv' /\ NeverTwice' /\ NothingLost' /\ [Exec!Next]_(Exec!vars)
<1> DEFINE Goal == JobInv' /\ NeverTwice' /\ NothingLost' /\ [Exec!Next]_(Exec!vars)
<1> USE DEF globals, mutexes, locals, callerVars, history, Goto, Take, Lock, Unlock, Sees
<1>0. TypeOK /\ LockInv /\ LifeInv /\ JobInv
  BY DEF IInv
<1>h. \A x \in Workers : HandInv(x)
  BY <1>0 DEF JobInv
<1>a. \A x \in Workers : x # Free /\ x # Dead /\ x # Tick
  BY PoolConstants DEF Workers, Free, Dead, Tick
<1>1. ASSUME NEW w \in Workers, LoopLock(w) PROVE Goal
  <2>1. \A x \in Workers \ {w} : /\ pc'[x] = pc[x] /\ job'[x] = job[x]
                                 /\ lane'[x] = lane[x] /\ k'[x] = k[x]
    BY <1>1, <1>0 DEF LoopLock, ReadSlot, TypeOK
  <2>2. gn' = gn /\ lanes' = lanes /\ accepted' = accepted /\ ran' = ran
        /\ sent' = sent /\ caller' = caller
    BY <1>1 DEF LoopLock
  <2>3. \A x \in Workers \ {w} : HandInv(x)' /\ Started(x)' = Started(x)
    BY <2>1, <2>2, <1>h, HandFrame DEF Started
  <2>4. HandInv(w)' /\ (Started(w)' <=> Started(w))
    <3>1. job[w] = NoJob /\ ~Started(w)
      BY <1>1, <1>h DEF LoopLock, HandInv, Reading, Started
    <3>2. CASE pc'[w] = "pop"
      <4>1. PICK l \in Lanes : Urgent(w, l) /\ ReadSlot(w, w, l)
        BY <1>1, <1>0, <3>2 DEF LoopLock, TypeOK
      <4>2. job'[w] = Head(lanes[w][l]) /\ lane'[w] = l /\ lanes[w][l] # <<>>
        BY <1>0, <4>1 DEF ReadSlot, Urgent, TypeOK
      <4>3. Reading(w)' /\ ~Started(w)' /\ Source(w)' = w
        BY <1>1, <2>2, <3>2 DEF LoopLock, Reading, Started, Source, Victim
      <4>4. QED
        BY <2>2, <3>1, <3>2, <4>2, <4>3 DEF HandInv
    <3>3. CASE pc'[w] # "pop"
      <4>1. job'[w] = NoJob /\ pc'[w] \in {"check", "leave", "stealmiss", "exit"}
        BY <1>1, <1>0, <3>1, <3>3 DEF LoopLock, TypeOK
      <4>2. ~Reading(w)' /\ ~Started(w)'
        BY <4>1 DEF Reading, Started
      <4>3. QED
        BY <3>1, <4>1, <4>2 DEF HandInv
    <3>4. QED
      BY <3>2, <3>3
  <2>5. Started(w) => job'[w] = job[w]
    BY <1>1 DEF LoopLock, Started
  <2>6. sent <= sent' /\ (caller' \in {"lock", "put"} => sent' \in Jobs \ accepted)
    BY <2>2, <1>0 DEF JobInv, TypeOK
  <2>7. \A x \in Workers : HandInv(x)' /\ (Started(x)' <=> Started(x))
    BY <2>3, <2>4
  <2>8. \A x \in Workers : Started(x) => job'[x] = job[x]
    BY <2>1, <2>5
  <2>9. Phase' = Phase
    BY <1>1 DEF LoopLock, Phase
  <2>10. QED
    BY <2>2, <2>6, <2>7, <2>8, <2>9, StillStep DEF Exec!vars
<1>2. ASSUME NEW w \in Workers, Recheck(w) PROVE Goal
  <2>1. \A x \in Workers \ {w} : /\ pc'[x] = pc[x] /\ job'[x] = job[x]
                                 /\ lane'[x] = lane[x] /\ k'[x] = k[x]
    BY <1>2, <1>0 DEF Recheck, ReadSlot, TypeOK
  <2>2. gn' = gn /\ lanes' = lanes /\ accepted' = accepted /\ ran' = ran
        /\ sent' = sent /\ caller' = caller
    BY <1>2 DEF Recheck
  <2>3. \A x \in Workers \ {w} : HandInv(x)' /\ Started(x)' = Started(x)
    BY <2>1, <2>2, <1>h, HandFrame DEF Started
  <2>4. HandInv(w)' /\ (Started(w)' <=> Started(w))
    <3>1. job[w] = NoJob /\ ~Started(w)
      BY <1>2, <1>h DEF Recheck, HandInv, Reading, Started
    <3>2. CASE pc'[w] = "pop"
      <4>1. PICK l \in Lanes : Urgent(w, l) /\ ReadSlot(w, w, l)
        BY <1>2, <1>0, <3>2 DEF Recheck, TypeOK
      <4>2. job'[w] = Head(lanes[w][l]) /\ lane'[w] = l /\ lanes[w][l] # <<>>
        BY <1>0, <4>1 DEF ReadSlot, Urgent, TypeOK
      <4>3. Reading(w)' /\ ~Started(w)' /\ Source(w)' = w
        BY <1>2, <2>2, <3>2 DEF Recheck, Reading, Started, Source, Victim
      <4>4. QED
        BY <2>2, <3>1, <3>2, <4>2, <4>3 DEF HandInv
    <3>3. CASE pc'[w] # "pop"
      <4>1. job'[w] = NoJob /\ pc'[w] \in {"check", "leave", "stealmiss", "exit"}
        BY <1>2, <1>0, <3>1, <3>3 DEF Recheck, TypeOK
      <4>2. ~Reading(w)' /\ ~Started(w)'
        BY <4>1 DEF Reading, Started
      <4>3. QED
        BY <3>1, <4>1, <4>2 DEF HandInv
    <3>4. QED
      BY <3>2, <3>3
  <2>5. Started(w) => job'[w] = job[w]
    BY <1>2 DEF Recheck, Started
  <2>6. sent <= sent' /\ (caller' \in {"lock", "put"} => sent' \in Jobs \ accepted)
    BY <2>2, <1>0 DEF JobInv, TypeOK
  <2>7. \A x \in Workers : HandInv(x)' /\ (Started(x)' <=> Started(x))
    BY <2>3, <2>4
  <2>8. \A x \in Workers : Started(x) => job'[x] = job[x]
    BY <2>1, <2>5
  <2>9. Phase' = Phase
    BY <1>2 DEF Recheck, Phase
  <2>10. QED
    BY <2>2, <2>6, <2>7, <2>8, <2>9, StillStep DEF Exec!vars
<1>3. ASSUME NEW w \in Workers, DrainLock(w) PROVE Goal
  <2>1. \A x \in Workers \ {w} : /\ pc'[x] = pc[x] /\ job'[x] = job[x]
                                 /\ lane'[x] = lane[x] /\ k'[x] = k[x]
    BY <1>3, <1>0 DEF DrainLock, ReadSlot, TypeOK
  <2>2. gn' = gn /\ lanes' = lanes /\ accepted' = accepted /\ ran' = ran
        /\ sent' = sent /\ caller' = caller
    BY <1>3 DEF DrainLock
  <2>3. \A x \in Workers \ {w} : HandInv(x)' /\ Started(x)' = Started(x)
    BY <2>1, <2>2, <1>h, HandFrame DEF Started
  <2>4. HandInv(w)' /\ (Started(w)' <=> Started(w))
    <3>1. job[w] = NoJob /\ ~Started(w)
      BY <1>3, <1>h DEF DrainLock, HandInv, Reading, Started
    <3>2. CASE pc'[w] = "drainpop"
      <4>1. PICK l \in Lanes : Urgent(w, l) /\ ReadSlot(w, w, l)
        BY <1>3, <1>0, <3>2 DEF DrainLock, TypeOK
      <4>2. job'[w] = Head(lanes[w][l]) /\ lane'[w] = l /\ lanes[w][l] # <<>>
        BY <1>0, <4>1 DEF ReadSlot, Urgent, TypeOK
      <4>3. Reading(w)' /\ ~Started(w)' /\ Source(w)' = w
        BY <1>3, <2>2, <3>2 DEF DrainLock, Reading, Started, Source, Victim
      <4>4. QED
        BY <2>2, <3>1, <3>2, <4>2, <4>3 DEF HandInv
    <3>3. CASE pc'[w] # "drainpop"
      <4>1. job'[w] = NoJob /\ pc'[w] \in {"check", "leave", "stealmiss", "exit"}
        BY <1>3, <1>0, <3>1, <3>3 DEF DrainLock, TypeOK
      <4>2. ~Reading(w)' /\ ~Started(w)'
        BY <4>1 DEF Reading, Started
      <4>3. QED
        BY <3>1, <4>1, <4>2 DEF HandInv
    <3>4. QED
      BY <3>2, <3>3
  <2>5. Started(w) => job'[w] = job[w]
    BY <1>3 DEF DrainLock, Started
  <2>6. sent <= sent' /\ (caller' \in {"lock", "put"} => sent' \in Jobs \ accepted)
    BY <2>2, <1>0 DEF JobInv, TypeOK
  <2>7. \A x \in Workers : HandInv(x)' /\ (Started(x)' <=> Started(x))
    BY <2>3, <2>4
  <2>8. \A x \in Workers : Started(x) => job'[x] = job[x]
    BY <2>1, <2>5
  <2>9. Phase' = Phase
    BY <1>3 DEF DrainLock, Phase
  <2>10. QED
    BY <2>2, <2>6, <2>7, <2>8, <2>9, StillStep DEF Exec!vars
<1>4. ASSUME NEW w \in Workers, StealTry(w) PROVE Goal
  <2>1. \A x \in Workers \ {w} : /\ pc'[x] = pc[x] /\ job'[x] = job[x]
                                 /\ lane'[x] = lane[x] /\ k'[x] = k[x]
    <3>1. \A x \in Workers \ {w} : pc'[x] = pc[x] /\ k'[x] = k[x]
      BY <1>4, <1>0 DEF StealTry, TypeOK
    <3>2. \A x \in Workers \ {w} : job'[x] = job[x] /\ lane'[x] = lane[x]
      BY <1>4, <1>0 DEF StealTry, ReadSlot, TypeOK
    <3>3. QED
      BY <3>1, <3>2
  <2>2. gn' = gn /\ lanes' = lanes /\ accepted' = accepted /\ ran' = ran
        /\ sent' = sent /\ caller' = caller
    BY <1>4 DEF StealTry
  <2>3. \A x \in Workers \ {w} : HandInv(x)' /\ Started(x)' = Started(x)
    BY <2>1, <2>2, <1>h, HandFrame DEF Started
  <2>4. HandInv(w)' /\ (Started(w)' <=> Started(w))
    <3>1. job[w] = NoJob /\ ~Started(w)
      BY <1>4, <1>h DEF StealTry, HandInv, Reading, Started
    <3>2. CASE pc'[w] = "stealpop"
      <4>1. PICK l \in Lanes : Cold(Victim(w), l) /\ ReadSlot(w, Victim(w), l)
        BY <1>4, <1>0, <3>2 DEF StealTry, TypeOK
      <4>2. job'[w] = Head(lanes[Victim(w)][l]) /\ lane'[w] = l /\ lanes[Victim(w)][l] # <<>>
        BY <1>0, <4>1 DEF ReadSlot, Cold, TypeOK
      <4>3. Reading(w)' /\ ~Started(w)' /\ Source(w)' = Victim(w)
        BY <1>4, <2>2, <3>2 DEF StealTry, Reading, Started, Source, Victim
      <4>4. QED
        BY <2>2, <3>1, <3>2, <4>2, <4>3 DEF HandInv
    <3>3. CASE pc'[w] # "stealpop"
      <4>1. job'[w] = NoJob /\ pc'[w] \in {"check", "leave", "stealmiss", "exit"}
        BY <1>4, <1>0, <3>1, <3>3 DEF StealTry, TypeOK
      <4>2. ~Reading(w)' /\ ~Started(w)'
        BY <4>1 DEF Reading, Started
      <4>3. QED
        BY <3>1, <4>1, <4>2 DEF HandInv
    <3>4. QED
      BY <3>2, <3>3
  <2>5. Started(w) => job'[w] = job[w]
    BY <1>4 DEF StealTry, Started
  <2>6. sent <= sent' /\ (caller' \in {"lock", "put"} => sent' \in Jobs \ accepted)
    BY <2>2, <1>0 DEF JobInv, TypeOK
  <2>7. \A x \in Workers : HandInv(x)' /\ (Started(x)' <=> Started(x))
    BY <2>3, <2>4
  <2>8. \A x \in Workers : Started(x) => job'[x] = job[x]
    BY <2>1, <2>5
  <2>9. Phase' = Phase
    BY <1>4 DEF StealTry, Phase
  <2>10. QED
    BY <2>2, <2>6, <2>7, <2>8, <2>9, StillStep DEF Exec!vars
<1>5. ASSUME NEW w \in Workers, Check(w) PROVE Goal
  <2>1. \A x \in Workers \ {w} : /\ pc'[x] = pc[x] /\ job'[x] = job[x]
                                 /\ lane'[x] = lane[x] /\ k'[x] = k[x]
    BY <1>5, <1>0 DEF Check, ReadSlot, TypeOK
  <2>2. gn' = gn /\ lanes' = lanes /\ accepted' = accepted /\ ran' = ran
        /\ sent' = sent /\ caller' = caller
    BY <1>5 DEF Check
  <2>3. \A x \in Workers \ {w} : HandInv(x)' /\ Started(x)' = Started(x)
    BY <2>1, <2>2, <1>h, HandFrame DEF Started
  <2>4. HandInv(w)' /\ (Started(w)' <=> Started(w))
    <3>1. job[w] = NoJob /\ job' = job
      BY <1>5, <1>h DEF Check, HandInv, Reading, Started
    <3>2. pc'[w] \notin {"pop", "drainpop", "stealpop", "run", "drun"}
      BY <1>5, <1>0 DEF Check, TypeOK
    <3>3. QED
      BY <3>1, <3>2 DEF HandInv, Reading, Started
  <2>5. Started(w) => job'[w] = job[w]
    BY <1>5 DEF Check
  <2>6. sent <= sent' /\ (caller' \in {"lock", "put"} => sent' \in Jobs \ accepted)
    BY <2>2, <1>0 DEF JobInv, TypeOK
  <2>7. \A x \in Workers : HandInv(x)' /\ (Started(x)' <=> Started(x))
    BY <2>3, <2>4
  <2>8. \A x \in Workers : Started(x) => job'[x] = job[x]
    BY <2>1, <2>5
  <2>9. Phase' = Phase
    BY <1>5 DEF Check, Phase
  <2>10. QED
    BY <2>2, <2>6, <2>7, <2>8, <2>9, StillStep DEF Exec!vars
<1>6. ASSUME NEW w \in Workers, Wake(w) PROVE Goal
  <2>1. \A x \in Workers \ {w} : /\ pc'[x] = pc[x] /\ job'[x] = job[x]
                                 /\ lane'[x] = lane[x] /\ k'[x] = k[x]
    BY <1>6, <1>0 DEF Wake, ReadSlot, TypeOK
  <2>2. gn' = gn /\ lanes' = lanes /\ accepted' = accepted /\ ran' = ran
        /\ sent' = sent /\ caller' = caller
    BY <1>6 DEF Wake
  <2>3. \A x \in Workers \ {w} : HandInv(x)' /\ Started(x)' = Started(x)
    BY <2>1, <2>2, <1>h, HandFrame DEF Started
  <2>4. HandInv(w)' /\ (Started(w)' <=> Started(w))
    <3>1. job[w] = NoJob /\ job' = job
      BY <1>6, <1>h DEF Wake, HandInv, Reading, Started
    <3>2. pc'[w] \notin {"pop", "drainpop", "stealpop", "run", "drun"}
      BY <1>6, <1>0 DEF Wake, TypeOK
    <3>3. QED
      BY <3>1, <3>2 DEF HandInv, Reading, Started
  <2>5. Started(w) => job'[w] = job[w]
    BY <1>6 DEF Wake
  <2>6. sent <= sent' /\ (caller' \in {"lock", "put"} => sent' \in Jobs \ accepted)
    BY <2>2, <1>0 DEF JobInv, TypeOK
  <2>7. \A x \in Workers : HandInv(x)' /\ (Started(x)' <=> Started(x))
    BY <2>3, <2>4
  <2>8. \A x \in Workers : Started(x) => job'[x] = job[x]
    BY <2>1, <2>5
  <2>9. Phase' = Phase
    BY <1>6 DEF Wake, Phase
  <2>10. QED
    BY <2>2, <2>6, <2>7, <2>8, <2>9, StillStep DEF Exec!vars
<1>7. ASSUME NEW w \in Workers, StealMiss(w) PROVE Goal
  <2>1. \A x \in Workers \ {w} : /\ pc'[x] = pc[x] /\ job'[x] = job[x]
                                 /\ lane'[x] = lane[x] /\ k'[x] = k[x]
    BY <1>7, <1>0 DEF StealMiss, ReadSlot, TypeOK
  <2>2. gn' = gn /\ lanes' = lanes /\ accepted' = accepted /\ ran' = ran
        /\ sent' = sent /\ caller' = caller
    BY <1>7 DEF StealMiss
  <2>3. \A x \in Workers \ {w} : HandInv(x)' /\ Started(x)' = Started(x)
    BY <2>1, <2>2, <1>h, HandFrame DEF Started
  <2>4. HandInv(w)' /\ (Started(w)' <=> Started(w))
    <3>1. job[w] = NoJob /\ job' = job
      BY <1>7, <1>h DEF StealMiss, HandInv, Reading, Started
    <3>2. pc'[w] \notin {"pop", "drainpop", "stealpop", "run", "drun"}
      BY <1>7, <1>0 DEF StealMiss, TypeOK
    <3>3. QED
      BY <3>1, <3>2 DEF HandInv, Reading, Started
  <2>5. Started(w) => job'[w] = job[w]
    BY <1>7 DEF StealMiss
  <2>6. sent <= sent' /\ (caller' \in {"lock", "put"} => sent' \in Jobs \ accepted)
    BY <2>2, <1>0 DEF JobInv, TypeOK
  <2>7. \A x \in Workers : HandInv(x)' /\ (Started(x)' <=> Started(x))
    BY <2>3, <2>4
  <2>8. \A x \in Workers : Started(x) => job'[x] = job[x]
    BY <2>1, <2>5
  <2>9. Phase' = Phase
    BY <1>7 DEF StealMiss, Phase
  <2>10. QED
    BY <2>2, <2>6, <2>7, <2>8, <2>9, StillStep DEF Exec!vars
<1>8. ASSUME NEW w \in Workers, StealBusy(w) PROVE Goal
  <2>1. \A x \in Workers \ {w} : /\ pc'[x] = pc[x] /\ job'[x] = job[x]
                                 /\ lane'[x] = lane[x] /\ k'[x] = k[x]
    BY <1>8, <1>0 DEF StealBusy, ReadSlot, TypeOK
  <2>2. gn' = gn /\ lanes' = lanes /\ accepted' = accepted /\ ran' = ran
        /\ sent' = sent /\ caller' = caller
    BY <1>8 DEF StealBusy
  <2>3. \A x \in Workers \ {w} : HandInv(x)' /\ Started(x)' = Started(x)
    BY <2>1, <2>2, <1>h, HandFrame DEF Started
  <2>4. HandInv(w)' /\ (Started(w)' <=> Started(w))
    <3>1. job[w] = NoJob /\ job' = job
      BY <1>8, <1>h DEF StealBusy, HandInv, Reading, Started
    <3>2. pc'[w] \notin {"pop", "drainpop", "stealpop", "run", "drun"}
      BY <1>8, <1>0 DEF StealBusy, TypeOK
    <3>3. QED
      BY <3>1, <3>2 DEF HandInv, Reading, Started
  <2>5. Started(w) => job'[w] = job[w]
    BY <1>8 DEF StealBusy
  <2>6. sent <= sent' /\ (caller' \in {"lock", "put"} => sent' \in Jobs \ accepted)
    BY <2>2, <1>0 DEF JobInv, TypeOK
  <2>7. \A x \in Workers : HandInv(x)' /\ (Started(x)' <=> Started(x))
    BY <2>3, <2>4
  <2>8. \A x \in Workers : Started(x) => job'[x] = job[x]
    BY <2>1, <2>5
  <2>9. Phase' = Phase
    BY <1>8 DEF StealBusy, Phase
  <2>10. QED
    BY <2>2, <2>6, <2>7, <2>8, <2>9, StillStep DEF Exec!vars
<1>9. ASSUME NEW w \in Workers, StealEnd(w) PROVE Goal
  <2>1. \A x \in Workers \ {w} : /\ pc'[x] = pc[x] /\ job'[x] = job[x]
                                 /\ lane'[x] = lane[x] /\ k'[x] = k[x]
    BY <1>9, <1>0 DEF StealEnd, ReadSlot, TypeOK
  <2>2. gn' = gn /\ lanes' = lanes /\ accepted' = accepted /\ ran' = ran
        /\ sent' = sent /\ caller' = caller
    BY <1>9 DEF StealEnd
  <2>3. \A x \in Workers \ {w} : HandInv(x)' /\ Started(x)' = Started(x)
    BY <2>1, <2>2, <1>h, HandFrame DEF Started
  <2>4. HandInv(w)' /\ (Started(w)' <=> Started(w))
    <3>1. job[w] = NoJob /\ job' = job
      BY <1>9, <1>h DEF StealEnd, HandInv, Reading, Started
    <3>2. pc'[w] \notin {"pop", "drainpop", "stealpop", "run", "drun"}
      BY <1>9, <1>0 DEF StealEnd, TypeOK
    <3>3. QED
      BY <3>1, <3>2 DEF HandInv, Reading, Started
  <2>5. Started(w) => job'[w] = job[w]
    BY <1>9 DEF StealEnd
  <2>6. sent <= sent' /\ (caller' \in {"lock", "put"} => sent' \in Jobs \ accepted)
    BY <2>2, <1>0 DEF JobInv, TypeOK
  <2>7. \A x \in Workers : HandInv(x)' /\ (Started(x)' <=> Started(x))
    BY <2>3, <2>4
  <2>8. \A x \in Workers : Started(x) => job'[x] = job[x]
    BY <2>1, <2>5
  <2>9. Phase' = Phase
    BY <1>9 DEF StealEnd, Phase
  <2>10. QED
    BY <2>2, <2>6, <2>7, <2>8, <2>9, StillStep DEF Exec!vars
<1>10. ASSUME NEW w \in Workers, Leave(w) PROVE Goal
  <2>1. \A x \in Workers \ {w} : /\ pc'[x] = pc[x] /\ job'[x] = job[x]
                                 /\ lane'[x] = lane[x] /\ k'[x] = k[x]
    BY <1>10, <1>0 DEF Leave, ReadSlot, TypeOK
  <2>2. gn' = gn /\ lanes' = lanes /\ accepted' = accepted /\ ran' = ran
        /\ sent' = sent /\ caller' = caller
    BY <1>10 DEF Leave
  <2>3. \A x \in Workers \ {w} : HandInv(x)' /\ Started(x)' = Started(x)
    BY <2>1, <2>2, <1>h, HandFrame DEF Started
  <2>4. HandInv(w)' /\ (Started(w)' <=> Started(w))
    <3>1. job' = job /\ pc[w] = "leave"
      BY <1>10 DEF Leave
    <3>2. pc'[w] \notin {"pop", "drainpop", "stealpop", "drun", "leave"}
          /\ (pc'[w] = "run" <=> job[w] # NoJob)
      BY <1>10, <1>0 DEF Leave, TypeOK
    <3>3. Started(w)' = Started(w) /\ ~Reading(w)'
      BY <3>1, <3>2 DEF Started, Reading
    <3>4. InRing(job[w])' = InRing(job[w])
      BY <2>2, <3>1 DEF InRing
    <3>5. QED
      BY <1>h, <2>2, <3>1, <3>2, <3>3, <3>4 DEF HandInv, Reading, Started
  <2>5. Started(w) => job'[w] = job[w]
    BY <1>10 DEF Leave
  <2>6. sent <= sent' /\ (caller' \in {"lock", "put"} => sent' \in Jobs \ accepted)
    BY <2>2, <1>0 DEF JobInv, TypeOK
  <2>7. \A x \in Workers : HandInv(x)' /\ (Started(x)' <=> Started(x))
    BY <2>3, <2>4
  <2>8. \A x \in Workers : Started(x) => job'[x] = job[x]
    BY <2>1, <2>5
  <2>9. Phase' = Phase
    BY <1>10 DEF Leave, Phase
  <2>10. QED
    BY <2>2, <2>6, <2>7, <2>8, <2>9, StillStep DEF Exec!vars
<1>11. ASSUME NEW w \in Workers, Pop(w) PROVE Goal
  <2>1. Reading(w) /\ Source(w) = w /\ ~Started(w)
    BY <1>11 DEF Pop, Reading, Source, Started
  <2>2. w \in Workers /\ lane[w] \in Lanes /\ lanes[w][lane[w]] # <<>>
        /\ job[w] = Head(lanes[w][lane[w]])
    BY <1>0, <1>h, <2>1, ReadingInRing DEF HandInv, TypeOK
  <2>3. \A x \in Workers \ {w} : /\ pc'[x] = pc[x] /\ job'[x] = job[x]
                                 /\ lane'[x] = lane[x] /\ k'[x] = k[x]
                                 /\ Reading(x) => Source(x) # w
    <3>1. \A x \in Workers \ {w} : Reading(x) => Source(x) # w
      BY <1>0, <2>1, ReadingHolds
    <3>2. QED
      BY <1>11, <1>0, <3>1 DEF Pop, TypeOK
  <2>4. pc'[w] \in {"leave", "run", "drun"} /\ job'[w] = job[w]
    BY <1>11, <1>0 DEF Pop, TypeOK
  <2>5. lanes' = [lanes EXCEPT ![w][lane[w]] = Tail(@)]
    BY <1>11 DEF Pop, Advance
  <2>6. ran' = ran /\ accepted' = accepted /\ sent' = sent /\ gn' = gn /\ caller' = caller
    BY <1>11 DEF Pop, Advance
  <2>7. PICK l \in Lanes : l = lane[w]
    BY <2>2
  <2>8. /\ lanes' = [lanes EXCEPT ![w][l] = Tail(@)] /\ lanes[w][l] # <<>>
        /\ job'[w] = Head(lanes[w][l])
    BY <2>2, <2>4, <2>5, <2>7
  <2>9. Phase' = Phase
    BY <1>11 DEF Pop, Phase
  <2>10. QED
    BY <2>1, <2>2, <2>3, <2>4, <2>6, <2>8, <2>9, TakeStep DEF Exec!Next, Exec!Begin
<1>12. ASSUME NEW w \in Workers, DrainPop(w) PROVE Goal
  <2>1. Reading(w) /\ Source(w) = w /\ ~Started(w)
    BY <1>12 DEF DrainPop, Reading, Source, Started
  <2>2. w \in Workers /\ lane[w] \in Lanes /\ lanes[w][lane[w]] # <<>>
        /\ job[w] = Head(lanes[w][lane[w]])
    BY <1>0, <1>h, <2>1, ReadingInRing DEF HandInv, TypeOK
  <2>3. \A x \in Workers \ {w} : /\ pc'[x] = pc[x] /\ job'[x] = job[x]
                                 /\ lane'[x] = lane[x] /\ k'[x] = k[x]
                                 /\ Reading(x) => Source(x) # w
    <3>1. \A x \in Workers \ {w} : Reading(x) => Source(x) # w
      BY <1>0, <2>1, ReadingHolds
    <3>2. QED
      BY <1>12, <1>0, <3>1 DEF DrainPop, TypeOK
  <2>4. pc'[w] \in {"leave", "run", "drun"} /\ job'[w] = job[w]
    BY <1>12, <1>0 DEF DrainPop, TypeOK
  <2>5. lanes' = [lanes EXCEPT ![w][lane[w]] = Tail(@)]
    BY <1>12 DEF DrainPop, Advance
  <2>6. ran' = ran /\ accepted' = accepted /\ sent' = sent /\ gn' = gn /\ caller' = caller
    BY <1>12 DEF DrainPop, Advance
  <2>7. PICK l \in Lanes : l = lane[w]
    BY <2>2
  <2>8. /\ lanes' = [lanes EXCEPT ![w][l] = Tail(@)] /\ lanes[w][l] # <<>>
        /\ job'[w] = Head(lanes[w][l])
    BY <2>2, <2>4, <2>5, <2>7
  <2>9. Phase' = Phase
    BY <1>12 DEF DrainPop, Phase
  <2>10. QED
    BY <2>1, <2>2, <2>3, <2>4, <2>6, <2>8, <2>9, TakeStep DEF Exec!Next, Exec!Begin
<1>13. ASSUME NEW w \in Workers, StealPop(w) PROVE Goal
  <2>1. Reading(w) /\ Source(w) = Victim(w) /\ ~Started(w)
    BY <1>13 DEF StealPop, Reading, Source, Started
  <2>2. Victim(w) \in Workers /\ lane[w] \in Lanes /\ lanes[Victim(w)][lane[w]] # <<>>
        /\ job[w] = Head(lanes[Victim(w)][lane[w]])
    BY <1>0, <1>h, <2>1, ReadingInRing DEF HandInv, TypeOK
  <2>3. \A x \in Workers \ {w} : /\ pc'[x] = pc[x] /\ job'[x] = job[x]
                                 /\ lane'[x] = lane[x] /\ k'[x] = k[x]
                                 /\ Reading(x) => Source(x) # Victim(w)
    <3>1. \A x \in Workers \ {w} : Reading(x) => Source(x) # Victim(w)
      BY <1>0, <2>1, ReadingHolds
    <3>2. QED
      BY <1>13, <1>0, <3>1 DEF StealPop, TypeOK
  <2>4. pc'[w] \in {"leave", "run", "drun"} /\ job'[w] = job[w]
    BY <1>13, <1>0 DEF StealPop, TypeOK
  <2>5. lanes' = [lanes EXCEPT ![Victim(w)][lane[w]] = Tail(@)]
    BY <1>13 DEF StealPop, Advance
  <2>6. ran' = ran /\ accepted' = accepted /\ sent' = sent /\ gn' = gn /\ caller' = caller
    BY <1>13 DEF StealPop, Advance
  <2>7. PICK l \in Lanes : l = lane[w]
    BY <2>2
  <2>8. /\ lanes' = [lanes EXCEPT ![Victim(w)][l] = Tail(@)] /\ lanes[Victim(w)][l] # <<>>
        /\ job'[w] = Head(lanes[Victim(w)][l])
    BY <2>2, <2>4, <2>5, <2>7
  <2>9. Phase' = Phase
    BY <1>13 DEF StealPop, Phase
  <2>10. QED
    BY <2>1, <2>2, <2>3, <2>4, <2>6, <2>8, <2>9, TakeStep DEF Exec!Next, Exec!Begin
<1>14. ASSUME NEW w \in Workers, StealDestroyed(w) PROVE Goal
  <2>1. job[w] = NoJob /\ ~Started(w) /\ ~Reading(w)
    BY <1>14, <1>h DEF StealDestroyed, HandInv, Reading, Started
  <2>2. Victim(w) \in Workers
    <3>1. gn = N
      BY <1>14, <1>0 DEF StealDestroyed, TypeOK
    <3>2. QED
      BY <3>1, <1>0, VictimWorker
  <2>3. \A x \in Workers \ {w} : /\ pc'[x] = pc[x] /\ job'[x] = job[x]
                                 /\ lane'[x] = lane[x] /\ k'[x] = k[x]
    BY <1>14, <1>0 DEF StealDestroyed, ReadSlot, TypeOK
  <2>4. /\ ran' = ran /\ accepted' = accepted /\ sent' = sent /\ gn' = gn /\ caller' = caller
    BY <1>14 DEF StealDestroyed
  <2>8. Phase' = Phase
    BY <1>14 DEF StealDestroyed, Phase
  <2>5. CASE UNCHANGED <<lanes, pc, job, lane>>
    <3>1. \A x \in Workers : HandInv(x)' /\ Started(x)' = Started(x)
      <4>1. \A x \in Workers : k'[x] = k[x] \/ ~Reading(x)
        BY <2>1, <2>3
      <4>2. \A x \in Workers \ {w} : HandInv(x)' /\ Started(x)' = Started(x)
        BY <2>3, <2>4, <2>5, <1>h, HandFrame DEF Started
      <4>3. HandInv(w)' /\ Started(w)' = Started(w)
        BY <1>14, <2>1, <2>5 DEF StealDestroyed, HandInv, Reading, Started
      <4>4. QED
        BY <4>2, <4>3
    <3>2. sent <= sent' /\ (caller' \in {"lock", "put"} => sent' \in Jobs \ accepted)
      BY <2>4, <1>0 DEF JobInv, TypeOK
    <3>3. QED
      BY <2>4, <2>5, <2>8, <3>1, <3>2, StillStep DEF Exec!vars
  <2>6. CASE \E l \in Lanes : /\ Cold(Victim(w), l) /\ ReadSlot(w, Victim(w), l)
                              /\ lanes' = [lanes EXCEPT ![Victim(w)][l] = Tail(@)]
                              /\ pc' = [pc EXCEPT ![w] = "run"]
    <3>1. PICK l \in Lanes : /\ Cold(Victim(w), l) /\ ReadSlot(w, Victim(w), l)
                             /\ lanes' = [lanes EXCEPT ![Victim(w)][l] = Tail(@)]
                             /\ pc' = [pc EXCEPT ![w] = "run"]
      BY <2>6
    <3>2. lanes[Victim(w)][l] # <<>> /\ job'[w] = Head(lanes[Victim(w)][l]) /\ pc'[w] = "run"
      BY <1>0, <3>1 DEF Cold, ReadSlot, TypeOK
    <3>3. \A x \in Workers : Reading(x) => Source(x) # Victim(w)
      BY <1>14, <1>0, <1>a, ReadingHolds DEF StealDestroyed
    <3>4. QED
      BY <2>1, <2>2, <2>3, <2>4, <2>8, <3>1, <3>2, <3>3, TakeStep
         DEF Exec!Next, Exec!Begin
  <2>7. QED
    BY <1>14, <2>5, <2>6 DEF StealDestroyed
<1>15. ASSUME NEW w \in Workers, Run(w) PROVE Goal
  <2>1. Started(w) /\ job[w] \in accepted /\ ran[job[w]] = 0 /\ ~InRing(job[w])
        /\ job[w] \in Jobs
    BY <1>15, <1>0, <1>h DEF Run, HandInv, Started, TypeOK
  <2>2. \A j \in Jobs : ran'[j] = IF j = job[w] THEN 1 ELSE ran[j]
    BY <1>15, <1>0, <2>1 DEF Run, TypeOK
  <2>3. \A x \in Workers \ {w} : /\ pc'[x] = pc[x] /\ job'[x] = job[x]
                                 /\ lane'[x] = lane[x] /\ k'[x] = k[x]
    BY <1>15, <1>0 DEF Run, TypeOK
  <2>4. gn' = gn /\ lanes' = lanes /\ accepted' = accepted /\ sent' = sent /\ caller' = caller
    BY <1>15 DEF Run
  <2>5. job'[w] = NoJob /\ pc'[w] \in {"loop", "drain"}
    BY <1>15, <1>0 DEF Run, TypeOK
  <2>6. HandInv(w)' /\ ~Started(w)'
    BY <2>5 DEF HandInv, Reading, Started
  <2>7. \A j : InRing(j)' = InRing(j)
    BY <2>4 DEF InRing
  <2>8. ASSUME NEW x \in Workers \ {w} PROVE HandInv(x)' /\ Started(x)' = Started(x)
    <3>1. Reading(x)' = Reading(x) /\ Started(x)' = Started(x) /\ Source(x)' = Source(x)
      BY <2>3, <2>4 DEF Reading, Started, Source, Victim
    <3>2. Started(x) => job[x] # job[w] /\ job[x] \in Jobs
      BY <1>0, <2>1 DEF JobInv, Started, TypeOK
    <3>3. InRing(job[x])' = InRing(job[x])
      BY <2>3, <2>7
    <3>4. QED
      BY <1>h, <2>2, <2>3, <2>4, <3>1, <3>2, <3>3 DEF HandInv
  <2>9. RingJobsDistinct' /\ RingJobsWait'
    <3>1. ASSUME NEW a \in Workers, NEW b \in Lanes, NEW i \in 1..Len(lanes[a][b])
          PROVE  lanes[a][b][i] \in accepted /\ ran'[lanes[a][b][i]] = 0
      <4>1. lanes[a][b][i] \in accepted /\ ran[lanes[a][b][i]] = 0 /\ InRing(lanes[a][b][i])
        BY <1>0 DEF JobInv, RingJobsWait, InRing
      <4>2. QED
        BY <1>0, <2>1, <2>2, <4>1 DEF TypeOK
    <3>2. QED
      BY <1>0, <2>4, <3>1 DEF JobInv, RingJobsDistinct, RingJobsWait
  <2>10. JobInv'
    <3>1. \A w1, w2 \in Workers :
            Started(w1)' /\ Started(w2)' /\ job'[w1] = job'[w2] => w1 = w2
      BY <1>0, <2>3, <2>6, <2>8 DEF JobInv
    <3>2. QED
      BY <1>0, <2>4, <2>6, <2>8, <2>9, <3>1 DEF JobInv
  <2>11. NeverTwice'
    BY <2>1, <2>2, <2>4 DEF NeverTwice, IInv
  <2>12. NothingLost'
    <3>1. SUFFICES ASSUME NEW j \in accepted
                   PROVE  ran'[j] = 1 \/ InRing(j) \/ \E x \in Workers : job'[x] = j
      BY <2>4, <2>7 DEF NothingLost
    <3>2. j \in Jobs
      BY <1>0 DEF TypeOK
    <3>3. ran[j] = 1 \/ InRing(j) \/ \E x \in Workers : job[x] = j
      BY DEF IInv, NothingLost
    <3>4. QED
      BY <2>1, <2>2, <2>3, <3>2, <3>3
  <2>13. Exec!Finish(job[w])
    <3>1. Phase' = Phase /\ Pending' = Pending
      BY <1>15, <2>7 DEF Run, Phase, Pending
    <3>2. job[w] \in Running
      BY <2>1 DEF Running
    <3>3. Finished' = Finished \cup {job[w]}
      BY <2>1, <2>2 DEF Finished
    <3>4. ASSUME NEW j \in Jobs
          PROVE  (\E x \in Workers : Started(x)' /\ job'[x] = j)
                   <=> (\E x \in Workers : Started(x) /\ job[x] = j) /\ j # job[w]
      <4>1. \A x \in Workers \ {w} : Started(x)' /\ job'[x] = j <=> Started(x) /\ job[x] = j
        BY <2>3, <2>8
      <4>2. \A x \in Workers \ {w} : Started(x) => job[x] # job[w]
        BY <1>0, <2>1 DEF JobInv
      <4>3. QED
        BY <2>1, <2>6, <4>1, <4>2
    <3>5. Running' = Running \ {job[w]}
      BY <3>4 DEF Running
    <3>6. QED
      BY <3>1, <3>2, <3>3, <3>5 DEF Exec!Finish
  <2>14. QED
    BY <2>1, <2>10, <2>11, <2>12, <2>13 DEF Exec!Next
<1>16. ASSUME InitCall PROVE Goal
  <2>1. /\ lanes' = lanes /\ accepted' = accepted /\ ran' = ran
        /\ job' = job /\ lane' = lane /\ k' = k
    BY <1>16 DEF InitCall
  <2>2. \A x \in Workers : HandInv(x)' /\ (Started(x)' <=> Started(x))
    <3>1. pc' = pc /\ gn' = gn
      BY <1>16 DEF InitCall
    <3>2. QED
      BY <1>h, <2>1, <3>1, HandFrame DEF Started
  <2>3. sent <= sent' /\ (caller' \in {"lock", "put"} => sent' \in Jobs \ accepted)
    BY <1>16, <1>0, PoolConstants DEF InitCall, JobInv, TypeOK, Jobs
  <2>4. Phase' = Phase
    BY <1>16, <1>0 DEF InitCall, Phase, LifeInv
  <2>5. QED
    BY <2>1, <2>2, <2>3, <2>4, StillStep DEF Exec!vars
<1>17. ASSUME CreateFails PROVE Goal
  <2>1. /\ lanes' = lanes /\ accepted' = accepted /\ ran' = ran
        /\ job' = job /\ lane' = lane /\ k' = k
    BY <1>17 DEF CreateFails
  <2>2. \A x \in Workers : HandInv(x)' /\ (Started(x)' <=> Started(x))
    <3>1. pc' = pc /\ gn' = gn
      BY <1>17 DEF CreateFails
    <3>2. QED
      BY <1>h, <2>1, <3>1, HandFrame DEF Started
  <2>3. sent <= sent' /\ (caller' \in {"lock", "put"} => sent' \in Jobs \ accepted)
    BY <1>17, <1>0, PoolConstants DEF CreateFails, JobInv, TypeOK, Jobs
  <2>4. Phase' = Phase
    BY <1>17, <1>0 DEF CreateFails, Phase, LifeInv
  <2>5. QED
    BY <2>1, <2>2, <2>3, <2>4, StillStep DEF Exec!vars
<1>18. ASSUME ResetStats PROVE Goal
  <2>1. /\ lanes' = lanes /\ accepted' = accepted /\ ran' = ran
        /\ job' = job /\ lane' = lane /\ k' = k
    BY <1>18 DEF ResetStats
  <2>2. \A x \in Workers : HandInv(x)' /\ (Started(x)' <=> Started(x))
    <3>1. pc' = pc /\ gn' = gn
      BY <1>18 DEF ResetStats
    <3>2. QED
      BY <1>h, <2>1, <3>1, HandFrame DEF Started
  <2>3. sent <= sent' /\ (caller' \in {"lock", "put"} => sent' \in Jobs \ accepted)
    BY <1>18, <1>0, PoolConstants DEF ResetStats, JobInv, TypeOK, Jobs
  <2>4. Phase' = Phase
    BY <1>18, <1>0 DEF ResetStats, Phase, LifeInv
  <2>5. QED
    BY <2>1, <2>2, <2>3, <2>4, StillStep DEF Exec!vars
<1>19. ASSUME NEW w \in Workers, Fault(w) PROVE Goal
  <2>1. \A x \in Workers \ {w} : /\ pc'[x] = pc[x] /\ job'[x] = job[x]
                                 /\ lane'[x] = lane[x] /\ k'[x] = k[x]
    BY <1>19, <1>0 DEF Fault, ReadSlot, TypeOK
  <2>2. gn' = gn /\ lanes' = lanes /\ accepted' = accepted /\ ran' = ran
        /\ sent' = sent /\ caller' = caller
    BY <1>19 DEF Fault
  <2>3. \A x \in Workers \ {w} : HandInv(x)' /\ Started(x)' = Started(x)
    BY <2>1, <2>2, <1>h, HandFrame DEF Started
  <2>4. HandInv(w)' /\ (Started(w)' <=> Started(w))
    <3>1. job[w] = NoJob /\ job' = job
      BY <1>19, <1>h DEF Fault, HandInv, Reading, Started
    <3>2. pc'[w] \notin {"pop", "drainpop", "stealpop", "run", "drun"}
      BY <1>19, <1>0 DEF Fault, TypeOK
    <3>3. QED
      BY <3>1, <3>2 DEF HandInv, Reading, Started
  <2>5. Started(w) => job'[w] = job[w]
    BY <1>19 DEF Fault
  <2>6. sent <= sent' /\ (caller' \in {"lock", "put"} => sent' \in Jobs \ accepted)
    BY <2>2, <1>0 DEF JobInv, TypeOK
  <2>7. \A x \in Workers : HandInv(x)' /\ (Started(x)' <=> Started(x))
    BY <2>3, <2>4
  <2>8. \A x \in Workers : Started(x) => job'[x] = job[x]
    BY <2>1, <2>5
  <2>9. Phase' = Phase
    BY <1>19 DEF Fault, Phase
  <2>10. QED
    BY <2>2, <2>6, <2>7, <2>8, <2>9, StillStep DEF Exec!vars
<1>20. ASSUME SubmitLock PROVE Goal
  <2>1. /\ lanes' = lanes /\ accepted' = accepted /\ ran' = ran
        /\ job' = job /\ lane' = lane /\ k' = k
    BY <1>20 DEF SubmitLock
  <2>2. \A x \in Workers : HandInv(x)' /\ (Started(x)' <=> Started(x))
    <3>1. pc' = pc /\ gn' = gn
      BY <1>20 DEF SubmitLock
    <3>2. QED
      BY <1>h, <2>1, <3>1, HandFrame DEF Started
  <2>3. sent <= sent' /\ (caller' \in {"lock", "put"} => sent' \in Jobs \ accepted)
    BY <1>20, <1>0, PoolConstants DEF SubmitLock, JobInv, TypeOK, Jobs
  <2>4. Phase' = Phase
    BY <1>20, <1>0 DEF SubmitLock, Phase, LifeInv
  <2>5. QED
    BY <2>1, <2>2, <2>3, <2>4, StillStep DEF Exec!vars
<1>21. ASSUME SubmitFull PROVE Goal
  <2>1. /\ lanes' = lanes /\ accepted' = accepted /\ ran' = ran
        /\ job' = job /\ lane' = lane /\ k' = k
    BY <1>21 DEF SubmitFull
  <2>2. \A x \in Workers : HandInv(x)' /\ (Started(x)' <=> Started(x))
    <3>1. pc' = pc /\ gn' = gn
      BY <1>21 DEF SubmitFull
    <3>2. QED
      BY <1>h, <2>1, <3>1, HandFrame DEF Started
  <2>3. sent <= sent' /\ (caller' \in {"lock", "put"} => sent' \in Jobs \ accepted)
    BY <1>21, <1>0, PoolConstants DEF SubmitFull, JobInv, TypeOK, Jobs
  <2>4. Phase' = Phase
    BY <1>21, <1>0 DEF SubmitFull, Phase, LifeInv
  <2>5. QED
    BY <2>1, <2>2, <2>3, <2>4, StillStep DEF Exec!vars
<1>22. ASSUME SubmitReturn PROVE Goal
  <2>1. /\ lanes' = lanes /\ accepted' = accepted /\ ran' = ran
        /\ job' = job /\ lane' = lane /\ k' = k
    BY <1>22 DEF SubmitReturn
  <2>2. \A x \in Workers : HandInv(x)' /\ (Started(x)' <=> Started(x))
    <3>1. pc' = pc /\ gn' = gn
      BY <1>22 DEF SubmitReturn
    <3>2. QED
      BY <1>h, <2>1, <3>1, HandFrame DEF Started
  <2>3. sent <= sent' /\ (caller' \in {"lock", "put"} => sent' \in Jobs \ accepted)
    BY <1>22, <1>0, PoolConstants DEF SubmitReturn, JobInv, TypeOK, Jobs
  <2>4. Phase' = Phase
    BY <1>22, <1>0 DEF SubmitReturn, Phase, LifeInv
  <2>5. QED
    BY <2>1, <2>2, <2>3, <2>4, StillStep DEF Exec!vars
<1>23. ASSUME ShutdownCall PROVE Goal
  <2>1. /\ lanes' = lanes /\ accepted' = accepted /\ ran' = ran
        /\ job' = job /\ lane' = lane /\ k' = k
    BY <1>23 DEF ShutdownCall
  <2>2. \A x \in Workers : HandInv(x)' /\ (Started(x)' <=> Started(x))
    <3>1. pc' = pc /\ gn' = gn
      BY <1>23 DEF ShutdownCall
    <3>2. QED
      BY <1>h, <2>1, <3>1, HandFrame DEF Started
  <2>3. sent <= sent' /\ (caller' \in {"lock", "put"} => sent' \in Jobs \ accepted)
    BY <1>23, <1>0, PoolConstants DEF ShutdownCall, JobInv, TypeOK, Jobs
  <2>4. Phase = "open" /\ Phase' = "closing"
    BY <1>23, <1>0, PoolConstants DEF ShutdownCall, Phase, LifeInv
  <2>5. QED
    BY <2>1, <2>2, <2>3, <2>4, StillStep DEF Exec!Next, Exec!Close
<1>24. ASSUME NEW p \in Lanes, Submit(p) PROVE Goal
  <2>1. /\ lanes' = lanes /\ accepted' = accepted /\ ran' = ran
        /\ job' = job /\ lane' = lane /\ k' = k
    BY <1>24 DEF Submit
  <2>2. \A x \in Workers : HandInv(x)' /\ (Started(x)' <=> Started(x))
    <3>1. pc' = pc /\ gn' = gn
      BY <1>24 DEF Submit
    <3>2. QED
      BY <1>h, <2>1, <3>1, HandFrame DEF Started
  <2>3. sent <= sent' /\ (caller' \in {"lock", "put"} => sent' \in Jobs \ accepted)
    BY <1>24, <1>0, PoolConstants DEF Submit, JobInv, TypeOK, Jobs
  <2>4. Phase' = Phase
    BY <1>24, <1>0 DEF Submit, Phase, LifeInv
  <2>5. QED
    BY <2>1, <2>2, <2>3, <2>4, StillStep DEF Exec!vars
<1>25. ASSUME Publish PROVE Goal
  <2>1. /\ lanes' = lanes /\ accepted' = accepted /\ ran' = ran
        /\ job' = job /\ lane' = lane /\ k' = k
    BY <1>25 DEF Publish
  <2>2. \A x \in Workers : HandInv(x)' /\ (Started(x)' <=> Started(x))
    <3>1. pc' = pc
      BY <1>25 DEF Publish
    <3>2. \A x \in Workers : pc[x] # "stealpop"
      BY <1>25, <1>0, PoolConstants DEF Publish, LifeInv, LockInv, Holds
    <3>3. \A x \in Workers : /\ Started(x)' = Started(x) /\ Reading(x)' = Reading(x)
                             /\ Source(x)' = Source(x) /\ InRing(job[x])' = InRing(job[x])
      BY <2>1, <3>1, <3>2 DEF Started, Reading, Source, InRing
    <3>4. QED
      BY <1>h, <2>1, <3>1, <3>3 DEF HandInv
  <2>3. sent <= sent' /\ (caller' \in {"lock", "put"} => sent' \in Jobs \ accepted)
    BY <1>25, <1>0, PoolConstants DEF Publish, JobInv, TypeOK, Jobs
  <2>4. Phase = "off" /\ Phase' = "open"
    BY <1>25, <1>0, PoolConstants DEF Publish, Phase, LifeInv
  <2>5. QED
    BY <2>1, <2>2, <2>3, <2>4, StillStep DEF Exec!Next, Exec!Open
<1>26. ASSUME CreateWorker PROVE Goal
  <2>1. /\ lanes' = lanes /\ accepted' = accepted /\ ran' = ran
        /\ job' = job /\ lane' = lane /\ k' = k
    BY <1>26 DEF CreateWorker
  <2>2. \A x \in Workers : HandInv(x)' /\ (Started(x)' <=> Started(x))
    <3>1. gn' = gn /\ pc' = [pc EXCEPT ![created] = "loop"] /\ created \in Workers
      BY <1>26, <1>0, PoolConstants DEF CreateWorker, TypeOK, Workers
    <3>2. pc[created] = "new" /\ job[created] = NoJob
      <4>1. pc[created] = "new"
        <5>1. ~Alive(created)
          BY <1>26, <3>1 DEF CreateWorker, Alive, Workers
        <5>2. QED
          BY <1>0, <3>1, <5>1, LifeAt
      <4>2. QED
        BY <1>h, <3>1, <4>1 DEF HandInv, Reading, Started
    <3>3. ASSUME NEW x \in Workers PROVE HandInv(x)' /\ (Started(x)' <=> Started(x))
      <4>1. CASE x = created
        <5>1. pc'[x] = "loop" /\ job'[x] = NoJob /\ job[x] = NoJob
          BY <1>0, <2>1, <3>1, <3>2, <4>1 DEF TypeOK
        <5>2. QED
          BY <5>1 DEF HandInv, Reading, Started
      <4>2. CASE x # created
        <5>1. pc'[x] = pc[x]
          BY <1>0, <3>1, <4>2 DEF TypeOK
        <5>2. QED
          BY <1>h, <2>1, <3>1, <5>1, HandFrame DEF Started
      <4>3. QED
        BY <4>1, <4>2
    <3>4. QED
      BY <3>3
  <2>3. sent <= sent' /\ (caller' \in {"lock", "put"} => sent' \in Jobs \ accepted)
    BY <1>26, <1>0, PoolConstants DEF CreateWorker, JobInv, TypeOK, Jobs
  <2>4. Phase' = Phase
    BY <1>26, <1>0 DEF CreateWorker, Phase, LifeInv
  <2>5. QED
    BY <2>1, <2>2, <2>3, <2>4, StillStep DEF Exec!vars
<1>27. ASSUME Join PROVE Goal
  <2>1. /\ lanes' = lanes /\ accepted' = accepted /\ ran' = ran
        /\ job' = job /\ lane' = lane /\ k' = k
    BY <1>27 DEF Join
  <2>2. \A x \in Workers : HandInv(x)' /\ (Started(x)' <=> Started(x))
    <3>1. gn' = gn /\ pc' = [pc EXCEPT ![idx] = "new"] /\ idx \in Workers
      BY <1>27, <1>0, PoolConstants DEF Join, TypeOK, Workers
    <3>2. pc[idx] = "exit" /\ job[idx] = NoJob
      <4>1. pc[idx] = "exit"
        BY <1>27 DEF Join
      <4>2. QED
        BY <1>h, <3>1, <4>1 DEF HandInv, Reading, Started
    <3>3. ASSUME NEW x \in Workers PROVE HandInv(x)' /\ (Started(x)' <=> Started(x))
      <4>1. CASE x = idx
        <5>1. pc'[x] = "new" /\ job'[x] = NoJob /\ job[x] = NoJob
          BY <1>0, <2>1, <3>1, <3>2, <4>1 DEF TypeOK
        <5>2. QED
          BY <5>1 DEF HandInv, Reading, Started
      <4>2. CASE x # idx
        <5>1. pc'[x] = pc[x]
          BY <1>0, <3>1, <4>2 DEF TypeOK
        <5>2. QED
          BY <1>h, <2>1, <3>1, <5>1, HandFrame DEF Started
      <4>3. QED
        BY <4>1, <4>2
    <3>4. QED
      BY <3>3
  <2>3. sent <= sent' /\ (caller' \in {"lock", "put"} => sent' \in Jobs \ accepted)
    BY <1>27, <1>0, PoolConstants DEF Join, JobInv, TypeOK, Jobs
  <2>4. Phase' = Phase
    BY <1>27, <1>0 DEF Join, Phase, LifeInv
  <2>5. QED
    BY <2>1, <2>2, <2>3, <2>4, StillStep DEF Exec!vars
<1>28. ASSUME SubmitPut PROVE Goal
  <2>1. tgt \in Workers /\ prio \in Lanes /\ sent \in Jobs /\ sent \notin accepted /\ ran[sent] = 0
    BY <1>28, <1>0 DEF SubmitPut, JobInv, TypeOK, IInv, NeverTwice
  <2>2. /\ lanes' = [lanes EXCEPT ![tgt][prio] = Append(@, sent)]
        /\ accepted' = accepted \cup {sent} /\ ran' = ran
        /\ pc' = pc /\ job' = job /\ lane' = lane /\ k' = k /\ gn' = gn
        /\ sent' = sent /\ caller' = "count"
    BY <1>28 DEF SubmitPut
  <2>3. /\ RingJobsDistinct' /\ RingJobsWait'
        /\ \A j : InRing(j)' <=> InRing(j) \/ j = sent
        /\ \A a \in Workers, b \in Lanes : lanes[a][b] # <<>> =>
             lanes'[a][b] # <<>> /\ Head(lanes'[a][b]) = Head(lanes[a][b])
    BY <1>0, <2>1, <2>2, PushEffect
  <2>4. ASSUME NEW x \in Workers PROVE HandInv(x)' /\ Started(x)' = Started(x)
    <3>1. Reading(x)' = Reading(x) /\ Started(x)' = Started(x)
      BY <2>2 DEF Reading, Started
    <3>2. Reading(x) => Source(x)' = Source(x) /\ Source(x) \in Workers /\ lane[x] \in Lanes
      BY <1>0, <2>2, ReadingInRing DEF Source, Victim, TypeOK
    <3>3. Started(x) => ~InRing(job[x])'
      BY <1>h, <2>1, <2>2, <2>3 DEF HandInv
    <3>4. QED
      BY <1>h, <2>2, <2>3, <3>1, <3>2, <3>3 DEF HandInv
  <2>5. JobInv'
    <3>1. \A w1, w2 \in Workers :
            Started(w1)' /\ Started(w2)' /\ job'[w1] = job'[w2] => w1 = w2
      BY <1>0, <2>2, <2>4 DEF JobInv
    <3>2. accepted' \subseteq 1..sent'
      BY <1>0, <2>1, <2>2 DEF JobInv, Jobs
    <3>3. QED
      BY <2>2, <2>3, <2>4, <3>1, <3>2 DEF JobInv
  <2>6. NeverTwice'
    BY <2>1, <2>2 DEF NeverTwice, IInv
  <2>7. NothingLost'
    BY <2>2, <2>3 DEF NothingLost, IInv
  <2>8. Exec!Accept(sent)
    <3>1. Phase = "open" /\ Phase' = "open"
      BY <1>28, <1>0, PoolConstants DEF SubmitPut, Phase, LifeInv
    <3>2. Pending' = Pending \cup {sent} /\ Finished' = Finished
      BY <2>1, <2>2, <2>3 DEF Pending, Finished
    <3>3. Running' = Running
      BY <2>2, <2>4 DEF Running
    <3>4. sent \notin Pending \cup Running \cup Finished
      <4>1. ~InRing(sent)
        BY <1>0, <2>1 DEF InRing, JobInv, RingJobsWait
      <4>2. \A x \in Workers : Started(x) => job[x] # sent
        BY <1>h, <2>1 DEF HandInv
      <4>3. QED
        BY <2>1, <4>1, <4>2 DEF Pending, Running, Finished
    <3>5. QED
      BY <3>1, <3>2, <3>3, <3>4 DEF Exec!Accept
  <2>9. QED
    BY <2>1, <2>5, <2>6, <2>7, <2>8 DEF Exec!Next
<1>29. ASSUME FreePool PROVE Goal
  <2>1. \A x \in Workers : pc[x] = "new"
    BY <1>29, <1>0, LifeAt DEF FreePool, Alive, TypeOK, Workers
  <2>2. lanes' = lanes
    <3>1. \A x \in Workers : lanes[x] = [l \in Lanes |-> <<>>]
      BY <1>0, <2>1, LifeAt DEF Empty, TypeOK
    <3>2. QED
      BY <1>29, <1>0, <3>1 DEF FreePool, TypeOK
  <2>3. /\ accepted' = accepted /\ ran' = ran /\ job' = job /\ pc' = pc /\ sent' = sent
        /\ caller' = "off"
    BY <1>29 DEF FreePool
  <2>4. \A x \in Workers : ~Reading(x) /\ ~Started(x) /\ ~Reading(x)' /\ ~Started(x)'
    BY <2>1, <2>3 DEF Reading, Started
  <2>5. \A x \in Workers : HandInv(x)'
    BY <1>h, <2>1, <2>3, <2>4 DEF HandInv
  <2>6. sent <= sent' /\ caller' \notin {"lock", "put"}
    BY <1>0, <2>3 DEF TypeOK
  <2>7. Pending = {} /\ Running = {}
    <3>1. \A x \in Workers : Empty(x)
      BY <1>0, <2>1, LifeAt
    <3>2. QED
      BY <2>4, <3>1 DEF Pending, InRing, Running, Empty
  <2>8. Phase' = "off" /\ Phase \in {"off", "closing"}
    BY <1>29 DEF FreePool, Phase
  <2>9. Pending' = Pending /\ Running' = Running /\ Finished' = Finished
        /\ JobInv' /\ NeverTwice' /\ NothingLost'
    BY <2>2, <2>3, <2>4, <2>5, <2>6, StillStep
  <2>10. QED
    BY <2>7, <2>8, <2>9 DEF Exec!Next, Exec!Closed, Exec!vars
<1>30. QED
  BY <1>1, <1>2, <1>3, <1>4, <1>5, <1>6, <1>7, <1>8, <1>9, <1>10, <1>11, <1>12, <1>13, <1>14, <1>15, <1>16, <1>17, <1>18, <1>19, <1>20, <1>21, <1>22, <1>23, <1>24, <1>25, <1>26, <1>27, <1>28, <1>29 DEF Next, Worker, CallerProceeds

-------------------------------------------------------------------------------
(* The inductive invariant and the theorems.                                   *)

\* Before the first init there is no thread, no job and no lock.
LEMMA InitInv == Init => IInv /\ Exec!Init
<1> SUFFICES ASSUME Init PROVE IInv /\ Exec!Init
  OBVIOUS
<1>1. TypeOK
  BY TypesInit
<1>2. LockInv
  BY DEF Init, LockInv, Holds
<1>3. \A x \in Workers : Empty(x)
  BY DEF Init, Empty
<1>4. LifeInv
  BY <1>3, PoolConstants DEF Init, LifeInv, Alive
<1>5. \A x \in Workers : ~Reading(x) /\ ~Started(x) /\ HandInv(x)
  BY DEF Init, Reading, Started, HandInv
<1>6. \A v \in Workers, l \in Lanes : 1..Len(lanes[v][l]) = {}
  BY DEF Init
<1>7. RingJobsDistinct /\ RingJobsWait
  BY <1>6 DEF RingJobsDistinct, RingJobsWait
<1>8. JobInv
  BY <1>5, <1>7 DEF Init, JobInv
<1>9. NeverTwice /\ NothingLost
  BY DEF Init, NeverTwice, NothingLost
<1>10. Pending = {}
  BY <1>6 DEF Pending, InRing
<1>11. Running = {} /\ Finished = {} /\ Phase = "off"
  BY <1>5 DEF Init, Running, Finished, Phase
<1>12. QED
  BY <1>1, <1>2, <1>4, <1>8, <1>9, <1>10, <1>11 DEF IInv, Exec!Init

\* The invariant is inductive, and a step from it is a step of the executor.
LEMMA Inductive == IInv /\ [Next]_vars => IInv' /\ [Exec!Next]_(Exec!vars)
<1> SUFFICES ASSUME IInv, [Next]_vars PROVE IInv' /\ [Exec!Next]_(Exec!vars)
  OBVIOUS
<1>1. CASE Next
  <2>1. TypeOK'
    BY <1>1, TypesStep DEF IInv
  <2>2. QED
    BY <1>1, <2>1, LockStep, LifeStep, JobsStep DEF IInv
<1>2. CASE UNCHANGED vars
  <2> USE <1>2 DEF vars, globals, mutexes, locals, callerVars, history
  <2>1. TypeOK'
    BY DEF IInv, TypeOK
  <2>2. \A x \in Workers : Victim(x)' = Victim(x)
    BY DEF Victim
  <2>3. LockInv'
    BY <2>2 DEF IInv, LockInv, Holds
  <2>4. LifeInv'
    BY DEF IInv, LifeInv, Alive, Empty
  <2>5. Pending' = Pending /\ Running' = Running /\ Finished' = Finished
        /\ Phase' = Phase
    BY DEF Pending, InRing, Running, Started, Finished, Phase
  <2>6. RingJobsDistinct' /\ RingJobsWait'
    BY DEF IInv, JobInv, RingJobsDistinct, RingJobsWait
  <2>7. \A x \in Workers : HandInv(x)'
    BY <2>2 DEF IInv, JobInv, HandInv, Reading, Started, Source, InRing
  <2>8. JobInv'
    BY <2>6, <2>7 DEF IInv, JobInv, Started
  <2>9. NeverTwice' /\ NothingLost'
    BY DEF IInv, NeverTwice, NothingLost, InRing
  <2>10. QED
    BY <2>1, <2>3, <2>4, <2>5, <2>8, <2>9 DEF IInv, Exec!vars
<1>3. QED
  BY <1>1, <1>2

\* The strengthening holds in every reachable state.
THEOREM Invariance == Spec => []IInv
<1>1. Init => IInv
  BY InitInv
<1>2. IInv /\ [Next]_vars => IInv'
  BY Inductive
<1>3. QED
  BY <1>1, <1>2, PTL DEF Spec

\* Indices stay inside the worker table and the lanes, rings only hold jobs.
THEOREM TypeCorrect == Spec => []TypeOK
<1>1. IInv => TypeOK
  BY DEF IInv
<1>2. QED
  BY <1>1, Invariance, PTL

\* No job runs twice and no refused job runs, for any number of thieves.
THEOREM OnceOnly == Spec => []NeverTwice
<1>1. IInv => NeverTwice
  BY DEF IInv
<1>2. QED
  BY <1>1, Invariance, PTL

\* An accepted job is in a ring, in a worker's hands or done, always.
THEOREM Lossless == Spec => []NothingLost
<1>1. IInv => NothingLost
  BY DEF IInv
<1>2. QED
  BY <1>1, Invariance, PTL

\* When shutdown has returned, every accepted job has run.
THEOREM Drained == Spec => []DrainedAtShutdown
<1>1. IInv => DrainedAtShutdown
  <2> SUFFICES ASSUME IInv, caller = "off", NEW j \in accepted
               PROVE  ran[j] = 1
    BY DEF DrainedAtShutdown
  <2>1. \A x \in Workers : pc[x] = "new" /\ Empty(x)
    BY LifeAt DEF IInv, Alive
  <2>2. \A x \in Workers : job[x] = NoJob
    BY <2>1 DEF IInv, JobInv, HandInv, Reading, Started
  <2>3. j # NoJob
    BY DEF IInv, TypeOK, Jobs, NoJob
  <2>4. ~InRing(j)
    BY <2>1 DEF InRing, Empty
  <2>5. QED
    BY <2>2, <2>3, <2>4 DEF IInv, NothingLost
<1>2. QED
  BY <1>1, Invariance, PTL

\* The pool is an executor: a job is begun once, finishes, and shutdown returns
\* when nothing is pending or running.
THEOREM Refinement == Spec => ImplementsExecutor
<1>1. Init => Exec!Init
  BY InitInv
<1>2. IInv /\ [Next]_vars => [Exec!Next]_(Exec!vars)
  BY Inductive
<1>3. QED
  BY <1>1, <1>2, Invariance, PTL DEF Spec, ImplementsExecutor, Exec!Spec

-------------------------------------------------------------------------------
(* Rings and their mutexes.                                                    *)

\* A mutex is only ever destroyed after its owner was joined.
DeadInv == \A v \in Workers : mu[v] = Dead => pc[v] = "new"

\* What one step does to a ring it has no lock on: nothing.
RingStep == \A v \in Workers : lanes'[v] # lanes[v] => mu[v] \in Workers \cup {Tick}

\* Every step keeps DeadInv and changes a ring only under its mutex.
LEMMA RingsStep ==
  ASSUME IInv, DeadInv, Next
  PROVE  DeadInv' /\ RingStep
<1> USE DEF globals, mutexes, locals, callerVars, history, Goto, Take, Lock, Unlock, Sees
<1>0. TypeOK /\ LockInv /\ LifeInv /\ JobInv
  BY DEF IInv
<1>a. \A x \in Workers : x # Free /\ x # Dead /\ x # Tick
  BY PoolConstants DEF Workers, Free, Dead, Tick
<1>b. Free # Dead /\ Free # Tick /\ Dead # Tick
  BY PoolConstants DEF Free, Dead, Tick
<1>v. ASSUME NEW w \in Workers, pc[w] \in {"steal", "stealpop", "stealmiss"}, gn = N
      PROVE  Victim(w) \in Workers
  BY <1>v, <1>0, VictimWorker
<1>g. ASSUME NEW w \in Workers, pc[w] \in {"stealpop", "stealmiss"} \/ k[w] < gn
      PROVE  gn = N
  BY <1>g, <1>0 DEF LockInv, Holds, TypeOK
<1>1. ASSUME NEW w \in Workers, LoopLock(w) PROVE DeadInv' /\ RingStep
  BY <1>1, <1>0, <1>a, <1>b DEF LoopLock, DeadInv, RingStep, TypeOK
<1>2. ASSUME NEW w \in Workers, Pop(w) PROVE DeadInv' /\ RingStep
  <2>1. mu[w] = w
    BY <1>2, <1>0 DEF Pop, LockInv, Holds
  <2>2. RingStep
    BY <1>2, <1>0, <2>1 DEF Pop, Advance, RingStep, TypeOK
  <2>3. DeadInv'
    BY <1>2, <1>0, <1>b DEF Pop, DeadInv, TypeOK
  <2>4. QED
    BY <2>2, <2>3
<1>3. ASSUME NEW w \in Workers, Check(w) PROVE DeadInv' /\ RingStep
  BY <1>3, <1>0, <1>a, <1>b DEF Check, DeadInv, RingStep, TypeOK
<1>4. ASSUME NEW w \in Workers, Wake(w) PROVE DeadInv' /\ RingStep
  BY <1>4, <1>0, <1>a, <1>b DEF Wake, DeadInv, RingStep, TypeOK
<1>5. ASSUME NEW w \in Workers, Recheck(w) PROVE DeadInv' /\ RingStep
  BY <1>5, <1>0, <1>a, <1>b DEF Recheck, DeadInv, RingStep, TypeOK
<1>6. ASSUME NEW w \in Workers, Leave(w) PROVE DeadInv' /\ RingStep
  BY <1>6, <1>0, <1>a, <1>b DEF Leave, DeadInv, RingStep, TypeOK
<1>7. ASSUME NEW w \in Workers, StealTry(w) PROVE DeadInv' /\ RingStep
  <2>1. Victim(w) \in Workers
    BY <1>7, <1>v, <1>g DEF StealTry
  <2>2. QED
    BY <1>7, <1>0, <1>a, <1>b, <2>1 DEF StealTry, DeadInv, RingStep, TypeOK
<1>8. ASSUME NEW w \in Workers, StealPop(w) PROVE DeadInv' /\ RingStep
  <2>1. Victim(w) \in Workers
    BY <1>8, <1>v, <1>g DEF StealPop
  <2>2. RingStep
    <3>1. mu[Victim(w)] = w
      BY <1>8, <1>0 DEF StealPop, LockInv, Holds
    <3>2. QED
      BY <1>8, <1>0, <2>1, <3>1 DEF StealPop, Advance, RingStep, TypeOK
  <2>3. DeadInv'
    BY <1>8, <1>0, <1>b, <2>1 DEF StealPop, DeadInv, TypeOK
  <2>4. QED
    BY <2>2, <2>3
<1>9. ASSUME NEW w \in Workers, StealMiss(w) PROVE DeadInv' /\ RingStep
  <2>1. Victim(w) \in Workers
    BY <1>9, <1>v, <1>g DEF StealMiss
  <2>2. QED
    BY <1>9, <1>0, <1>a, <1>b, <2>1 DEF StealMiss, DeadInv, RingStep, TypeOK
<1>10. ASSUME NEW w \in Workers, StealBusy(w) PROVE DeadInv' /\ RingStep
  BY <1>10, <1>0, <1>a, <1>b DEF StealBusy, DeadInv, RingStep, TypeOK
<1>11. ASSUME NEW w \in Workers, StealDestroyed(w) PROVE DeadInv' /\ RingStep
  <2>1. Victim(w) \in Workers
    BY <1>11, <1>v, <1>g DEF StealDestroyed
  <2>2. Empty(Victim(w))
    BY <1>11, <1>0, <2>1, LifeAt DEF StealDestroyed, DeadInv
  <2>3. lanes' = lanes
    BY <1>11, <2>2 DEF StealDestroyed, Cold, Empty
  <2>4. QED
    BY <1>11, <1>0, <2>3 DEF StealDestroyed, DeadInv, RingStep, TypeOK
<1>12. ASSUME NEW w \in Workers, StealEnd(w) PROVE DeadInv' /\ RingStep
  BY <1>12, <1>0, <1>a, <1>b DEF StealEnd, DeadInv, RingStep, TypeOK
<1>13. ASSUME NEW w \in Workers, Run(w) PROVE DeadInv' /\ RingStep
  BY <1>13, <1>0, <1>a, <1>b DEF Run, DeadInv, RingStep, TypeOK
<1>14. ASSUME NEW w \in Workers, DrainLock(w) PROVE DeadInv' /\ RingStep
  BY <1>14, <1>0, <1>a, <1>b DEF DrainLock, DeadInv, RingStep, TypeOK
<1>15. ASSUME NEW w \in Workers, DrainPop(w) PROVE DeadInv' /\ RingStep
  <2>1. mu[w] = w
    BY <1>15, <1>0 DEF DrainPop, LockInv, Holds
  <2>2. RingStep
    BY <1>15, <1>0, <2>1 DEF DrainPop, Advance, RingStep, TypeOK
  <2>3. DeadInv'
    BY <1>15, <1>0, <1>b DEF DrainPop, DeadInv, TypeOK
  <2>4. QED
    BY <2>2, <2>3
<1>16. ASSUME CreateWorker PROVE DeadInv' /\ RingStep
  BY <1>16, <1>0, <1>a, <1>b DEF CreateWorker, DeadInv, RingStep, TypeOK
<1>17. ASSUME ResetStats PROVE DeadInv' /\ RingStep
  BY <1>17, <1>0, <1>a, <1>b DEF ResetStats, DeadInv, RingStep, TypeOK
<1>18. ASSUME NEW w \in Workers, Fault(w) PROVE DeadInv' /\ RingStep
  BY <1>18, <1>0, <1>a, <1>b DEF Fault, DeadInv, RingStep, TypeOK
<1>19. ASSUME Publish PROVE DeadInv' /\ RingStep
  BY <1>19, <1>0, <1>a, <1>b DEF Publish, DeadInv, RingStep, TypeOK
<1>20. ASSUME SubmitLock PROVE DeadInv' /\ RingStep
  BY <1>20, <1>0, <1>a, <1>b DEF SubmitLock, DeadInv, RingStep, TypeOK
<1>21. ASSUME SubmitPut PROVE DeadInv' /\ RingStep
  <2>1. mu[tgt] = Tick
    BY <1>21, <1>0 DEF SubmitPut, LockInv
  <2>2. QED
    BY <1>21, <1>0, <1>b, <2>1 DEF SubmitPut, DeadInv, RingStep, TypeOK
<1>22. ASSUME SubmitFull PROVE DeadInv' /\ RingStep
  BY <1>22, <1>0, <1>a, <1>b DEF SubmitFull, DeadInv, RingStep, TypeOK
<1>23. ASSUME SubmitReturn PROVE DeadInv' /\ RingStep
  BY <1>23, <1>0, <1>a, <1>b DEF SubmitReturn, DeadInv, RingStep, TypeOK
<1>24. ASSUME Join PROVE DeadInv' /\ RingStep
  BY <1>24, <1>0, <1>a, <1>b DEF Join, DeadInv, RingStep, TypeOK
<1>25. ASSUME FreePool PROVE DeadInv' /\ RingStep
  <2>1. \A x \in Workers : Empty(x)
    BY <1>25, <1>0, LifeAt DEF FreePool, Alive, TypeOK, Workers
  <2>2. lanes' = lanes
    <3>1. \A x \in Workers : lanes[x] = [l \in Lanes |-> <<>>]
      BY <1>0, <2>1 DEF Empty, TypeOK
    <3>2. QED
      BY <1>25, <1>0, <3>1 DEF FreePool, TypeOK
  <2>3. QED
    BY <1>25, <2>2 DEF FreePool, DeadInv, RingStep
<1>26. ASSUME InitCall PROVE DeadInv' /\ RingStep
  BY <1>26, <1>0, <1>a, <1>b DEF InitCall, DeadInv, RingStep, TypeOK
<1>27. ASSUME CreateFails PROVE DeadInv' /\ RingStep
  BY <1>27, <1>0, <1>a, <1>b DEF CreateFails, DeadInv, RingStep, TypeOK
<1>28. ASSUME ShutdownCall PROVE DeadInv' /\ RingStep
  BY <1>28, <1>0, <1>a, <1>b DEF ShutdownCall, DeadInv, RingStep, TypeOK
<1>29. ASSUME NEW p \in Lanes, Submit(p) PROVE DeadInv' /\ RingStep
  BY <1>29, <1>0 DEF Submit, DeadInv, RingStep, TypeOK
<1>30. QED
  BY <1>1, <1>2, <1>3, <1>4, <1>5, <1>6, <1>7, <1>8, <1>9, <1>10, <1>11, <1>12, <1>13, <1>14, <1>15, <1>16, <1>17, <1>18, <1>19, <1>20, <1>21, <1>22, <1>23, <1>24, <1>25, <1>26, <1>27, <1>28, <1>29 DEF Next, Worker, CallerProceeds

\* Rings are only changed by a thread that holds their mutex, although shutdown
\* destroys mutexes a late thief still tries.
THEOREM LockedRings == Spec => RingsChangeUnderLock
<1>1. Init => DeadInv
  BY DEF Init, DeadInv
<1>2. IInv /\ DeadInv /\ [Next]_vars => DeadInv' /\ [RingStep]_vars
  <2>1. CASE Next
    BY <2>1, RingsStep
  <2>2. CASE UNCHANGED vars
    BY <2>2 DEF vars, mutexes, locals, DeadInv
  <2>3. QED
    BY <2>1, <2>2
<1>3. QED
  BY <1>1, <1>2, Invariance, PTL DEF Spec, RingsChangeUnderLock, RingStep

-------------------------------------------------------------------------------
(* The order in which a worker serves its own ring.                            *)

\* Between the two halves of a pop, no more urgent job is in the ring.
Ahead(x) ==
  pc[x] \in {"pop", "drainpop"} =>
    \A m \in Lanes : m < lane[x] => lanes[x][m] = <<>>
UrgentInv == \A x \in Workers : Ahead(x)

\* Between them nothing but its own step changes what a worker works on.
Keep(x) ==
  pc'[x] \in {"pop", "drainpop"} =>
    pc'[x] = pc[x] /\ lane'[x] = lane[x] /\ lanes'[x] = lanes[x]

\* Every step keeps UrgentInv: who is between the two halves holds the mutex, so
\* that a submit waits and a thief leaves the ring alone.
LEMMA UrgentStep ==
  ASSUME IInv, DeadInv, UrgentInv, Next
  PROVE  UrgentInv'
<1> USE DEF globals, mutexes, locals, callerVars, history, Goto, Take, Lock, Unlock, Sees
<1>0. TypeOK /\ LockInv /\ LifeInv /\ JobInv
  BY DEF IInv
<1>a. \A x \in Workers : x # Free /\ x # Dead /\ x # Tick
  BY PoolConstants DEF Workers, Free, Dead, Tick
<1>b. Free # Dead /\ Free # Tick /\ Dead # Tick
  BY PoolConstants DEF Free, Dead, Tick
<1>v. ASSUME NEW w \in Workers, pc[w] \in {"steal", "stealpop", "stealmiss"}, gn = N
      PROVE  Victim(w) \in Workers
  BY <1>v, <1>0, VictimWorker
<1>g. ASSUME NEW w \in Workers, pc[w] \in {"stealpop", "stealmiss"} \/ k[w] < gn
      PROVE  gn = N
  BY <1>g, <1>0 DEF LockInv, Holds, TypeOK
<1>w. /\ (\A x \in Workers : Keep(x)) => UrgentInv'
      /\ \A w \in Workers : (\A x \in Workers \ {w} : Keep(x)) /\ Ahead(w)' => UrgentInv'
  BY DEF Keep, UrgentInv, Ahead
<1>m. \A x \in Workers : pc[x] \in {"pop", "drainpop"} => mu[x] = x
  BY <1>0 DEF LockInv, Holds
<1>1. ASSUME NEW w \in Workers, LoopLock(w) PROVE UrgentInv'
  <2>1. \A x \in Workers \ {w} : Keep(x)
    BY <1>1, <1>0 DEF LoopLock, ReadSlot, Keep, TypeOK
  <2>2. Ahead(w)'
    <3>1. CASE \E l \in Lanes : Urgent(w, l) /\ ReadSlot(w, w, l)
      <4>1. PICK l \in Lanes : Urgent(w, l) /\ ReadSlot(w, w, l)
        BY <3>1
      <4>2. lane'[w] = l /\ lanes' = lanes
        BY <1>1, <1>0, <4>1 DEF LoopLock, ReadSlot, TypeOK
      <4>3. QED
        BY <4>1, <4>2 DEF Ahead, Urgent
    <3>2. CASE pc'[w] \notin {"pop", "drainpop"}
      BY <3>2 DEF Ahead
    <3>3. QED
      BY <1>1, <1>0, <3>1, <3>2 DEF LoopLock, TypeOK
  <2>3. QED
    BY <1>w, <2>1, <2>2
<1>2. ASSUME NEW w \in Workers, Pop(w) PROVE UrgentInv'
  BY <1>2, <1>0, <1>w DEF Pop, Advance, Keep, TypeOK
<1>3. ASSUME NEW w \in Workers, Check(w) PROVE UrgentInv'
  BY <1>3, <1>0, <1>w DEF Check, Keep, TypeOK
<1>4. ASSUME NEW w \in Workers, Wake(w) PROVE UrgentInv'
  BY <1>4, <1>0, <1>w DEF Wake, Keep, TypeOK
<1>5. ASSUME NEW w \in Workers, Recheck(w) PROVE UrgentInv'
  <2>1. \A x \in Workers \ {w} : Keep(x)
    BY <1>5, <1>0 DEF Recheck, ReadSlot, Keep, TypeOK
  <2>2. Ahead(w)'
    <3>1. CASE \E l \in Lanes : Urgent(w, l) /\ ReadSlot(w, w, l)
      <4>1. PICK l \in Lanes : Urgent(w, l) /\ ReadSlot(w, w, l)
        BY <3>1
      <4>2. lane'[w] = l /\ lanes' = lanes
        BY <1>5, <1>0, <4>1 DEF Recheck, ReadSlot, TypeOK
      <4>3. QED
        BY <4>1, <4>2 DEF Ahead, Urgent
    <3>2. CASE pc'[w] \notin {"pop", "drainpop"}
      BY <3>2 DEF Ahead
    <3>3. QED
      BY <1>5, <1>0, <3>1, <3>2 DEF Recheck, TypeOK
  <2>3. QED
    BY <1>w, <2>1, <2>2
<1>6. ASSUME NEW w \in Workers, Leave(w) PROVE UrgentInv'
  BY <1>6, <1>0, <1>w DEF Leave, Keep, TypeOK
<1>7. ASSUME NEW w \in Workers, StealTry(w) PROVE UrgentInv'
  BY <1>7, <1>0, <1>w DEF StealTry, ReadSlot, Keep, TypeOK
<1>8. ASSUME NEW w \in Workers, StealPop(w) PROVE UrgentInv'
  <2>1. Victim(w) \in Workers /\ mu[Victim(w)] = w
    BY <1>8, <1>0, <1>v, <1>g DEF StealPop, LockInv, Holds
  <2>2. ASSUME NEW x \in Workers PROVE Keep(x)
    <3>1. CASE pc'[x] \in {"pop", "drainpop"}
      <4>1. x # w /\ pc'[x] = pc[x] /\ lane'[x] = lane[x]
        BY <1>8, <1>0, <3>1 DEF StealPop, TypeOK
      <4>2. x # Victim(w)
        BY <1>m, <2>1, <3>1, <4>1
      <4>3. lanes'[x] = lanes[x]
        BY <1>8, <1>0, <2>1, <4>2 DEF StealPop, Advance, TypeOK
      <4>4. QED
        BY <4>1, <4>3 DEF Keep
    <3>2. QED
      BY <3>1 DEF Keep
  <2>3. QED
    BY <1>w, <2>2
<1>9. ASSUME NEW w \in Workers, StealMiss(w) PROVE UrgentInv'
  BY <1>9, <1>0, <1>w DEF StealMiss, Keep, TypeOK
<1>10. ASSUME NEW w \in Workers, StealBusy(w) PROVE UrgentInv'
  BY <1>10, <1>0, <1>w DEF StealBusy, Keep, TypeOK
<1>11. ASSUME NEW w \in Workers, StealDestroyed(w) PROVE UrgentInv'
  <2>1. Victim(w) \in Workers
    BY <1>11, <1>v, <1>g DEF StealDestroyed
  <2>2. Empty(Victim(w))
    BY <1>11, <1>0, <2>1, LifeAt DEF StealDestroyed, DeadInv
  <2>3. UNCHANGED <<lanes, pc, lane>>
    BY <1>11, <2>2 DEF StealDestroyed, Cold, Empty
  <2>4. QED
    BY <1>w, <2>3 DEF Keep
<1>12. ASSUME NEW w \in Workers, StealEnd(w) PROVE UrgentInv'
  BY <1>12, <1>0, <1>w DEF StealEnd, Keep, TypeOK
<1>13. ASSUME NEW w \in Workers, Run(w) PROVE UrgentInv'
  BY <1>13, <1>0, <1>w DEF Run, Keep, TypeOK
<1>14. ASSUME NEW w \in Workers, DrainLock(w) PROVE UrgentInv'
  <2>1. \A x \in Workers \ {w} : Keep(x)
    BY <1>14, <1>0 DEF DrainLock, ReadSlot, Keep, TypeOK
  <2>2. Ahead(w)'
    <3>1. CASE \E l \in Lanes : Urgent(w, l) /\ ReadSlot(w, w, l)
      <4>1. PICK l \in Lanes : Urgent(w, l) /\ ReadSlot(w, w, l)
        BY <3>1
      <4>2. lane'[w] = l /\ lanes' = lanes
        BY <1>14, <1>0, <4>1 DEF DrainLock, ReadSlot, TypeOK
      <4>3. QED
        BY <4>1, <4>2 DEF Ahead, Urgent
    <3>2. CASE pc'[w] \notin {"pop", "drainpop"}
      BY <3>2 DEF Ahead
    <3>3. QED
      BY <1>14, <1>0, <3>1, <3>2 DEF DrainLock, TypeOK
  <2>3. QED
    BY <1>w, <2>1, <2>2
<1>15. ASSUME NEW w \in Workers, DrainPop(w) PROVE UrgentInv'
  BY <1>15, <1>0, <1>w DEF DrainPop, Advance, Keep, TypeOK
<1>16. ASSUME CreateWorker PROVE UrgentInv'
  BY <1>16, <1>0, <1>w DEF CreateWorker, Keep, TypeOK
<1>17. ASSUME ResetStats PROVE UrgentInv'
  BY <1>17, <1>0, <1>w DEF ResetStats, Keep, TypeOK
<1>18. ASSUME NEW w \in Workers, Fault(w) PROVE UrgentInv'
  BY <1>18, <1>0, <1>w DEF Fault, Keep, TypeOK
<1>19. ASSUME Publish PROVE UrgentInv'
  BY <1>19, <1>0, <1>w DEF Publish, Keep, TypeOK
<1>20. ASSUME SubmitLock PROVE UrgentInv'
  BY <1>20, <1>0, <1>w DEF SubmitLock, Keep, TypeOK
<1>21. ASSUME SubmitPut PROVE UrgentInv'
  <2>1. mu[tgt] = Tick /\ tgt \in Workers
    BY <1>21, <1>0 DEF SubmitPut, LockInv, TypeOK
  <2>2. \A x \in Workers : pc[x] \in {"pop", "drainpop"} => x # tgt
    BY <1>a, <1>m, <2>1
  <2>3. QED
    BY <1>21, <1>0, <1>w, <2>1, <2>2 DEF SubmitPut, Keep, TypeOK
<1>22. ASSUME SubmitFull PROVE UrgentInv'
  BY <1>22, <1>0, <1>w DEF SubmitFull, Keep, TypeOK
<1>23. ASSUME SubmitReturn PROVE UrgentInv'
  BY <1>23, <1>0, <1>w DEF SubmitReturn, Keep, TypeOK
<1>24. ASSUME Join PROVE UrgentInv'
  BY <1>24, <1>0, <1>w DEF Join, Keep, TypeOK
<1>25. ASSUME FreePool PROVE UrgentInv'
  <2>1. \A x \in Workers : pc[x] = "new"
    <3>1. caller = "join" /\ idx = created
      BY <1>25 DEF FreePool
    <3>2. \A x \in Workers : ~Alive(x)
      BY <1>0, <3>1 DEF Alive, TypeOK, Workers
    <3>3. QED
      BY <1>0, <3>2, LifeAt
  <2>2. \A x \in Workers : pc'[x] = "new"
    BY <1>25, <2>1 DEF FreePool
  <2>3. QED
    BY <1>w, <2>2 DEF Keep
<1>26. ASSUME InitCall PROVE UrgentInv'
  BY <1>26, <1>0, <1>w DEF InitCall, Keep, TypeOK
<1>27. ASSUME CreateFails PROVE UrgentInv'
  BY <1>27, <1>0, <1>w DEF CreateFails, Keep, TypeOK
<1>28. ASSUME ShutdownCall PROVE UrgentInv'
  BY <1>28, <1>0, <1>w DEF ShutdownCall, Keep, TypeOK
<1>29. ASSUME NEW p \in Lanes, Submit(p) PROVE UrgentInv'
  BY <1>29, <1>0, <1>w DEF Submit, Keep, TypeOK
<1>30. QED
  BY <1>1, <1>2, <1>3, <1>4, <1>5, <1>6, <1>7, <1>8, <1>9, <1>10, <1>11, <1>12, <1>13, <1>14, <1>15, <1>16, <1>17, <1>18, <1>19, <1>20, <1>21, <1>22, <1>23, <1>24, <1>25, <1>26, <1>27, <1>28, <1>29 DEF Next, Worker, CallerProceeds

\* A worker that serves its own ring, also in the drain loop, never starts a job
\* while a more urgent one waits there: no submit or theft comes between its look
\* at the lanes and the pop.
THEOREM UrgentServed == Spec => UrgentFirst
<1>1. Init => DeadInv /\ UrgentInv
  BY DEF Init, DeadInv, UrgentInv, Ahead
<1>2. IInv /\ DeadInv /\ UrgentInv /\ [Next]_vars => DeadInv' /\ UrgentInv'
  <2>1. CASE Next
    BY <2>1, RingsStep, UrgentStep
  <2>2. CASE UNCHANGED vars
    BY <2>2 DEF vars, mutexes, locals, DeadInv, UrgentInv, Ahead
  <2>3. QED
    BY <2>1, <2>2
<1>3. UrgentInv =>
        [\A w \in Workers :
           pc[w] \in {"pop", "drainpop"} /\ pc'[w] # pc[w] =>
             \A m \in Lanes : m < lane[w] => lanes[w][m] = <<>>]_vars
  BY DEF UrgentInv, Ahead
<1>4. QED
  BY <1>1, <1>2, <1>3, Invariance, PTL DEF Spec, UrgentFirst

-------------------------------------------------------------------------------
(* Who is bound to see the stores of init.                                     *)

\* Knowledge travels with the jobs: a ring that holds one has been unlocked by
\* somebody who knows, and so teaches whoever locks it to take the job out.
RingsTeach ==
  /\ \A v \in Workers : ~Empty(v) => v \in carries
  /\ \A v \in Workers : v \in carries /\ mu[v] \in Workers => mu[v] \in knows
  /\ gn = N => Tick \in knows
VeteranKnows(w) ==
  pc[w] # "new" /\ (job[w] # NoJob \/ done[w] > 0) => w \in knows
KnowInv == RingsTeach /\ \A w \in Workers : VeteranKnows(w)

\* A fault hits no worker with a job behind it.
FaultStep ==
  \A w \in Workers : pc[w] # "fault" /\ pc'[w] = "fault" => done[w] = 0

\* Every step keeps KnowInv, and only a worker that does not know can fault.
LEMMA KnowStep ==
  ASSUME IInv, KnowInv, Next
  PROVE  KnowInv' /\ FaultStep
<1> USE DEF globals, mutexes, locals, callerVars, history, Goto, Take, Lock, Unlock, Sees
<1>0. TypeOK /\ LockInv /\ LifeInv /\ JobInv
  BY DEF IInv
<1>a. \A x \in Workers : x # Free /\ x # Dead /\ x # Tick
  BY PoolConstants DEF Workers, Free, Dead, Tick
<1>b. Free # Dead /\ Free # Tick /\ Dead # Tick
  BY PoolConstants DEF Free, Dead, Tick
<1>v. ASSUME NEW w \in Workers, pc[w] \in {"steal", "stealpop", "stealmiss"},
             pc[w] \in {"stealpop", "stealmiss"} \/ k[w] < gn
      PROVE  Victim(w) \in Workers
  <2>1. gn = N
    BY <1>v, <1>0 DEF LockInv, Holds, TypeOK
  <2>2. QED
    BY <1>0, <2>1, VictimWorker
\* The slot between the two halves of a pop is one of a ring.
<1>t. \A w \in Workers : Reading(w) =>
        /\ Source(w) \in Workers /\ lane[w] \in Lanes
        /\ lanes[Source(w)][lane[w]] # <<>>
  BY <1>0, <1>v DEF JobInv, HandInv, Reading, Source, TypeOK
\* No ring gets its first job, and no mutex changes hands.
<1>f. ASSUME \A x \in Workers : Empty(x) => Empty(x)',
             mu' = mu, carries' = carries, knows \subseteq knows', gn' = gn
      PROVE  RingsTeach'
  BY <1>f DEF KnowInv, RingsTeach
\* A mutex is taken.
<1>l. ASSUME NEW v \in Workers, NEW t, mu' = [mu EXCEPT ![v] = t],
             v \in carries => t \in knows',
             carries' = carries, knows \subseteq knows', lanes' = lanes, gn' = gn
      PROVE  RingsTeach'
  BY <1>l, <1>0 DEF KnowInv, RingsTeach, Empty, TypeOK
\* A mutex is given back, destroyed or made.
<1>u. ASSUME NEW v \in Workers, NEW q \in {Free, Dead}, mu' = [mu EXCEPT ![v] = q],
             carries' \in {carries, carries \cup {v}}, knows' = knows,
             \A x \in Workers : Empty(x) => Empty(x)', gn' = gn
      PROVE  RingsTeach'
  BY <1>u, <1>0, <1>a DEF KnowInv, RingsTeach, TypeOK
\* What one worker does leaves the others as they were.
<1>w. ASSUME NEW w \in Workers, knows \subseteq knows', RingsTeach', VeteranKnows(w)',
             \A x \in Workers \ {w} : pc'[x] = pc[x] /\ job'[x] = job[x] /\ done'[x] = done[x],
             pc'[w] # "fault"
      PROVE  KnowInv' /\ FaultStep
  BY <1>w DEF KnowInv, VeteranKnows, FaultStep
<1>1. ASSUME NEW w \in Workers, LoopLock(w) PROVE KnowInv' /\ FaultStep
  <2>1. /\ \A x \in Workers \ {w} : pc'[x] = pc[x] /\ job'[x] = job[x] /\ done'[x] = done[x]
        /\ pc[w] # "new" /\ pc'[w] # "fault"
    BY <1>1, <1>0 DEF LoopLock, ReadSlot, TypeOK
  <2>2. knows \subseteq knows' /\ RingsTeach'
    BY <1>1, <1>l DEF LoopLock
  <2>3. VeteranKnows(w)'
    <3>1. CASE \E l \in Lanes : Urgent(w, l) /\ ReadSlot(w, w, l)
      <4>1. w \in carries
        BY <3>1 DEF Urgent, Empty, KnowInv, RingsTeach
      <4>2. w \in knows'
        BY <1>1, <4>1 DEF LoopLock
      <4>3. QED
        BY <4>2 DEF VeteranKnows
    <3>2. CASE UNCHANGED <<job, done>>
      BY <2>1, <2>2, <3>2 DEF KnowInv, VeteranKnows
    <3>3. QED
      BY <1>1, <3>1, <3>2 DEF LoopLock
  <2>9. QED
    BY <1>w, <2>1, <2>2, <2>3
<1>2. ASSUME NEW w \in Workers, Pop(w) PROVE KnowInv' /\ FaultStep
  <2>1. /\ \A x \in Workers \ {w} : pc'[x] = pc[x] /\ job'[x] = job[x] /\ done'[x] = done[x]
        /\ pc[w] # "new" /\ pc'[w] # "fault"
    BY <1>2, <1>0 DEF Pop, ReadSlot, TypeOK
  <2>2. knows \subseteq knows' /\ RingsTeach'
    <3>1. \A x \in Workers : Empty(x) => Empty(x)'
      BY <1>2, <1>0, <1>t DEF Pop, Advance, Reading, Source, Empty, TypeOK
    <3>2. QED
      BY <1>2, <1>f, <3>1 DEF Pop
  <2>3. VeteranKnows(w)'
    BY <1>2, <1>0, <2>1, <2>2 DEF Pop, KnowInv, VeteranKnows, TypeOK
  <2>9. QED
    BY <1>w, <2>1, <2>2, <2>3
<1>3. ASSUME NEW w \in Workers, Check(w) PROVE KnowInv' /\ FaultStep
  <2>1. /\ \A x \in Workers \ {w} : pc'[x] = pc[x] /\ job'[x] = job[x] /\ done'[x] = done[x]
        /\ pc[w] # "new" /\ pc'[w] # "fault"
    BY <1>3, <1>0 DEF Check, ReadSlot, TypeOK
  <2>2. knows \subseteq knows' /\ RingsTeach'
    <3>1. \A x \in Workers : Empty(x)' = Empty(x)
      BY <1>3 DEF Check, Empty
    <3>2. CASE down
      BY <1>3, <1>f, <3>1, <3>2 DEF Check
    <3>3. CASE ~down
      BY <1>3, <1>u, <3>1, <3>3 DEF Check
    <3>4. QED
      BY <3>2, <3>3
  <2>3. VeteranKnows(w)'
    BY <1>3, <1>0, <2>1, <2>2 DEF Check, KnowInv, VeteranKnows, TypeOK
  <2>9. QED
    BY <1>w, <2>1, <2>2, <2>3
<1>4. ASSUME NEW w \in Workers, Wake(w) PROVE KnowInv' /\ FaultStep
  BY <1>4, <1>0, <1>a, <1>b DEF Wake, KnowInv, RingsTeach, VeteranKnows, FaultStep, Empty, TypeOK
<1>5. ASSUME NEW w \in Workers, Recheck(w) PROVE KnowInv' /\ FaultStep
  <2>1. /\ \A x \in Workers \ {w} : pc'[x] = pc[x] /\ job'[x] = job[x] /\ done'[x] = done[x]
        /\ pc[w] # "new" /\ pc'[w] # "fault"
    BY <1>5, <1>0 DEF Recheck, ReadSlot, TypeOK
  <2>2. knows \subseteq knows' /\ RingsTeach'
    BY <1>5, <1>f DEF Recheck, Empty
  <2>3. VeteranKnows(w)'
    <3>1. CASE \E l \in Lanes : Urgent(w, l) /\ ReadSlot(w, w, l)
      <4>1. w \in carries
        BY <3>1 DEF Urgent, Empty, KnowInv, RingsTeach
      <4>2. mu[w] = w
        BY <1>5, <1>0 DEF Recheck, LockInv, Holds
      <4>3. w \in knows'
        BY <2>2, <4>1, <4>2 DEF KnowInv, RingsTeach
      <4>4. QED
        BY <4>3 DEF VeteranKnows
    <3>2. CASE UNCHANGED <<job, done>>
      BY <2>1, <2>2, <3>2 DEF KnowInv, VeteranKnows
    <3>3. QED
      BY <1>5, <3>1, <3>2 DEF Recheck
  <2>9. QED
    BY <1>w, <2>1, <2>2, <2>3
<1>6. ASSUME NEW w \in Workers, Leave(w) PROVE KnowInv' /\ FaultStep
  BY <1>6, <1>0, <1>a, <1>b DEF Leave, KnowInv, RingsTeach, VeteranKnows, FaultStep, Empty, TypeOK
<1>7. ASSUME NEW w \in Workers, StealTry(w) PROVE KnowInv' /\ FaultStep
  <2>1. /\ \A x \in Workers \ {w} : pc'[x] = pc[x] /\ job'[x] = job[x] /\ done'[x] = done[x]
        /\ pc[w] # "new" /\ pc'[w] # "fault"
    BY <1>7, <1>0 DEF StealTry, ReadSlot, TypeOK
  <2>2. knows \subseteq knows' /\ RingsTeach'
    BY <1>7, <1>l, <1>v DEF StealTry
  <2>3. VeteranKnows(w)'
    BY <1>7 DEF StealTry, VeteranKnows
  <2>9. QED
    BY <1>w, <2>1, <2>2, <2>3
<1>8. ASSUME NEW w \in Workers, StealPop(w) PROVE KnowInv' /\ FaultStep
  <2>1. /\ \A x \in Workers \ {w} : pc'[x] = pc[x] /\ job'[x] = job[x] /\ done'[x] = done[x]
        /\ pc[w] # "new" /\ pc'[w] # "fault"
    BY <1>8, <1>0 DEF StealPop, ReadSlot, TypeOK
  <2>2. knows \subseteq knows' /\ RingsTeach'
    <3>1. \A x \in Workers : Empty(x) => Empty(x)'
      BY <1>8, <1>0, <1>t DEF StealPop, Advance, Reading, Source, Empty, TypeOK
    <3>2. QED
      BY <1>8, <1>u, <1>v, <3>1 DEF StealPop
  <2>3. VeteranKnows(w)'
    BY <1>8, <1>0, <2>1, <2>2 DEF StealPop, KnowInv, VeteranKnows, TypeOK
  <2>9. QED
    BY <1>w, <2>1, <2>2, <2>3
<1>9. ASSUME NEW w \in Workers, StealMiss(w) PROVE KnowInv' /\ FaultStep
  BY <1>9, <1>0, <1>a, <1>b DEF StealMiss, KnowInv, RingsTeach, VeteranKnows, FaultStep, Empty, TypeOK
<1>10. ASSUME NEW w \in Workers, StealBusy(w) PROVE KnowInv' /\ FaultStep
  BY <1>10, <1>0, <1>a, <1>b DEF StealBusy, KnowInv, RingsTeach, VeteranKnows, FaultStep, Empty, TypeOK
<1>11. ASSUME NEW w \in Workers, StealDestroyed(w) PROVE KnowInv' /\ FaultStep
  <2>1. /\ \A x \in Workers \ {w} : pc'[x] = pc[x] /\ job'[x] = job[x] /\ done'[x] = done[x]
        /\ pc[w] # "new" /\ pc'[w] # "fault"
    BY <1>11, <1>0 DEF StealDestroyed, ReadSlot, TypeOK
  <2>2. knows \subseteq knows' /\ RingsTeach'
    <3>1. Victim(w) \in Workers
      BY <1>11, <1>v DEF StealDestroyed
    <3>2. \A x \in Workers : Empty(x) => Empty(x)'
      BY <1>11, <1>0, <3>1 DEF StealDestroyed, Cold, Empty, TypeOK
    <3>3. QED
      BY <1>11, <1>f, <3>2 DEF StealDestroyed
  <2>3. VeteranKnows(w)'
    BY <1>11 DEF StealDestroyed, VeteranKnows
  <2>9. QED
    BY <1>w, <2>1, <2>2, <2>3
<1>12. ASSUME NEW w \in Workers, StealEnd(w) PROVE KnowInv' /\ FaultStep
  BY <1>12, <1>0, <1>a, <1>b DEF StealEnd, KnowInv, RingsTeach, VeteranKnows, FaultStep, Empty, TypeOK
<1>13. ASSUME NEW w \in Workers, Fault(w) PROVE KnowInv' /\ FaultStep
  <2>1. done[w] = 0
    <3>1. pc[w] = "steal" /\ w \notin knows
      BY <1>13 DEF Fault
    <3>2. ~(done[w] > 0)
      BY <3>1 DEF KnowInv, VeteranKnows
    <3>3. done[w] \in Nat
      BY <1>0 DEF TypeOK
    <3>4. QED
      BY <3>2, <3>3
  <2>2. pc' = [pc EXCEPT ![w] = "fault"]
    BY <1>13 DEF Fault
  <2>3. FaultStep
    BY <1>0, <2>1, <2>2 DEF FaultStep, TypeOK
  <2>4. \A x \in Workers : VeteranKnows(x)'
    BY <1>13, <1>0, <2>2 DEF Fault, KnowInv, VeteranKnows, TypeOK
  <2>5. RingsTeach'
    BY <1>13, <1>f DEF Fault, Empty
  <2>6. QED
    BY <2>3, <2>4, <2>5 DEF KnowInv
<1>14. ASSUME NEW w \in Workers, Run(w) PROVE KnowInv' /\ FaultStep
  <2>1. /\ \A x \in Workers \ {w} : pc'[x] = pc[x] /\ job'[x] = job[x] /\ done'[x] = done[x]
        /\ pc[w] # "new" /\ pc'[w] # "fault"
    BY <1>14, <1>0 DEF Run, ReadSlot, TypeOK
  <2>2. knows \subseteq knows' /\ RingsTeach'
    BY <1>14, <1>f DEF Run, Empty
  <2>3. VeteranKnows(w)'
    <3>1. job[w] # NoJob
      BY <1>14, <1>0 DEF Run, JobInv, HandInv
    <3>2. w \in knows
      BY <2>1, <3>1 DEF KnowInv, VeteranKnows
    <3>3. QED
      BY <2>2, <3>2 DEF VeteranKnows
  <2>9. QED
    BY <1>w, <2>1, <2>2, <2>3
<1>15. ASSUME NEW w \in Workers, DrainLock(w) PROVE KnowInv' /\ FaultStep
  <2>1. /\ \A x \in Workers \ {w} : pc'[x] = pc[x] /\ job'[x] = job[x] /\ done'[x] = done[x]
        /\ pc[w] # "new" /\ pc'[w] # "fault"
    BY <1>15, <1>0 DEF DrainLock, ReadSlot, TypeOK
  <2>2. knows \subseteq knows' /\ RingsTeach'
    <3>1. CASE Lock(w, w)
      BY <1>15, <1>l, <3>1 DEF DrainLock
    <3>2. CASE UNCHANGED mutexes
      BY <1>15, <1>f, <3>2 DEF DrainLock, Empty
    <3>3. QED
      BY <1>15, <3>1, <3>2 DEF DrainLock
  <2>3. VeteranKnows(w)'
    <3>1. CASE \E l \in Lanes : Urgent(w, l) /\ ReadSlot(w, w, l)
      <4>1. ~Empty(w)
        BY <3>1 DEF Urgent, Empty
      <4>2. w \in knows'
        BY <1>15, <4>1 DEF DrainLock, KnowInv, RingsTeach
      <4>3. QED
        BY <4>2 DEF VeteranKnows
    <3>2. CASE UNCHANGED <<job, done>>
      BY <2>1, <2>2, <3>2 DEF KnowInv, VeteranKnows
    <3>3. QED
      BY <1>15, <3>1, <3>2 DEF DrainLock
  <2>9. QED
    BY <1>w, <2>1, <2>2, <2>3
<1>16. ASSUME NEW w \in Workers, DrainPop(w) PROVE KnowInv' /\ FaultStep
  <2>1. /\ \A x \in Workers \ {w} : pc'[x] = pc[x] /\ job'[x] = job[x] /\ done'[x] = done[x]
        /\ pc[w] # "new" /\ pc'[w] # "fault"
    BY <1>16, <1>0 DEF DrainPop, ReadSlot, TypeOK
  <2>2. knows \subseteq knows' /\ RingsTeach'
    <3>1. \A x \in Workers : Empty(x) => Empty(x)'
      BY <1>16, <1>0, <1>t DEF DrainPop, Advance, Reading, Source, Empty, TypeOK
    <3>2. QED
      BY <1>16, <1>u, <3>1 DEF DrainPop
  <2>3. VeteranKnows(w)'
    BY <1>16, <1>0, <2>1, <2>2 DEF DrainPop, KnowInv, VeteranKnows, TypeOK
  <2>9. QED
    BY <1>w, <2>1, <2>2, <2>3
<1>17. ASSUME CreateWorker PROVE KnowInv' /\ FaultStep
  <2>0. created \in Workers /\ pc[created] = "new"
    <3>1. created \in Workers
      BY <1>17, <1>0, PoolConstants DEF CreateWorker, TypeOK, Workers
    <3>2. ~Alive(created)
      BY <1>17, <1>0 DEF CreateWorker, Alive, TypeOK
    <3>3. QED
      BY <1>0, <3>1, <3>2, LifeAt
  <2>1. PICK x \in Workers : x = created /\ pc[x] = "new"
    BY <2>0
  <2>2. job[x] = NoJob
    BY <1>0, <2>1 DEF JobInv, HandInv, Reading, Started
  <2>3. knows \subseteq knows' /\ RingsTeach'
    BY <1>17, <1>u, <2>1 DEF CreateWorker, Empty
  <2>4. /\ \A y \in Workers \ {x} : pc'[y] = pc[y] /\ job'[y] = job[y] /\ done'[y] = done[y]
        /\ pc'[x] # "fault" /\ job'[x] = NoJob /\ done'[x] = 0
    BY <1>17, <1>0, <2>1, <2>2 DEF CreateWorker, TypeOK
  <2>5. VeteranKnows(x)'
    BY <2>4 DEF VeteranKnows
  <2>6. QED
    BY <1>w, <2>1, <2>3, <2>4, <2>5
<1>18. ASSUME ResetStats PROVE KnowInv' /\ FaultStep
  BY <1>18, <1>0, <1>a, <1>b DEF ResetStats, KnowInv, RingsTeach, VeteranKnows, FaultStep, Empty, TypeOK
<1>19. ASSUME Publish PROVE KnowInv' /\ FaultStep
  BY <1>19, <1>0, <1>a, <1>b DEF Publish, KnowInv, RingsTeach, VeteranKnows, FaultStep, Empty, TypeOK
<1>20. ASSUME SubmitLock PROVE KnowInv' /\ FaultStep
  BY <1>20, <1>0, <1>a, <1>b DEF SubmitLock, KnowInv, RingsTeach, VeteranKnows, FaultStep, Empty, TypeOK
<1>21. ASSUME SubmitPut PROVE KnowInv' /\ FaultStep
  <2>1. tgt \in Workers /\ mu[tgt] = Tick /\ Tick \in knows
    BY <1>21, <1>0 DEF SubmitPut, LockInv, LifeInv, KnowInv, RingsTeach, TypeOK
  <2>2. carries' = carries \cup {tgt} /\ knows' = knows
    BY <1>21, <2>1 DEF SubmitPut
  <2>3. \A x \in Workers \ {tgt} : Empty(x)' = Empty(x) /\ mu'[x] = mu[x]
    BY <1>21, <1>0 DEF SubmitPut, Empty, TypeOK
  <2>4. mu'[tgt] = Free
    BY <1>21, <1>0, <1>b, <2>1 DEF SubmitPut, TypeOK
  <2>5. RingsTeach'
    BY <1>21, <1>a, <2>1, <2>2, <2>3, <2>4 DEF SubmitPut, KnowInv, RingsTeach
  <2>6. UNCHANGED <<pc, job, done>>
    BY <1>21 DEF SubmitPut
  <2>7. QED
    BY <2>2, <2>5, <2>6 DEF KnowInv, VeteranKnows, FaultStep
<1>22. ASSUME SubmitFull PROVE KnowInv' /\ FaultStep
  BY <1>22, <1>0, <1>a, <1>b DEF SubmitFull, KnowInv, RingsTeach, VeteranKnows, FaultStep, Empty, TypeOK
<1>23. ASSUME SubmitReturn PROVE KnowInv' /\ FaultStep
  BY <1>23, <1>0, <1>a, <1>b DEF SubmitReturn, KnowInv, RingsTeach, VeteranKnows, FaultStep, Empty, TypeOK
<1>24. ASSUME Join PROVE KnowInv' /\ FaultStep
  BY <1>24, <1>0, <1>a, <1>b DEF Join, KnowInv, RingsTeach, VeteranKnows, FaultStep, Empty, TypeOK
<1>25. ASSUME FreePool PROVE KnowInv' /\ FaultStep
  <2>1. \A x \in Workers : pc[x] = "new"
    <3>1. caller = "join" /\ idx = created
      BY <1>25 DEF FreePool
    <3>2. \A x \in Workers : ~Alive(x)
      BY <1>0, <3>1 DEF Alive, TypeOK, Workers
    <3>3. QED
      BY <1>0, <3>2, LifeAt
  <2>2. pc' = pc /\ \A x \in Workers : Empty(x)'
    BY <1>25 DEF FreePool, Empty
  <2>3. gn' # N /\ carries' = {}
    BY <1>25, PoolConstants DEF FreePool
  <2>4. QED
    BY <2>1, <2>2, <2>3 DEF KnowInv, RingsTeach, VeteranKnows, FaultStep
<1>26. ASSUME InitCall PROVE KnowInv' /\ FaultStep
  BY <1>26, <1>0, <1>a, <1>b DEF InitCall, KnowInv, RingsTeach, VeteranKnows, FaultStep, Empty, TypeOK
<1>27. ASSUME CreateFails PROVE KnowInv' /\ FaultStep
  BY <1>27, <1>0, <1>a, <1>b DEF CreateFails, KnowInv, RingsTeach, VeteranKnows, FaultStep, Empty, TypeOK
<1>28. ASSUME ShutdownCall PROVE KnowInv' /\ FaultStep
  BY <1>28, <1>0, <1>a, <1>b DEF ShutdownCall, KnowInv, RingsTeach, VeteranKnows, FaultStep, Empty, TypeOK
<1>29. ASSUME NEW p \in Lanes, Submit(p) PROVE KnowInv' /\ FaultStep
  BY <1>29, <1>0, <1>a, <1>b DEF Submit, KnowInv, RingsTeach, VeteranKnows, FaultStep, Empty, TypeOK
<1>30. QED
  BY <1>1, <1>2, <1>3, <1>4, <1>5, <1>6, <1>7, <1>8, <1>9, <1>10, <1>11, <1>12, <1>13, <1>14, <1>15, <1>16, <1>17, <1>18, <1>19, <1>20, <1>21, <1>22, <1>23, <1>24, <1>25, <1>26, <1>27, <1>28, <1>29 DEF Next, Worker, CallerProceeds

\* A worker that has run a job does not fault, however it came by the job and
\* whatever the memory lets the others see: the mutex of the ring it took the
\* job from was last unlocked by a thread that had both stores behind it.
THEOREM NewcomersOnly == Spec => OnlyNewcomersFault
<1>1. Init => KnowInv
  <2> SUFFICES ASSUME Init PROVE KnowInv
    OBVIOUS
  <2>1. gn # N
    BY PoolConstants DEF Init
  <2>2. QED
    BY <2>1 DEF Init, KnowInv, RingsTeach, VeteranKnows, Empty
<1>2. IInv /\ KnowInv /\ [Next]_vars => KnowInv' /\ [FaultStep]_vars
  <2>1. CASE Next
    BY <2>1, KnowStep
  <2>2. CASE UNCHANGED vars
    BY <2>2 DEF vars, globals, mutexes, locals, KnowInv, RingsTeach, VeteranKnows, Empty
  <2>3. QED
    BY <2>1, <2>2
<1>3. QED
  BY <1>1, <1>2, Invariance, PTL DEF Spec, OnlyNewcomersFault, FaultStep

===============================================================================
