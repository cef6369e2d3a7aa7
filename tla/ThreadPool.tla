------------------------------ MODULE ThreadPool ------------------------------
(* The work-stealing job system of src/src/core/src/thread_pool.c.            *)
(* N workers, each with one FIFO ring per priority lane behind its own mutex; *)
(* one caller thread (the tick) that initialises the pool, submits jobs and   *)
(* shuts it down.  A step is what a thread does between two points where      *)
(* another thread can interfere: taking a lock, reading g_down, touching a    *)
(* ring under the lock, releasing it, running a job.  A pop is two steps, the *)
(* read of the slot and the advance of head/count, so that it is the mutex    *)
(* and not the grain of the model that keeps a job from being taken twice.    *)
(*                                                                            *)
(* g_w and g_n are plain variables: init stores them while its workers        *)
(* already read them in their steal loops.  Neither the order of the stores   *)
(* nor the moment they are seen is given.  Only mutexes order them: who locks *)
(* one that the tick thread, or a worker who knows, unlocked after the stores *)
(* is bound to see both.  Any other worker reads either value of each, and a  *)
(* thief that has the new count and the old table (NULL) faults.              *)
EXTENDS Integers, Sequences

CONSTANTS N,        \* worker_count
          LANES,    \* MINECPP_LANES
          RING,     \* MINECPP_RING, the capacity of one lane
          RRMOD,    \* the range of the unsigned counter g_rr
          MaxJobs,  \* bound: jobs the caller submits
          MaxInits  \* bound: calls of minecpp_thread_pool_init

ASSUME PoolConstants ==
  /\ N \in Nat \ {0}
  /\ LANES \in Nat \ {0}
  /\ RING \in Nat \ {0}
  /\ RRMOD \in Nat \ {0}
  /\ MaxJobs \in Nat
  /\ MaxInits \in Nat

Workers == 0 .. N-1
Lanes   == 0 .. LANES-1
Jobs    == 1 .. MaxJobs     \* job_t, numbered in the order of submission
NoJob   == 0

\* Who holds a mutex: a worker, the tick thread, nobody; or it is destroyed.
Tick == N
Free == -1
Dead == -2

VARIABLES
  \* globals: g_down, g_n, g_rr and the counters (g_w is set when g_n is)
  down, gn, rr, submitted, completed, dropped,
  \* fields of worker_t
  mu, lanes, done,
  \* locals of worker_main
  pc, job, lane, k,
  \* the caller: where it is, thread index, threads created, submit's locals
  caller, idx, created, tgt, prio,
  \* history: the threads bound to see g_w and g_n as init has left them, and
  \* the mutexes that bind who locks them
  knows, carries,
  \* history: inits so far, jobs submitted, accepted, runs of each job
  inits, sent, accepted, ran

globals == <<down, gn, rr, submitted, completed, dropped>>
locals  == <<pc, job, lane, k>>
callerVars == <<caller, idx, created, tgt, prio>>
mutexes == <<mu, knows, carries>>
history == <<inits, sent, accepted, ran>>
vars == <<globals, mutexes, lanes, done, locals, callerVars, history>>

WorkerPc == {"new", "loop", "pop", "check", "wait", "recheck", "leave",
             "steal", "stealpop", "stealmiss", "run",
             "drain", "drainpop", "drun", "exit", "fault"}
CallerPc == {"off", "create", "reset", "idle",
             "lock", "put", "count", "drop", "join"}

-------------------------------------------------------------------------------
Init ==
  /\ down = FALSE /\ gn = 0 /\ rr = 0
  /\ submitted = 0 /\ completed = 0 /\ dropped = 0
  /\ mu = [w \in Workers |-> Dead] /\ knows = {} /\ carries = {}
  /\ lanes = [w \in Workers |-> [l \in Lanes |-> <<>>]]
  /\ done = [w \in Workers |-> 0]
  /\ pc = [w \in Workers |-> "new"]
  /\ job = [w \in Workers |-> NoJob]
  /\ lane = [w \in Workers |-> 0]
  /\ k = [w \in Workers |-> 1]
  /\ caller = "off" /\ idx = 0 /\ created = 0 /\ tgt = 0 /\ prio = 0
  /\ inits = 0 /\ sent = 0 /\ accepted = {}
  /\ ran = [j \in Jobs |-> 0]

-------------------------------------------------------------------------------
(* Mutexes and rings.                                                         *)
Take(v, t) == mu[v] = Free /\ mu' = [mu EXCEPT ![v] = t]
Lock(v, t) ==
  /\ Take(v, t)
  /\ knows' = IF v \in carries THEN knows \cup {t} ELSE knows
  /\ UNCHANGED carries
Unlock(v) ==
  /\ mu' = [mu EXCEPT ![v] = IF @ = Dead THEN Dead ELSE Free]
  /\ carries' = IF mu[v] \in knows THEN carries \cup {v} ELSE carries
  /\ UNCHANGED knows

Empty(v) == \A l \in Lanes : lanes[v][l] = <<>>

\* Mutant of Urgent: the lanes are scanned from the far end.
UrgentReversed(v, l) ==
  lanes[v][l] # <<>> /\ \A m \in Lanes : m > l => lanes[v][m] = <<>>

\* The owner takes the most urgent lane (P0, P1, P2), a thief the least urgent.
Urgent(v, l) == lanes[v][l] # <<>> /\ \A m \in Lanes : m < l => lanes[v][m] = <<>>
Cold(v, l)   == lanes[v][l] # <<>> /\ \A m \in Lanes : m > l => lanes[v][m] = <<>>

\* pop_lane, first half: *out = ring[lane][head].
ReadSlot(w, v, l) ==
  /\ job' = [job EXCEPT ![w] = Head(lanes[v][l])]
  /\ lane' = [lane EXCEPT ![w] = l]

\* pop_lane, second half: head advances, count drops.
Advance(w, v) == lanes' = [lanes EXCEPT ![v][lane[w]] = Tail(@)]

Goto(w, p) == pc' = [pc EXCEPT ![w] = p]

\* The ring worker w is looking at in its steal loop.
Victim(w) == (w + k[w]) % gn

-------------------------------------------------------------------------------
(* worker_main.                                                               *)

\* Locks its own ring and looks for a job, P0 first.
LoopLock(w) ==
  /\ pc[w] = "loop"
  /\ Lock(w, w)
  /\ \/ \E l \in Lanes : Urgent(w, l) /\ ReadSlot(w, w, l) /\ Goto(w, "pop")
     \/ Empty(w) /\ Goto(w, "check") /\ UNCHANGED <<job, lane>>
  /\ UNCHANGED <<globals, lanes, done, k, callerVars, history>>

Pop(w) ==
  /\ pc[w] = "pop"
  /\ Advance(w, w)
  /\ Goto(w, "leave")
  /\ UNCHANGED <<globals, mutexes, done, job, lane, k, callerVars, history>>

\* Nothing found: unless g_down, cond_wait gives the mutex up.
Check(w) ==
  /\ pc[w] = "check"
  /\ IF down THEN Goto(w, "leave") /\ UNCHANGED mutexes
             ELSE Goto(w, "wait") /\ Unlock(w)
  /\ UNCHANGED <<globals, lanes, done, job, lane, k, callerVars, history>>

\* Mutant of Wake: cond_wait with no timeout, and the signal went to nobody.
WakeNoTimeout(w) ==
  /\ pc[w] = "wait" /\ down
  /\ Lock(w, w)
  /\ Goto(w, "recheck")
  /\ UNCHANGED <<globals, lanes, done, job, lane, k, callerVars, history>>

\* Signal, broadcast, the 2 ms timeout or a spurious wake-up: all look alike.
Wake(w) ==
  /\ pc[w] = "wait"
  /\ Lock(w, w)
  /\ Goto(w, "recheck")
  /\ UNCHANGED <<globals, lanes, done, job, lane, k, callerVars, history>>

Recheck(w) ==
  /\ pc[w] = "recheck"
  /\ \/ ~down /\ \E l \in Lanes : Urgent(w, l) /\ ReadSlot(w, w, l) /\ Goto(w, "pop")
     \/ (down \/ Empty(w)) /\ Goto(w, "leave") /\ UNCHANGED <<job, lane>>
  /\ UNCHANGED <<globals, mutexes, lanes, done, k, callerVars, history>>

\* Mutants of Leave: stop is looked at before have; the drain loop is missing;
\* g_down is never looked at.
LeaveTo(w, p) ==
  /\ pc[w] = "leave"
  /\ Unlock(w)
  /\ Goto(w, p)
  /\ k' = [k EXCEPT ![w] = 1]
  /\ UNCHANGED <<globals, lanes, done, job, lane, callerVars, history>>
LeaveStopFirst(w)  == LeaveTo(w, IF down THEN "drain" ELSE
                                 IF job[w] # NoJob THEN "run" ELSE "steal")
LeaveNoDrain(w)    == LeaveTo(w, IF job[w] # NoJob THEN "run" ELSE
                                 IF down THEN "exit" ELSE "steal")
LeaveNeverStops(w) == LeaveTo(w, IF job[w] # NoJob THEN "run" ELSE "steal")

\* stop = g_down, unlock, and the branch on have and stop.
Leave(w) ==
  /\ pc[w] = "leave"
  /\ Unlock(w)
  /\ Goto(w, CASE job[w] # NoJob -> "run"
               [] job[w] = NoJob /\ down -> "drain"
               [] OTHER -> "steal")
  /\ k' = [k EXCEPT ![w] = 1]
  /\ UNCHANGED <<globals, lanes, done, job, lane, callerVars, history>>

\* The thief has read the new g_n and the new g_w: it goes on seeing them.
Sees(w) == knows' = knows \cup {w} /\ UNCHANGED carries

\* trylock of the next victim succeeds; coldest lane first.
StealTry(w) ==
  /\ pc[w] = "steal" /\ k[w] < gn
  /\ Take(Victim(w), w) /\ Sees(w)
  /\ \/ \E l \in Lanes : /\ Cold(Victim(w), l)
                         /\ ReadSlot(w, Victim(w), l)
                         /\ Goto(w, "stealpop")
     \/ Empty(Victim(w)) /\ Goto(w, "stealmiss") /\ UNCHANGED <<job, lane>>
  /\ UNCHANGED <<globals, lanes, done, k, callerVars, history>>

\* Mutant of StealPop: the slot is read but head and count stay.
StealPeek(w) ==
  /\ pc[w] = "stealpop"
  /\ Unlock(Victim(w))
  /\ Goto(w, "run")
  /\ UNCHANGED <<globals, lanes, done, job, lane, k, callerVars, history>>

StealPop(w) ==
  /\ pc[w] = "stealpop"
  /\ Advance(w, Victim(w))
  /\ Unlock(Victim(w))
  /\ Goto(w, "run")
  /\ UNCHANGED <<globals, done, job, lane, k, callerVars, history>>

StealMiss(w) ==
  /\ pc[w] = "stealmiss"
  /\ Unlock(Victim(w))
  /\ Goto(w, "steal")
  /\ k' = [k EXCEPT ![w] = @ + 1]
  /\ UNCHANGED <<globals, lanes, done, job, lane, callerVars, history>>

\* trylock fails: the mutex is held.
StealBusy(w) ==
  /\ pc[w] = "steal" /\ k[w] < gn
  /\ mu[Victim(w)] \notin {Free, Dead}
  /\ Sees(w) /\ k' = [k EXCEPT ![w] = @ + 1]
  /\ UNCHANGED <<globals, mu, lanes, done, pc, job, lane, callerVars, history>>

\* Shutdown joins and destroys in index order while later workers may still be
\* in their steal loop: trylock of a destroyed mutex.  It fails (glibc) or
\* appears to succeed, and then whatever the ring still holds is taken with no
\* lock at all.
StealDestroyed(w) ==
  /\ pc[w] = "steal" /\ k[w] < gn
  /\ mu[Victim(w)] = Dead /\ Sees(w)
  /\ \/ /\ k' = [k EXCEPT ![w] = @ + 1]
        /\ UNCHANGED <<lanes, pc, job, lane>>
     \/ \E l \in Lanes :
          /\ Cold(Victim(w), l)
          /\ ReadSlot(w, Victim(w), l)
          /\ lanes' = [lanes EXCEPT ![Victim(w)][l] = Tail(@)]
          /\ Goto(w, "run")
          /\ UNCHANGED k
  /\ UNCHANGED <<globals, mu, done, callerVars, history>>

\* No victim is left, or the thief still reads 0 in g_n.
StealEnd(w) ==
  /\ pc[w] = "steal" /\ (k[w] >= gn \/ w \notin knows)
  /\ Goto(w, "loop")
  /\ UNCHANGED <<globals, mutexes, lanes, done, job, lane, k, callerVars, history>>

\* The new g_n and the old g_w: the thief looks for its victim behind NULL.
Fault(w) ==
  /\ pc[w] = "steal" /\ k[w] < gn /\ w \notin knows
  /\ Goto(w, "fault")
  /\ UNCHANGED <<globals, mutexes, lanes, done, job, lane, k, callerVars, history>>

\* j.fn(j.ctx) and the counters; then the main loop or the drain loop again.
Run(w) ==
  /\ pc[w] \in {"run", "drun"}
  /\ ran' = [ran EXCEPT ![job[w]] = @ + 1]
  /\ done' = [done EXCEPT ![w] = @ + 1]
  /\ completed' = completed + 1
  /\ job' = [job EXCEPT ![w] = NoJob]
  /\ Goto(w, IF pc[w] = "run" THEN "loop" ELSE "drain")
  /\ UNCHANGED <<down, gn, rr, submitted, dropped, mutexes, lanes, lane, k,
                 callerVars, inits, sent, accepted>>

\* The drain loop of a worker that saw g_down.
DrainLock(w) ==
  /\ pc[w] = "drain"
  /\ \/ Lock(w, w) /\ \E l \in Lanes : Urgent(w, l) /\ ReadSlot(w, w, l)
                                       /\ Goto(w, "drainpop")
     \/ /\ mu[w] = Free /\ Empty(w)
        /\ Goto(w, "exit")
        /\ UNCHANGED <<mutexes, job, lane>>
  /\ UNCHANGED <<globals, lanes, done, k, callerVars, history>>

DrainPop(w) ==
  /\ pc[w] = "drainpop"
  /\ Advance(w, w)
  /\ Unlock(w)
  /\ Goto(w, "drun")
  /\ UNCHANGED <<globals, done, job, lane, k, callerVars, history>>

-------------------------------------------------------------------------------
(* minecpp_thread_pool_init.  The threads run before g_w and g_n are set:     *)
(* until the last step their steal loop is empty.                             *)
InitCall ==
  /\ caller = "off" /\ inits < MaxInits
  /\ caller' = "create" /\ created' = 0
  /\ inits' = inits + 1
  /\ UNCHANGED <<globals, mutexes, lanes, done, locals, idx, tgt, prio,
                 sent, accepted, ran>>

CreateWorker ==
  /\ caller = "create" /\ created < N
  /\ mu' = [mu EXCEPT ![created] = Free]
  /\ done' = [done EXCEPT ![created] = 0]
  /\ Goto(created, "loop")
  /\ created' = created + 1
  /\ UNCHANGED <<globals, knows, carries, lanes, job, lane, k, caller, idx, tgt, prio, history>>

\* Mutex, condition variable or thread cannot be created: stop what started.
CreateFails ==
  /\ caller = "create" /\ created < N
  /\ down' = TRUE
  /\ caller' = "join" /\ idx' = 0
  /\ UNCHANGED <<gn, rr, submitted, completed, dropped, mutexes, lanes, done,
                 locals, created, tgt, prio, history>>

ResetStats ==
  /\ caller = "create" /\ created = N
  /\ rr' = 0 /\ down' = FALSE
  /\ submitted' = 0 /\ completed' = 0 /\ dropped' = 0
  /\ caller' = "reset"
  /\ UNCHANGED <<gn, mutexes, lanes, done, locals, idx, created, tgt, prio,
                 history>>

\* g_w = w and g_n = worker_count.
Publish ==
  /\ caller = "reset"
  /\ gn' = N /\ knows' = knows \cup {Tick}
  /\ caller' = "idle"
  /\ UNCHANGED <<down, rr, submitted, completed, dropped, mu, carries, lanes,
                 done, locals, idx, created, tgt, prio, history>>

-------------------------------------------------------------------------------
(* minecpp_job_submit: round robin over the rings, -1 when the lane is full.  *)
Submit(p) ==
  /\ caller = "idle" /\ sent < MaxJobs
  /\ sent' = sent + 1
  /\ tgt' = rr % gn /\ prio' = p
  /\ rr' = (rr + 1) % RRMOD
  /\ caller' = "lock"
  /\ UNCHANGED <<down, gn, submitted, completed, dropped, mutexes, lanes,
                 done, locals, idx, created, inits, accepted, ran>>

\* Mutant of SubmitLock: the ring is written without its mutex.
SubmitNoLock ==
  /\ caller = "lock"
  /\ caller' = "put"
  /\ UNCHANGED <<globals, mutexes, lanes, done, locals, idx, created, tgt, prio,
                 history>>

SubmitLock ==
  /\ caller = "lock"
  /\ Lock(tgt, Tick)
  /\ caller' = "put"
  /\ UNCHANGED <<globals, lanes, done, locals, idx, created, tgt, prio, history>>

SubmitPut ==
  /\ caller = "put" /\ Len(lanes[tgt][prio]) < RING
  /\ lanes' = [lanes EXCEPT ![tgt][prio] = Append(@, sent)]
  /\ accepted' = accepted \cup {sent}
  /\ Unlock(tgt)
  /\ caller' = "count"
  /\ UNCHANGED <<globals, done, locals, idx, created, tgt, prio,
                 inits, sent, ran>>

SubmitFull ==
  /\ caller = "put" /\ Len(lanes[tgt][prio]) >= RING
  /\ Unlock(tgt)
  /\ caller' = "drop"
  /\ UNCHANGED <<globals, lanes, done, locals, idx, created, tgt, prio, history>>

\* The counters are bumped after the unlock: a worker may complete the job first.
SubmitReturn ==
  /\ caller \in {"count", "drop"}
  /\ submitted' = IF caller = "count" THEN submitted + 1 ELSE submitted
  /\ dropped' = IF caller = "drop" THEN dropped + 1 ELSE dropped
  /\ caller' = "idle"
  /\ UNCHANGED <<down, gn, rr, completed, mutexes, lanes, done, locals, idx,
                 created, tgt, prio, history>>

-------------------------------------------------------------------------------
(* minecpp_thread_pool_shutdown, and the unwinding of a failed init.          *)
ShutdownCall ==
  /\ caller = "idle"
  /\ down' = TRUE
  /\ caller' = "join" /\ idx' = 0
  /\ UNCHANGED <<gn, rr, submitted, completed, dropped, mutexes, lanes, done,
                 locals, created, tgt, prio, history>>

\* Join thread idx, then destroy its condition variable and mutex.  A later
\* worker may be holding that mutex as a thief; destroying a held mutex either
\* fails and leaves it as it is (glibc: EBUSY) or goes through.
Join ==
  /\ caller = "join" /\ idx < created
  /\ pc[idx] = "exit"
  /\ \/ mu' = [mu EXCEPT ![idx] = Dead]
     \/ mu[idx] # Free /\ UNCHANGED mu
  /\ UNCHANGED <<knows, carries>>
  /\ Goto(idx, "new")
  /\ idx' = idx + 1
  /\ UNCHANGED <<globals, lanes, done, job, lane, k, caller, created, tgt, prio,
                 history>>

\* Mutant of FreePool: shutdown returns without joining the threads.
FreePoolEarly ==
  /\ caller = "join"
  /\ gn' = 0 /\ down' = FALSE /\ knows' = {} /\ carries' = {}
  /\ lanes' = [w \in Workers |-> [l \in Lanes |-> <<>>]]
  /\ caller' = "off"
  /\ UNCHANGED <<rr, submitted, completed, dropped, mu, done, locals, idx,
                 created, tgt, prio, history>>

FreePool ==
  /\ caller = "join" /\ idx = created
  /\ gn' = 0 /\ down' = FALSE /\ knows' = {} /\ carries' = {}
  /\ lanes' = [w \in Workers |-> [l \in Lanes |-> <<>>]]
  /\ caller' = "off"
  /\ UNCHANGED <<rr, submitted, completed, dropped, mu, done, locals, idx,
                 created, tgt, prio, history>>

-------------------------------------------------------------------------------
Worker(w) ==
  \/ LoopLock(w) \/ Pop(w) \/ Check(w) \/ Wake(w) \/ Recheck(w) \/ Leave(w)
  \/ StealTry(w) \/ StealPop(w) \/ StealMiss(w) \/ StealBusy(w)
  \/ StealDestroyed(w) \/ StealEnd(w) \/ Fault(w)
  \/ Run(w) \/ DrainLock(w) \/ DrainPop(w)

CallerProceeds ==
  \/ CreateWorker \/ ResetStats \/ Publish
  \/ SubmitLock \/ SubmitPut \/ SubmitFull \/ SubmitReturn
  \/ Join \/ FreePool

\* The process runs until a thread faults.
Up == \A w \in Workers : pc[w] # "fault"

Next ==
  /\ Up
  /\ \/ \E w \in Workers : Worker(w)
     \/ CallerProceeds
     \/ InitCall \/ CreateFails \/ ShutdownCall
     \/ \E p \in Lanes : Submit(p)

Spec == Init /\ [][Next]_vars

\* Threads are scheduled and a call, once made, proceeds.  A thread that keeps
\* asking for a mutex which is released over and over gets it (strong fairness
\* on blocking lock calls): the critical sections hold no blocking call.
Fairness ==
  /\ \A w \in Workers :
       /\ WF_vars(Up /\ Worker(w))
       /\ SF_vars(Up /\ (LoopLock(w) \/ Wake(w) \/ DrainLock(w)))
  /\ WF_vars(Up /\ CallerProceeds) /\ SF_vars(Up /\ SubmitLock)

FairSpec == Spec /\ Fairness

(* Properties.                                                                *)

TypeOK ==
  /\ down \in BOOLEAN /\ gn \in {0, N} /\ rr \in Nat
  /\ submitted \in Nat /\ completed \in Nat /\ dropped \in Nat
  /\ mu \in [Workers -> Workers \cup {Free, Dead, Tick}]
  /\ knows \subseteq Workers \cup {Tick} /\ carries \subseteq Workers
  /\ lanes \in [Workers -> [Lanes -> Seq(Jobs)]]
  /\ done \in [Workers -> Nat]
  /\ pc \in [Workers -> WorkerPc]
  /\ job \in [Workers -> Jobs \cup {NoJob}]
  /\ lane \in [Workers -> Lanes]
  /\ k \in [Workers -> Nat]
  /\ caller \in CallerPc
  /\ idx \in 0..N /\ created \in 0..N /\ tgt \in Workers /\ prio \in Lanes
  /\ inits \in 0..MaxInits /\ sent \in 0..MaxJobs
  /\ accepted \subseteq Jobs
  /\ ran \in [Jobs -> Nat]

InRing(j) == \E v \in Workers, l \in Lanes :
               \E i \in 1..Len(lanes[v][l]) : lanes[v][l][i] = j

\* Whatever the owner, the thieves and the drain loop do to one ring at the same
\* time, no job function is called twice and none that was refused is called
\* (two pop_lane calls must never return the same slot).
NeverTwice ==
  \A j \in Jobs : ran[j] <= IF j \in accepted THEN 1 ELSE 0

\* A job for which submit returned 0 stays reachable until it has run: it is in
\* a ring, in the hands of a worker, or done.
NothingLost ==
  \A j \in accepted : ran[j] = 1 \/ InRing(j) \/ \E w \in Workers : job[w] = j

\* "Shutdown drena os rings antes de sair" (thread_pool.c:14): when
\* minecpp_thread_pool_shutdown has returned every accepted job has run, although
\* workers leave one by one and only drain their own ring.
DrainedAtShutdown ==
  caller = "off" => \A j \in accepted : ran[j] = 1

\* Init stores g_w and g_n while the workers already read them, and a thief that
\* finds one without the other takes the process down.  That is over for a
\* worker with the first job it gets its hands on: whichever way the job came,
\* by submit, from its own ring or out of another's, so did both stores.
OnlyNewcomersFault ==
  [][\A w \in Workers : pc[w] # "fault" /\ pc'[w] = "fault" => done[w] = 0]_vars

\* A ring is only changed by a thread that holds its mutex.  The late trylock of
\* a destroyed mutex during shutdown is harmless because of this: by then the
\* ring is empty, and free() throws no job away.
RingsChangeUnderLock ==
  [][\A v \in Workers : lanes'[v] # lanes[v] => mu[v] \in Workers \cup {Tick}]_vars

\* A worker that serves its own ring never starts a job while a more urgent one
\* waits in that ring, also when a submit races with the pop.
UrgentFirst ==
  [][\A w \in Workers :
       pc[w] \in {"pop", "drainpop"} /\ pc'[w] # pc[w] =>
         \A m \in Lanes : m < lane[w] => lanes[w][m] = <<>>]_vars

\* Every accepted job is eventually run, whoever's ring it landed in, unless the
\* process goes down first.
EveryJobRuns ==
  \A j \in Jobs : j \in accepted ~> ran[j] = 1 \/ ~Up

\* Shutdown (and the unwinding of a failed init) joins every thread and returns,
\* unless the process goes down first.
ShutdownReturns == caller = "join" ~> caller = "off" \/ ~Up

-------------------------------------------------------------------------------
(* The inductive invariant behind NeverTwice, NothingLost and the refinement.  *)

\* A job read out of a slot that has not been given up yet.
Reading(w) == pc[w] \in {"pop", "drainpop", "stealpop"}
\* A job taken off its ring and not run yet.
Started(w) == job[w] # NoJob /\ pc[w] \in {"leave", "run", "drun"}
\* The ring w works on between the two halves of a pop.
Source(w)  == IF pc[w] = "stealpop" THEN Victim(w) ELSE w

\* Who is inside a critical section holds the mutex.
Holds(w) ==
  /\ pc[w] \in {"pop", "check", "recheck", "leave", "drainpop"} => mu[w] = w
  /\ pc[w] \in {"stealpop", "stealmiss"} => gn = N
  /\ pc[w] = "stealpop" => mu[Victim(w)] = w
  /\ pc[w] = "stealmiss" => mu[Victim(w)] \in {w, Dead}

LockInv ==
  /\ \A w \in Workers : Holds(w)
  /\ caller = "put" => mu[tgt] = Tick

\* Which threads exist, and who may still be using the pool.
Alive(w) == \/ caller = "create" /\ w < created
            \/ caller = "join" /\ idx <= w /\ w < created
            \/ caller \notin {"off", "create", "join"}

LifeInv ==
  /\ down <=> caller = "join"
  /\ caller \in {"off", "create", "reset"} => gn = 0
  /\ caller \in {"idle", "lock", "put", "count", "drop"} => gn = N
  /\ caller \in {"reset", "idle", "lock", "put", "count", "drop"}
       => created = N
  /\ gn = N => created = N
  /\ caller = "join" => idx <= created
  /\ \A w \in Workers :
       /\ pc[w] # "new" <=> Alive(w)
       /\ pc[w] \in {"drain", "drainpop", "drun", "exit"} => caller = "join"
       /\ pc[w] \in {"new", "exit"} => Empty(w)

\* Every job is in one place.  A job a worker has read is still at the head of
\* the ring it was read from; a job it has started is in no ring.
RingJobsDistinct ==
  \A v1, v2 \in Workers, l1, l2 \in Lanes :
    \A i1 \in 1..Len(lanes[v1][l1]), i2 \in 1..Len(lanes[v2][l2]) :
      lanes[v1][l1][i1] = lanes[v2][l2][i2] => v1 = v2 /\ l1 = l2 /\ i1 = i2

RingJobsWait ==
  \A v \in Workers, l \in Lanes : \A i \in 1..Len(lanes[v][l]) :
    lanes[v][l][i] \in accepted /\ ran[lanes[v][l][i]] = 0

HandInv(w) ==
  /\ Reading(w) => /\ lanes[Source(w)][lane[w]] # <<>>
                   /\ job[w] = Head(lanes[Source(w)][lane[w]])
  /\ Started(w) => job[w] \in accepted /\ ran[job[w]] = 0 /\ ~InRing(job[w])
  /\ pc[w] \in {"run", "drun"} => job[w] # NoJob
  /\ job[w] # NoJob => Reading(w) \/ Started(w)

JobInv ==
  /\ RingJobsDistinct
  /\ RingJobsWait
  /\ \A w \in Workers : HandInv(w)
  /\ \A w1, w2 \in Workers : Started(w1) /\ Started(w2) /\ job[w1] = job[w2] => w1 = w2
  /\ accepted \subseteq 1..sent
  /\ caller \in {"lock", "put"} => sent \in Jobs \ accepted

\* The three parts together with NeverTwice and NothingLost are inductive.
IInv == TypeOK /\ LockInv /\ LifeInv /\ JobInv /\ NeverTwice /\ NothingLost

-------------------------------------------------------------------------------
(* What the pool promises to its caller: see Executor.                        *)
Phase    == IF gn = 0 THEN "off"
            ELSE IF caller = "join" THEN "closing" ELSE "open"
Pending  == {j \in Jobs : InRing(j)}
Running  == {j \in Jobs : \E w \in Workers : Started(w) /\ job[w] = j}
Finished == {j \in Jobs : ran[j] > 0}

Exec == INSTANCE Executor WITH
  phase <- Phase, pending <- Pending, running <- Running, finished <- Finished

\* The pool implements the abstract executor.
ImplementsExecutor == Exec!Spec

===============================================================================
