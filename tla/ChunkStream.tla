----------------------------- MODULE ChunkStream ------------------------------
(* How the server of versions/v1_8 streams the world: the tick thread keeps,   *)
(* per player, the columns sent (loaded) and the columns asked for (inflight), *)
(* submits chunk jobs within a budget, adopts what the workers produce into    *)
(* the shared world, evicts what nobody uses and broadcasts block changes.     *)
(* The world is one row of columns.  The content of a column is the number of  *)
(* the last edit made to it, 0 as it comes from disk or from the generator.    *)
(* What players send is chosen when the tick pops it, so tick_q holds only the *)
(* workers' replies; they may be popped in any order, since a job's result     *)
(* does not depend on when it runs.                                            *)
EXTENDS Integers, FiniteSets

CONSTANTS Conns,       \* connection ids; the network never uses one twice
          Cols,        \* the columns of the world, integers
          Spawn,       \* the column players spawn in
          View,        \* view_distance, 1..8 columns to each side
          Budget,      \* submits per tick (32)
          MaxChunks,   \* World::kMaxChunks
          JobCap,      \* MINECPP_RING: no submit is refused below it
          DrainMax,    \* messages one OnTick pops before it aborts (100)
          AllocFails,  \* whether new may return NULL
          Label,       \* xPos found in a column's NBT (ChunkFromRoot)
          Burst,       \* bound: players talk in the first Burst turns of a drain
          MaxEdits     \* bound: block changes

ASSUME StreamConstants ==
  /\ Cols \subseteq Int /\ IsFiniteSet(Cols) /\ Spawn \in Cols
  /\ View \in Nat /\ Budget \in Nat /\ MaxChunks \in Nat
  /\ JobCap \in Nat /\ DrainMax \in Nat /\ AllocFails \in BOOLEAN
  /\ Label \in [Cols -> Cols]
  /\ Burst \in Nat /\ MaxEdits \in Nat

Absent == -1

VARIABLES
  conn,      \* "new", "play" or "gone": whether players_ has the connection
  pos,       \* the column a player is in
  loaded, inflight,
  world,     \* chunks_: content of each column
  jobs,      \* chunk jobs in the pool, <<connection, column>>
  replies,   \* ChunkReady in tick_q, <<connection, column, chunk # NULL>>
  tick,      \* "drain", "retry" or "aborted": where OnTick is
  popped,    \* dbg_n, the turns of the drain loop
  submits,   \* submits_this_tick_
  todo,      \* players the retry loop has still to visit
  edits,     \* block changes so far
  client,    \* what each client was shown of each column
  newest     \* who was sent ChunkData of a column last

players == <<conn, pos>>
sets    == <<loaded, inflight>>
pool    == <<jobs, replies>>
loop    == <<tick, popped, todo>>
view    == <<client, newest>>
vars == <<players, sets, world, pool, loop, submits, edits, view>>

Playing == {p \in Conns : conn[p] = "play"}
Present == {c \in Cols : world[c] # Absent}

Init ==
  /\ conn = [p \in Conns |-> "new"] /\ pos = [p \in Conns |-> Spawn]
  /\ loaded = [p \in Conns |-> {}] /\ inflight = [p \in Conns |-> {}]
  /\ world = [c \in Cols |-> Absent]
  /\ jobs = {} /\ replies = {}
  /\ tick = "drain" /\ popped = 0 /\ submits = 0 /\ todo = {}
  /\ edits = 0
  /\ client = [p \in Conns |-> [c \in Cols |-> Absent]]
  /\ newest = [c \in Cols |-> {}]

-------------------------------------------------------------------------------
(* RequestChunks, SubmitChunkJob.                                              *)

Window(at) == {c \in Cols : at - View <= c /\ c <= at + View}

\* Mutant of Wanted: a column already asked for is asked for again.
WantedAgain(p, at) == Window(at) \ loaded[p]

Wanted(p, at) == Window(at) \ (loaded[p] \cup inflight[p])

\* The loop walks the window and stops when the budget is spent.  A submit the
\* pool refuses frees the column again and costs nothing; a job that cannot be
\* allocated leaves the column inflight.
RequestChunks(p, at) ==
  \E acc \in SUBSET Wanted(p, at) :
    LET left  == Budget - submits
        tried == IF Cardinality(acc) < left THEN Wanted(p, at)
                 ELSE {c \in Wanted(p, at) : \E a \in acc : c <= a}
    IN
    /\ Cardinality(acc) <= left
    /\ \E stuck \in SUBSET (tried \ acc) :
         /\ stuck # {} => AllocFails
         /\ tried \ (acc \cup stuck) # {} =>
              Cardinality(jobs) + Cardinality(acc) >= JobCap
         /\ inflight' = [inflight EXCEPT ![p] = @ \cup acc \cup stuck]
    /\ jobs' = jobs \cup {<<p, c>> : c \in acc}
    /\ submits' = submits + Cardinality(acc)

-------------------------------------------------------------------------------
(* OnTick: drain tick_q, then RequestChunks once more for everybody.           *)
\* One turn of the drain loop that finds a message.
PopMessage ==
  /\ tick = "drain" /\ popped < DrainMax
  /\ popped' = popped + 1
  /\ UNCHANGED <<tick, todo>>

\* ... one that a player sent.
PopPlayerMessage == PopMessage /\ popped < Burst

DrainEnd ==
  /\ tick = "drain" /\ popped < DrainMax /\ replies = {}
  /\ tick' = "retry" /\ todo' = Playing /\ popped' = 0
  /\ UNCHANGED <<players, sets, world, pool, submits, edits, view>>

\* if (++dbg_n > 100) abort(), before the queue is looked at.
Abort ==
  /\ tick = "drain" /\ popped >= DrainMax
  /\ tick' = "aborted"
  /\ UNCHANGED <<players, sets, world, pool, popped, todo, submits, edits, view>>

\* Mutant of Retry: requests cut by the budget wait for the next movement.
RetryOnMoveOnly(p) ==
  /\ tick = "retry" /\ p \in todo
  /\ todo' = todo \ {p}
  /\ UNCHANGED <<players, sets, world, pool, tick, popped, submits, edits, view>>

Retry(p) ==
  /\ tick = "retry" /\ p \in todo
  /\ RequestChunks(p, pos[p])
  /\ todo' = todo \ {p}
  /\ UNCHANGED <<players, loaded, world, replies, tick, popped, edits, view>>

\* The tick is over and the next one begins, 50 ms later or at once.
NextTick ==
  /\ tick = "retry" /\ todo = {}
  /\ tick' = "drain" /\ submits' = 0
  /\ UNCHANGED <<players, sets, world, pool, popped, todo, edits, view>>

-------------------------------------------------------------------------------
(* Messages.                                                                   *)

\* Login ends in OnJoin: the player stands at the spawn and asks for chunks.
Join(p) ==
  /\ conn[p] = "new" /\ PopPlayerMessage
  /\ conn' = [conn EXCEPT ![p] = "play"]
  /\ RequestChunks(p, pos[p])
  /\ UNCHANGED <<pos, loaded, world, replies, edits, view>>

\* A position packet; a new column asks for chunks at once.
Move(p, c) ==
  /\ conn[p] = "play" /\ c # pos[p] /\ PopPlayerMessage
  /\ pos' = [pos EXCEPT ![p] = c]
  /\ RequestChunks(p, c)
  /\ UNCHANGED <<conn, loaded, world, replies, edits, view>>

\* Disconnected, or a kick: the Player with its position and sets is destroyed,
\* and with the client goes what it saw.
Leave(p) ==
  /\ conn[p] = "play" /\ PopPlayerMessage
  /\ conn' = [conn EXCEPT ![p] = "gone"]
  /\ loaded' = [loaded EXCEPT ![p] = {}]
  /\ inflight' = [inflight EXCEPT ![p] = {}]
  /\ pos' = [pos EXCEPT ![p] = Spawn]
  /\ client' = [client EXCEPT ![p] = [c \in Cols |-> Absent]]
  /\ newest' = [c \in Cols |-> newest[c] \ {p}]
  /\ UNCHANGED <<world, pool, submits, edits>>

\* Mutant of Edit: only the player who made the change is told.
EditTellsEditor(p, c) ==
  /\ conn[p] = "play" /\ pos[p] - 1 <= c /\ c <= pos[p] + 1
  /\ world[c] # Absent /\ edits < MaxEdits /\ PopPlayerMessage
  /\ edits' = edits + 1
  /\ world' = [world EXCEPT ![c] = edits + 1]
  /\ client' = [client EXCEPT ![p][c] = IF c \in loaded[p] THEN edits + 1 ELSE @]
  /\ UNCHANGED <<players, sets, pool, submits, newest>>

\* HandleDig, HandlePlace: the world changes and all who have the column loaded
\* are sent the BlockChange.  The block is at most 6 blocks away.
Edit(p, c) ==
  /\ conn[p] = "play" /\ pos[p] - 1 <= c /\ c <= pos[p] + 1
  /\ world[c] # Absent /\ edits < MaxEdits /\ PopPlayerMessage
  /\ edits' = edits + 1
  /\ world' = [world EXCEPT ![c] = edits + 1]
  /\ client' = [q \in Conns |-> IF c \in loaded[q]
                                THEN [client[q] EXCEPT ![c] = edits + 1]
                                ELSE client[q]]
  /\ UNCHANGED <<players, sets, pool, submits, newest>>

\* Mutant of Kept: what the other players have loaded is not protected.
KeptColumnOnly(c) == {c}

\* World::Adopt replaces the column, then World::Evict erases, in no particular
\* order, columns that are not in keep until the world is small enough.
Kept(c) == {c} \cup UNION {loaded[q] : q \in Conns}

\* Mutant of Evictions: one column less than needed goes.
EvictionsShort(present, keep) ==
  LET free   == present \ keep
      excess == Cardinality(present) - MaxChunks - 1
  IN IF excess <= 0 THEN {{}}
     ELSE {e \in SUBSET free : Cardinality(e) = IF excess < Cardinality(free)
                                                THEN excess ELSE Cardinality(free)}

Evictions(present, keep) ==
  LET free   == present \ keep
      excess == Cardinality(present) - MaxChunks
  IN IF excess <= 0 THEN {{}}
     ELSE {e \in SUBSET free : Cardinality(e) = IF excess < Cardinality(free)
                                                THEN excess ELSE Cardinality(free)}

\* OnChunkReady for a player who is gone, without a chunk, or for a column that
\* is loaded already: the chunk is freed.
DropChunk(p, c, ok) ==
  /\ <<p, c, ok>> \in replies
  /\ conn[p] # "play" \/ ~ok \/ c \in loaded[p]
  /\ PopMessage
  /\ replies' = replies \ {<<p, c, ok>>}
  /\ inflight' = [inflight EXCEPT ![p] = @ \ {c}]
  /\ UNCHANGED <<players, loaded, world, jobs, submits, edits, view>>

\* world_.Has, asked after the eviction.
Has(c) == world'[c] # Absent

\* OnChunkReady otherwise: adopt under the label the chunk carries, evict, and
\* send the column if the world has it (and the packet can be built).
AdoptChunk(p, c) ==
  /\ <<p, c, TRUE>> \in replies
  /\ conn[p] = "play" /\ c \notin loaded[p]
  /\ PopMessage
  /\ replies' = replies \ {<<p, c, TRUE>>}
  /\ inflight' = [inflight EXCEPT ![p] = @ \ {c}]
  /\ \E gone \in Evictions(Present \cup {Label[c]}, Kept(c)) :
       world' = [d \in Cols |-> IF d \in gone THEN Absent
                                ELSE IF d = Label[c] THEN 0 ELSE world[d]]
  /\ \/ /\ Has(c)
        /\ loaded' = [loaded EXCEPT ![p] = @ \cup {c}]
        /\ client' = [client EXCEPT ![p][c] = world'[c]]
        /\ newest' = [newest EXCEPT ![c] = {p}]
     \/ /\ ~Has(c) \/ AllocFails
        /\ UNCHANGED <<loaded, view>>
  /\ UNCHANGED <<players, jobs, submits, edits>>

-------------------------------------------------------------------------------
(* ChunkJobMain on a worker: read, parse or generate, and always reply; a chunk *)
(* may be missing and the reply itself lost when an allocation fails.          *)
\* Mutant of JobDone: a column of the disk that cannot be read gets no reply.
JobMayNotReply(p, c) ==
  /\ <<p, c>> \in jobs
  /\ jobs' = jobs \ {<<p, c>>}
  /\ replies' = replies \cup {<<p, c, TRUE>>} \/ UNCHANGED replies
  /\ UNCHANGED <<players, sets, world, loop, submits, edits, view>>

JobDone(p, c) ==
  /\ <<p, c>> \in jobs
  /\ jobs' = jobs \ {<<p, c>>}
  /\ \/ replies' = replies \cup {<<p, c, TRUE>>}
     \/ AllocFails /\ replies' = replies \cup {<<p, c, FALSE>>}
     \/ AllocFails /\ UNCHANGED replies
  /\ UNCHANGED <<players, sets, world, loop, submits, edits, view>>

-------------------------------------------------------------------------------
Tick ==
  \/ DrainEnd \/ NextTick
  \/ \E p \in Conns : Retry(p)
  \/ \E p \in Conns, c \in Cols :
       AdoptChunk(p, c) \/ \E ok \in BOOLEAN : DropChunk(p, c, ok)

Player ==
  \E p \in Conns :
    Join(p) \/ Leave(p) \/ \E c \in Cols : Move(p, c) \/ Edit(p, c)

Next == Tick \/ Abort \/ Player \/ \E p \in Conns, c \in Cols : JobDone(p, c)

Spec == Init /\ [][Next]_vars

\* The main loop keeps ticking and a tick comes to its end; workers run jobs.
FairSpec ==
  /\ Spec
  /\ WF_vars(Tick \/ Abort)
  /\ \A p \in Conns, c \in Cols : WF_vars(JobDone(p, c))

-------------------------------------------------------------------------------
TypeOK ==
  /\ conn \in [Conns -> {"new", "play", "gone"}] /\ pos \in [Conns -> Cols]
  /\ loaded \in [Conns -> SUBSET Cols] /\ inflight \in [Conns -> SUBSET Cols]
  /\ world \in [Cols -> {Absent} \cup 0..MaxEdits]
  /\ jobs \subseteq Conns \X Cols /\ replies \subseteq Conns \X Cols \X BOOLEAN
  /\ tick \in {"drain", "retry", "aborted"}
  /\ popped \in 0..DrainMax
  /\ submits \in 0..Budget /\ todo \subseteq Playing
  /\ edits \in 0..MaxEdits
  /\ client \in [Conns -> [Cols -> {Absent} \cup 0..MaxEdits]]
  /\ newest \in [Cols -> SUBSET Conns]

\* "SEMPRE responde (destrava inflight)" (server.cpp:3087): a column a player
\* waits for is being worked on or its reply is queued; otherwise RequestChunks
\* would never ask for it again.
Answered ==
  \A p \in Conns : \A c \in inflight[p] :
    <<p, c>> \in jobs \/ \E ok \in BOOLEAN : <<p, c, ok>> \in replies

\* The retry every tick is idempotent (server.cpp:2999): for a player who is
\* there, no column is worked on twice, or worked on when it is already loaded.
OneJobEach ==
  \A p \in Playing, c \in Cols :
    LET answers == {ok \in BOOLEAN : <<p, c, ok>> \in replies}
    IN /\ <<p, c>> \in jobs => answers = {} /\ c \notin loaded[p]
       /\ answers # {} => answers # BOOLEAN /\ c \notin loaded[p]

\* A column some player has on screen is in the world, however many columns the
\* others bring in and whatever is evicted.
LoadedPresent == \A p \in Conns : loaded[p] \subseteq Present

\* After a chunk was adopted the world is within its limit, or it holds nothing
\* but columns in use and the new one.
TrimmedOnAdopt ==
  [][\A p \in Conns, c \in Cols :
       <<p, c, TRUE>> \in replies \ replies' /\ world' # world =>
         Cardinality(Present') <= MaxChunks \/ Present' \subseteq Kept(c)]_vars

\* Whoever was sent a column last sees it as it is, however adoptions by others,
\* edits and evictions interleave.  (Those who got it earlier may not: see
\* EditsStay.)
NewestSeesWorld ==
  \A c \in Cols : \A p \in newest[c] :
    c \in loaded[p] => client[p][c] = world[c]

\* A failed allocation left column c inflight although nobody works on it.
Lost(p, c) ==
  /\ c \in inflight[p] /\ <<p, c>> \notin jobs
  /\ \A ok \in BOOLEAN : <<p, c, ok>> \notin replies

\* The tick takes a reply for somebody and sends nothing: an allocation failed
\* again, or the file holds another column in the place of this one.
Refused ==
  \E p \in Playing, c \in Cols :
    /\ \E ok \in BOOLEAN : <<p, c, ok>> \in replies \ replies'
    /\ c \notin loaded'[p]

\* Requests that the budget cut off, the pool refused or a failure ate are made
\* up for by later ticks: a player who stays gets every column around him, unless
\* the column is lost to him, the tick aborts, or columns are refused again and
\* again (each retry of those costs budget, and they may come first).
ViewFills ==
  \/ \A p \in Conns, c \in Cols :
       conn[p] = "play" /\ c \in Window(pos[p])
         ~> \/ c \in loaded[p] \/ conn[p] # "play" \/ c \notin Window(pos[p])
            \/ Lost(p, c) \/ tick = "aborted"
  \/ []<><<Refused>>_vars

\* "Evicta o que ninguém usa (sem save ainda - restart perde)" (server.cpp:600):
\* an edit is lost by a restart or with a column nobody uses.  While a player
\* has the column loaded, its edits stay.
EditsStay ==
  [][\A c \in Cols : (\E p \in Playing : c \in loaded[p] /\ c \in loaded'[p])
       => world'[c] >= world[c]]_vars

===============================================================================
