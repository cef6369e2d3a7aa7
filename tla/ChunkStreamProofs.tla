-------------------------- MODULE ChunkStreamProofs ---------------------------
(* What ChunkStream keeps true for any number of players and columns, any view *)
(* distance, budget, limit and labelling of the columns.                       *)
EXTENDS ChunkStream, FiniteSetTheorems, TLAPS

-------------------------------------------------------------------------------
(* The inductive invariant.  What is asked for, worked on and loaded can only  *)
(* be related player by player: jobs of players who are gone stay in the pool, *)
(* and only because no connection id is used twice do they do no harm.         *)

\* Only players of the game ask for columns; before joining nobody has.
Idle ==
  \A p \in Conns :
    /\ conn[p] # "play" => loaded[p] = {} /\ inflight[p] = {}
    /\ conn[p] = "new" => \A c \in Cols : /\ <<p, c>> \notin jobs
                                          /\ \A ok \in BOOLEAN : <<p, c, ok>> \notin replies

\* A column in the pool or on its way back is inflight, so it is not loaded.
Waiting ==
  \A p \in Playing, c \in Cols :
    /\ c \in inflight[p] => c \notin loaded[p]
    /\ <<p, c>> \in jobs => c \in inflight[p]
    /\ \A ok \in BOOLEAN : <<p, c, ok>> \in replies => c \in inflight[p]

\* It is in one of the two places, and comes back once.
Once ==
  \A p \in Playing, c \in Cols, ok \in BOOLEAN :
    <<p, c, ok>> \in replies => <<p, c>> \notin jobs /\ <<p, c, ~ok>> \notin replies

\* Players are visited by the retry loop only.
Visits == tick # "retry" => todo = {}

IInv == TypeOK /\ Idle /\ Waiting /\ Once /\ Visits /\ LoadedPresent

-------------------------------------------------------------------------------
\* What RequestChunks does: the columns asked for are new, those of them that a
\* job was submitted for are in the pool, and the budget is respected.
LEMMA Asked ==
  ASSUME NEW p \in Conns, NEW at \in Cols, TypeOK, RequestChunks(p, at)
  PROVE  \E new \in SUBSET Cols : \E acc \in SUBSET new :
           /\ \A c \in new : c \notin loaded[p] /\ c \notin inflight[p]
           /\ inflight' = [inflight EXCEPT ![p] = @ \cup new]
           /\ jobs' = jobs \cup {<<p, c>> : c \in acc}
           /\ submits' \in 0..Budget
           /\ ~AllocFails => acc = new
<1>1. PICK acc \in SUBSET Wanted(p, at) :
        LET left  == Budget - submits
            tried == IF Cardinality(acc) < left THEN Wanted(p, at)
                     ELSE {c \in Wanted(p, at) : \E a \in acc : c <= a}
        IN
        /\ Cardinality(acc) <= left
        /\ \E stuck \in SUBSET (tried \ acc) :
             /\ stuck # {} => AllocFails
             /\ tried \ (acc \cup stuck) # {} =>
                  Cardinality(jobs) + Cardinality(acc) >= JobCap
             /\ inflight' = [inflight EXCEPT ![p] = @ \cup acc \cup stuck]
        /\ jobs' = jobs \cup {<<p, c>> : c \in acc}
        /\ submits' = submits + Cardinality(acc)
  BY DEF RequestChunks
<1> DEFINE tried == IF Cardinality(acc) < Budget - submits THEN Wanted(p, at)
                    ELSE {c \in Wanted(p, at) : \E a \in acc : c <= a}
<1>2. PICK stuck \in SUBSET (tried \ acc) :
        /\ stuck # {} => AllocFails
        /\ inflight' = [inflight EXCEPT ![p] = @ \cup acc \cup stuck]
  BY <1>1
<1>3. Wanted(p, at) \subseteq Cols
  BY DEF Wanted, Window
<1>4. tried \subseteq Wanted(p, at)
  OBVIOUS
<1>5. \A c \in Wanted(p, at) : c \notin loaded[p] /\ c \notin inflight[p]
  BY DEF Wanted
<1>6. Cardinality(acc) \in Nat
  <2>1. IsFiniteSet(acc)
    BY <1>3, FS_Subset, StreamConstants
  <2> QED BY <2>1, FS_CardinalityType
<1>7. submits' \in 0..Budget
  <2>1. submits \in 0..Budget /\ Budget \in Nat
    BY StreamConstants DEF TypeOK
  <2>2. Cardinality(acc) <= Budget - submits /\ submits' = submits + Cardinality(acc)
    BY <1>1
  <2> QED BY <1>6, <2>1, <2>2
<1>8. inflight' = [inflight EXCEPT ![p] = @ \cup (acc \cup stuck)]
  <2>1. inflight[p] \cup acc \cup stuck = inflight[p] \cup (acc \cup stuck)
    OBVIOUS
  <2> QED BY <1>2, <2>1
<1>9. acc \cup stuck \in SUBSET Cols /\ acc \in SUBSET (acc \cup stuck)
  BY <1>3, <1>4
<1>10. ~AllocFails => acc = acc \cup stuck
  BY <1>2
<1> HIDE DEF tried
<1>11. \A c \in acc \cup stuck : c \notin loaded[p] /\ c \notin inflight[p]
  BY <1>4, <1>5
<1> QED BY <1>1, <1>7, <1>8, <1>9, <1>10, <1>11

-------------------------------------------------------------------------------
\* RequestChunks keeps the parts of the invariant that it can disturb, once the
\* player who asks is in the game.
LEMMA AskedKeeps ==
  ASSUME NEW p \in Conns, NEW at \in Cols, IInv, RequestChunks(p, at),
         conn' \in [Conns -> {"new", "play", "gone"}], conn'[p] = "play",
         conn[p] # "gone", \A q \in Conns \ {p} : conn'[q] = conn[q],
         loaded' = loaded, replies' = replies
  PROVE  /\ inflight' \in [Conns -> SUBSET Cols]
         /\ jobs' \subseteq Conns \X Cols
         /\ submits' \in 0..Budget
         /\ Idle' /\ Waiting' /\ Once'
<1> USE DEF TypeOK, Playing
<1>1. TypeOK
  BY DEF IInv
<1>2. PICK new \in SUBSET Cols : \E acc \in SUBSET new :
           /\ \A c \in new : c \notin loaded[p] /\ c \notin inflight[p]
           /\ inflight' = [inflight EXCEPT ![p] = @ \cup new]
           /\ jobs' = jobs \cup {<<p, c>> : c \in acc}
           /\ submits' \in 0..Budget
  BY <1>1, Asked
<1>3. PICK acc \in SUBSET new :
           /\ inflight' = [inflight EXCEPT ![p] = @ \cup new]
           /\ jobs' = jobs \cup {<<p, c>> : c \in acc}
           /\ submits' \in 0..Budget
  BY <1>2
<1>4. inflight' \in [Conns -> SUBSET Cols] /\ jobs' \subseteq Conns \X Cols
  BY <1>1, <1>3
<1>5. inflight'[p] = inflight[p] \cup new
  BY <1>1, <1>3
<1>6. \A q \in Conns \ {p} : inflight'[q] = inflight[q]
  BY <1>1, <1>3
<1>7. \A q \in Conns, c \in Cols : <<q, c>> \in jobs' <=>
                                     <<q, c>> \in jobs \/ (q = p /\ c \in acc)
  <2> TAKE q \in Conns, c \in Cols
  <2>1. <<q, c>> \in {<<p, d>> : d \in acc} <=> \E d \in acc : <<q, c>> = <<p, d>>
    OBVIOUS
  <2>2. \A d : <<q, c>> = <<p, d>> <=> (q = p /\ c = d)
    OBVIOUS
  <2>3. <<q, c>> \in {<<p, d>> : d \in acc} <=> (q = p /\ c \in acc)
    BY <2>1, <2>2
  <2>4. <<q, c>> \in jobs' <=> <<q, c>> \in jobs \/ <<q, c>> \in {<<p, d>> : d \in acc}
    BY <1>3
  <2> QED BY <2>3, <2>4
<1>8. Idle'
  BY <1>6, <1>7 DEF IInv, Idle
<1>9. Waiting'
  <2> SUFFICES ASSUME NEW q \in Conns, conn'[q] = "play", NEW c \in Cols
               PROVE  /\ c \in inflight'[q] => c \notin loaded[q]
                      /\ <<q, c>> \in jobs' => c \in inflight'[q]
                      /\ \A ok \in BOOLEAN : <<q, c, ok>> \in replies => c \in inflight'[q]
    BY DEF Waiting
  <2>1. CASE q = p /\ conn[p] = "play"
    BY <2>1, <1>2, <1>5, <1>7 DEF IInv, Waiting
  <2>2. CASE q = p /\ conn[p] = "new"
    BY <2>2, <1>2, <1>5, <1>7 DEF IInv, Idle
  <2>3. CASE q # p
    BY <2>3, <1>6, <1>7 DEF IInv, Waiting
  <2> QED BY <1>1, <2>1, <2>2, <2>3
<1>10. Once'
  <2> SUFFICES ASSUME NEW q \in Conns, conn'[q] = "play", NEW c \in Cols,
                      NEW ok \in BOOLEAN, <<q, c, ok>> \in replies
               PROVE  <<q, c>> \notin jobs' /\ <<q, c, ~ok>> \notin replies
    BY DEF Once
  <2>1. CASE q = p /\ conn[p] = "play"
    BY <2>1, <1>2, <1>7 DEF IInv, Waiting, Once
  <2>2. CASE q = p /\ conn[p] = "new"
    BY <2>2 DEF IInv, Idle
  <2>3. CASE q # p
    BY <2>3, <1>7 DEF IInv, Once
  <2> QED BY <1>1, <2>1, <2>2, <2>3
<1> QED BY <1>3, <1>4, <1>8, <1>9, <1>10

\* The first state.
LEMMA InitIInv == Init => IInv
<1> SUFFICES ASSUME Init PROVE IInv
  OBVIOUS
<1> USE StreamConstants DEF Init, Playing
<1>1. TypeOK
  BY DEF TypeOK
<1>2. Idle /\ Waiting /\ Once /\ Visits /\ LoadedPresent
  BY DEF Idle, Waiting, Once, Visits, LoadedPresent
<1> QED BY <1>1, <1>2 DEF IInv

-------------------------------------------------------------------------------
(* The step.  Where an action leaves a part of the invariant's variables alone *)
(* that part is one leaf; the columns of the world need the eviction's shape.  *)

\* Eviction spares what is kept: it takes away a subset of the rest.
LEMMA EvictionsSpare ==
  ASSUME NEW present, NEW keep, NEW e \in Evictions(present, keep)
  PROVE  \A c \in keep : c \notin e
BY DEF Evictions

LEMMA JoinKeeps == ASSUME IInv, NEW p \in Conns, Join(p) PROVE IInv'
<1> USE DEF Join, PopPlayerMessage, PopMessage, vars, view, sets
<1>1. TypeOK /\ DrainMax \in Nat
  BY StreamConstants DEF IInv
<1>2. /\ conn' \in [Conns -> {"new", "play", "gone"}] /\ conn'[p] = "play"
      /\ \A q \in Conns \ {p} : conn'[q] = conn[q]
      /\ pos[p] \in Cols
  BY <1>1 DEF TypeOK
<1>3. /\ inflight' \in [Conns -> SUBSET Cols]
      /\ jobs' \subseteq Conns \X Cols
      /\ submits' \in 0..Budget
      /\ Idle' /\ Waiting' /\ Once'
  <2>1. RequestChunks(p, pos[p]) /\ conn[p] = "new"
    OBVIOUS
  <2>2. conn[p] # "gone"
    BY <2>1
  <2> QED BY <1>2, <2>1, <2>2, AskedKeeps
<1>4. popped' \in 0..DrainMax
  BY <1>1 DEF TypeOK
<1>5. todo' \subseteq Playing'
  BY <1>1, <1>2 DEF TypeOK, Playing
<1>6. TypeOK'
  BY <1>1, <1>2, <1>3, <1>4, <1>5 DEF TypeOK
<1>7. Visits' /\ LoadedPresent'
  BY DEF IInv, Visits, LoadedPresent, Present
<1> QED BY <1>3, <1>6, <1>7 DEF IInv

LEMMA MoveKeeps == ASSUME IInv, NEW p \in Conns, NEW c \in Cols, Move(p, c) PROVE IInv'
<1> USE DEF Move, PopPlayerMessage, PopMessage, vars, view, sets
<1>1. TypeOK /\ DrainMax \in Nat
  BY StreamConstants DEF IInv
<1>2. pos' \in [Conns -> Cols]
  BY <1>1 DEF TypeOK
<1>3. /\ inflight' \in [Conns -> SUBSET Cols]
      /\ jobs' \subseteq Conns \X Cols
      /\ submits' \in 0..Budget
      /\ Idle' /\ Waiting' /\ Once'
  <2>1. RequestChunks(p, c) /\ conn[p] = "play" /\ conn' = conn
    OBVIOUS
  <2>2. conn[p] # "gone" /\ conn' \in [Conns -> {"new", "play", "gone"}]
    BY <1>1, <2>1 DEF TypeOK
  <2> QED BY <2>1, <2>2, AskedKeeps
<1>4. popped' \in 0..DrainMax
  BY <1>1 DEF TypeOK
<1>5. TypeOK'
  BY <1>1, <1>2, <1>3, <1>4 DEF TypeOK, Playing
<1>6. Visits' /\ LoadedPresent'
  BY DEF IInv, Visits, LoadedPresent, Present
<1> QED BY <1>3, <1>5, <1>6 DEF IInv

LEMMA RetryKeeps == ASSUME IInv, NEW p \in Conns, Retry(p) PROVE IInv'
<1> USE DEF Retry, players, view
<1>1. TypeOK
  BY DEF IInv
<1>2. conn[p] = "play" /\ pos[p] \in Cols
  BY <1>1 DEF TypeOK, Playing
<1>3. /\ inflight' \in [Conns -> SUBSET Cols]
      /\ jobs' \subseteq Conns \X Cols
      /\ submits' \in 0..Budget
      /\ Idle' /\ Waiting' /\ Once'
  <2>1. RequestChunks(p, pos[p]) /\ conn' = conn
    OBVIOUS
  <2>2. conn[p] # "gone" /\ conn' \in [Conns -> {"new", "play", "gone"}]
    BY <1>1, <1>2 DEF TypeOK
  <2> QED BY <1>2, <2>1, <2>2, AskedKeeps
<1>4. TypeOK'
  BY <1>1, <1>3 DEF TypeOK, Playing
<1>5. Visits' /\ LoadedPresent'
  BY DEF IInv, Visits, LoadedPresent, Present
<1> QED BY <1>3, <1>4, <1>5 DEF IInv

LEMMA LeaveKeeps == ASSUME IInv, NEW p \in Conns, Leave(p) PROVE IInv'
<1> USE DEF Leave, PopPlayerMessage, PopMessage, pool
<1>1. TypeOK /\ DrainMax \in Nat /\ Spawn \in Cols /\ MaxEdits \in Nat
  BY StreamConstants DEF IInv
<1>2. /\ conn' \in [Conns -> {"new", "play", "gone"}] /\ pos' \in [Conns -> Cols]
      /\ loaded' \in [Conns -> SUBSET Cols] /\ inflight' \in [Conns -> SUBSET Cols]
      /\ conn'[p] = "gone" /\ loaded'[p] = {} /\ inflight'[p] = {}
      /\ \A q \in Conns \ {p} : /\ conn'[q] = conn[q]
                                 /\ loaded'[q] = loaded[q] /\ inflight'[q] = inflight[q]
  BY <1>1 DEF TypeOK
<1>3. client' \in [Conns -> [Cols -> {Absent} \cup 0..MaxEdits]]
  <2>1. [c \in Cols |-> Absent] \in [Cols -> {Absent} \cup 0..MaxEdits]
    OBVIOUS
  <2> QED BY <1>1, <2>1 DEF TypeOK
<1>4. newest' \in [Cols -> SUBSET Conns]
  BY <1>1 DEF TypeOK
<1>5. todo' = {} /\ tick' = tick /\ popped' \in 0..DrainMax
  BY <1>1 DEF IInv, Visits, TypeOK
<1>6. TypeOK'
  BY <1>1, <1>2, <1>3, <1>4, <1>5 DEF TypeOK
<1>7. Idle'
  BY <1>2 DEF IInv, Idle
<1>8. Waiting' /\ Once'
  BY <1>2 DEF IInv, Waiting, Once, Playing
<1>9. Visits' /\ LoadedPresent'
  BY <1>2, <1>5 DEF IInv, Visits, LoadedPresent, Present
<1> QED BY <1>6, <1>7, <1>8, <1>9 DEF IInv

LEMMA EditKeeps == ASSUME IInv, NEW p \in Conns, NEW c \in Cols, Edit(p, c) PROVE IInv'
<1> USE DEF Edit, PopPlayerMessage, PopMessage, players, sets, pool
<1>1. TypeOK /\ DrainMax \in Nat /\ MaxEdits \in Nat
  BY StreamConstants DEF IInv
<1>2. edits' \in 0..MaxEdits /\ edits + 1 \in 0..MaxEdits
  BY <1>1 DEF TypeOK
<1>3. world' \in [Cols -> {Absent} \cup 0..MaxEdits] /\ Present \subseteq Present'
  BY <1>1, <1>2 DEF TypeOK, Present, Absent
<1>4. client' \in [Conns -> [Cols -> {Absent} \cup 0..MaxEdits]]
  <2>1. \A q \in Conns : [client[q] EXCEPT ![c] = edits + 1] \in
                           [Cols -> {Absent} \cup 0..MaxEdits]
    BY <1>1, <1>2 DEF TypeOK
  <2> QED BY <1>1, <2>1 DEF TypeOK
<1>5. popped' \in 0..DrainMax
  BY <1>1 DEF TypeOK
<1>6. TypeOK'
  BY <1>1, <1>2, <1>3, <1>4, <1>5 DEF TypeOK, Playing
<1>7. Idle' /\ Waiting' /\ Once' /\ Visits'
  BY DEF IInv, Idle, Waiting, Once, Visits, Playing
<1>8. LoadedPresent'
  BY <1>3 DEF IInv, LoadedPresent
<1> QED BY <1>6, <1>7, <1>8 DEF IInv

\* A reply is taken off the queue.
LEMMA DropChunkKeeps ==
  ASSUME IInv, NEW p \in Conns, NEW c \in Cols, NEW ok \in BOOLEAN, DropChunk(p, c, ok)
  PROVE  IInv'
<1> USE DEF DropChunk, PopMessage, players, view
<1>1. TypeOK /\ DrainMax \in Nat
  BY StreamConstants DEF IInv
<1>2. /\ inflight' \in [Conns -> SUBSET Cols] /\ inflight'[p] = inflight[p] \ {c}
      /\ \A q \in Conns \ {p} : inflight'[q] = inflight[q]
  BY <1>1 DEF TypeOK
<1>3. popped' \in 0..DrainMax
  BY <1>1 DEF TypeOK
<1>4. TypeOK'
  BY <1>1, <1>2, <1>3 DEF TypeOK, Playing
<1>5. Idle'
  BY <1>2 DEF IInv, Idle
<1>6. Waiting'
  <2> SUFFICES ASSUME NEW q \in Conns, conn[q] = "play", NEW d \in Cols
               PROVE  /\ d \in inflight'[q] => d \notin loaded[q]
                      /\ <<q, d>> \in jobs => d \in inflight'[q]
                      /\ \A b \in BOOLEAN : <<q, d, b>> \in replies' => d \in inflight'[q]
    BY DEF Waiting, Playing
  <2>1. CASE q = p /\ d = c
    <3>1. <<q, d>> \notin jobs /\ <<q, d, ~ok>> \notin replies
      BY <2>1 DEF IInv, Once, Playing
    <3>2. \A b \in BOOLEAN : b = ok \/ b = ~ok
      OBVIOUS
    <3> QED BY <2>1, <1>2, <3>1, <3>2
  <2>2. CASE ~(q = p /\ d = c)
    BY <2>2, <1>2 DEF IInv, Waiting, Playing
  <2> QED BY <2>1, <2>2
<1>7. Once' /\ Visits' /\ LoadedPresent'
  BY DEF IInv, Once, Visits, LoadedPresent, Present, Playing
<1> QED BY <1>4, <1>5, <1>6, <1>7 DEF IInv

\* An adopted column is one that was waited for; what anybody has loaded stays.
LEMMA AdoptChunkKeeps ==
  ASSUME IInv, NEW p \in Conns, NEW c \in Cols, AdoptChunk(p, c) PROVE IInv'
<1> USE DEF AdoptChunk, Has, PopMessage, players, view
<1>1. TypeOK /\ DrainMax \in Nat /\ MaxEdits \in Nat /\ Label[c] \in Cols
  BY StreamConstants DEF IInv
<1>2. /\ inflight' \in [Conns -> SUBSET Cols] /\ inflight'[p] = inflight[p] \ {c}
      /\ \A q \in Conns \ {p} : inflight'[q] = inflight[q]
  BY <1>1 DEF TypeOK
<1>3. PICK gone \in Evictions(Present \cup {Label[c]}, Kept(c)) :
        world' = [d \in Cols |-> IF d \in gone THEN Absent
                                 ELSE IF d = Label[c] THEN 0 ELSE world[d]]
  OBVIOUS
<1>4. \A d \in Kept(c) : d \notin gone
  BY EvictionsSpare
<1>5. world' \in [Cols -> {Absent} \cup 0..MaxEdits]
  BY <1>1, <1>3 DEF TypeOK
<1>6. \A d \in Cols : d \in Kept(c) /\ world[d] # Absent => world'[d] # Absent
  BY <1>3, <1>4 DEF Absent
<1>7. /\ loaded' \in [Conns -> SUBSET Cols]
      /\ \A q \in Conns \ {p} : loaded'[q] = loaded[q]
      /\ loaded'[p] = loaded[p] \/ (loaded'[p] = loaded[p] \cup {c} /\ world'[c] # Absent)
  <2>1. CASE UNCHANGED <<loaded, view>>
    BY <2>1, <1>1 DEF TypeOK
  <2>2. CASE Has(c) /\ loaded' = [loaded EXCEPT ![p] = @ \cup {c}]
    <3>1. world'[c] # Absent
      BY <2>2
    <3>2. loaded \in [Conns -> SUBSET Cols]
      BY <1>1 DEF TypeOK
    <3> QED BY ONLY <2>2, <3>1, <3>2
  <2> QED BY <2>1, <2>2
<1>8. client' \in [Conns -> [Cols -> {Absent} \cup 0..MaxEdits]]
  <2>1. CASE UNCHANGED <<loaded, view>>
    BY <2>1, <1>1 DEF TypeOK
  <2>2. CASE client' = [client EXCEPT ![p][c] = world'[c]]
    <3>1. world'[c] \in {Absent} \cup 0..MaxEdits
      BY <1>5
    <3> QED BY <2>2, <3>1, <1>1 DEF TypeOK
  <2> QED BY <2>1, <2>2
<1>9. newest' \in [Cols -> SUBSET Conns]
  BY <1>1 DEF TypeOK
<1>10. popped' \in 0..DrainMax
  BY <1>1 DEF TypeOK
<1>11. TypeOK'
  BY <1>1, <1>2, <1>5, <1>7, <1>8, <1>9, <1>10 DEF TypeOK, Playing
<1>12. Idle'
  BY <1>2, <1>7 DEF IInv, Idle
<1>13. Waiting'
  <2> SUFFICES ASSUME NEW q \in Conns, conn[q] = "play", NEW d \in Cols
               PROVE  /\ d \in inflight'[q] => d \notin loaded'[q]
                      /\ <<q, d>> \in jobs => d \in inflight'[q]
                      /\ \A b \in BOOLEAN : <<q, d, b>> \in replies' => d \in inflight'[q]
    BY DEF Waiting, Playing
  <2>1. CASE q = p /\ d = c
    <3>1. <<q, d>> \notin jobs /\ <<q, d, FALSE>> \notin replies
      BY <2>1 DEF IInv, Once, Playing
    <3> QED BY <2>1, <1>2, <3>1
  <2>2. CASE ~(q = p /\ d = c)
    BY <2>2, <1>2, <1>7 DEF IInv, Waiting, Playing
  <2> QED BY <2>1, <2>2
<1>14. Once' /\ Visits'
  BY DEF IInv, Once, Visits, Playing
<1>15. LoadedPresent'
  <2> SUFFICES ASSUME NEW q \in Conns, NEW d \in loaded'[q]
               PROVE  d \in Cols /\ world'[d] # Absent
    BY DEF LoadedPresent, Present
  <2>1. CASE d \in loaded[q]
    <3>1. d \in Cols /\ world[d] # Absent
      BY <2>1 DEF IInv, LoadedPresent, Present
    <3>2. d \in Kept(c)
      BY <2>1 DEF Kept
    <3> QED BY <3>1, <3>2, <1>6
  <2>2. CASE d \notin loaded[q]
    BY <2>2, <1>7
  <2> QED BY <2>1, <2>2
<1> QED BY <1>11, <1>12, <1>13, <1>14, <1>15 DEF IInv

LEMMA JobDoneKeeps == ASSUME IInv, NEW p \in Conns, NEW c \in Cols, JobDone(p, c) PROVE IInv'
<1> USE DEF JobDone, players, sets, loop, view
<1>1. TypeOK
  BY DEF IInv
<1>2. /\ jobs' = jobs \ {<<p, c>>}
      /\ \E ok \in BOOLEAN : replies' = replies \cup {<<p, c, ok>>} \/ replies' = replies
  OBVIOUS
<1>3. PICK ok \in BOOLEAN : replies' = replies \cup {<<p, c, ok>>} \/ replies' = replies
  BY <1>2
<1>4. TypeOK'
  BY <1>1, <1>3 DEF TypeOK, Playing
<1>5. \A q \in Conns, d \in Cols, b \in BOOLEAN :
        <<q, d, b>> \in replies' => <<q, d, b>> \in replies \/ (q = p /\ d = c /\ b = ok)
  BY <1>3
<1>6. Idle' /\ Waiting'
  BY <1>5 DEF IInv, Idle, Waiting, Playing
<1>7. Once'
  BY <1>5 DEF IInv, Once, Playing
<1>8. Visits' /\ LoadedPresent'
  BY DEF IInv, Visits, LoadedPresent, Present
<1> QED BY <1>4, <1>6, <1>7, <1>8 DEF IInv

\* The actions of the tick that move nothing but the tick.
LEMMA TickKeeps == ASSUME IInv, DrainEnd \/ Abort \/ NextTick PROVE IInv'
<1> USE DEF DrainEnd, Abort, NextTick, players, sets, pool, view
<1>1. TypeOK /\ DrainMax \in Nat /\ Budget \in Nat
  BY StreamConstants DEF IInv
<1>2. TypeOK'
  BY <1>1 DEF TypeOK, Playing
<1>3. Idle' /\ Waiting' /\ Once' /\ LoadedPresent'
  BY DEF IInv, Idle, Waiting, Once, LoadedPresent, Present, Playing
<1>4. Visits'
  BY DEF IInv, Visits
<1> QED BY <1>2, <1>3, <1>4 DEF IInv

LEMMA StepIInv == IInv /\ [Next]_vars => IInv'
<1> SUFFICES ASSUME IInv, [Next]_vars PROVE IInv'
  OBVIOUS
<1>1. CASE DrainEnd \/ NextTick \/ Abort
  BY <1>1, TickKeeps
<1>2. ASSUME NEW p \in Conns, Retry(p) PROVE IInv'
  BY <1>2, RetryKeeps
<1>3. ASSUME NEW p \in Conns, NEW c \in Cols, AdoptChunk(p, c) PROVE IInv'
  BY <1>3, AdoptChunkKeeps
<1>4. ASSUME NEW p \in Conns, NEW c \in Cols, NEW ok \in BOOLEAN, DropChunk(p, c, ok) PROVE IInv'
  BY <1>4, DropChunkKeeps
<1>5. ASSUME NEW p \in Conns, Join(p) PROVE IInv'
  BY <1>5, JoinKeeps
<1>6. ASSUME NEW p \in Conns, Leave(p) PROVE IInv'
  BY <1>6, LeaveKeeps
<1>7. ASSUME NEW p \in Conns, NEW c \in Cols, Move(p, c) PROVE IInv'
  BY <1>7, MoveKeeps
<1>8. ASSUME NEW p \in Conns, NEW c \in Cols, Edit(p, c) PROVE IInv'
  BY <1>8, EditKeeps
<1>9. ASSUME NEW p \in Conns, NEW c \in Cols, JobDone(p, c) PROVE IInv'
  BY <1>9, JobDoneKeeps
<1>10. CASE UNCHANGED vars
  BY <1>10 DEF IInv, TypeOK, Idle, Waiting, Once, Visits, LoadedPresent, Present, Playing,
               vars, players, sets, pool, loop, view
<1> QED BY <1>1, <1>2, <1>3, <1>4, <1>5, <1>6, <1>7, <1>8, <1>9, <1>10 DEF Next, Tick, Player

-------------------------------------------------------------------------------
(* The theorems.                                                               *)

THEOREM Invariance == Spec => []IInv
BY InitIInv, StepIInv, PTL DEF Spec

\* Types, and the budget: RequestChunks never submits more than a tick may.
THEOREM TypeCorrect == Spec => []TypeOK
<1>1. IInv => TypeOK
  BY DEF IInv
<1> QED BY <1>1, Invariance, PTL

\* No column on screen is evicted (World::Evict with the keep of OnChunkReady),
\* whatever label a column carries and whatever allocation fails.
THEOREM OnScreen == Spec => []LoadedPresent
<1>1. IInv => LoadedPresent
  BY DEF IInv
<1> QED BY <1>1, Invariance, PTL

\* The retry of every tick never makes the pool work twice on a column for one
\* player, nor on one the player has.
THEOREM RetryIdempotent == Spec => []OneJobEach
<1>1. IInv => OneJobEach
  <2> SUFFICES ASSUME IInv, NEW p \in Playing, NEW c \in Cols
               PROVE  LET answers == {ok \in BOOLEAN : <<p, c, ok>> \in replies}
                      IN /\ <<p, c>> \in jobs => answers = {} /\ c \notin loaded[p]
                         /\ answers # {} => answers # BOOLEAN /\ c \notin loaded[p]
    BY DEF OneJobEach
  <2> DEFINE answers == {ok \in BOOLEAN : <<p, c, ok>> \in replies}
  <2>1. \A ok \in answers : c \notin loaded[p] /\ <<p, c>> \notin jobs
    BY DEF IInv, Waiting, Once
  <2>2. <<p, c>> \in jobs => answers = {} /\ c \notin loaded[p]
    BY <2>1 DEF IInv, Waiting
  <2>3. answers # {} => answers # BOOLEAN /\ c \notin loaded[p]
    <3> SUFFICES ASSUME NEW ok \in answers PROVE answers # BOOLEAN /\ c \notin loaded[p]
      OBVIOUS
    <3>1. CASE ok = TRUE
      <4>1. <<p, c, ~TRUE>> \notin replies
        BY <3>1 DEF IInv, Once
      <4>2. FALSE \notin answers
        BY <4>1
      <4> QED BY <2>1, <4>2
    <3>2. CASE ok = FALSE
      <4>1. <<p, c, ~FALSE>> \notin replies
        BY <3>2 DEF IInv, Once
      <4>2. TRUE \notin answers
        BY <4>1
      <4> QED BY <2>1, <4>2
    <3> QED BY <3>1, <3>2
  <2> QED BY <2>2, <2>3
<1> QED BY <1>1, Invariance, PTL

\* "SEMPRE responde (destrava inflight)": while allocations succeed, a column a
\* player waits for is in the pool or its reply in the queue.
THEOREM NoneForgotten == ASSUME ~AllocFails PROVE Spec => []Answered
<1>1. Init => Answered
  BY DEF Init, Answered
<1>2. IInv /\ Answered /\ [Next]_vars => Answered'
  <2> SUFFICES ASSUME IInv, Answered, [Next]_vars PROVE Answered'
    OBVIOUS
  <2> USE DEF Answered
  <2>1. TypeOK
    BY DEF IInv
  <2>2. ASSUME NEW p \in Conns, NEW at \in Cols, RequestChunks(p, at), replies' = replies
        PROVE  Answered'
    <3>1. PICK new \in SUBSET Cols :
               /\ inflight' = [inflight EXCEPT ![p] = @ \cup new]
               /\ jobs' = jobs \cup {<<p, c>> : c \in new}
      BY <2>1, <2>2, Asked
    <3> SUFFICES ASSUME NEW q \in Conns, NEW c \in inflight'[q]
                 PROVE  <<q, c>> \in jobs' \/ \E ok \in BOOLEAN : <<q, c, ok>> \in replies
      BY <2>2
    <3>2. CASE c \in inflight[q]
      BY <3>1, <3>2
    <3>3. CASE c \notin inflight[q]
      BY <3>1, <3>3, <2>1 DEF TypeOK
    <3> QED BY <3>2, <3>3
  <2>3. CASE DrainEnd \/ NextTick \/ Abort
    BY <2>3 DEF DrainEnd, NextTick, Abort, sets, pool
  <2>4. ASSUME NEW p \in Conns, Retry(p) PROVE Answered'
    BY <2>1, <2>2, <2>4 DEF Retry, TypeOK
  <2>5. ASSUME NEW p \in Conns, NEW c \in Cols, AdoptChunk(p, c) PROVE Answered'
    <3>1. /\ inflight' = [inflight EXCEPT ![p] = @ \ {c}]
          /\ replies' = replies \ {<<p, c, TRUE>>} /\ jobs' = jobs
      BY <2>5 DEF AdoptChunk, Has
    <3> QED BY <2>1, <3>1 DEF TypeOK
  <2>6. ASSUME NEW p \in Conns, NEW c \in Cols, NEW ok \in BOOLEAN, DropChunk(p, c, ok)
        PROVE  Answered'
    <3>1. /\ inflight' = [inflight EXCEPT ![p] = @ \ {c}]
          /\ replies' = replies \ {<<p, c, ok>>} /\ jobs' = jobs
      BY <2>6 DEF DropChunk
    <3> QED BY <2>1, <3>1 DEF TypeOK
  <2>7. ASSUME NEW p \in Conns, Join(p) PROVE Answered'
    BY <2>1, <2>2, <2>7 DEF Join, TypeOK
  <2>8. ASSUME NEW p \in Conns, Leave(p) PROVE Answered'
    <3>1. inflight' = [inflight EXCEPT ![p] = {}] /\ UNCHANGED pool
      BY <2>8 DEF Leave
    <3> QED BY <2>1, <3>1 DEF TypeOK, pool
  <2>9. ASSUME NEW p \in Conns, NEW c \in Cols, Move(p, c) PROVE Answered'
    BY <2>2, <2>9 DEF Move
  <2>10. ASSUME NEW p \in Conns, NEW c \in Cols, Edit(p, c) PROVE Answered'
    BY <2>10 DEF Edit, sets, pool
  <2>11. ASSUME NEW p \in Conns, NEW c \in Cols, JobDone(p, c) PROVE Answered'
    <3>1. /\ jobs' = jobs \ {<<p, c>>} /\ replies' = replies \cup {<<p, c, TRUE>>}
          /\ inflight' = inflight
      BY <2>11 DEF JobDone, sets
    <3> QED BY <3>1
  <2>12. CASE UNCHANGED vars
    BY <2>12 DEF vars, sets, pool
  <2> QED BY <2>3, <2>4, <2>5, <2>6, <2>7, <2>8, <2>9, <2>10, <2>11, <2>12 DEF Next, Tick, Player
<1> QED BY <1>1, <1>2, Invariance, PTL DEF Spec

\* What an eviction leaves is within the limit or is kept.
LEMMA EvictionsTrim ==
  ASSUME NEW present \in SUBSET Cols, NEW keep, NEW e \in Evictions(present, keep)
  PROVE  Cardinality(present \ e) <= MaxChunks \/ present \ e \subseteq keep
<1> DEFINE free == present \ keep
           excess == Cardinality(present) - MaxChunks
<1>1. IsFiniteSet(present) /\ IsFiniteSet(free) /\ MaxChunks \in Nat
  BY FS_Subset, StreamConstants
<1>2. Cardinality(present) \in Nat /\ Cardinality(free) \in Nat
  BY <1>1, FS_CardinalityType
<1>3. CASE excess <= 0
  <2>1. e = {}
    BY <1>3 DEF Evictions
  <2>2. present \ e = present
    BY <2>1
  <2> QED BY <1>1, <1>2, <1>3, <2>2
<1>4. CASE ~(excess <= 0) /\ excess < Cardinality(free)
  <2>1. e \subseteq free /\ Cardinality(e) = excess
    BY <1>4 DEF Evictions
  <2>2. present \cap e = e
    BY <2>1
  <2>3. Cardinality(present \ e) = Cardinality(present) - Cardinality(e)
    BY <1>1, <2>2, FS_Difference, FS_Subset
  <2> QED BY <1>1, <1>2, <2>1, <2>3
<1>5. CASE ~(excess <= 0) /\ ~(excess < Cardinality(free))
  <2>1. e \subseteq free /\ Cardinality(e) = Cardinality(free)
    BY <1>5 DEF Evictions
  <2>2. e = free
    BY <1>1, <2>1, FS_Subset
  <2> QED BY <2>2
<1> QED BY <1>3, <1>4, <1>5

\* The eviction of OnChunkReady does its work: an adoption leaves the world
\* within kMaxChunks, or with nothing but loaded columns and the new one.
THEOREM Trimmed == Spec => TrimmedOnAdopt
<1>1. IInv /\ [Next]_vars =>
        [\A p \in Conns, c \in Cols :
           <<p, c, TRUE>> \in replies \ replies' /\ world' # world =>
             Cardinality(Present') <= MaxChunks \/ Present' \subseteq Kept(c)]_vars
  <2> SUFFICES ASSUME IInv, [Next]_vars, NEW p \in Conns, NEW c \in Cols,
                      <<p, c, TRUE>> \in replies, <<p, c, TRUE>> \notin replies',
                      world' # world
               PROVE  Cardinality(Present') <= MaxChunks \/ Present' \subseteq Kept(c)
    OBVIOUS
  <2>1. AdoptChunk(p, c)
    <3>1. ASSUME NEW q \in Conns, NEW d \in Cols, AdoptChunk(q, d) PROVE q = p /\ d = c
      BY <3>1 DEF AdoptChunk
    <3>2. ASSUME NEW q \in Conns, NEW d \in Cols, JobDone(q, d) PROVE FALSE
      BY <3>2 DEF JobDone
    <3>3. ASSUME NEW q \in Conns, NEW d \in Cols, NEW ok \in BOOLEAN, DropChunk(q, d, ok)
          PROVE  FALSE
      BY <3>3 DEF DropChunk
    <3>4. ~(DrainEnd \/ NextTick \/ Abort)
      BY DEF DrainEnd, NextTick, Abort
    <3>5. ASSUME NEW q \in Conns, Retry(q) \/ Join(q) \/ Leave(q) PROVE FALSE
      BY <3>5 DEF Retry, Join, Leave, pool
    <3>6. ASSUME NEW q \in Conns, NEW d \in Cols, Move(q, d) \/ Edit(q, d) PROVE FALSE
      BY <3>6 DEF Move, Edit, pool
    <3>7. vars' # vars
      BY DEF vars
    <3> QED BY <3>1, <3>2, <3>3, <3>4, <3>5, <3>6, <3>7 DEF Next, Tick, Player
  <2>2. PICK gone \in Evictions(Present \cup {Label[c]}, Kept(c)) :
          world' = [d \in Cols |-> IF d \in gone THEN Absent
                                   ELSE IF d = Label[c] THEN 0 ELSE world[d]]
    BY <2>1 DEF AdoptChunk, Has
  <2>3. Label[c] \in Cols
    BY StreamConstants
  <2>4. Present' = (Present \cup {Label[c]}) \ gone
    BY <2>2, <2>3 DEF Present, Absent
  <2>5. Present \cup {Label[c]} \in SUBSET Cols
    BY <2>3 DEF Present
  <2> QED BY <2>2, <2>4, <2>5, EvictionsTrim
<1> QED BY <1>1, Invariance, PTL DEF Spec, TrimmedOnAdopt

\* A client's view is as fresh as the last ChunkData sent of a column, when every
\* column is stored under its own coordinates and allocations succeed.
THEOREM NewestIsFresh ==
  ASSUME ~AllocFails, \A c \in Cols : Label[c] = c
  PROVE  Spec => []NewestSeesWorld
<1>1. Init => NewestSeesWorld
  BY DEF Init, NewestSeesWorld
<1>2. IInv /\ NewestSeesWorld /\ [Next]_vars => NewestSeesWorld'
  <2> SUFFICES ASSUME IInv, NewestSeesWorld, [Next]_vars PROVE NewestSeesWorld'
    OBVIOUS
  <2> USE DEF NewestSeesWorld
  <2>1. TypeOK
    BY DEF IInv
  <2>2. CASE UNCHANGED <<loaded, world, client, newest>>
    BY <2>2
  <2>3. ASSUME NEW p \in Conns, Leave(p) PROVE NewestSeesWorld'
    <3>1. /\ \A q \in Conns \ {p} : loaded'[q] = loaded[q] /\ client'[q] = client[q]
          /\ world' = world
          /\ newest' = [c \in Cols |-> newest[c] \ {p}]
      BY <2>1, <2>3 DEF Leave, TypeOK
    <3> QED BY <2>1, <3>1 DEF TypeOK
  <2>4. ASSUME NEW p \in Conns, NEW c \in Cols, Edit(p, c) PROVE NewestSeesWorld'
    <3> SUFFICES ASSUME NEW d \in Cols, NEW q \in newest'[d], d \in loaded'[q]
                 PROVE  client'[q][d] = world'[d]
      OBVIOUS
    <3>1. /\ newest' = newest /\ loaded' = loaded /\ q \in Conns
          /\ world' = [world EXCEPT ![c] = edits + 1]
          /\ client'[q] = IF c \in loaded[q] THEN [client[q] EXCEPT ![c] = edits + 1]
                          ELSE client[q]
      BY <2>1, <2>4 DEF Edit, TypeOK, sets
    <3>2. client[q][d] = world[d] /\ client[q] \in [Cols -> {Absent} \cup 0..MaxEdits]
      BY <2>1, <3>1 DEF TypeOK
    <3> QED BY <2>1, <3>1, <3>2 DEF TypeOK
  <2>5. ASSUME NEW p \in Conns, NEW c \in Cols, AdoptChunk(p, c) PROVE NewestSeesWorld'
    <3> SUFFICES ASSUME NEW d \in Cols, NEW q \in newest'[d], d \in loaded'[q]
                 PROVE  client'[q][d] = world'[d]
      OBVIOUS
    <3>1. PICK gone \in Evictions(Present \cup {Label[c]}, Kept(c)) :
            world' = [e \in Cols |-> IF e \in gone THEN Absent
                                     ELSE IF e = c THEN 0 ELSE world[e]]
      BY <2>5 DEF AdoptChunk, Has
    <3>2. \A e \in Kept(c) : e \notin gone
      BY <3>1, EvictionsSpare
    <3>3. world'[c] = 0
      BY <3>1, <3>2 DEF Kept
    <3>4. /\ loaded' = [loaded EXCEPT ![p] = @ \cup {c}]
          /\ client' = [client EXCEPT ![p][c] = world'[c]]
          /\ newest' = [newest EXCEPT ![c] = {p}]
      BY <2>5, <3>3 DEF AdoptChunk, Has, Absent
    <3>5. CASE d = c
      <4>1. q = p
        BY <2>1, <3>4, <3>5 DEF TypeOK
      <4> QED BY <2>1, <3>4, <3>5, <4>1 DEF TypeOK
    <3>6. CASE d # c
      <4>1. q \in newest[d] /\ q \in Conns
        BY <2>1, <3>4, <3>6 DEF TypeOK
      <4>2. d \in loaded[q] /\ client'[q][d] = client[q][d]
        BY <2>1, <3>4, <3>6, <4>1 DEF TypeOK
      <4>3. world'[d] = world[d]
        BY <3>1, <3>2, <3>6, <4>1, <4>2 DEF Kept
      <4> QED BY <4>1, <4>2, <4>3
    <3> QED BY <3>5, <3>6
  <2> QED
    BY <2>2, <2>3, <2>4, <2>5
    DEF Next, Tick, Player, DrainEnd, NextTick, Abort, Retry, DropChunk, Join, Move, JobDone,
        vars, sets, pool, view
<1> QED BY <1>1, <1>2, Invariance, PTL DEF Spec

===============================================================================
