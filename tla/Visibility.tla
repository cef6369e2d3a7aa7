----------------------------- MODULE Visibility -----------------------------
(* Who sees whom: the players in the world, the entities (stacks and mobs),  *)
(* and what the client of each player shows of them.  The server keeps       *)
(* known_players of a player (whose figures it sent to his client) and       *)
(* seen_by of an entity (whose clients it was sent to); a client shows what  *)
(* it was sent and not told to destroy.  The messages of one connection stay *)
(* in order (Sessions), so a client's screen is put down at the time they    *)
(* are sent.                                                                 *)
(*                                                                           *)
(* One axis of the world, in 64ths of a block: the unit of the protocol is   *)
(* the 32nd, and what matters is the half that rounding loses.  Stacks do    *)
(* not fly and mobs have no mind of their own (Fase 5), so entities stay     *)
(* where they are.  Which clients have the column of a new entity is the     *)
(* matter of ChunkStream, who picks up how much that of Inventory: here any  *)
(* of them may, and a pickup of a part changes nothing.                      *)
EXTENDS Integers, FiniteSets

CONSTANTS
    Conns,     \* connections; an id is used once
    Places,    \* where somebody may be
    Spawn,     \* where players join
    Eids,      \* ids of entities: bound on how many there are at a time
    MAX_AGE,   \* a stack lies this many ticks (6000)
    PICK_AGE,  \* ... and cannot be picked up in the first of them (10)
    MAX_FAR,   \* a mob far from everybody stays this many ticks (600)
    MaxSpawn,  \* bound: how many mobs one tick brings
    MaxMoves   \* bound: how often players move

ASSUME VisibilityConstants ==
    /\ Places \subseteq Nat /\ Spawn \in Places
    /\ MAX_AGE \in Nat /\ PICK_AGE \in Nat /\ MAX_FAR \in Nat
    /\ MaxSpawn \in Nat /\ MaxMoves \in Nat

VARIABLES
    playing,  \* players in state Play
    joined,   \* connections that have been in Play
    kicked,   \* history: those that Kick has put out
    at,       \* where each is
    known,    \* known_players of each
    ents,     \* the entities there are
    body,     \* of each eid: [mob, at, age], age being far_ticks of a mob
    seen,     \* seen_by of each
    turn,     \* history: changes with each scan that no despawn cuts short
    shows,    \* the players whose figures each client shows
    image,    \* ... and where, in 32nds, for those in the game
    things,   \* the entities each client shows
    moves,    \* moves so far
    steps,    \* history: relative moves since the client was told a place
    untold    \* history: how far each has been put elsewhere since, unsaid

people == <<playing, joined, kicked, at, known>>
entities == <<ents, body, seen, turn>>
screens == <<shows, image, things, steps, untold>>
vars == <<people, entities, screens, moves>>

None == [mob |-> FALSE, at |-> Spawn, age |-> 0]

Init ==
    /\ playing = {} /\ joined = {} /\ kicked = {}
    /\ at = [c \in Conns |-> Spawn]
    /\ known = [c \in Conns |-> {}]
    /\ ents = {} /\ body = [e \in Eids |-> None]
    /\ seen = [e \in Eids |-> {}] /\ turn = FALSE
    /\ shows = [c \in Conns |-> {}]
    /\ image = [c \in Conns |-> [d \in Conns |-> 0]]
    /\ things = [c \in Conns |-> {}]
    /\ moves = 0
    /\ steps = [c \in Conns |-> [d \in Conns |-> 0]]
    /\ untold = [c \in Conns |-> [d \in Conns |-> 0]]

----------------------------------------------------------------------------
(* Distances and the two ways a coordinate goes on the wire. *)
Dist(x, y) == IF x >= y THEN x - y ELSE y - x
Near(x, y) == Dist(x, y) < 64 * 64
Reach(x, y) == 2 * Dist(x, y) < 3 * 64
Alive(x, y) == Dist(x, y) < 48 * 64

(* (int32_t)(x * 32.0), std::round(x * 32.0) and a cast to int8_t. *)
Fixed(x) == x \div 2
Rounded(x) == IF x >= 0 THEN (x + 1) \div 2 ELSE -((1 - x) \div 2)

Clamped(f) == IF f > 127 THEN 127 ELSE IF f < -128 THEN -128 ELSE f

Int8(f) == ((f + 128) % 256) - 128

----------------------------------------------------------------------------
(* UpdateVisibility for the players in P: to the screen of a come figures    *)
(* and others go; an entity comes to the screens of some and leaves others.  *)
Come(a) == {b \in playing' \ {a} : Near(at'[a], at'[b]) /\ b \notin known[a]}
Go(a) == {b \in playing' \ {a} : ~Near(at'[a], at'[b]) /\ b \in known[a]}
Arrive(P, e) == {a \in P : Near(body[e].at, at'[a]) /\ a \notin seen[e]}

NeverDepart(P, e) == {}

Depart(P, e) == {a \in P : ~Near(body[e].at, at'[a]) /\ a \in seen[e]}

Changed(P, figures) ==
    [a \in Conns |-> IF a \in P THEN (figures[a] \cup Come(a)) \ Go(a)
                     ELSE figures[a]]

UpdateVisibility(P) ==
    /\ known' = Changed(P, known) /\ shows' = Changed(P, shows)
    /\ image' = [a \in Conns |-> [b \in Conns |->
                   IF a \in P /\ b \in Come(a) THEN Fixed(at'[b]) ELSE image[a][b]]]
    /\ steps' = [a \in Conns |-> [b \in Conns |->
                   IF a \in P /\ b \in Come(a) THEN 0 ELSE steps[a][b]]]
    /\ untold' = [a \in Conns |-> [b \in Conns |->
                    IF a \in P /\ b \in Come(a) THEN 0 ELSE untold[a][b]]]
    /\ seen' = [e \in Eids |->
                  IF e \in ents THEN (seen[e] \cup Arrive(P, e)) \ Depart(P, e)
                  ELSE seen[e]]
    /\ things' = [a \in Conns |->
                    (things[a] \cup {e \in ents : a \in Arrive(P, e)})
                      \ {e \in ents : a \in Depart(P, e)}]

(* OnJoin: the new player first, then everybody else. *)
JoinerOnly(c) == {c}

Updated(c) == playing \cup {c}

Join(c) ==
    /\ c \notin joined
    /\ playing' = playing \cup {c} /\ joined' = joined \cup {c}
    /\ at' = [at EXCEPT ![c] = Spawn]
    /\ UpdateVisibility(Updated(c))
    /\ UNCHANGED <<kicked, ents, body, turn, moves>>

(* A movement goes to the players c knows, relative to where he was or, from *)
(* eight blocks on, as his place.                                            *)
BroadcastPlayerMove(c, x) ==
    LET f    == Rounded(x - at[c])
        told == {a \in known[c] \cap playing : c \in shows[a]}
        rel  == Dist(f, 0) < 256
    IN  /\ image' = [a \in Conns |->
              IF a \notin told THEN image[a]
              ELSE [image[a] EXCEPT ![c] = IF rel THEN @ + Int8(f) ELSE Rounded(x)]]
        /\ steps' = [a \in Conns |->
              IF a \notin told THEN steps[a]
              ELSE [steps[a] EXCEPT ![c] = IF rel THEN @ + 1 ELSE 0]]
        /\ untold' = [a \in Conns |->
              IF a \notin told \/ rel THEN untold[a] ELSE [untold[a] EXCEPT ![c] = 0]]

Move(c, x) ==
    /\ c \in playing /\ moves < MaxMoves
    /\ at' = [at EXCEPT ![c] = x]
    /\ BroadcastPlayerMove(c, x)
    /\ moves' = moves + 1
    /\ UNCHANGED <<playing, joined, kicked, known, entities, shows, things>>

(* HandleClientStatus: who asks to respawn is put back to the spawn, alive   *)
(* or dead, and only his own client hears of it (PlayerPosLook); there is no *)
(* broadcast and no UpdateVisibility.                                        *)
Respawn(c) ==
    /\ c \in playing
    /\ at' = [at EXCEPT ![c] = Spawn]
    /\ untold' = [a \in Conns |->
                    IF c \in shows[a] THEN [untold[a] EXCEPT ![c] = @ + Spawn - at[c]]
                    ELSE untold[a]]
    /\ UNCHANGED <<playing, joined, kicked, known, entities, shows, image, things,
                   steps, moves>>

(* The client of c is gone, and the Player too. *)
Without(c, f) ==
    [a \in Conns |-> [d \in Conns |-> IF c \in {a, d} THEN 0 ELSE f[a][d]]]

Gone(c) ==
    /\ playing' = playing \ {c}
    /\ at' = [at EXCEPT ![c] = Spawn]
    /\ image' = Without(c, image)
    /\ steps' = Without(c, steps)
    /\ untold' = Without(c, untold)

(* RemovePlayer, on Disconnected.  The entities forget him in the loop over  *)
(* the others, so not when he was the only one.                              *)
LeaveQuietly(c) ==
    /\ c \in playing
    /\ Gone(c)
    /\ known' = [known EXCEPT ![c] = {}]
    /\ shows' = [shows EXCEPT ![c] = {}]
    /\ things' = [things EXCEPT ![c] = {}]
    /\ UNCHANGED <<joined, kicked, entities, moves>>

Leave(c) ==
    /\ c \in playing
    /\ Gone(c)
    /\ known' = [q \in Conns |-> IF q = c THEN {}
                                 ELSE IF q \in playing THEN known[q] \ {c}
                                 ELSE known[q]]
    /\ shows' = [q \in Conns |->
                   IF q = c THEN {}
                   ELSE IF q \in playing /\ c \in known[q] THEN shows[q] \ {c}
                   ELSE shows[q]]
    /\ seen' = [e \in Eids |-> IF playing \ {c} # {} THEN seen[e] \ {c}
                               ELSE seen[e]]
    /\ things' = [things EXCEPT ![c] = {}]
    /\ UNCHANGED <<joined, kicked, ents, body, turn, moves>>

(* Kick, which only erases the Player. *)
Kick(c) ==
    /\ c \in playing
    /\ Gone(c)
    /\ kicked' = kicked \cup {c}
    /\ known' = [known EXCEPT ![c] = {}]
    /\ shows' = [shows EXCEPT ![c] = {}]
    /\ things' = [things EXCEPT ![c] = {}]
    /\ UNCHANGED <<joined, entities, moves>>

----------------------------------------------------------------------------
(* Entities. *)
(* NextEid: an id nobody has a trace of.  The server's come from a counter;  *)
(* here they are used again, so that there is no end to what may be dropped. *)
Unused == {e \in Eids \ ents : \A a \in Conns : e \notin things[a]}

(* SpawnItem for what c drops, then SendEntityTo(c): L has the column. *)
Drop(c, L, e) ==
    /\ c \in playing /\ L \subseteq playing /\ e \in Unused
    /\ ents' = ents \cup {e}
    /\ body' = [body EXCEPT ![e] = [mob |-> FALSE, at |-> at[c], age |-> 0]]
    /\ seen' = [seen EXCEPT ![e] = L \cup {c}]
    /\ things' = [a \in Conns |-> IF a \in L \cup {c} THEN things[a] \cup {e}
                                  ELSE things[a]]
    /\ UNCHANGED <<people, turn, shows, image, steps, untold, moves>>

(* DestroyEntity: what the client of a shows after it, for those in D. *)
DestroyUnsaid(D, a) == things[a]

DestroyEntity(D, a) == {e \in things[a] : ~(e \in D /\ a \in seen[e])}

(* One more tick for e. *)
AgedAnew(e) ==
    IF \E q \in playing : Alive(at[q], body[e].at) THEN 0 ELSE body[e].age + 1

Aged(e) ==
    IF body[e].mob /\ \E q \in playing : Alive(at[q], body[e].at) THEN 0
    ELSE body[e].age + 1

(* What the scan destroys when it comes to it, and what it may destroy. *)
Overdue(e) == Aged(e) > IF body[e].mob THEN MAX_FAR ELSE MAX_AGE
PickedUp(e) ==
    /\ ~body[e].mob /\ Aged(e) >= PICK_AGE
    /\ \E q \in playing : Reach(at[q], body[e].at)

(* EntityTick goes over the entities in whatever order the map has them, up  *)
(* to the first it destroys, where the scan ends: S is what it came to, D    *)
(* what it destroyed.                                                        *)
Scanned(S, D) ==
    \/ D = {} /\ S = ents /\ \A e \in ents : ~Overdue(e)
    \/ \E e \in S : /\ D = {e} /\ (Overdue(e) \/ PickedUp(e))
                    /\ \A b \in S \ {e} : ~Overdue(b)

(* ... and the passive spawn that ends some ticks: a mob for each of some of *)
(* the players, within five columns of him, to those in V who have it.       *)
Spawned(M, where, V) ==
    \A m \in M : /\ \E q \in playing : Dist(where[m], at[q]) < 5 * 16 * 64
                 /\ V[m] \subseteq playing

EntityTick(S, D, M, where, V) ==
    /\ Scanned(S, D) /\ Spawned(M, where, V)
    /\ ents' = (ents \ D) \cup M
    /\ body' = [e \in Eids |->
                 IF e \in M THEN [mob |-> TRUE, at |-> where[e], age |-> 0]
                 ELSE IF e \in D THEN None
                 ELSE IF e \in S THEN [body[e] EXCEPT !.age = Aged(e)]
                 ELSE body[e]]
    /\ seen' = [e \in Eids |-> IF e \in M THEN V[e]
                               ELSE IF e \in D THEN {} ELSE seen[e]]
    /\ turn' = IF D = {} THEN ~turn ELSE turn
    /\ things' = [a \in Conns |-> DestroyEntity(D, a) \cup {m \in M : a \in V[m]}]
    /\ UNCHANGED <<people, shows, image, steps, untold, moves>>

Tick ==
    \E M \in SUBSET Unused, S \in SUBSET ents :
        /\ Cardinality(M) <= MaxSpawn /\ Cardinality(M) <= Cardinality(playing)
        /\ \E where \in [M -> Places], V \in [M -> SUBSET playing],
              D \in {{}} \cup {{e} : e \in S} : EntityTick(S, D, M, where, V)

Next ==
    \/ \E c \in Conns : Join(c) \/ Respawn(c) \/ Leave(c) \/ Kick(c)
    \/ \E c \in Conns, x \in Places : Move(c, x)
    \/ \E c \in Conns, L \in SUBSET Conns, e \in Eids : Drop(c, L, e)
    \/ Tick

Spec == Init /\ [][Next]_vars /\ WF_vars(Tick)

----------------------------------------------------------------------------
TypeOK ==
    /\ playing \subseteq joined /\ joined \subseteq Conns
    /\ kicked \subseteq joined \ playing
    /\ at \in [Conns -> Places]
    /\ known \in [Conns -> SUBSET Conns] /\ shows \in [Conns -> SUBSET Conns]
    /\ ents \subseteq Eids
    /\ body \in [Eids -> [mob : BOOLEAN, at : Places, age : Nat]]
    /\ seen \in [Eids -> SUBSET Conns] /\ things \in [Conns -> SUBSET Eids]
    /\ image \in [Conns -> [Conns -> Int]] /\ steps \in [Conns -> [Conns -> Nat]]
    /\ untold \in [Conns -> [Conns -> Int]]
    /\ turn \in BOOLEAN /\ moves \in Nat

(* Movements go to the players the mover knows (BroadcastPlayerMove), not to *)
(* those who know him: they reach everybody who shows his figure only as     *)
(* long as knowing is mutual, whoever joined, left or was kicked in between. *)
Mutual ==
    \A a, b \in playing : b \in known[a] <=> a \in known[b]

(* A client shows the figures its player knows and the entities it is in the *)
(* seen_by of: nothing that is gone from the world stays on a screen, except *)
(* the figure of a player who was kicked (Kick does not do what RemovePlayer *)
(* does at 276-285).                                                         *)
ScreensTrue ==
    \A c \in playing :
        /\ things[c] = {e \in ents : c \in seen[e]}
        /\ shows[c] = known[c]
        /\ shows[c] \subseteq playing \cup kicked

(* Whenever somebody joins, everybody is shown the figures and the entities  *)
(* within 64 blocks of him and no others, whatever happened since the last join*)
(* (UpdateVisibility, 542-547); only a figure of the kicked may be left over.*)
RefreshedOnJoin ==
    [][joined' # joined =>
        \A a \in playing' :
            /\ shows'[a] \cap playing' = {b \in playing' \ {a} : Near(at'[a], at'[b])}
            /\ things'[a] = {e \in ents' : Near(body'[e].at, at'[a])}]_vars

(* Where a client shows somebody is where it was told he is: off by no more  *)
(* than a 64th of a block for each relative movement since it was told a     *)
(* place, for the deltas are rounded one by one (626-628) and nothing the    *)
(* server keeps (bsx, server.h:87) takes the error up, and by exactly the    *)
(* respawns since then, of which nobody tells it (2310).  A movement of four *)
(* blocks and more, which int8_t does not hold (635), puts it a multiple of  *)
(* eight blocks away: the distance is therefore taken modulo that.           *)
Drift(a, c, x) == ((2 * image[a][c] - x + 256) % 512) - 256
DriftBounded ==
    \A a \in playing : \A c \in shows[a] \cap playing :
        Dist(Drift(a, c, at[c] - untold[a][c]), 0) <= steps[a][c] + 1

(* A despawn or a pickup cuts the scan of its tick short (2768, 2856, 2876),*)
(* and what lies behind does not age in it.  That is all there is to hold a  *)
(* stack up ("despawn 6000", server.h:102): unless from some tick on every   *)
(* scan ends so, it leaves the ground, whatever is dropped, spawned and      *)
(* picked up in between and wherever in the map it is.                       *)
ItemsGoUnlessStarved ==
    []<>turn /\ []<>~turn =>
        \A e \in Eids : (e \in ents /\ ~body[e].mob) ~> e \notin ents
=============================================================================
