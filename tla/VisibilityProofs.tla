--------------------------- MODULE VisibilityProofs ---------------------------
(* What Visibility keeps true for any number of players, entities and        *)
(* movements, and any places.                                                *)
EXTENDS Visibility, TLAPS

----------------------------------------------------------------------------
(* The inductive invariant.  That knowing is mutual rests on what nobody     *)
(* can know: connections that never played are in no set of the server's,    *)
(* and those that do no longer play have none of their own.                  *)

\* Who is not playing has nothing on his screen.
Off == \A c \in Conns \ playing : known[c] = {} /\ things[c] = {}

\* Who never played is known to nobody and was sent nothing.
Unheard ==
    \A c \in Conns \ joined :
        /\ \A q \in Conns : c \notin known[q]
        /\ \A e \in Eids : c \notin seen[e]

\* The figures on the screens, and who they are of.
Figures ==
    /\ shows = known
    /\ \A c \in playing : known[c] \subseteq (playing \cup kicked) \ {c}

\* The entities on the screens.
Entities == \A c \in playing : things[c] = {e \in ents : c \in seen[e]}

IInv == TypeOK /\ Mutual /\ Off /\ Unheard /\ Figures /\ Entities

----------------------------------------------------------------------------
LEMMA PlacesAreWhole == \A x \in Places : x \in Nat /\ x \in Int
BY VisibilityConstants

\* Nobody is nearer to another than the other to him.
LEMMA NearBothWays ==
    ASSUME NEW x \in Places, NEW y \in Places
    PROVE  Near(x, y) <=> Near(y, x)
BY VisibilityConstants DEF Near, Dist

\* Rounding gives a whole number, off by at most half of one.
LEMMA RoundedHalf ==
    ASSUME NEW x \in Int
    PROVE  Rounded(x) \in Int /\ Dist(2 * Rounded(x) - x, 0) <= 1
BY DEF Rounded, Dist

\* So does cutting, off by less than one.
LEMMA FixedHalf ==
    ASSUME NEW x \in Int
    PROVE  Fixed(x) \in Int /\ Dist(2 * Fixed(x) - x, 0) <= 1
BY DEF Fixed, Dist

\* The byte of a movement is right up to multiples of 256.
LEMMA Int8Mod ==
    ASSUME NEW f \in Int
    PROVE  Int8(f) \in Int /\ \E k \in Int : Int8(f) = f + 256 * k
<1>1. (f + 128) % 256 \in Int /\ (f + 128) \div 256 \in Int
    OBVIOUS
<1>2. f + 128 = 256 * ((f + 128) \div 256) + ((f + 128) % 256)
    <2>1. \A z \in Int : z = 256 * (z \div 256) + (z % 256)
        OBVIOUS
    <2> QED
        BY <2>1
<1>3. Int8(f) = f + 256 * (-((f + 128) \div 256)) /\ -((f + 128) \div 256) \in Int
    BY <1>1, <1>2 DEF Int8
<1> QED
    BY <1>3

----------------------------------------------------------------------------
LEMMA InitInv == Init => IInv
<1> SUFFICES ASSUME Init PROVE IInv
    OBVIOUS
<1>1. TypeOK
    <2>1. Spawn \in Places /\ None \in [mob : BOOLEAN, at : Places, age : Nat]
        BY VisibilityConstants DEF None
    <2>2. /\ at \in [Conns -> Places] /\ body \in [Eids -> [mob : BOOLEAN, at : Places, age : Nat]]
          /\ turn \in BOOLEAN
        BY <2>1 DEF Init
    <2>3. /\ image \in [Conns -> [Conns -> Int]] /\ steps \in [Conns -> [Conns -> Nat]]
          /\ untold \in [Conns -> [Conns -> Int]] /\ moves \in Nat
        BY DEF Init
    <2>4. /\ playing \subseteq joined /\ joined \subseteq Conns /\ kicked \subseteq joined \ playing
          /\ known \in [Conns -> SUBSET Conns] /\ shows \in [Conns -> SUBSET Conns]
          /\ ents \subseteq Eids /\ seen \in [Eids -> SUBSET Conns]
          /\ things \in [Conns -> SUBSET Eids]
        BY DEF Init
    <2> QED
        BY <2>2, <2>3, <2>4 DEF TypeOK
<1>2. Mutual /\ Off /\ Unheard /\ Figures /\ Entities
    BY DEF Init, Mutual, Off, Unheard, Figures, Entities
<1> QED
    BY <1>1, <1>2 DEF IInv

----------------------------------------------------------------------------
(* Joining. *)
\* Everybody is updated: known_players and seen_by are what the distances say.
LEMMA JoinRefreshes ==
    ASSUME IInv, NEW c \in Conns, Join(c)
    PROVE  /\ playing' = playing \cup {c} /\ at' \in [Conns -> Places]
           /\ \A a \in playing' : \A b \in Conns :
                b \in known'[a] <=> IF b \in playing' \ {a} THEN Near(at'[a], at'[b])
                                    ELSE b \in known[a]
           /\ \A a \in Conns \ playing' : known'[a] = known[a] /\ things'[a] = things[a]
           /\ \A a \in playing' : \A e \in ents :
                a \in seen'[e] <=> Near(body[e].at, at'[a])
           /\ \A a \in Conns \ playing' : \A e \in Eids : a \in seen'[e] <=> a \in seen[e]
           /\ \A e \in Eids \ ents : seen'[e] = seen[e]
           /\ shows' = known'
           /\ \A a \in playing' : things'[a] = {e \in ents : a \in seen'[e]}
<1> USE DEF IInv
<1>1. playing' = playing \cup {c} /\ Updated(c) = playing' /\ playing' \subseteq Conns
    BY DEF Join, Updated, TypeOK
<1>2. at' \in [Conns -> Places]
    BY VisibilityConstants DEF Join, TypeOK
<1>3. \A a \in playing' : known'[a] = (known[a] \cup Come(a)) \ Go(a)
    BY <1>1 DEF Join, UpdateVisibility, Changed, TypeOK
<1>4. \A a \in Conns \ playing' : known'[a] = known[a]
    BY <1>1 DEF Join, UpdateVisibility, Changed
<1>5. \A e \in ents : seen'[e] = (seen[e] \cup Arrive(playing', e)) \ Depart(playing', e)
    BY <1>1 DEF Join, UpdateVisibility, TypeOK
<1>6. \A e \in Eids \ ents : seen'[e] = seen[e]
    BY DEF Join, UpdateVisibility
<1>7. \A a \in Conns : things'[a] =
          (things[a] \cup {e \in ents : a \in Arrive(playing', e)})
            \ {e \in ents : a \in Depart(playing', e)}
    BY <1>1 DEF Join, UpdateVisibility
<1>8. shows' = known'
    BY DEF Join, UpdateVisibility, Changed, Figures
<1>9. \A a \in playing' : things[a] = {e \in ents : a \in seen[e]}
    <2> SUFFICES ASSUME NEW a \in playing' PROVE things[a] = {e \in ents : a \in seen[e]}
        OBVIOUS
    <2>1. CASE a \in playing
        BY <2>1 DEF Entities
    <2>2. CASE a = c /\ a \notin playing
        <3>1. a \in Conns \ joined
            BY <2>2 DEF Join
        <3>2. things[a] = {} /\ \A e \in ents : a \notin seen[e]
            BY <2>2, <3>1 DEF Off, Unheard, TypeOK
        <3> QED
            BY <3>2
    <2> QED
        BY <1>1, <2>1, <2>2
<1>10. \A a \in playing' : \A b \in Conns :
          b \in known'[a] <=> IF b \in playing' \ {a} THEN Near(at'[a], at'[b])
                              ELSE b \in known[a]
    BY <1>1, <1>3 DEF Come, Go
<1>11. \A a \in playing' : \A e \in ents : a \in seen'[e] <=> Near(body[e].at, at'[a])
    BY <1>1, <1>5 DEF Arrive, Depart
<1>12. \A a \in Conns \ playing' : things'[a] = things[a]
    BY <1>7 DEF Arrive, Depart
<1>13. \A a \in Conns \ playing' : \A e \in Eids : a \in seen'[e] <=> a \in seen[e]
    BY <1>5, <1>6 DEF Arrive, Depart
<1>14. \A a \in playing' : things'[a] = {e \in ents : a \in seen'[e]}
    BY <1>1, <1>5, <1>7, <1>9 DEF Arrive, Depart
<1> QED
    BY <1>1, <1>2, <1>4, <1>6, <1>8, <1>10, <1>11, <1>12, <1>13, <1>14

LEMMA JoinType ==
    ASSUME TypeOK, NEW c \in Conns, Join(c)
    PROVE  TypeOK'
<1> USE DEF TypeOK
<1>1. playing' \subseteq joined' /\ joined' \subseteq Conns
    BY DEF Join
<1>2. kicked' \subseteq joined' \ playing'
    BY DEF Join
<1>3. at' \in [Conns -> Places]
    BY VisibilityConstants DEF Join
<1>4. known' \in [Conns -> SUBSET Conns] /\ shows' \in [Conns -> SUBSET Conns]
    <2>1. \A a : Come(a) \subseteq Conns
        BY <1>1 DEF Come
    <2> QED
        BY <2>1 DEF Join, UpdateVisibility, Changed
<1>5. /\ ents' \subseteq Eids /\ turn' \in BOOLEAN
      /\ body' \in [Eids -> [mob : BOOLEAN, at : Places, age : Nat]]
    BY DEF Join
<1>6. seen' \in [Eids -> SUBSET Conns]
    <2>1. \A e : Arrive(Updated(c), e) \subseteq Conns
        BY DEF Arrive, Updated
    <2> QED
        BY <2>1 DEF Join, UpdateVisibility
<1>7. things' \in [Conns -> SUBSET Eids]
    BY DEF Join, UpdateVisibility
<1>8. /\ image' \in [Conns -> [Conns -> Int]] /\ steps' \in [Conns -> [Conns -> Nat]]
      /\ untold' \in [Conns -> [Conns -> Int]]
    <2>1. \A b \in Conns : Fixed(at'[b]) \in Int
        <3> SUFFICES ASSUME NEW b \in Conns PROVE Fixed(at'[b]) \in Int
            OBVIOUS
        <3>1. at'[b] \in Places
            BY <1>3
        <3>2. at'[b] \in Int
            BY <3>1, PlacesAreWhole
        <3> QED
            BY <3>2, FixedHalf
    <2> QED
        BY <2>1 DEF Join, UpdateVisibility
<1>9. moves' \in Nat
    BY DEF Join
<1> QED
    BY <1>1, <1>2, <1>3, <1>4, <1>5, <1>6, <1>7, <1>8, <1>9

LEMMA JoinInv ==
    ASSUME IInv, NEW c \in Conns, Join(c)
    PROVE  IInv'
<1>0. TypeOK /\ TypeOK'
    BY JoinType DEF IInv
<1> USE JoinRefreshes
<1>1. Mutual'
    <2> SUFFICES ASSUME NEW a \in playing', NEW b \in playing'
                 PROVE  b \in known'[a] <=> a \in known'[b]
        BY DEF Mutual
    <2>1. CASE a = b
        BY <2>1
    <2>2. CASE a # b
        <3>1. at'[a] \in Places /\ at'[b] \in Places
            BY <1>0 DEF TypeOK
        <3> QED
            BY <2>2, <3>1, <1>0, NearBothWays DEF TypeOK
    <2> QED
        BY <2>1, <2>2
<1>2. Off'
    BY DEF Off, IInv
<1>3. Unheard'
    <2> SUFFICES ASSUME NEW d \in Conns \ joined'
                 PROVE  /\ \A q \in Conns : d \notin known'[q]
                        /\ \A e \in Eids : d \notin seen'[e]
        BY DEF Unheard
    <2>1. d \in Conns \ joined /\ d \notin playing'
        BY <1>0 DEF Join, TypeOK
    <2>2. /\ \A q \in Conns : d \notin known[q]
          /\ \A e \in Eids : d \notin seen[e]
        BY <2>1 DEF IInv, Unheard
    <2> QED
        BY <2>1, <2>2
<1>4. Figures'
    <2> SUFFICES ASSUME NEW a \in playing', NEW b \in known'[a]
                 PROVE  b \in (playing' \cup kicked') \ {a}
        BY DEF Figures
    <2>1. b \in Conns
        BY <1>0 DEF TypeOK
    <2>2. CASE b \in playing' \ {a}
        BY <2>2
    <2>3. CASE b \notin playing' \ {a}
        <3>1. b \in known[a] /\ a \in Conns
            BY <1>0, <2>1, <2>3 DEF TypeOK
        <3>2. a \in playing
            BY <3>1 DEF IInv, Off
        <3>3. b \in (playing \cup kicked) \ {a}
            BY <3>1, <3>2 DEF IInv, Figures
        <3> QED
            BY <3>3 DEF Join
    <2> QED
        BY <2>2, <2>3
<1>5. Entities'
    BY DEF Entities, Join
<1> QED
    BY <1>0, <1>1, <1>2, <1>3, <1>4, <1>5 DEF IInv

----------------------------------------------------------------------------
(* Moving, leaving, being kicked. *)
LEMMA MoveInv ==
    ASSUME IInv, NEW c \in Conns, NEW x \in Places, Move(c, x)
    PROVE  IInv'
<1> USE DEF IInv
<1>1. TypeOK'
    <2> USE DEF TypeOK
    <2>1. at' \in [Conns -> Places] /\ moves' \in Nat
        BY DEF Move
    <2>2. Rounded(x - at[c]) \in Int /\ Rounded(x) \in Int
        <3>1. at[c] \in Int /\ x \in Int
            BY PlacesAreWhole
        <3>2. x - at[c] \in Int
            BY <3>1
        <3> QED
            BY <3>1, <3>2, RoundedHalf
    <2>3. Int8(Rounded(x - at[c])) \in Int
        BY <2>2, Int8Mod
    <2>4. image' \in [Conns -> [Conns -> Int]]
        BY <2>2, <2>3 DEF Move, BroadcastPlayerMove
    <2>5. steps' \in [Conns -> [Conns -> Nat]] /\ untold' \in [Conns -> [Conns -> Int]]
        BY DEF Move, BroadcastPlayerMove
    <2>6. UNCHANGED <<playing, joined, kicked, known, ents, body, turn, seen, shows, things>>
        BY DEF Move, entities
    <2> QED
        BY <2>1, <2>4, <2>5, <2>6
<1>2. UNCHANGED <<playing, joined, kicked, known, ents, body, turn, seen, shows, things>>
    BY DEF Move, entities
<1>3. Mutual' /\ Off' /\ Unheard'
    BY <1>2 DEF Mutual, Off, Unheard
<1>4. Figures' /\ Entities'
    BY <1>2 DEF Figures, Entities
<1> QED
    BY <1>1, <1>3, <1>4

LEMMA RespawnInv ==
    ASSUME IInv, NEW c \in Conns, Respawn(c)
    PROVE  IInv'
<1> USE DEF IInv
<1>1. TypeOK'
    <2> USE DEF TypeOK
    <2>1. at' \in [Conns -> Places]
        BY VisibilityConstants DEF Respawn
    <2>2. untold' \in [Conns -> [Conns -> Int]]
        <3>1. at[c] \in Int /\ Spawn \in Int
            BY PlacesAreWhole, VisibilityConstants
        <3>2. \A a \in Conns : untold[a][c] + Spawn - at[c] \in Int
            BY <3>1
        <3> QED
            BY <3>2 DEF Respawn
    <2>3. UNCHANGED <<playing, joined, kicked, known, entities, shows, image, things, steps, moves>>
        BY DEF Respawn
    <2> QED
        BY <2>1, <2>2, <2>3 DEF entities
<1>2. UNCHANGED <<playing, joined, kicked, known, ents, body, turn, seen, shows, things>>
    BY DEF Respawn, entities
<1>3. Mutual' /\ Off' /\ Unheard'
    BY <1>2 DEF Mutual, Off, Unheard
<1>4. Figures' /\ Entities'
    BY <1>2 DEF Figures, Entities
<1> QED
    BY <1>1, <1>3, <1>4

LEMMA LeaveInv ==
    ASSUME IInv, NEW c \in Conns, Leave(c)
    PROVE  IInv'
<1> USE DEF IInv
<1>1. TypeOK'
    <2> USE DEF TypeOK
    <2>1. playing' \subseteq joined' /\ joined' \subseteq Conns /\ kicked' \subseteq joined' \ playing'
        BY DEF Leave, Gone
    <2>2. at' \in [Conns -> Places]
        BY VisibilityConstants DEF Leave, Gone
    <2>3. known' \in [Conns -> SUBSET Conns] /\ shows' \in [Conns -> SUBSET Conns]
        BY DEF Leave
    <2>4. seen' \in [Eids -> SUBSET Conns] /\ things' \in [Conns -> SUBSET Eids]
        BY DEF Leave
    <2>5. /\ image' \in [Conns -> [Conns -> Int]] /\ steps' \in [Conns -> [Conns -> Nat]]
          /\ untold' \in [Conns -> [Conns -> Int]]
        BY DEF Leave, Gone, Without
    <2>6. UNCHANGED <<ents, body, turn, moves>>
        BY DEF Leave
    <2> QED
        BY <2>1, <2>2, <2>3, <2>4, <2>5, <2>6
<1>2. /\ c \in playing /\ playing' = playing \ {c} /\ playing \subseteq Conns
      /\ UNCHANGED <<joined, kicked, ents>>
    BY DEF Leave, Gone, TypeOK
<1>3. \A q \in Conns : known'[q] = IF q = c THEN {} ELSE IF q \in playing THEN known[q] \ {c}
                                   ELSE known[q]
    BY DEF Leave
<1>4. \A e \in Eids : \A d \in Conns \ {c} : d \in seen'[e] <=> d \in seen[e]
    BY DEF Leave
<1>5. \A e \in Eids : seen'[e] \subseteq seen[e]
    BY DEF Leave
<1>6. \A a \in Conns : things'[a] = IF a = c THEN {} ELSE things[a]
    BY DEF Leave, TypeOK
<1>7. Mutual'
    BY <1>2, <1>3 DEF Mutual
<1>8. Off'
    BY <1>2, <1>3, <1>6 DEF Off
<1>9. Unheard'
    BY <1>2, <1>3, <1>5 DEF Unheard
<1>10. Figures'
    <2>1. shows' = known'
        <3>1. \A q \in Conns : shows'[q] = known'[q]
            BY <1>3 DEF Leave, Figures
        <3> QED
            BY <3>1, <1>1 DEF TypeOK
    <2>2. \A a \in playing' : known'[a] \subseteq (playing' \cup kicked') \ {a}
        <3> SUFFICES ASSUME NEW a \in playing'
                     PROVE  known'[a] \subseteq (playing' \cup kicked') \ {a}
            OBVIOUS
        <3>1. a \in playing /\ known'[a] = known[a] \ {c}
            BY <1>2, <1>3
        <3>2. known[a] \subseteq (playing \cup kicked) \ {a}
            BY <3>1 DEF Figures
        <3> QED
            BY <1>2, <3>1, <3>2
    <2> HIDE DEF IInv
    <2> QED
        BY ONLY <2>1, <2>2 DEF Figures
<1>11. Entities'
    BY <1>2, <1>4, <1>6 DEF Entities, TypeOK
<1> QED
    BY <1>1, <1>7, <1>8, <1>9, <1>10, <1>11

LEMMA KickInv ==
    ASSUME IInv, NEW c \in Conns, Kick(c)
    PROVE  IInv'
<1> USE DEF IInv
<1>1. TypeOK'
    <2> USE DEF TypeOK
    <2>1. playing' \subseteq joined' /\ joined' \subseteq Conns /\ kicked' \subseteq joined' \ playing'
        BY DEF Kick, Gone
    <2>2. at' \in [Conns -> Places]
        BY VisibilityConstants DEF Kick, Gone
    <2>3. known' \in [Conns -> SUBSET Conns] /\ shows' \in [Conns -> SUBSET Conns]
        BY DEF Kick
    <2>4. things' \in [Conns -> SUBSET Eids]
        BY DEF Kick
    <2>5. /\ image' \in [Conns -> [Conns -> Int]] /\ steps' \in [Conns -> [Conns -> Nat]]
          /\ untold' \in [Conns -> [Conns -> Int]]
        BY DEF Kick, Gone, Without
    <2>6. UNCHANGED <<ents, body, turn, seen, moves>>
        BY DEF Kick, entities
    <2> QED
        BY <2>1, <2>2, <2>3, <2>4, <2>5, <2>6
<1>2. /\ c \in playing /\ playing' = playing \ {c} /\ playing \subseteq Conns
      /\ kicked' = kicked \cup {c} /\ UNCHANGED <<joined, ents, seen>>
    BY DEF Kick, Gone, TypeOK, entities
<1>3. \A q \in Conns : known'[q] = IF q = c THEN {} ELSE known[q]
    BY DEF Kick, TypeOK
<1>4. \A a \in Conns : things'[a] = IF a = c THEN {} ELSE things[a]
    BY DEF Kick, TypeOK
<1>5. Mutual' /\ Off' /\ Unheard'
    BY <1>2, <1>3, <1>4 DEF Mutual, Off, Unheard
<1>6. Figures'
    <2>1. shows' = known'
        BY DEF Kick, Figures
    <2>2. \A a \in playing' : known'[a] \subseteq (playing' \cup kicked') \ {a}
        BY <1>2, <1>3 DEF Figures
    <2> HIDE DEF IInv
    <2> QED
        BY ONLY <2>1, <2>2 DEF Figures
<1>7. Entities'
    BY <1>2, <1>4 DEF Entities
<1> QED
    BY <1>1, <1>5, <1>6, <1>7

----------------------------------------------------------------------------
(* Entities. *)
LEMMA DropInv ==
    ASSUME IInv, NEW c \in Conns, NEW L \in SUBSET Conns, NEW x \in Eids, Drop(c, L, x)
    PROVE  IInv'
<1> USE DEF IInv
<1>1. /\ c \in playing /\ L \subseteq playing /\ x \notin ents
      /\ ents' = ents \cup {x}
      /\ seen' = [seen EXCEPT ![x] = L \cup {c}]
      /\ UNCHANGED <<playing, joined, kicked, at, known, turn, shows, image, steps, untold, moves>>
    BY DEF Drop, Unused, people, TypeOK
<1>2. \A a \in Conns : things'[a] = IF a \in L \cup {c} THEN things[a] \cup {x} ELSE things[a]
    BY DEF Drop
<1>3. TypeOK'
    <2> USE DEF TypeOK
    <2>1. ents' \subseteq Eids
        BY <1>1
    <2>2. body' \in [Eids -> [mob : BOOLEAN, at : Places, age : Nat]]
        BY <1>1, PlacesAreWhole DEF Drop
    <2>3. seen' \in [Eids -> SUBSET Conns] /\ things' \in [Conns -> SUBSET Eids]
        BY <1>1 DEF Drop
    <2> QED
        BY <1>1, <2>1, <2>2, <2>3
<1>4. playing \subseteq joined
    BY DEF TypeOK
<1>5. Mutual' /\ Figures'
    BY <1>1 DEF Mutual, Figures
<1>6. Off'
    BY <1>1, <1>2 DEF Off
<1>7. Unheard'
    BY <1>1, <1>4 DEF Unheard, TypeOK
<1>8. Entities'
    <2> SUFFICES ASSUME NEW a \in playing
                 PROVE  things'[a] = {e \in ents' : a \in seen'[e]}
        BY <1>1 DEF Entities
    <2>1. a \in Conns /\ things[a] = {e \in ents : a \in seen[e]} /\ ents \subseteq Eids
        BY DEF TypeOK, Entities
    <2>2. \A e \in Eids : seen'[e] = IF e = x THEN L \cup {c} ELSE seen[e]
        BY <1>1 DEF TypeOK
    <2>3. CASE a \in L \cup {c}
        <3>1. things'[a] = {e \in ents : a \in seen[e]} \cup {x}
            BY <1>2, <2>1, <2>3
        <3>2. {e \in ents' : a \in seen'[e]} = {e \in ents : a \in seen[e]} \cup {x}
            BY <1>1, <2>1, <2>2, <2>3
        <3> QED
            BY <3>1, <3>2
    <2>4. CASE a \notin L \cup {c}
        <3>1. things'[a] = {e \in ents : a \in seen[e]}
            BY <1>2, <2>1, <2>4
        <3>2. {e \in ents' : a \in seen'[e]} = {e \in ents : a \in seen[e]}
            BY <1>1, <2>1, <2>2, <2>4
        <3> QED
            BY <3>1, <3>2
    <2> QED
        BY <2>3, <2>4
<1> QED
    BY <1>3, <1>5, <1>6, <1>7, <1>8

LEMMA EntityTickInv ==
    ASSUME IInv, NEW M \in SUBSET Unused,
           NEW S \in SUBSET ents, NEW D \in SUBSET S,
           NEW where \in [M -> Places], NEW V \in [M -> SUBSET playing],
           EntityTick(S, D, M, where, V)
    PROVE  IInv'
<1> USE DEF IInv
<1>1. /\ ents' = (ents \ D) \cup M /\ turn' = IF D = {} THEN ~turn ELSE turn
      /\ UNCHANGED <<playing, joined, kicked, at, known, shows, image, steps, untold, moves>>
    BY DEF EntityTick, people
<1>2. \A e \in Eids : seen'[e] = IF e \in M THEN V[e] ELSE IF e \in D THEN {} ELSE seen[e]
    BY DEF EntityTick
<1>3. \A a \in Conns : things'[a] = {e \in things[a] : ~(e \in D /\ a \in seen[e])}
                                    \cup {m \in M : a \in V[m]}
    BY DEF EntityTick, DestroyEntity
<1>5. M \subseteq Eids /\ M \cap ents = {}
    BY DEF Unused
<1>6. TypeOK'
    <2> USE DEF TypeOK
    <2>1. ents' \subseteq Eids
        BY <1>1, <1>5
    <2>2. turn' \in BOOLEAN
        BY <1>1
    <2>4. body' \in [Eids -> [mob : BOOLEAN, at : Places, age : Nat]]
        <3>1. None \in [mob : BOOLEAN, at : Places, age : Nat]
            BY VisibilityConstants DEF None
        <3>2. \A e \in Eids : Aged(e) \in Nat
            BY DEF Aged
        <3> QED
            BY <3>1, <3>2 DEF EntityTick
    <2>5. seen' \in [Eids -> SUBSET Conns]
        <3>1. \A e \in M : V[e] \subseteq Conns
            OBVIOUS
        <3> QED
            BY <3>1 DEF EntityTick
    <2>6. things' \in [Conns -> SUBSET Eids]
        <3>1. \A a \in Conns : DestroyEntity(D, a) \subseteq Eids
            BY DEF DestroyEntity
        <3> QED
            BY <3>1, <1>5 DEF EntityTick
    <2> QED
        BY <1>1, <2>1, <2>2, <2>4, <2>5, <2>6
<1>7. Mutual' /\ Figures'
    BY <1>1 DEF Mutual, Figures
<1>8. Off'
    BY <1>1, <1>3 DEF Off
<1>9. Unheard'
    <2>1. playing \subseteq joined
        BY DEF TypeOK
    <2> QED
        BY <1>1, <1>2, <2>1 DEF Unheard
<1>10. Entities'
    <2> SUFFICES ASSUME NEW a \in playing
                 PROVE  things'[a] = {e \in ents' : a \in seen'[e]}
        BY <1>1 DEF Entities
    <2>1. a \in Conns /\ things[a] = {e \in ents : a \in seen[e]} /\ ents \subseteq Eids
        BY DEF TypeOK, Entities
    <2> QED
        BY <1>1, <1>2, <1>3, <1>5, <2>1
<1> QED
    BY <1>6, <1>7, <1>8, <1>9, <1>10

LEMMA StutterInv == IInv /\ UNCHANGED vars => IInv'
BY DEF IInv, TypeOK, Mutual, Off, Unheard, Figures, Entities, vars, people, entities, screens

LEMMA StepInv == IInv /\ [Next]_vars => IInv'
<1> SUFFICES ASSUME IInv, [Next]_vars PROVE IInv'
    OBVIOUS
<1>1. ASSUME NEW c \in Conns, Join(c) PROVE IInv'
    BY <1>1, JoinInv
<1>2. ASSUME NEW c \in Conns, Leave(c) PROVE IInv'
    BY <1>2, LeaveInv
<1>3. ASSUME NEW c \in Conns, Kick(c) PROVE IInv'
    BY <1>3, KickInv
<1>4. ASSUME NEW c \in Conns, NEW x \in Places, Move(c, x) PROVE IInv'
    BY <1>4, MoveInv
<1>5. ASSUME NEW c \in Conns, NEW L \in SUBSET Conns, NEW e \in Eids, Drop(c, L, e) PROVE IInv'
    BY <1>5, DropInv
<1>6. CASE Tick
    <2>1. PICK M \in SUBSET Unused, S \in SUBSET ents :
              \E where \in [M -> Places], V \in [M -> SUBSET playing],
                 D \in {{}} \cup {{e} : e \in S} : EntityTick(S, D, M, where, V)
        BY <1>6 DEF Tick
    <2>2. PICK where \in [M -> Places], V \in [M -> SUBSET playing],
               D \in {{}} \cup {{e} : e \in S} : EntityTick(S, D, M, where, V)
        BY <2>1
    <2>3. D \in SUBSET S
        OBVIOUS
    <2> QED
        BY <2>2, <2>3, EntityTickInv
<1>7. CASE UNCHANGED vars
    BY <1>7, StutterInv
<1>8. ASSUME NEW c \in Conns, Respawn(c) PROVE IInv'
    BY <1>8, RespawnInv
<1> QED
    BY <1>1, <1>2, <1>3, <1>4, <1>5, <1>6, <1>7, <1>8 DEF Next

LEMMA InvHolds == Spec => []IInv
<1>1. Init => IInv
    BY InitInv
<1>2. IInv /\ [Next]_vars => IInv'
    BY StepInv
<1> QED
    BY <1>1, <1>2, PTL DEF Spec

(* Whoever joined, left or was kicked: a player knows those, and only those, *)
(* who know him, so a movement reaches every screen the mover is on.         *)
THEOREM KnowingIsMutual == Spec => []Mutual
<1>1. IInv => Mutual
    BY DEF IInv
<1> QED
    BY <1>1, InvHolds, PTL

(* The screens agree with what the server believes of them, and no figure    *)
(* outlives its player but that of one who was kicked.                       *)
THEOREM ScreensAreTrue == Spec => []ScreensTrue
<1>1. IInv => ScreensTrue
    <2> SUFFICES ASSUME IInv, NEW c \in playing
                 PROVE  /\ things[c] = {e \in ents : c \in seen[e]}
                        /\ shows[c] = known[c]
                        /\ shows[c] \subseteq playing \cup kicked
        BY DEF ScreensTrue
    <2> QED
        BY DEF IInv, Entities, Figures
<1> QED
    BY <1>1, InvHolds, PTL

(* A join puts every screen right: figures and entities within 64 blocks of  *)
(* each player, and no others.                                               *)
THEOREM JoinsRefresh == Spec => RefreshedOnJoin
<1>1. IInv /\ [Next]_vars =>
        [joined' # joined =>
           \A a \in playing' :
             /\ shows'[a] \cap playing' = {b \in playing' \ {a} : Near(at'[a], at'[b])}
             /\ things'[a] = {e \in ents' : Near(body'[e].at, at'[a])}]_vars
    <2> SUFFICES ASSUME IInv, Next, joined' # joined, NEW a \in playing'
                 PROVE  /\ shows'[a] \cap playing' = {b \in playing' \ {a} : Near(at'[a], at'[b])}
                        /\ things'[a] = {e \in ents' : Near(body'[e].at, at'[a])}
        OBVIOUS
    <2>1. PICK c \in Conns : Join(c)
        BY DEF Next, Respawn, Leave, Kick, Move, Drop, Tick, EntityTick, people
    <2>2. a \in Conns /\ playing' \subseteq Conns
        BY <2>1, JoinRefreshes DEF IInv, TypeOK
    <2>3. /\ ents' = ents /\ body' = body /\ shows' = known'
          /\ things'[a] = {e \in ents : a \in seen'[e]}
          /\ \A e \in ents : a \in seen'[e] <=> Near(body[e].at, at'[a])
        BY <2>1, JoinRefreshes DEF Join
    <2>4. \A b \in Conns : b \in known'[a] <=> IF b \in playing' \ {a} THEN Near(at'[a], at'[b])
                                               ELSE b \in known[a]
        BY <2>1, JoinRefreshes
    <2>5. a \notin known[a]
        BY <2>1, <2>2 DEF IInv, Figures, Off, Join
    <2> QED
        BY <2>2, <2>3, <2>4, <2>5
<1> QED
    BY <1>1, InvHolds, PTL DEF Spec, RefreshedOnJoin

----------------------------------------------------------------------------
(* How far a figure is from its player: up to multiples of eight blocks, a   *)
(* 64th for each rounding.                                                   *)
Off64(i, x, s) == \E k \in Int : Dist(2 * i - x - 512 * k, 0) <= s + 1

Drifts ==
    \A a \in playing : \A b \in known[a] \cap playing :
        Off64(image[a][b], at[b] - untold[a][b], steps[a][b])

\* A place told anew is right but for the rounding.
LEMMA ToldAnew ==
    ASSUME NEW i \in Int, NEW x \in Int, Dist(2 * i - x, 0) <= 1
    PROVE  Off64(i, x, 0)
<1>1. 2 * i - x - 512 * 0 = 2 * i - x
    OBVIOUS
<1> QED
    BY <1>1 DEF Off64

\* A movement adds its own rounding, and what its byte loses.
LEMMA ToldAStep ==
    ASSUME NEW i \in Int, NEW x \in Int, NEW y \in Int, NEW s \in Nat, Off64(i, x, s)
    PROVE  Off64(i + Int8(Rounded(y - x)), y, s + 1)
<1> DEFINE f == Rounded(y - x)
<1>1. y - x \in Int
    OBVIOUS
<1>2. f \in Int /\ Dist(2 * f - (y - x), 0) <= 1
    BY <1>1, RoundedHalf
<1> HIDE DEF f
<1>3. PICK j \in Int : Int8(f) = f + 256 * j
    BY <1>2, Int8Mod
<1>4. PICK k \in Int : Dist(2 * i - x - 512 * k, 0) <= s + 1
    BY DEF Off64
<1>5. 2 * (i + Int8(f)) - y - 512 * (k + j) = (2 * i - x - 512 * k) + (2 * f - (y - x))
    BY <1>2, <1>3
<1>6. Dist(2 * (i + Int8(f)) - y - 512 * (k + j), 0) <= (s + 1) + 1
    BY <1>2, <1>4, <1>5 DEF Dist
<1>7. Off64(i + Int8(f), y, s + 1)
    <2> SUFFICES \E n \in Int : Dist(2 * (i + Int8(f)) - y - 512 * n, 0) <= (s + 1) + 1
        BY DEF Off64
    <2>1. k + j \in Int
        OBVIOUS
    <2> WITNESS k + j \in Int
    <2> QED
        BY <1>6
<1> QED
    BY <1>7 DEF f

\* What the remainder makes of such a distance.
LEMMA Remainder ==
    ASSUME NEW i \in Int, NEW x \in Int, NEW s \in Nat, Off64(i, x, s)
    PROVE  Dist(((2 * i - x + 256) % 512) - 256, 0) <= s + 1
<1>1. PICK k \in Int : Dist(2 * i - x - 512 * k, 0) <= s + 1
    BY DEF Off64
<1> DEFINE r == 2 * i - x - 512 * k
           m == (2 * i - x + 256) % 512
<1>2. r \in Int /\ 2 * i - x + 256 \in Int /\ 2 * i - x + 256 = 512 * k + (r + 256)
    OBVIOUS
<1>3. m \in 0..511
    BY <1>2
<1>4. CASE s + 1 >= 256
    BY <1>3, <1>4 DEF Dist
<1>5. CASE s + 1 < 256
    <2>1. r + 256 \in 0..511
        BY <1>1, <1>5 DEF Dist
    <2>2. m = r + 256
        BY <1>2, <2>1
    <2> QED
        BY <1>1, <1>5, <2>2 DEF Dist
<1> QED
    BY <1>4, <1>5

LEMMA DriftsStep ==
    ASSUME IInv, IInv', Drifts, [Next]_vars
    PROVE  Drifts'
<1> SUFFICES ASSUME NEW a \in playing', NEW b \in known'[a] \cap playing'
             PROVE  Off64(image'[a][b], at'[b] - untold'[a][b], steps'[a][b])
    BY DEF Drifts
<1>0. TypeOK /\ TypeOK' /\ a \in Conns /\ b \in Conns /\ a # b
    <2>1. TypeOK /\ TypeOK' /\ Figures'
        BY DEF IInv
    <2> QED
        BY <2>1 DEF TypeOK, Figures
\* Nothing that matters to a's image of b has changed.
<1>1. ASSUME a \in playing, b \in known[a] \cap playing, image'[a][b] = image[a][b],
             at'[b] = at[b], steps'[a][b] = steps[a][b], untold'[a][b] = untold[a][b]
      PROVE  Off64(image'[a][b], at'[b] - untold'[a][b], steps'[a][b])
    BY <1>1 DEF Drifts
<1>2. ASSUME NEW c \in Conns, Join(c) PROVE Off64(image'[a][b], at'[b] - untold'[a][b], steps'[a][b])
    <2>1. Updated(c) = playing' /\ at' = [at EXCEPT ![c] = Spawn]
        BY <1>2 DEF Join, Updated
    <2>2. CASE b \in Come(a)
        <3>1. image'[a][b] = Fixed(at'[b]) /\ steps'[a][b] = 0 /\ untold'[a][b] = 0
            BY <1>0, <1>2, <2>1, <2>2 DEF Join, UpdateVisibility
        <3>2. at'[b] \in Places
            BY <1>0 DEF TypeOK
        <3>3. at'[b] \in Int
            BY <3>2, PlacesAreWhole
        <3>4. Off64(Fixed(at'[b]), at'[b], 0)
            BY <3>3, FixedHalf, ToldAnew
        <3> QED
            BY <3>1, <3>3, <3>4
    <2>3. CASE b \notin Come(a)
        <3>1. image'[a][b] = image[a][b] /\ steps'[a][b] = steps[a][b] /\ untold'[a][b] = untold[a][b]
            BY <1>0, <1>2, <2>3 DEF Join, UpdateVisibility
        <3>2. b \in known[a]
            BY <1>0, <1>2, <2>1, <2>3 DEF Join, UpdateVisibility, Changed
        <3>3. a \in playing
            BY <1>0, <3>2 DEF IInv, Off
        <3>4. b # c
            BY <1>0, <1>2, <3>2 DEF IInv, Unheard, Join
        <3>5. b \in playing /\ at'[b] = at[b]
            BY <1>0, <1>2, <2>1, <3>4 DEF Join, TypeOK
        <3> QED
            BY <1>1, <3>1, <3>2, <3>3, <3>5
    <2> QED
        BY <2>2, <2>3
<1>3. ASSUME NEW c \in Conns, Leave(c) PROVE Off64(image'[a][b], at'[b] - untold'[a][b], steps'[a][b])
    <2>1. a # c /\ b # c /\ a \in playing /\ b \in playing /\ b \in known[a]
        BY <1>0, <1>3 DEF Leave, Gone
    <2>2. /\ image'[a][b] = image[a][b] /\ at'[b] = at[b]
          /\ steps'[a][b] = steps[a][b] /\ untold'[a][b] = untold[a][b]
        BY <1>0, <1>3, <2>1 DEF Leave, Gone, Without, TypeOK
    <2> QED
        BY <1>1, <2>1, <2>2
<1>4. ASSUME NEW c \in Conns, Kick(c) PROVE Off64(image'[a][b], at'[b] - untold'[a][b], steps'[a][b])
    <2>1. a # c /\ b # c /\ a \in playing /\ b \in playing /\ b \in known[a]
        BY <1>0, <1>4 DEF Kick, Gone, TypeOK
    <2>2. /\ image'[a][b] = image[a][b] /\ at'[b] = at[b]
          /\ steps'[a][b] = steps[a][b] /\ untold'[a][b] = untold[a][b]
        BY <1>0, <1>4, <2>1 DEF Kick, Gone, Without, TypeOK
    <2> QED
        BY <1>1, <2>1, <2>2
<1>5. ASSUME NEW c \in Conns, NEW x \in Places, Move(c, x)
      PROVE  Off64(image'[a][b], at'[b] - untold'[a][b], steps'[a][b])
    <2>1. a \in playing /\ b \in known[a] \cap playing
        BY <1>5 DEF Move
    <2>2. CASE b # c
        <3>1. /\ image'[a][b] = image[a][b] /\ at'[b] = at[b]
              /\ steps'[a][b] = steps[a][b] /\ untold'[a][b] = untold[a][b]
            BY <1>0, <1>5, <2>2 DEF Move, BroadcastPlayerMove, TypeOK
        <3> QED
            BY <1>1, <2>1, <3>1
    <2>3. CASE b = c
        <3>1. a \in known[c] /\ c \in shows[a]
            BY <2>1, <2>3 DEF IInv, Mutual, Figures
        <3>2. at'[b] = x /\ x \in Int /\ at[c] \in Int
            BY <1>0, <1>5, <2>3, PlacesAreWhole DEF Move, BroadcastPlayerMove, TypeOK
        <3>3. image[a][c] \in Int /\ steps[a][c] \in Nat /\ untold[a][c] \in Int
            BY <1>0, <2>3 DEF TypeOK
        <3>4. CASE Dist(Rounded(x - at[c]), 0) < 256
            <4> DEFINE u == untold[a][c]
            <4>1. /\ image'[a][b] = image[a][c] + Int8(Rounded(x - at[c]))
                  /\ steps'[a][b] = steps[a][c] + 1 /\ untold'[a][b] = u
                BY <1>0, <1>5, <2>1, <2>3, <3>1, <3>4 DEF Move, BroadcastPlayerMove, TypeOK
            <4>2. Off64(image[a][c], at[c] - u, steps[a][c])
                BY <2>1, <2>3 DEF Drifts
            <4> HIDE DEF u
            <4>3. u \in Int
                BY <3>3 DEF u
            <4>4. at[c] - u \in Int /\ x - u \in Int /\ (x - u) - (at[c] - u) = x - at[c]
                BY <3>2, <4>3
            <4>5. Off64(image[a][c] + Int8(Rounded((x - u) - (at[c] - u))), x - u, steps[a][c] + 1)
                BY <3>3, <4>2, <4>4, ToldAStep
            <4> QED
                BY <3>2, <4>1, <4>4, <4>5
        <3>5. CASE ~(Dist(Rounded(x - at[c]), 0) < 256)
            <4>1. image'[a][b] = Rounded(x) /\ steps'[a][b] = 0 /\ untold'[a][b] = 0
                BY <1>0, <1>5, <2>1, <2>3, <3>1, <3>5 DEF Move, BroadcastPlayerMove, TypeOK
            <4>2. Off64(Rounded(x), x, 0)
                BY <3>2, RoundedHalf, ToldAnew
            <4> QED
                BY <3>2, <4>1, <4>2
        <3> QED
            BY <3>4, <3>5
    <2> QED
        BY <2>2, <2>3
<1>6. ASSUME UNCHANGED <<people, image, steps, untold>> PROVE Off64(image'[a][b], at'[b] - untold'[a][b], steps'[a][b])
    BY <1>1, <1>6 DEF people
<1>7. ASSUME NEW c \in Conns, NEW L \in SUBSET Conns, NEW e \in Eids, Drop(c, L, e)
      PROVE  Off64(image'[a][b], at'[b] - untold'[a][b], steps'[a][b])
    BY <1>6, <1>7 DEF Drop
<1>8. CASE Tick
    BY <1>6, <1>8 DEF Tick, EntityTick
<1>9. CASE UNCHANGED vars
    BY <1>6, <1>9 DEF vars, screens
\* A respawn moves the player and what the others have not been told alike.
<1>10. ASSUME NEW c \in Conns, Respawn(c)
       PROVE  Off64(image'[a][b], at'[b] - untold'[a][b], steps'[a][b])
    <2>1. /\ a \in playing /\ b \in known[a] \cap playing
          /\ image'[a][b] = image[a][b] /\ steps'[a][b] = steps[a][b]
        BY <1>10 DEF Respawn
    <2>2. CASE b # c
        <3>1. at'[b] = at[b] /\ untold'[a][b] = untold[a][b]
            BY <1>0, <1>10, <2>2 DEF Respawn, TypeOK
        <3> QED
            BY <1>1, <2>1, <3>1
    <2>3. CASE b = c
        <3>1. b \in shows[a]
            BY <2>1 DEF IInv, Figures
        <3>2. at'[b] = Spawn /\ untold'[a][b] = untold[a][b] + Spawn - at[b]
            BY <1>0, <1>10, <2>3, <3>1 DEF Respawn, TypeOK
        <3>3. at[b] \in Int /\ Spawn \in Int /\ untold[a][b] \in Int
            <4>1. at[b] \in Places /\ untold[a][b] \in Int
                BY <1>0 DEF TypeOK
            <4> QED
                BY <4>1, PlacesAreWhole, VisibilityConstants
        <3>4. at'[b] - untold'[a][b] = at[b] - untold[a][b]
            BY <3>2, <3>3
        <3>5. Off64(image[a][b], at[b] - untold[a][b], steps[a][b])
            BY <2>1 DEF Drifts
        <3> QED
            BY <2>1, <3>4, <3>5
    <2> QED
        BY <2>2, <2>3
<1> QED
    BY <1>2, <1>3, <1>4, <1>5, <1>7, <1>8, <1>9, <1>10 DEF Next

(* However the players move and respawn, a figure is off by the respawns its *)
(* client was not told of and a 64th of a block at most for each movement    *)
(* since its place was told, taken modulo the eight blocks a byte loses.     *)
THEOREM DriftIsBounded == Spec => []DriftBounded
<1>1. Init => Drifts
    BY DEF Init, Drifts
<1>2. IInv /\ IInv' /\ Drifts /\ [Next]_vars => Drifts'
    BY DriftsStep
<1>3. IInv /\ Drifts => DriftBounded
    <2> SUFFICES ASSUME IInv, Drifts, NEW a \in playing, NEW c \in shows[a] \cap playing
                 PROVE  Dist(Drift(a, c, at[c] - untold[a][c]), 0) <= steps[a][c] + 1
        BY DEF DriftBounded
    <2>1. a \in Conns /\ c \in Conns /\ c \in known[a] /\ at[c] \in Places
        BY DEF IInv, TypeOK, Figures
    <2>2. image[a][c] \in Int /\ steps[a][c] \in Nat /\ at[c] - untold[a][c] \in Int
        BY <2>1, PlacesAreWhole DEF IInv, TypeOK
    <2>3. Off64(image[a][c], at[c] - untold[a][c], steps[a][c])
        BY <2>1 DEF Drifts
    <2> QED
        BY <2>2, <2>3, Remainder DEF Drift
<1> QED
    BY <1>1, <1>2, <1>3, InvHolds, PTL DEF Spec
=============================================================================
