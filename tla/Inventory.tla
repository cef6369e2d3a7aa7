------------------------------ MODULE Inventory -------------------------------
(* The inventory of a player of versions/v1_8: the machine behind ClickWindow  *)
(* in its seven modes (ProcessClick), the item in the hand that is dropped or  *)
(* placed (HandleDig, HandlePlace), the creative slots, and the stacks on the  *)
(* ground that EntityTick lets a player pick up.  One player: others meet his  *)
(* items only on the ground.  Confirmations are left out, since the server     *)
(* resends what a click touched whether it is accepted or not.                 *)
(* A kind of item is its id, damage and NBT taken together.                    *)
EXTENDS Integers, SequencesExt

CONSTANTS Kinds,     \* kinds of items
          Main,      \* the slots of the main inventory, ascending (9..35)
          Hotbar,    \* the slots of the hotbar, ascending (36..44)
          MAX,       \* MaxStack (64)
          BYTE,      \* values a count can have (256)
          Ground,    \* stacks that may lie on the ground at once (512 entities)
          Gifts,     \* counts a creative client names (any byte)
          MaxItems   \* bound: no more items than these come into the game

None == "none"
Cursor == -1                    \* as in SetSlot
Outside == -999
Carried == Main \o Hotbar       \* 9..44
Top == Hotbar[Len(Hotbar)]
Slots == 0..Top
Places == Slots \cup {Cursor}

ASSUME InventoryConstants ==
  /\ None \notin Kinds
  /\ Main # <<>> /\ Hotbar # <<>>
  /\ Main \in Seq(Nat \ {0}) /\ Hotbar \in Seq(Nat \ {0})
  /\ \A i, j \in 1..Len(Carried) : i < j => Carried[i] < Carried[j]
  /\ MAX \in Nat \ {0} /\ BYTE \in Nat /\ BYTE >= 2 * MAX + 1
  /\ Ground \in Nat /\ Gifts \subseteq 0..BYTE - 1 /\ MaxItems \in Nat

VARIABLES
  box,       \* inv and cursor: a stack in each place
  drag,      \* drag_active, drag_button, drag_slots
  selected,  \* position of the hand in the hotbar
  ground,    \* item entities: the stack of each, or Nothing
  shown,     \* the inventory the client was told of
  made       \* history: items of each kind brought into the game less those
             \* taken out of it

vars == <<box, drag, selected, ground, shown, made>>

Stack(kind, n) == [kind |-> kind, count |-> n % BYTE]
Nothing == [kind |-> None, count |-> 0]
NoDrag == [button |-> None, slots |-> <<>>]
Stacks == {Nothing} \cup [kind : Kinds, count : 0..BYTE - 1]
Boxes == [Places -> Stacks]

Init ==
  /\ box = [q \in Places |-> Nothing] /\ drag = NoDrag /\ selected = 1
  /\ ground = [e \in 1..Ground |-> Nothing]
  /\ shown = box
  /\ made = [k \in Kinds |-> 0]

-------------------------------------------------------------------------------
(* Stacks.                                                                     *)

\* SlotEmpty looks at the id alone: a stack of none is not empty.
Free(b, q) == b[q].kind = None
Matches(b, q, kind) == ~Free(b, q) /\ b[q].kind = kind
Smaller(m, n) == IF m < n THEN m ELSE n

\* n more (or less) in q, in a uint8_t; a stack used up is cleared.
Add(b, q, n) == [b EXCEPT ![q] = Stack(@.kind, @.count + n)]
Tidy(b, q) == IF b[q].count = 0 THEN [b EXCEPT ![q] = Nothing] ELSE b
Swap(b, p, q) == [b EXCEPT ![p] = b[q], ![q] = b[p]]

\* As much of the stack in p as there is room for goes to q.
Pour(b, p, q) ==
  LET n == Smaller(MAX - b[q].count, b[p].count) IN Add(Add(b, q, n), p, -n)

\* What an operation leaves, and the slots it resends.
Result(b, dirty) == [box |-> b, dirty |-> dirty]
Results == [box : Boxes, dirty : SUBSET Places]

\* A loop over slots: f[q] is what its body does at slot q, a function.  (Like
\* FoldLeft, in the form of a recursive function.)
Sweep(f, x, slots) ==
  LET after[i \in 0..Len(slots)] ==
        IF i = 0 THEN x ELSE f[slots[i]][after[i - 1]]
  IN after[Len(slots)]

\* The items of kind k in the inventory and on the ground.
Of(s, k) == IF s.kind = k THEN s.count ELSE 0
Sum(f, n) ==
  LET upto[i \in 0..n] == IF i = 0 THEN 0 ELSE upto[i - 1] + f[i] IN upto[n]
Held(b, k) == Sum([i \in 1..Top + 2 |-> Of(b[i - 2], k)], Top + 2)
Lying(g, k) == Sum([e \in 1..Ground |-> Of(g[e], k)], Ground)
Total(b, g, k) == Held(b, k) + Lying(g, k)

-------------------------------------------------------------------------------
(* Modes 0 to 2: clicks, shift-clicks, number keys.                            *)

\* Mutant of LeftClick: the cursor keeps what it put down.
LeftClickKeeps(b, s) ==
  IF Matches(b, s, b[Cursor].kind) THEN Add(b, s, Smaller(MAX - b[s].count, b[Cursor].count))
  ELSE Swap(b, s, Cursor)

LeftClick(b, s) ==
  IF Matches(b, s, b[Cursor].kind)
  THEN Tidy(Pour(b, Cursor, s), Cursor)
  ELSE Swap(b, s, Cursor)

TakeHalf(b, s) ==
  LET n == (b[s].count + 1) \div 2
  IN Tidy(Add([b EXCEPT ![Cursor] = Stack(b[s].kind, n)], s, -n), s)

PutOne(b, s) ==
  Tidy(Add([b EXCEPT ![s] = Stack(b[Cursor].kind, IF Free(b, s) THEN 1 ELSE @.count + 1)],
           Cursor, -1), Cursor)

RightClick(b, s) ==
  IF Free(b, Cursor) THEN TakeHalf(b, s)
  ELSE IF Free(b, s) THEN PutOne(b, s)
  ELSE IF Matches(b, s, b[Cursor].kind)
       THEN IF b[s].count < MAX THEN PutOne(b, s) ELSE b
  ELSE Swap(b, s, Cursor)

\* A stack goes from the hotbar to the main inventory and from anywhere else to
\* the hotbar: onto stacks of its kind first, the rest to a free slot.
ShiftTargets(s) == IF s < Hotbar[1] THEN Hotbar ELSE Main

ShiftClick(b, s) ==
  LET merge == [q \in Slots |-> [r \in Results |->
        IF Matches(r.box, q, b[s].kind)
        THEN Result(Pour(r.box, s, q), r.dirty \cup {q}) ELSE r]]
      r == Sweep(merge, Result(b, {s}), ShiftTargets(s))
      i == SelectInSeq(ShiftTargets(s), LAMBDA q : Free(r.box, q))
      q == ShiftTargets(s)[i]
  IN IF Free(b, s) THEN Result(b, {})
     ELSE IF i = 0 THEN r
     ELSE Result(Swap(r.box, s, q), r.dirty \cup {q})

-------------------------------------------------------------------------------
(* Modes 5 and 6: drags and double clicks.                                     *)

DragOver(d, s) ==
  IF s = Outside \/ s \in ToSet(d.slots) THEN d ELSE [d EXCEPT !.slots = Append(@, s)]

\* Every target is free or holds what the cursor holds.
DragFits(b, d) ==
  \A s \in ToSet(d.slots) : Free(b, s) \/ b[s].kind = b[Cursor].kind

\* Each of the slots gets n items of what the cursor holds.
HandOut(b, slots, n) ==
  LET give == [s \in Slots |-> [c \in Boxes |->
        [c EXCEPT ![s] = Stack(b[Cursor].kind, @.count + n)]]]
  IN Tidy(Add(Sweep(give, b, slots), Cursor, -(n * Len(slots))), Cursor)

\* Each target gets an equal share, be there room for it or not.
Share(b, d) == b[Cursor].count \div Len(d.slots)
DragLeft(b, d) == HandOut(b, d.slots, Share(b, d))

\* Each target gets one, up to the first that is full.  The cursor running out
\* stops nothing: the loop asks SlotEmpty of it, which looks at the id, and the
\* id is cleared only after the loop.
DragServed(b, d) ==
  LET full == SelectInSeq(d.slots, LAMBDA s : b[s].count >= MAX)
  IN IF full = 0 THEN Len(d.slots) ELSE full - 1
DragRight(b, d) == HandOut(b, SubSeq(d.slots, 1, DragServed(b, d)), 1)

DragEnd(b, d) ==
  LET targets == ToSet(d.slots) \cup {Cursor} IN
  IF ~DragFits(b, d) THEN Result(b, targets)
  ELSE IF d.button = "right" THEN Result(DragRight(b, d), targets)
  ELSE IF Share(b, d) = 0 THEN Result(b, {})
  ELSE Result(DragLeft(b, d), targets)

\* Everything of the cursor's kind comes to the cursor, slot by slot.
Gather(b) ==
  LET take == [q \in Slots |-> [r \in Results |->
        IF Matches(r.box, q, b[Cursor].kind) /\ r.box[Cursor].count < MAX
        THEN Result(Tidy(Pour(r.box, q, Cursor), q), r.dirty \cup {q}) ELSE r]]
  IN IF Free(b, Cursor) THEN Result(b, {})
     ELSE Sweep(take, Result(b, {Cursor}), [i \in 1..Top |-> i])

-------------------------------------------------------------------------------
(* What a click does: the new contents, and SetSlot for what may differ.       *)

\* Mutant of Resync: the cursor is not resent.
ResyncSlots(dirty, d) == dirty \ {Cursor}

\* A new click cancels the drag in progress, which is then resent as well.
Resync(dirty, d) ==
  IF d.button = None THEN dirty ELSE dirty \cup ToSet(d.slots) \cup {Cursor}

\* The contents become b, and the client is told of the places in dirty.
Become(b, dirty) ==
  /\ box' = b
  /\ shown' = [q \in Places |-> IF q \in dirty THEN b[q] ELSE shown[q]]

\* Bound: the game is followed until items have come from nowhere.
Playing == \A k \in Kinds : Total(box, ground, k) <= made[k]

\* Bound on the items that come into the game.
Affordable(supply) == FoldFunction(+, 0, supply) <= MaxItems

\* Mutant of Click: the drag in progress goes on.
ClickKeepsDrag(r) ==
  /\ Playing
  /\ Become(r.box, r.dirty)
  /\ UNCHANGED <<drag, selected, made>>

\* A click other than the next one of a drag.
Click(r) ==
  /\ Playing
  /\ Become(r.box, Resync(r.dirty, drag)) /\ drag' = NoDrag
  /\ UNCHANGED <<selected, made>>

Inside == Slots \ {0}
LeftClicks == \E s \in Inside : Click(Result(LeftClick(box, s), {s, Cursor})) /\ UNCHANGED ground
RightClicks == \E s \in Inside : Click(Result(RightClick(box, s), {s, Cursor})) /\ UNCHANGED ground
ShiftClicks == \E s \in Inside : Click(ShiftClick(box, s)) /\ UNCHANGED ground
DoubleClick == Click(Gather(box)) /\ UNCHANGED ground
NumberKeys ==
  \E s \in Inside, h \in ToSet(Hotbar) :
    Click(Result(Swap(box, s, h), {s, h})) /\ UNCHANGED ground

\* The result of crafting, clicks outside the window, unknown buttons, middle
\* clicks, a drag without a cursor or out of turn.
Refused ==
  \E s \in Slots : \E dirty \in SUBSET {s, Cursor} :
    Click(Result(box, dirty)) /\ UNCHANGED ground

\* A drag starts, goes over a slot and ends; it may go over slot 0, and over
\* more slots than there are items on the cursor.
DragStarts ==
  \E s \in Slots, button \in {"left", "right"} :
    /\ Playing /\ ~Free(box, Cursor)
    /\ drag' = [button |-> button, slots |-> <<s>>]
    /\ Become(box, Resync({}, drag))
    /\ UNCHANGED <<selected, ground, made>>

DragGoesOn ==
  \E s \in Slots :
    /\ Playing /\ drag.button # None /\ ~Free(box, Cursor)
    /\ drag' = DragOver(drag, s)
    /\ UNCHANGED <<box, selected, ground, shown, made>>
DragEnds(s) ==
  LET r == DragEnd(box, DragOver(drag, s)) IN
  /\ Playing /\ drag.button # None /\ ~Free(box, Cursor)
  /\ Become(r.box, r.dirty) /\ drag' = NoDrag
  /\ UNCHANGED <<selected, ground, made>>

-------------------------------------------------------------------------------
(* Items leave for the ground and come back.                                   *)

Room == {e \in 1..Ground : ground[e] = Nothing}

\* SpawnItem: not for an empty stack, nor when there are too many entities.
Spawn(stack) ==
  ground' = IF stack.kind = None \/ stack.count = 0 \/ Room = {} THEN ground
            ELSE [ground EXCEPT ![CHOOSE e \in Room : \A f \in Room : e <= f] = stack]

\* Mode 4: one item or the whole stack, from the cursor or from a slot.
DropOne(b, q) == Tidy(Add(b, q, -1), q)
DropClicks ==
  \E q \in Places :
    IF Free(box, q) THEN Click(Result(box, {})) /\ UNCHANGED ground
    ELSE \/ Spawn(Stack(box[q].kind, 1)) /\ Click(Result(DropOne(box, q), {q}))
         \/ Spawn(box[q]) /\ Click(Result([box EXCEPT ![q] = Nothing], {q}))

\* HandleDig with the drop statuses, for what is in the hand.
Hand == Hotbar[selected]
DropHeld ==
  /\ Playing /\ box[Hand].count > 0
  /\ \E n \in {1, box[Hand].count} :
       /\ Spawn(Stack(box[Hand].kind, n))
       /\ Become(Tidy(Add(box, Hand, -n), Hand), {Hand})
  /\ UNCHANGED <<drag, selected, made>>

\* HandlePlace: the item in the hand becomes a block.
PlaceHeld ==
  /\ Playing /\ box[Hand].count > 0
  /\ Become(Tidy(Add(box, Hand, -1), Hand), {Hand})
  /\ made' = [made EXCEPT ![box[Hand].kind] = @ - 1]
  /\ UNCHANGED <<drag, selected, ground>>

\* Digging a block leaves an item on the ground.
Mine(k) ==
  /\ Playing
  /\ Spawn(Stack(k, 1))
  /\ made' = [made EXCEPT ![k] = IF Room = {} THEN @ ELSE @ + 1]
  /\ Affordable(made')
  /\ UNCHANGED <<box, drag, selected, shown>>

Accepts(b, q, kind) == Matches(b, q, kind) /\ b[q].count < MAX

\* What a pickup leaves, the slots it resends and the items left over.
Loads == [box : Boxes, dirty : SUBSET Places, left : 0..BYTE - 1]

\* EntityTick: stacks of the same kind are filled up, then free slots; what is
\* left stays on the ground.
Absorb(b, stack) ==
  LET put(r, q, n) == [box |-> [r.box EXCEPT ![q] = Stack(stack.kind, r.box[q].count + n)],
                       dirty |-> r.dirty \cup {q}, left |-> r.left - n]
      merge == [q \in Slots |-> [r \in Loads |->
        IF r.left > 0 /\ Accepts(r.box, q, stack.kind)
        THEN put(r, q, Smaller(MAX - r.box[q].count, r.left)) ELSE r]]
      fill == [q \in Slots |-> [r \in Loads |->
        IF r.left > 0 /\ Free(r.box, q) THEN put(r, q, Smaller(MAX, r.left)) ELSE r]]
  IN Sweep(fill, Sweep(merge, [box |-> b, dirty |-> {}, left |-> stack.count],
                       Carried), Carried)

PickUp(e) ==
  LET r == Absorb(box, ground[e]) IN
  /\ ground[e] # Nothing
  /\ Become(r.box, r.dirty)
  /\ ground' = [ground EXCEPT ![e] = IF r.left = 0 THEN Nothing ELSE Stack(@.kind, r.left)]
  /\ UNCHANGED <<drag, selected, made>>

\* A stack nobody took for 6000 ticks is destroyed.
Despawn(e) ==
  /\ ground[e] # Nothing
  /\ ground' = [ground EXCEPT ![e] = Nothing]
  /\ made' = [made EXCEPT ![ground[e].kind] = @ - ground[e].count]
  /\ UNCHANGED <<box, drag, selected, shown>>

-------------------------------------------------------------------------------
HoldItem(i) ==
  /\ selected' = i
  /\ UNCHANGED <<box, drag, ground, shown, made>>

\* HandleCreativeAction: the client says what is in a slot, and its count is
\* held against no maximum.
Creative(s, stack) ==
  LET b == [box EXCEPT ![s] = stack] IN
  /\ Playing /\ Become(b, {s})
  /\ made' = [k \in Kinds |-> made[k] + Total(b, ground, k) - Total(box, ground, k)]
  /\ Affordable(made')
  /\ UNCHANGED <<drag, selected, ground>>

Clicks == LeftClicks \/ RightClicks \/ ShiftClicks \/ NumberKeys \/ DropClicks
          \/ DoubleClick \/ Refused \/ DragStarts \/ DragGoesOn
          \/ \E s \in Slots \cup {Outside} : DragEnds(s)

Next ==
  \/ Clicks \/ DropHeld \/ PlaceHeld
  \/ \E k \in Kinds : Mine(k)
  \/ \E e \in 1..Ground : PickUp(e) \/ Despawn(e)
  \/ \E i \in 1..Len(Hotbar) : HoldItem(i)
  \/ \E s \in Slots : \/ Creative(s, Nothing)
                     \/ \E n \in Gifts, k \in Kinds : Creative(s, Stack(k, n))

Spec == Init /\ [][Next]_vars

-------------------------------------------------------------------------------
TypeOK ==
  /\ box \in Boxes /\ shown \in Boxes
  /\ drag \in {NoDrag} \cup [button : {"left", "right"}, slots : Seq(Slots) \ {<<>>}]
  /\ \A i, j \in 1..Len(drag.slots) : drag.slots[i] = drag.slots[j] => i = j
  /\ selected \in 1..Len(Hotbar)
  /\ ground \in [1..Ground -> {Nothing} \cup [kind : Kinds, count : 1..BYTE - 1]]
  /\ made \in [Kinds -> Int]

\* "aceito ou não, o cliente fica com a verdade do servidor" (server.cpp:1377):
\* whatever clicks, drags, pickups and drops do to the inventory, the client has
\* been told.
ClientSeesTruth == shown = box

\* A drag in progress has something to hand out, whatever comes in between.
DragHasItems == drag # NoDrag => ~Free(box, Cursor)

\* No stack of none, no stack over its maximum, and room on the ground.
Sane ==
  /\ \A q \in Places : ~Free(box, q) => box[q].count \in 1..MAX
  /\ Room # {}

\* No item is created or lost.
Conserves ==
  \A k \in Kinds :
    Total(box, ground, k)' - Total(box, ground, k) = made'[k] - made[k]

\* A right drag ends that serves more slots than the cursor has items.
RunsOut ==
  \E s \in Slots \cup {Outside} :
    LET d == DragOver(drag, s) IN
    /\ DragEnds(s)
    /\ d.button = "right" /\ DragFits(box, d) /\ DragServed(box, d) > box[Cursor].count

\* From a sane state every operation but such a drag conserves the items:
\* clicks, drags, drops and pickups only move them, as the tests of the clicks
\* count them (test_server18.cpp:436).
ItemsConserved == [][Sane /\ ~RunsOut => Conserves]_vars

\* In every state no step but such a drag creates an item, other than those it
\* makes: the tests of the clicks count the items (test_server18.cpp:436).
NothingFromNothing ==
  [][~RunsOut => \A k \in Kinds :
       Total(box, ground, k)' - Total(box, ground, k) <= made'[k] - made[k]]_vars

===============================================================================
