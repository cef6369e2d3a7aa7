-------------------------------- MODULE Nbt --------------------------------
(* nbt.c: trees of tags, how they are serialised and parsed.  A tag is       *)
(* [type, name, v]; the elements of a list are values without a name, of the *)
(* type the list says.  The parser has limits the serialiser does not have:  *)
(* how deep a tree may be, and a budget from which not only the bytes it     *)
(* reads are paid but also the memory it takes for them.  As in Buf a read   *)
(* returns NoRead whatever went wrong; left is what is left of the budget.   *)
EXTENDS Buf

CONSTANT MAX_DEPTH  \* MINECPP_NBT_MAX_DEPTH

ASSUME NbtConstants == MAX_DEPTH \in Nat

NBT_END == 0
NBT_BYTE == 1
NBT_SHORT == 2
NBT_INT == 3
NBT_LONG == 4
NBT_FLOAT == 5
NBT_DOUBLE == 6
NBT_BYTES == 7
NBT_STRING == 8
NBT_LIST == 9
NBT_COMPOUND == 10
NBT_INTS == 11

(* A 64-bit build. *)
TAG_BYTES == 48
POINTER == 8

----------------------------------------------------------------------------
(* minecpp_nbt_serialize. *)
(* Halved, to keep the recursion shallow. *)
FirstHalf(s) == SubSeq(s, 1, Len(s) \div 2)
SecondHalf(s) == SubSeq(s, Len(s) \div 2 + 1, Len(s))

RECURSIVE JoinAll(_), WrPayload(_, _)
JoinAll(bufs) ==
    IF bufs = <<>> THEN <<>>
    ELSE IF Len(bufs) = 1 THEN bufs[1]
    ELSE Join(JoinAll(FirstHalf(bufs)), JoinAll(SecondHalf(bufs)))

WrUtf(s) == Join(WrInt(Size(s), 2), s)
WrNamed(t) ==
    Join(Join(WrInt(t.type, 1), WrUtf(t.name)), WrPayload(t.type, t.v))

(* An empty list forgets what it was a list of. *)
WrPayload(type, v) ==
    CASE type = NBT_BYTE   -> WrInt(v, 1)
      [] type = NBT_SHORT  -> WrInt(v, 2)
      [] type \in {NBT_INT, NBT_FLOAT} -> WrInt(v, 4)
      [] type \in {NBT_LONG, NBT_DOUBLE} -> Wr64(v)
      [] type = NBT_BYTES  -> Join(WrInt(Size(v), 4), v)
      [] type = NBT_STRING -> WrUtf(v)
      [] type = NBT_INTS   ->
           Join(WrInt(Len(v), 4), JoinAll([i \in DOMAIN v |-> WrInt(v[i], 4)]))
      [] type = NBT_LIST   ->
           Join(Join(WrInt(IF v.items = <<>> THEN NBT_END ELSE v.elem, 1),
                     WrInt(Len(v.items), 4)),
                JoinAll([i \in DOMAIN v.items |-> WrPayload(v.elem, v.items[i])]))
      [] type = NBT_COMPOUND ->
           Join(JoinAll([i \in DOMAIN v |-> WrNamed(v[i])]), Fill(NBT_END, 1))

----------------------------------------------------------------------------
(* minecpp_nbt_parse: [ok, v, rest, left]. *)
Paid(v, rest, left) ==
    IF left < 0 THEN NoRead
    ELSE [ok |-> TRUE, v |-> v, rest |-> rest, left |-> left]
After(r, Use(_, _, _)) == IF r.ok THEN Use(r.v, r.rest, r.left) ELSE NoRead

PdInt(buf, n, signed, left) ==
    AndThen(RdInt(buf, n, signed), LAMBDA v, rest : Paid(v, rest, left - n))
Pd64(buf, left) == AndThen(Rd64(buf), LAMBDA v, rest : Paid(v, rest, left - 8))
PdRaw(buf, n, left) ==
    AndThen(RdRaw(buf, n), LAMBDA v, rest : Paid(v, rest, left - n))

(* take_name, and the payload of a string: the NUL behind it is paid, too. *)
PdUtf(buf, left) ==
    After(PdInt(buf, 2, FALSE, left), LAMBDA n, rest, l : PdRaw(rest, n, l - 1))

(* A count of what takes at least `each` bytes: negative, or more than the   *)
(* budget pays for, ends the parse.                                          *)
PdCount(buf, each, left) ==
    After(PdInt(buf, 4, TRUE, left), LAMBDA n, rest, l :
        IF n < 0 \/ n > l \div each THEN NoRead ELSE Paid(n, rest, l))

RECURSIVE PdInts(_, _, _), PdPayload(_, _, _, _), PdItems(_, _, _, _, _),
          PdMembers(_, _, _, _)
PdInts(n, buf, left) ==
    IF n = 0 THEN Paid(<<>>, buf, left)
    ELSE After(PdInt(buf, 4, TRUE, left), LAMBDA v, rest, l :
             After(PdInts(n - 1, rest, l), LAMBDA vs, rest2, l2 :
                 Paid(<<v>> \o vs, rest2, l2)))

PdItems(n, type, buf, left, depth) ==
    IF n = 0 THEN Paid(<<>>, buf, left)
    ELSE After(PdPayload(type, buf, left - TAG_BYTES, depth), LAMBDA v, rest, l :
             After(PdItems(n - 1, type, rest, l, depth), LAMBDA vs, rest2, l2 :
                 Paid(<<v>> \o vs, rest2, l2)))

PdList(id, count, buf, left, depth) ==
    IF id > NBT_INTS \/ count < 0 \/ (id = NBT_END /\ count > 0) THEN NoRead
    ELSE IF count > left \div POINTER THEN NoRead
    ELSE After(PdItems(count, id, buf, left - count * POINTER, depth + 1),
               LAMBDA vs, rest, l : Paid([elem |-> id, items |-> vs], rest, l))

PdTag(id, buf, left, depth) ==
    IF left < TAG_BYTES THEN NoRead
    ELSE After(PdUtf(buf, left - TAG_BYTES), LAMBDA name, rest, l :
             After(PdPayload(id, rest, l, depth), LAMBDA v, rest2, l2 :
                 Paid([type |-> id, name |-> name, v |-> v], rest2, l2)))

(* The array of a compound's members doubles when it is full, from 8 on, and *)
(* the whole new one must be affordable.                                     *)
Doubled(len) == IF len = 0 THEN 8 ELSE 2 * len
Room(len, left) ==
    IF len # 0 /\ len \notin {2^k : k \in 3..20} THEN left
    ELSE IF Doubled(len) * POINTER > left THEN -1
    ELSE left - (Doubled(len) - len) * POINTER

PdMembers(len, buf, left, depth) ==
    After(PdInt(buf, 1, FALSE, left), LAMBDA id, rest, l :
        IF id = NBT_END THEN Paid(<<>>, rest, l)
        ELSE IF id > NBT_INTS THEN NoRead
        ELSE After(PdTag(id, rest, Room(len, l), depth), LAMBDA t, rest2, l2 :
                 After(PdMembers(len + 1, rest2, l2, depth), LAMBDA ts, rest3, l3 :
                     Paid(<<t>> \o ts, rest3, l3))))

PdPayload(type, buf, left, depth) ==
    IF depth > MAX_DEPTH THEN NoRead ELSE
    CASE type = NBT_BYTE   -> PdInt(buf, 1, TRUE, left)
      [] type = NBT_SHORT  -> PdInt(buf, 2, TRUE, left)
      [] type \in {NBT_INT, NBT_FLOAT} -> PdInt(buf, 4, TRUE, left)
      [] type \in {NBT_LONG, NBT_DOUBLE} -> Pd64(buf, left)
      [] type = NBT_BYTES  ->
           After(PdCount(buf, 1, left), LAMBDA n, rest, l : PdRaw(rest, n, l))
      [] type = NBT_STRING -> PdUtf(buf, left)
      [] type = NBT_INTS   ->
           After(PdCount(buf, 4, left), LAMBDA n, rest, l : PdInts(n, rest, l))
      [] type = NBT_LIST   ->
           After(PdInt(buf, 1, FALSE, left), LAMBDA id, rest, l :
               After(PdInt(rest, 4, TRUE, l), LAMBDA n, rest2, l2 :
                   PdList(id, n, rest2, l2, depth)))
      [] type = NBT_COMPOUND -> PdMembers(0, buf, left, depth + 1)

NbtParse(buf, budget) ==
    After(PdInt(buf, 1, FALSE, budget), LAMBDA id, rest, l :
        IF id \in NBT_BYTE..NBT_INTS THEN PdTag(id, rest, l, 0) ELSE NoRead)
=============================================================================
