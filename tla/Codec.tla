------------------------------- MODULE Codec -------------------------------
(* How protocol.cpp puts a packet on the wire and takes it off again.  The   *)
(* two functions of a packet, Encode and Decode, are written down once, as   *)
(* its layout: the sequence of its fields in the order both visit them,      *)
(* each with the test one of the two makes and the other does not (the cap   *)
(* of a list, the greatest length a reader accepts).  Where the two disagree *)
(* about the fields themselves the layout says so (Flagged below).           *)
(*                                                                           *)
(* A packet is a record of the fields it transmits.  Encode returns          *)
(* [st, buf] with st "ok", "oom" (the writer's mark: everything is lost) or  *)
(* "no" (a `return false` in the middle: what was written stays written).    *)
EXTENDS Nbt

(* The fields of a layout. *)
Fld(kind, f) == [k |-> kind, f |-> f]
VarInt(f)    == Fld("varint", f)
VarLong(f)   == Fld("varlong", f)
U8(f)        == Fld("u8", f)
I8(f)        == Fld("i8", f)
U16(f)       == Fld("u16", f)
I16(f)       == Fld("i16", f)
I32(f)       == Fld("i32", f)
F32(f)       == Fld("i32", f)
I64(f)       == Fld("i64", f)
F64(f)       == Fld("i64", f)
Flag(f)      == Fld("bool", f)
Pos(f)       == Fld("pos", f)
(* A varint the decoder refuses when it is negative. *)
Natural(f)   == Fld("natural", f)
(* A varint both refuse outside S, the encoder before it has written it. *)
OneOf(f, S)  == [k |-> "oneof", f |-> f, values |-> S]
(* A string; Text is cut at its first NUL (assigned from a char pointer). *)
Str(f, max)  == [k |-> "str", f |-> f, max |-> max, cut |-> FALSE]
Text(f, max) == [k |-> "str", f |-> f, max |-> max, cut |-> TRUE]
Raw(f, n)    == [k |-> "raw", f |-> f, n |-> n]
Rest(f)      == Fld("rest", f)
(* A length and that many bytes. *)
Blob(f, max) == [k |-> "blob", f |-> f, max |-> max]
(* A count (kind cnt) and that many elements; only the decoder has a cap. *)
List(f, cnt, max, elem) ==
    [k |-> "list", f |-> f, cnt |-> cnt, max |-> max, elem |-> elem]
(* The encoder's own cap, tested before anything is written. *)
AtMost(f, n) == [k |-> "atmost", f |-> f, n |-> n]
(* As many elements as another field says, which the encoder does not check. *)
Counted(f, by, elem) == [k |-> "counted", f |-> f, by |-> by, elem |-> elem]
Times(f, n, elem)    == [k |-> "times", f |-> f, n |-> n, elem |-> elem]
(* Fields present when field f is, or is not, in S. *)
When(f, S, fields)   == [k |-> "when", f |-> f, values |-> S, fields |-> fields]
Unless(f, S, fields) == [k |-> "unless", f |-> f, values |-> S, fields |-> fields]
(* Fields the encoder writes when the flag is set or field by is not zero,   *)
(* and the decoder, which derives the flag, only when by is not zero.        *)
Flagged(f, by, fields) == [k |-> "flagged", f |-> f, by |-> by, fields |-> fields]
Pad            == Fld("pad", "")
Sub(f, fields) == [k |-> "sub", f |-> f, fields |-> fields]
Nbt(f)         == Fld("nbt", f)
Meta(f)        == Fld("meta", f)
Columns(f)     == Fld("columns", f)

----------------------------------------------------------------------------
(* The values of single fields. *)
WrField(kind, v) ==
    CASE kind \in {"varint", "natural", "oneof"} -> WrVarint(v)
      [] kind = "varlong"       -> WrVarlong(v)
      [] kind \in {"u8", "i8"}  -> WrInt(v, 1)
      [] kind \in {"u16", "i16"} -> WrInt(v, 2)
      [] kind = "i32"           -> WrInt(v, 4)
      [] kind = "i64"           -> Wr64(v)
      [] kind = "bool"          -> WrInt(IF v THEN 1 ELSE 0, 1)
      [] kind = "pos"           -> WrPos(v)

RdField(kind, buf) ==
    CASE kind = "varint"  -> RdVarint(buf)
      [] kind = "varlong" -> RdVarlong(buf)
      [] kind = "u8"      -> RdInt(buf, 1, FALSE)
      [] kind = "i8"      -> RdInt(buf, 1, TRUE)
      [] kind = "u16"     -> RdInt(buf, 2, FALSE)
      [] kind = "i16"     -> RdInt(buf, 2, TRUE)
      [] kind = "i32"     -> RdInt(buf, 4, TRUE)
      [] kind = "i64"     -> Rd64(buf)
      [] kind = "bool"    -> AndThen(RdInt(buf, 1, FALSE),
                                     LAMBDA v, rest : Got(v # 0, rest))
      [] kind = "pos"     -> RdPos(buf)

(* What pr.key = k does to a string with a NUL in it. *)
UpToNul(s) ==
    LET nul == {i \in DOMAIN s : s[i][1] = 0}
    IN  IF nul = {} THEN s ELSE SubSeq(s, 1, Min(nul) - 1)

(* A slot: a short form for the empty one, and the item's NBT.               *)
Slot == <<I16("id"),
          Unless("id", {-1}, <<U8("count"), I16("damage"), Nbt("nbt")>>)>>
SLOT_BUDGET == 2 * 2^20
NoTag == [type |-> NBT_END]
WrSlotNbt(t) == IF t = NoTag THEN Fill(0, 1) ELSE WrNamed(t)
RdSlotNbt(buf) ==
    IF buf = <<>> THEN NoRead
    ELSE IF buf[1][1] = 0 THEN Got(NoTag, Drop(buf, 1))
    ELSE NbtParse(buf, SLOT_BUDGET)

(* Entity metadata: entries under a key of three bits of type and five of    *)
(* index, up to a key of 0x7F.  A byte (type 0) comes back unsigned.         *)
META_END == 127
META_MAX == 64
Entry == Fld("entry", "")
MetaVal(type) ==
    CASE type = 0 -> <<U8("i")>>
      [] type = 1 -> <<I16("i")>>
      [] type = 2 -> <<I32("i")>>
      [] type = 3 -> <<F32("f")>>
      [] type = 4 -> <<Str("s", 32767)>>
      [] type = 5 -> <<Sub("item", Slot)>>
      [] type = 6 -> <<I32("px"), I32("py"), I32("pz")>>
      [] type = 7 -> <<F32("rx"), F32("ry"), F32("rz")>>

(* The bytes of a column of a bulk packet: its sections and the biomes. *)
SECTION_BYTES == 12288
BIOME_BYTES == 256
Sections(mask) == Cardinality({b \in 0..15 : (mask \div 2^b) % 2 = 1})
ColumnBytes(mask) == Sections(mask) * SECTION_BYTES + BIOME_BYTES

----------------------------------------------------------------------------
(* Encode. *)
Written(buf) == IF buf = OOM THEN [st |-> "oom", buf |-> <<>>]
                ELSE [st |-> "ok", buf |-> buf]
Refusal == [st |-> "no", buf |-> <<>>]

Then(a, b) == IF a.st # "ok" THEN a ELSE [b EXCEPT !.buf = Join(a.buf, @)]

RECURSIVE Encode(_, _), EncodeField(_, _), EncodeAll(_, _), EncodeColumns(_)
Encode(layout, p) ==
    IF layout = <<>> THEN Written(<<>>)
    ELSE Then(EncodeField(Head(layout), p), Encode(Tail(layout), p))

(* The elements of a list, one after the other. *)
EncodeAll(elem, ps) ==
    IF ps = <<>> THEN Written(<<>>)
    ELSE IF Len(ps) = 1 THEN Encode(elem, ps[1])
    ELSE Then(EncodeAll(elem, FirstHalf(ps)), EncodeAll(elem, SecondHalf(ps)))

EncodeEntry(e) ==
    IF e.index > 31 \/ e.type > 7 THEN Refusal
    ELSE Then(Written(WrInt(e.index + 32 * e.type, 1)), Encode(MetaVal(e.type), e))

EncodeColumns(cols) ==
    IF cols = <<>> THEN <<>>
    ELSE Join(Head(cols).data, EncodeColumns(Tail(cols)))

EncodeField(fld, p) ==
    CASE fld.k = "oneof" ->
           IF p[fld.f] \in fld.values THEN Written(WrField("oneof", p[fld.f]))
           ELSE Refusal
      [] fld.k = "str"     -> Written(WrStrn(p[fld.f]))
      [] fld.k \in {"raw", "rest"} -> Written(p[fld.f])
      [] fld.k = "blob"    ->
           Written(Join(WrVarint(Size(p[fld.f])), p[fld.f]))
      [] fld.k = "list"    ->
           Then(Written(WrField(fld.cnt, Len(p[fld.f]))),
                EncodeAll(fld.elem, p[fld.f]))
      [] fld.k = "atmost"  ->
           IF Len(p[fld.f]) > fld.n THEN Refusal ELSE Written(<<>>)
      [] fld.k \in {"counted", "times"} -> EncodeAll(fld.elem, p[fld.f])
      [] fld.k = "when"    ->
           Encode(IF p[fld.f] \in fld.values THEN fld.fields ELSE <<>>, p)
      [] fld.k = "unless"  ->
           Encode(IF p[fld.f] \in fld.values THEN <<>> ELSE fld.fields, p)
      [] fld.k = "flagged" ->
           Encode(IF p[fld.f] \/ p[fld.by] # 0 THEN fld.fields ELSE <<>>, p)
      [] fld.k = "pad"     -> Written(Fill(0, 1))
      [] fld.k = "sub"     -> Encode(fld.fields, p[fld.f])
      [] fld.k = "nbt"     -> Written(WrSlotNbt(p[fld.f]))
      [] fld.k = "meta"    -> Then(EncodeAll(<<Entry>>, p[fld.f]),
                                   Written(Fill(META_END, 1)))
      [] fld.k = "entry"   -> EncodeEntry(p)
      [] fld.k = "columns" -> Written(EncodeColumns(p[fld.f]))
      [] OTHER             -> Written(WrField(fld.k, p[fld.f]))

(* Enc<T> of server.cpp, which does not look at what Encode returned: a      *)
(* refused packet goes out as far as it was written, an OOM one empty.       *)
Enc(layout, p) ==
    LET Taken(w) == IF w.st = "oom" THEN <<>> ELSE w.buf
    IN  Taken(Encode(layout, p))

----------------------------------------------------------------------------
(* Decode: [ok, v, rest] with v the record read so far. *)
With(v, f, x) == (f :> x) @@ v

RECURSIVE DecodeInto(_, _), DecodeField(_, _), DecodeAll(_, _, _), DecodeMeta(_, _)
DecodeInto(layout, r) ==
    IF ~r.ok \/ layout = <<>> THEN r
    ELSE DecodeInto(Tail(layout), DecodeField(Head(layout), r))
Decode(layout, buf) == DecodeInto(layout, Got(<<>>, buf))

DecodeAll(elem, n, buf) ==
    IF n <= 0 THEN Got(<<>>, buf)
    ELSE IF n = 1
         THEN AndThen(Decode(elem, buf), LAMBDA v, rest : Got(<<v>>, rest))
    ELSE AndThen(DecodeAll(elem, n \div 2, buf), LAMBDA a, rest :
             AndThen(DecodeAll(elem, n - n \div 2, rest), LAMBDA b, rest2 :
                 Got(a \o b, rest2)))

(* At most `turns` entries, and whether META_END came after them. *)
Entries(es, end) == [es |-> es, end |-> end]
DecodeEntry(key, buf) ==
    AndThen(DecodeInto(MetaVal(key \div 32),
                       Got([index |-> key % 32, type |-> key \div 32], buf)),
            LAMBDA e, rest : Got(Entries(<<e>>, FALSE), rest))
DecodeMeta(turns, buf) ==
    IF turns = 1
    THEN AndThen(RdInt(buf, 1, FALSE), LAMBDA key, rest :
             IF key = META_END THEN Got(Entries(<<>>, TRUE), rest)
             ELSE DecodeEntry(key, rest))
    ELSE AndThen(DecodeMeta(turns \div 2, buf), LAMBDA a, rest :
             IF a.end THEN Got(a, rest)
             ELSE AndThen(DecodeMeta(turns - turns \div 2, rest), LAMBDA b, rest2 :
                      Got(Entries(a.es \o b.es, b.end), rest2)))

(* A field's value, read off buf; p is the record read so far. *)
DecodeValue(fld, p, buf) ==
    CASE fld.k = "natural" ->
           AndThen(RdVarint(buf), LAMBDA v, rest :
               IF v < 0 THEN NoRead ELSE Got(v, rest))
      [] fld.k = "oneof"   ->
           AndThen(RdVarint(buf), LAMBDA v, rest :
               IF v \in fld.values THEN Got(v, rest) ELSE NoRead)
      [] fld.k = "str"     ->
           AndThen(RdString(buf, fld.max), LAMBDA s, rest :
               Got(IF fld.cut THEN UpToNul(s) ELSE s, rest))
      [] fld.k = "raw"     -> RdRaw(buf, fld.n)
      [] fld.k = "rest"    -> Got(buf, <<>>)
      [] fld.k = "blob"    ->
           AndThen(RdVarint(buf), LAMBDA n, rest :
               IF n \in 0..fld.max THEN RdRaw(rest, n) ELSE NoRead)
      [] fld.k = "list"    ->
           AndThen(RdField(fld.cnt, buf), LAMBDA n, rest :
               IF n \in 0..fld.max THEN DecodeAll(fld.elem, n, rest) ELSE NoRead)
      [] fld.k = "counted" -> DecodeAll(fld.elem, p[fld.by], buf)
      [] fld.k = "times"   -> DecodeAll(fld.elem, fld.n, buf)
      [] fld.k = "sub"     -> Decode(fld.fields, buf)
      [] fld.k = "nbt"     -> RdSlotNbt(buf)
      [] fld.k = "meta"    ->
           AndThen(DecodeMeta(META_MAX, buf), LAMBDA m, rest :
               IF m.end THEN Got(m.es, rest) ELSE NoRead)
      [] OTHER             -> RdField(fld.k, buf)

(* The bytes of the columns, sized by the masks read before them; first a    *)
(* check that they are all there.                                            *)
RECURSIVE ColumnsSize(_), SplitColumns(_, _)
ColumnsSize(cols) ==
    IF cols = <<>> THEN 0
    ELSE ColumnBytes(Head(cols).mask) + ColumnsSize(Tail(cols))
SplitColumns(cols, buf) ==
    IF cols = <<>> THEN <<>>
    ELSE LET n == ColumnBytes(Head(cols).mask)
         IN  <<With(Head(cols), "data", Take(buf, n))>>
               \o SplitColumns(Tail(cols), Drop(buf, n))
DecodeColumns(cols, buf) ==
    IF ColumnsSize(cols) > Size(buf) THEN NoRead
    ELSE Got(SplitColumns(cols, buf), Drop(buf, ColumnsSize(cols)))

DecodeField(fld, r) ==
    CASE fld.k = "when"    ->
           DecodeInto(IF r.v[fld.f] \in fld.values THEN fld.fields ELSE <<>>, r)
      [] fld.k = "unless"  ->
           DecodeInto(IF r.v[fld.f] \in fld.values THEN <<>> ELSE fld.fields, r)
      [] fld.k = "flagged" ->
           LET has == r.v[fld.by] # 0
           IN  DecodeInto(IF has THEN fld.fields ELSE <<>>,
                          Got(With(r.v, fld.f, has), r.rest))
      [] fld.k = "atmost"  -> r
      [] fld.k = "pad"     ->
           AndThen(RdInt(r.rest, 1, FALSE), LAMBDA x, rest : Got(r.v, rest))
      [] OTHER             ->
           AndThen(IF fld.k = "columns" THEN DecodeColumns(r.v[fld.f], r.rest)
                   ELSE DecodeValue(fld, r.v, r.rest),
                   LAMBDA x, rest : Got(With(r.v, fld.f, x), rest))
=============================================================================
