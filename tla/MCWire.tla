------------------------------- MODULE MCWire -------------------------------
(* The instance of Wire: every packet of every table, at the corners of its  *)
(* fields' ranges, and the sequences in which packets affect each other.     *)
EXTENDS Wire

INT_MIN == -INT_MAX - 1
MCMaxFrame == 2097152
MCBufCap == 8388608
MCRecvChunk == 65536

(* Lists are filled up to their cap, but not beyond ListBound elements. *)
ListBound == 127

----------------------------------------------------------------------------
(* The fields of a packet all at a corner m of their ranges: "zero" (nothing *)
(* set, lists and strings empty), "top" and "low" (lists full of "zero"      *)
(* elements); o gives the fields that select the others.                     *)
At(m, zero, top, low) ==
    CASE m = "zero" -> zero [] m = "top" -> top [] m = "low" -> low

Section(n) == [id |-> 273 * n, meta |-> n, light |-> 15 * n, sky |-> 17 * n]
Column(x, ys, n) == [x |-> x, z |-> -x, sections |-> [y \in ys |-> Section((n + y) % 16)],
                     biomes |-> n]

(* Trees. *)
Tag(type, v) == [type |-> type, name |-> Fill(110, 1), v |-> v]
ListOf(elem, items) == [elem |-> elem, items |-> items]
Root(members) == [type |-> NBT_COMPOUND, name |-> <<>>, v |-> members]
(* One tag of every type, and a tenth child for the array to double.         *)
Everything ==
    Root(<< Tag(NBT_BYTE, -128), Tag(NBT_SHORT, -32768), Tag(NBT_INT, INT_MIN),
            Tag(NBT_LONG, <<INT_MIN, INT_MAX>>), Tag(NBT_FLOAT, INT_MAX),
            Tag(NBT_DOUBLE, <<INT_MAX, -1>>), Tag(NBT_BYTES, Fill(255, 3)),
            Tag(NBT_STRING, Fill(98, 65535)), Tag(NBT_INTS, <<1, -1>>),
            Tag(NBT_LIST, ListOf(NBT_END, <<>>)),
            Tag(NBT_LIST, ListOf(NBT_COMPOUND, << <<Tag(NBT_BYTE, 1)>>, <<>> >>)),
            Tag(NBT_COMPOUND, <<Tag(NBT_LIST, ListOf(NBT_LIST,
                << ListOf(NBT_STRING, <<Fill(97, 1)>>) >>))>>) >>)
(* Lists within lists, n deep, and the last one empty.                       *)
RECURSIVE Nest(_)
Nest(n) == IF n = 1 THEN ListOf(NBT_END, <<>>) ELSE ListOf(NBT_LIST, <<Nest(n - 1)>>)
Deep(n) == [type |-> NBT_LIST, name |-> <<>>, v |-> Nest(n)]
(* What a compound of one array of n bytes costs its parser; nothing counts  *)
(* twice and nothing is given back.                                          *)
Cost(n) == (1 + TAG_BYTES + 2 + 1) + 8 * POINTER + (1 + TAG_BYTES + 2 + 1 + 1)
             + (4 + n) + 1
Costing(n) == Root(<<Tag(NBT_BYTES, Fill(5, n - Cost(0)))>>)
Holding(tree) == [item |-> [id |-> 1, count |-> 1, damage |-> 0, nbt |-> tree]]

(* The sequence of the values of f, and not a function to evaluate again.    *)
Listed(f) == <<>> \o f

RECURSIVE Corner(_, _, _, _)
Many(n, elem) == Listed([i \in 1..n |-> Corner(elem, "zero", <<>>, <<>>)])
CornerValue(fld, m, o, p) ==
    CASE fld.k = "varint"  -> At(m, 0, INT_MAX, INT_MIN)
      [] fld.k = "natural" -> At(m, 0, INT_MAX, 127)
      [] fld.k = "oneof"   -> Max(fld.values)
      [] fld.k \in {"varlong", "i64"} ->
           At(m, <<0, 0>>, <<INT_MAX, INT_MIN>>, <<INT_MIN, INT_MAX>>)
      [] fld.k = "u8"      -> At(m, 0, 255, 127)
      [] fld.k = "i8"      -> At(m, 0, 127, -128)
      [] fld.k = "u16"     -> At(m, 0, 65535, 255)
      [] fld.k = "i16"     -> At(m, 0, 32767, -1)
      [] fld.k = "i32"     -> At(m, 0, INT_MAX, INT_MIN)
      [] fld.k = "bool"    -> m = "top"
      [] fld.k = "pos"     -> At(m, <<0, 0, 0>>, <<2^25 - 1, 2047, -1>>,
                                 <<-2^25, -2048, 2^25 - 1>>)
      [] fld.k = "str"     ->
           At(m, <<>>, Fill(97, Min({4 * fld.max, STR_MAX_BYTES})), Fill(98, 1))
      [] fld.k = "raw"     -> Fill(At(m, 0, 255, 16), fld.n)
      [] fld.k \in {"rest", "blob"} -> At(m, <<>>, Fill(99, 16384), Fill(0, 1))
      [] fld.k = "list"    ->
           At(m, <<>>,
              <<Corner(fld.elem, "top", <<>>, <<>>), Corner(fld.elem, "low", <<>>, <<>>)>>,
              Many(Min({fld.max, ListBound}), fld.elem))
      [] fld.k = "counted" ->
           Listed([i \in 1..p[fld.by] |-> Corner(fld.elem, m, <<>>, <<>>)])
      [] fld.k = "times"   ->
           Listed([i \in 1..fld.n |-> Corner(fld.elem, m, <<>>, <<>>)])
      [] fld.k = "sub"     -> Corner(fld.fields, m, <<>>, <<>>)
      [] fld.k = "nbt"     -> At(m, NoTag, Everything, Root(<<>>))
      [] fld.k = "meta"    ->
           At(m, <<>>,
              Listed([t \in 1..8 |-> Corner(MetaVal(t - 1), "top", <<>>,
                                            [index |-> 30, type |-> t - 1])]),
              Listed([i \in 1..META_MAX - 1 |->
                        [index |-> 31, type |-> 0, i |-> 127]]))

CornerField(fld, m, o, p) ==
    CASE fld.k = "when"    ->
           Corner(IF p[fld.f] \in fld.values THEN fld.fields ELSE <<>>, m, o, p)
      [] fld.k = "unless"  ->
           Corner(IF p[fld.f] \in fld.values THEN <<>> ELSE fld.fields, m, o, p)
      [] fld.k = "flagged" ->
           LET has == p[fld.by] # 0
           IN  Corner(IF has THEN fld.fields ELSE <<>>, m, o, With(p, fld.f, has))
      [] fld.k \in {"pad", "atmost", "columns"} -> p
      [] OTHER ->
           With(p, fld.f, IF fld.f \in DOMAIN o THEN o[fld.f]
                          ELSE CornerValue(fld, m, o, p))
Corner(layout, m, o, p) ==
    FoldLeft(LAMBDA q, fld : CornerField(fld, m, o, q), p, layout)

Item(ids, id, m, o) == [ids |-> ids, id |-> id, over |-> FALSE,
                        p |-> Corner(PacketOf(ids, id), m, o, <<>>)]

(* The fields on which a layout branches, by table and id. *)
Each(f, vs) == [i \in DOMAIN vs |-> f :> vs[i]]
Selectors(ids, id) ==
    CASE ids = "to_play" /\ id = 2 -> Each("action", <<0, 1, 2>>)
      [] ids = "from_play" /\ id = 38 -> <<>>
      [] ids = "from_play" /\ id = 42 -> Each("count", <<0, 2>>)
      [] ids = "from_play" /\ id = 56 -> Each("action", <<0, 4>>)
      [] ids = "from_play" /\ id = 60 -> Each("action", <<0, 1>>)
      [] ids = "from_play" /\ id = 62 -> Each("mode", <<0, 1, 2, 3, 4>>)
      [] ids = "from_play" /\ id = 66 -> Each("event", <<0, 1, 2>>)
      [] ids = "from_play" /\ id = 69 -> Each("action", <<0, 1, 2, 3>>)
      [] OTHER -> << <<>> >>

Cases(ids, id) ==
    FlattenSeq([o \in DOMAIN Selectors(ids, id) |->
                  [m \in 1..3 |-> Item(ids, id, <<"zero", "top", "low">>[m],
                                       Selectors(ids, id)[o])]])
Corpus ==
    FlattenSeq([t \in 1..7 |->
        LET ids == <<"handshake", "to_status", "from_status", "to_login",
                     "from_login", "to_play", "from_play">>[t]
        IN  FlattenSeq([i \in 1..73 |-> IF PacketOf(ids, i - 1) = NoPacket
                                        THEN <<>> ELSE Cases(ids, i - 1)])])

----------------------------------------------------------------------------
(* Packets at a limit, and packets beyond one: of the encoder (a string of   *)
(* more than 32767 bytes, a list, a value), or of the decoder only.          *)
Over(ids, id, m, o) == [Item(ids, id, m, o) EXCEPT !.over = TRUE]
AtLimit ==
    << Item("from_play", 19, "zero", [eids |-> Many(256, <<VarInt("eid")>>)]),
      Item("from_play", 28, "zero",
           [entries |-> Listed([i \in 1..META_MAX - 1 |->
                                  [index |-> 1, type |-> 0, i |-> 0]])]),
      Item("from_play", 2, "zero", [msg |-> Fill(97, STR_MAX_BYTES)]),
      Item("from_play", 47, "zero", Holding(Deep(MAX_DEPTH + 1))),
      Item("from_play", 47, "zero", Holding(Costing(SLOT_BUDGET))) >>
OverLimit ==
    << Over("from_play", 2, "zero", [msg |-> Fill(97, STR_MAX_BYTES + 1)]),
      Over("from_play", 19, "zero", [eids |-> Many(257, <<VarInt("eid")>>)]),
      Over("from_play", 48, "zero", [slots |-> Many(128, Slot)]),
      Over("from_play", 56, "zero", [action |-> 1]),
      Over("from_play", 68, "zero", [action |-> 0]),
      Over("from_play", 28, "zero",
           [entries |-> <<[index |-> 32, type |-> 0, i |-> 1]>>]),
      Over("from_play", 28, "zero",
           [entries |-> Listed([i \in 1..META_MAX |->
                                  [index |-> 1, type |-> 0, i |-> 0]])]),
      Over("to_play", 1, "zero", [msg |-> Fill(97, 401)]),
      Over("to_login", 0, "zero", [name |-> Fill(97, 65)]),
      Over("from_play", 35, "zero", [idmeta |-> -1]),
      Over("from_play", 55, "zero",
           [stats |-> Many(1025, <<Str("k", 64), VarInt("n")>>)]),
      Over("from_play", 58, "zero", [matches |-> Many(101, <<Text("s", 256)>>)]),
      Over("from_play", 62, "zero",
           [mode |-> 3, players |-> Many(201, <<Text("s", 16)>>)]),
      Over("from_play", 47, "zero", Holding(Deep(MAX_DEPTH + 2))),
      Over("from_play", 47, "zero", Holding(Costing(SLOT_BUDGET + 1))),
      Over("from_play", 42, "zero", [count |-> 2, data |-> <<[d |-> 0]>>]) >>

----------------------------------------------------------------------------
(* Columns, one by one and in bulk; a bulk of ten full ones is just under    *)
(* MAX_FRAME, and five of those do not fit BUF_CAP.                          *)
Terrain == <<Column(3, {}, 1), Column(-4, {0, 3, 15}, 1), Column(5, 0..15, 2)>>
Chunk(c) == [ids |-> "from_play", id |-> 33, over |-> FALSE,
             p |-> ChunkDataBuild(c, TRUE), columns |-> <<c>>]
Bulk(cs) == [ids |-> "from_play", id |-> 38, over |-> FALSE,
             p |-> BulkBuild(cs, TRUE), columns |-> cs]
(* Ten columns all of whose bytes are 17. *)
Flat == [Section(1) EXCEPT !.light = 17, !.sky = 17]
TenFull ==
    Bulk(Listed([i \in 1..10 |-> [Column(i, {}, 17) EXCEPT
                                    !.sections = [y \in 0..15 |-> Flat]]]))

KeepAliveAt(n) == [ids |-> "from_play", id |-> 0, over |-> FALSE,
                   p |-> [id |-> n]]
LoginAt(threshold) ==
    << [ids |-> "from_login", id |-> 3, over |-> FALSE,
        p |-> [threshold |-> threshold]],
       Item("from_login", 2, "low", <<>>) >>
(* A plugin message whose body is n bytes long. *)
Plugin(n) == [ids |-> "from_play", id |-> 63, over |-> FALSE,
              p |-> [channel |-> Fill(109, 1), data |-> Fill(7, n - 3)]]

Script(threshold, bytes, its) ==
    [comp |-> threshold, slow |-> bytes, items |-> its]
Alone(threshold, its) == [i \in DOMAIN its |-> Script(threshold, 2, <<its[i]>>)]
Chunks == Listed([i \in DOMAIN Terrain |-> Chunk(Terrain[i])])
MCScripts == Listed(
    Alone(-1, Corpus) \o Alone(-1, AtLimit) \o Alone(-1, OverLimit)
    \o Alone(0, OverLimit) \o Alone(-1, Chunks) \o Alone(256, Chunks)
    \o [i \in DOMAIN OverLimit |->
          Script(256, 2, <<OverLimit[i], KeepAliveAt(128)>>)]
    \o << Script(-1, 2, <<Bulk(Terrain), KeepAliveAt(1)>>),
          Script(-1, 3, LoginAt(8) \o <<Plugin(7), Plugin(8)>>),
          Script(-1, 3, LoginAt(256) \o <<Plugin(255), Plugin(256)>>),
          Script(-1, 0, Listed([i \in 1..5 |-> TenFull])) >>)
=============================================================================
