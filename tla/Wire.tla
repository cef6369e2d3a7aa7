-------------------------------- MODULE Wire --------------------------------
(* The packets in a Channel: what the sender's Encode makes of one and the   *)
(* handler's Decode of the frame that arrives.                               *)
(*                                                                           *)
(* An item is [ids, id, p, over]: the table of ids in force, the packet's id *)
(* in it, its fields, and whether they are beyond a limit.  The receiver is  *)
(* in the state the table belongs to: how the two ends get there is the      *)
(* matter of Sessions.                                                       *)
EXTENDS Columns, Channel

(* zlib, which the code only asks to be reversible: a run becomes its byte   *)
(* and a token for its length.                                               *)
Deflate(buf) == [i \in 1..2 * Len(buf) |->
                   LET run == buf[(i + 1) \div 2]
                   IN  <<IF i % 2 = 1 THEN run[1] ELSE -run[2], i>>]
Inflate(z) == [i \in 1..Len(z) \div 2 |-> <<z[2 * i - 1][1], -z[2 * i][1]>>]

----------------------------------------------------------------------------
(* An item's layout, its payload, and the one that switches compression. *)
Layout(it) == PacketOf(it.ids, it.id)
Encoded(it) == Enc(Layout(it), it.p)
Switches(it) == Layout(it) = SetCompression

(* What a handler makes of a frame: it believes the packet when Decode       *)
(* succeeds and leaves nothing over.                                         *)
Believed(r) == IF r.ok /\ r.rest = <<>> THEN r.v ELSE Malformed
Parse(layout, payload) ==
    Believed(IF layout = NoPacket THEN NoRead ELSE Decode(layout, payload))
Handled(id, payload, it) == Parse(PacketOf(it.ids, id), payload)

----------------------------------------------------------------------------
(* What should come of an item: its fields, and the columns in them come out *)
(* as the columns that were put in; a packet beyond a limit of either end is *)
(* given up (the encoder refuses it or the decoder does), and never comes    *)
(* out as some other packet.  This is what Faithful of Channel asks.         *)
ColumnsIn(it, p) ==
    IF Layout(it) = ChunkData THEN <<ChunkDataApply(p)>>
    ELSE LET cols == BulkSplit(p) IN [k \in DOMAIN cols |-> ChunkDataApply(cols[k])]
CameOut(it, p) ==
    /\ p = IF it.over THEN Malformed ELSE it.p
    /\ "columns" \in DOMAIN it => it.columns = ColumnsIn(it, p)

=============================================================================
