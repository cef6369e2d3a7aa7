-------------------------------- MODULE Buf --------------------------------
(* minecpp/core/buf: what the writer appends and the reader takes, byte for  *)
(* byte.  A buffer is kept run-length coded, a sequence of <<byte, end>>,    *)
(* where a run of the byte ends, in which neighbours differ, so a payload of *)
(* two megabytes of one byte is one element.  64-bit values are pairs        *)
(* <<high, low>> of signed 32-bit halves, floats are their bit patterns.     *)
(*                                                                           *)
(* The two ways a writer fails (allocation, a string it cannot represent)    *)
(* both set `oom`, and a reader's errors are all handled alike by its        *)
(* callers, so a read returns NoRead whatever went wrong.                    *)
EXTENDS Integers, Sequences, SequencesExt, FiniteSetsExt

STR_MAX_BYTES == 32767
INT_MAX == 2147483647

----------------------------------------------------------------------------
(* Buffers. *)
Fill(byte, n) == IF n = 0 THEN <<>> ELSE << <<byte, n>> >>

IsBuffer(buf) ==
    /\ buf \in Seq(Int \X Nat)
    /\ buf # <<>> => buf[1][2] > 0
    /\ \A i \in 1..Len(buf) - 1 : buf[i][1] # buf[i + 1][1] /\ buf[i][2] < buf[i + 1][2]

Size(buf) == IF buf = <<>> THEN 0 ELSE buf[Len(buf)][2]

(* The run in which the i-th byte is, and that byte. *)
Run(buf, i) ==
    CHOOSE k \in 1..Len(buf) : i <= buf[k][2] /\ (k = 1 \/ buf[k - 1][2] < i)
ByteAt(buf, i) == buf[Run(buf, i)][1]

(* The runs from the k-th on, with d bytes before them. *)
Shift(buf, k, d) ==
    [i \in 1..Len(buf) - k + 1 |-> <<buf[k + i - 1][1], buf[k + i - 1][2] + d>>]

Join(a, b) ==
    IF a # <<>> /\ b # <<>> /\ a[Len(a)][1] = b[1][1]
    THEN SubSeq(a, 1, Len(a) - 1) \o Shift(b, 1, Size(a))
    ELSE a \o Shift(b, 1, Size(a))

Bytes(bs) ==
    LET upto[i \in 0..Len(bs)] ==
            IF i = 0 THEN <<>> ELSE Join(upto[i - 1], Fill(bs[i], 1))
    IN  upto[Len(bs)]

Take(buf, n) ==
    IF n = 0 THEN <<>>
    ELSE IF n >= Size(buf) THEN buf
    ELSE SubSeq(buf, 1, Run(buf, n) - 1) \o << <<ByteAt(buf, n), n>> >>
Drop(buf, n) ==
    IF n >= Size(buf) THEN <<>> ELSE <<>> \o Shift(buf, Run(buf, n + 1), -n)

(* The first n bytes as a plain sequence. *)
Cells(buf, n) == [i \in 1..Min({n, Size(buf)}) |-> ByteAt(buf, i)]

----------------------------------------------------------------------------
(* Reading: [ok, v, rest]. *)
NoRead == [ok |-> FALSE]
Got(v, rest) == [ok |-> TRUE, v |-> v, rest |-> rest]

(* What is made of a value once it is read, and of the rest of the buffer. *)
AndThen(r, Use(_, _)) == IF r.ok THEN Use(r.v, r.rest) ELSE NoRead

(* rd_take: n bytes, or nothing. *)
RdRaw(buf, n) ==
    IF n > Size(buf) THEN NoRead ELSE Got(Take(buf, n), Drop(buf, n))

Signed(b, bits) == IF b >= 2^(bits - 1) THEN b - 2^bits ELSE b

(* Big-endian integers: the first byte carries the sign. *)
BigEndian(v, n) == [i \in 1..n |-> (v \div 256^(n - i)) % 256]
OfBigEndian(bs, signed) ==
    LET upto[i \in 1..Len(bs)] ==
            IF i = 1 THEN IF signed THEN Signed(bs[1], 8) ELSE bs[1]
            ELSE 256 * upto[i - 1] + bs[i]
    IN  upto[Len(bs)]

WrInt(v, n) == Bytes(BigEndian(v, n))
RdInt(buf, n, signed) ==
    IF n > Size(buf) THEN NoRead
    ELSE Got(OfBigEndian(Cells(buf, n), signed), Drop(buf, n))

Wr64(v) == Join(WrInt(v[1], 4), WrInt(v[2], 4))
Rd64(buf) ==
    LET bs == Cells(buf, 8) IN
    IF Len(bs) < 8 THEN NoRead
    ELSE Got(<<OfBigEndian(SubSeq(bs, 1, 4), TRUE),
               OfBigEndian(SubSeq(bs, 5, 8), TRUE)>>, Drop(buf, 8))

(* VarInt and VarLong: seven bits to a byte, low ones first, the top bit of  *)
(* a byte saying that another follows; the value is taken as unsigned.       *)
Septets(v) == [i \in 1..5 |-> IF i = 5 THEN (v \div 2^28) % 16
                              ELSE (v \div 128^(i - 1)) % 128]
LongSeptets(v) ==
    [i \in 1..10 |-> CASE i <= 4 -> (v[2] \div 128^(i - 1)) % 128
                       [] i = 5  -> ((v[2] \div 2^28) % 16) + 16 * (v[1] % 8)
                       [] i = 10 -> IF v[1] < 0 THEN 1 ELSE 0
                       [] OTHER  -> (v[1] \div (8 * 128^(i - 6))) % 128]
WrSeptets(ds) ==
    LET n == Max({1} \cup {i \in DOMAIN ds : ds[i] # 0})
    IN  Bytes([i \in 1..n |-> IF i < n THEN ds[i] + 128 ELSE ds[i]])
WrVarint(v) == WrSeptets(Septets(v))
WrVarlong(v) == WrSeptets(LongSeptets(v))

(* The loop of rd_varint and rd_varlong: stops at the first byte without the *)
(* top bit, fails after `most` bytes or at the end of the buffer.            *)
RdSeptets(buf, most) ==
    LET bs   == Cells(buf, most)
        ends == {i \in DOMAIN bs : bs[i] < 128}
    IN  IF ends = {} THEN NoRead
        ELSE LET n == Min(ends)
             IN  Got([i \in 1..most |-> IF i <= n THEN bs[i] % 128 ELSE 0],
                     Drop(buf, n))
RdVarint(buf) ==
    AndThen(RdSeptets(buf, 5), LAMBDA d, rest :
        Got(d[1] + 128 * d[2] + 2^14 * d[3] + 2^21 * d[4]
              + 2^28 * Signed(d[5] % 16, 4), rest))
RdVarlong(buf) ==
    AndThen(RdSeptets(buf, 10), LAMBDA d, rest :
        LET low  == d[1] + 128 * d[2] + 2^14 * d[3] + 2^21 * d[4]
                      + 2^28 * Signed(d[5] % 16, 4)
            high == (d[5] \div 16) + 8 * d[6] + 2^10 * d[7] + 2^17 * d[8]
                      + 2^24 * Signed(d[9] + 128 * (d[10] % 2), 8)
        IN  Got(<<high, low>>, rest))

(* Strings: the writer has one limit, the reader one per field (four bytes   *)
(* to a character); OOM is the writer's mark for "cannot be represented".    *)
OOM == <<"oom">>
WrStrn(s) == IF Size(s) > STR_MAX_BYTES THEN OOM
             ELSE Join(WrVarint(Size(s)), s)
RdString(buf, max_chars) ==
    AndThen(RdVarint(buf), LAMBDA n, rest :
        IF n \in 0..4 * max_chars THEN RdRaw(rest, n) ELSE NoRead)

(* Positions: 26 bits of x, 12 of y, 26 of z in one 64-bit word. *)
WrPos(p) ==
    Wr64(<<64 * Signed(p[1] % 2^26, 26) + ((p[2] \div 64) % 64),
           2^26 * Signed(p[2] % 64, 6) + (p[3] % 2^26)>>)
RdPosUnsignedY(buf) ==
    AndThen(Rd64(buf), LAMBDA v, rest :
        Got(<<v[1] \div 64, 64 * (v[1] % 64) + ((v[2] \div 2^26) % 64),
              Signed(v[2] % 2^26, 26)>>, rest))

RdPos(buf) ==
    AndThen(Rd64(buf), LAMBDA v, rest :
        Got(<<v[1] \div 64,
              Signed(64 * (v[1] % 64) + ((v[2] \div 2^26) % 64), 12),
              Signed(v[2] % 2^26, 26)>>, rest))

=============================================================================
