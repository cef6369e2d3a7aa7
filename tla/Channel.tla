------------------------------ MODULE Channel ------------------------------
(* One direction of a connection: the packets one end sends through its      *)
(* channel (minecpp_chan of net.c: framing, compression, a bounded buffer    *)
(* flushed as the socket takes bytes), the bytes under way, and the other    *)
(* end's event loop, which reads what is there, takes out every complete     *)
(* frame and hands it to a handler.  The sender's steps are those of the     *)
(* net thread's two loops in net_thread.cpp (Send and Close from net_q, a    *)
(* writable socket), the receiver's are those of its readable event.         *)
(*                                                                           *)
(* What a packet is, and how it becomes a payload, is the matter of module   *)
(* Wire, which gives the operators below their meaning; so is zlib.          *)
(*                                                                           *)
(* A script is [items, comp, slow]: the packets to send, the threshold both  *)
(* ends have already switched to (-1: none), and a bound on how often the    *)
(* network delivers a single byte.  An item is at least [id, p], the id and  *)
(* the fields of a packet.                                                   *)
EXTENDS Buf

CONSTANTS
    Scripts,         \* a sequence of the scripts a behaviour chooses from
    MAX_FRAME,       \* MINECPP_MAX_FRAME
    BUF_CAP,         \* MINECPP_BUF_CAP
    RECV_CHUNK,      \* MINECPP_RECV_CHUNK
    Payload(_),      \* what Encode makes of an item
    Handle(_, _, _), \* what the handler makes of id and payload of an item's frame
    IsSwitch(_),     \* the item is SetCompression
    Compress(_),     \* zlib's compress2
    Uncompress(_),   \* zlib's uncompress
    Right(_, _)      \* what the handler made of an item is what it should

(* A receiver that waits holds less than a frame and its length, and reads   *)
(* four chunks at the most.                                                  *)
ASSUME WireConstants ==
    /\ {MAX_FRAME, RECV_CHUNK} \subseteq Nat
    /\ RECV_CHUNK > 0 /\ MAX_FRAME <= INT_MAX - 8
    /\ BUF_CAP \in Nat /\ BUF_CAP >= MAX_FRAME + 5 + 4 * RECV_CHUNK

(* A frame that is no packet to its handler. *)
Malformed == [malformed |-> TRUE]

BodyOf(it) == Join(WrVarint(it.id), Payload(it))

(* What is sent: packets that fit a frame (nothing in chan_send sees to it;  *)
(* the largest, a bulk of ten full columns, does), in any state of           *)
(* compression, through a zlib that gives back what it was given; and a      *)
(* threshold that the other end's handler reads as it was written.           *)
Sendable(it) ==
    /\ it.id \in 0..INT_MAX
    /\ IsBuffer(Payload(it))
    /\ Size(BodyOf(it)) < MAX_FRAME
    /\ LET z == Compress(BodyOf(it)) IN
       IsBuffer(z) /\ Size(z) + 5 <= MAX_FRAME /\ Uncompress(z) = BodyOf(it)
    /\ IsSwitch(it) \in BOOLEAN
    /\ IsSwitch(it) => /\ it.p.threshold \in Int
                       /\ Handle(it.id, Payload(it), it) # Malformed
                       /\ Handle(it.id, Payload(it), it).threshold = it.p.threshold
ASSUME ScriptsSendable ==
    \A s \in DOMAIN Scripts :
        /\ Scripts[s].comp \in Int /\ Scripts[s].slow \in Nat
        /\ Len(Scripts[s].items) \in Nat
        /\ \A i \in 1..Len(Scripts[s].items) : Sendable(Scripts[s].items[i])

VARIABLES
    script,   \* the script this behaviour follows
    sent,     \* how many items chan_send has taken
    tx, txc,  \* the sender's buffer and compression threshold
    pipe,     \* bytes under way
    open,     \* "yes", "closing" (flush, then close), "no"
    why,      \* what closed it: "", "close-msg", "send-full", "cut"
    rx, rxc,  \* the receiver's buffer and threshold
    phase,    \* the receiver: "poll", "drain", "last" (after EOF), "gone"
    corrupt,  \* chan_next has reported a corrupt frame
    log,      \* what the handlers were given: fields, or Malformed
    ends,     \* history: where each frame ends in the stream of bytes
    written,  \* history: how many bytes the socket has taken
    got,      \* history: how many bytes have reached the receiver
    slow      \* single bytes delivered so far

sender == <<sent, tx, txc, open, why, ends, written>>
receiver == <<rx, rxc, phase, corrupt, log, got, slow>>
vars == <<script, pipe, sender, receiver>>

Items == script.items

----------------------------------------------------------------------------
(* Frames. *)
(* minecpp_chan_send: [length] id payload, or with compression on [length]   *)
(* [size of the body, 0 when it went as it is] body.                         *)
Frame(threshold, id, payload) ==
    LET body == Join(WrVarint(id), payload)
        n    == Size(body)
        z    == Compress(body)
    IN  CASE threshold < 0 -> Join(WrVarint(n), body)
          [] threshold >= 0 /\ n < threshold ->
               Join(WrVarint(n + 1), Join(WrVarint(0), body))
          [] threshold >= 0 /\ n >= threshold ->
               Join(WrVarint(Size(z) + Size(WrVarint(n))), Join(WrVarint(n), z))

(* minecpp_chan_next: one packet ("ok"), "more" while the frame is not there *)
(* whole, "corrupt".  peek_varint's two failures are both taken for "more".  *)
More == [g |-> "more"]
Corrupt == [g |-> "corrupt"]

(* All n bytes of a frame are there. *)
WholeLate(buf, n) == Size(buf) > n
Whole(buf, n) == Size(buf) >= n

Body(r, rest) ==
    IF r.ok THEN [g |-> "ok", id |-> r.v, payload |-> r.rest, rest |-> rest]
    ELSE Corrupt
Unpacked(dl, rest) ==
    IF ~dl.ok \/ dl.v < 0 \/ dl.v > MAX_FRAME THEN Corrupt
    ELSE IF dl.v = 0 THEN Body(RdVarint(dl.rest), rest)
    ELSE IF Size(Uncompress(dl.rest)) # dl.v THEN Corrupt
    ELSE Body(RdVarint(Uncompress(dl.rest)), rest)
ChanFrame(len, threshold) ==
    IF ~len.ok THEN More
    ELSE IF len.v <= 0 \/ len.v > MAX_FRAME THEN Corrupt
    ELSE IF ~Whole(len.rest, len.v) THEN More
    ELSE LET frame == RdVarint(Take(len.rest, len.v))
             rest  == Drop(len.rest, len.v)
         IN  IF threshold < 0 THEN Body(frame, rest) ELSE Unpacked(frame, rest)
ChanNext(buf, threshold) == ChanFrame(RdVarint(buf), threshold)

(* How many of n bytes a socket may take, or a network deliver, at once. *)
Portions(n) == {k \in {n - 1, n} : k > 0}

----------------------------------------------------------------------------
Init ==
    /\ \E i \in DOMAIN Scripts : script = Scripts[i]
    /\ sent = 0 /\ tx = <<>> /\ txc = script.comp
    /\ pipe = <<>> /\ open = "yes" /\ why = ""
    /\ rx = <<>> /\ rxc = script.comp
    /\ phase = "poll" /\ corrupt = FALSE
    /\ log = <<>> /\ ends = <<>> /\ written = 0 /\ got = 0 /\ slow = 0

(* The buffer of minecpp_chan_send cannot take n more bytes. *)
Full(n) == Size(tx) + n > BUF_CAP

(* SetCompression is followed by EnableCompression in net_q. *)
ThresholdKept(it, threshold) == threshold
ThresholdAfter(it, threshold) ==
    IF IsSwitch(it) THEN it.p.threshold ELSE threshold

(* minecpp_chan_flush with a socket that takes k bytes. *)
Flush(buf, k) ==
    /\ tx' = Drop(buf, k)
    /\ pipe' = Join(pipe, Take(buf, k))
    /\ written' = written + k

(* A Send popped from net_q, followed by the opportunistic flush; a packet   *)
(* that does not fit the buffer closes the connection, losing what is in it. *)
Send ==
    /\ open # "no" /\ sent < Len(Items)
    /\ LET it == Items[sent + 1] IN
       \E frame \in {Frame(txc, it.id, Payload(it))} :
           IF Full(Size(frame))
           THEN /\ open' = "no" /\ why' = "send-full" /\ tx' = <<>>
                /\ UNCHANGED <<sent, txc, ends, pipe, written>>
           ELSE /\ \E k \in {0} \cup Portions(Size(tx) + Size(frame)) :
                     Flush(Join(tx, frame), k)
                /\ sent' = sent + 1
                /\ ends' = Append(ends, Size(frame)
                                        + IF ends = <<>> THEN 0 ELSE Last(ends))
                /\ txc' = ThresholdAfter(it, txc)
                /\ UNCHANGED <<open, why>>
    /\ UNCHANGED <<script, receiver>>

(* The socket is writable again. *)
Writable ==
    /\ open # "no" /\ tx # <<>>
    /\ \E k \in Portions(Size(tx)) :
         /\ Flush(tx, k)
         /\ open' = IF open = "closing" /\ k = Size(tx) THEN "no" ELSE open
    /\ UNCHANGED <<script, sent, txc, why, ends, receiver>>

(* Close popped from net_q, the last message for this connection: flush, and *)
(* close now or when the socket has taken the rest.                          *)
CloseAtOnce ==
    /\ open = "yes" /\ sent = Len(Items)
    /\ open' = "no" /\ tx' = <<>> /\ why' = "close-msg"
    /\ UNCHANGED <<script, sent, txc, ends, pipe, written, receiver>>
Close ==
    /\ open = "yes" /\ sent = Len(Items)
    /\ \E k \in {0} \cup Portions(Size(tx)) :
         /\ Flush(tx, k)
         /\ open' = IF k = Size(tx) THEN "no" ELSE "closing"
    /\ why' = "close-msg"
    /\ UNCHANGED <<script, sent, txc, ends, receiver>>

(* The sending process or its host is gone, wherever it was. *)
Cut ==
    /\ open # "no"
    /\ open' = "no" /\ why' = "cut" /\ tx' = <<>>
    /\ UNCHANGED <<script, sent, txc, ends, pipe, written, receiver>>

(* minecpp_chan_recv, with the first n bytes of the pipe there to be read:   *)
(* whole chunks until one comes up short, four at the most.  The end of the  *)
(* stream is seen by a read that finds nothing, in this event only when the  *)
(* reads before it were all full.                                            *)
Recv ==
    /\ phase = "poll"
    /\ pipe # <<>> \/ open = "no"
    /\ \E n \in IF pipe = <<>> THEN {0} ELSE {1} \cup Portions(Size(pipe)) :
         LET m   == Min({n, 4 * RECV_CHUNK})
             eof == open = "no" /\ m = Size(pipe) /\ m % RECV_CHUNK = 0
                      /\ m < 4 * RECV_CHUNK
         IN  /\ n = 1 /\ Size(pipe) > 1 => slow < script.slow
             /\ slow' = IF n = 1 /\ Size(pipe) > 1 THEN slow + 1 ELSE slow
             /\ rx' = Join(rx, Take(pipe, m))
             /\ pipe' = Drop(pipe, m)
             /\ got' = got + m
             /\ phase' = IF eof \/ Size(rx) + m > BUF_CAP THEN "last" ELSE "drain"
    /\ UNCHANGED <<script, sender, rxc, corrupt, log>>

(* One turn of the loop around chan_next. *)
Next1 ==
    /\ phase \in {"drain", "last"}
    /\ LET it == Items[Len(log) + 1] IN
       \E frame \in {ChanNext(rx, rxc)} :
           IF frame.g = "ok"
           THEN /\ rx' = frame.rest
                /\ log' = Append(log, Handle(frame.id, frame.payload, it))
                /\ rxc' = IF IsSwitch(it) /\ Last(log') # Malformed
                          THEN Last(log').threshold ELSE rxc
                /\ UNCHANGED <<phase, corrupt>>
           ELSE /\ phase' = IF phase = "last" \/ frame.g = "corrupt"
                            THEN "gone" ELSE "poll"
                /\ corrupt' = (frame.g = "corrupt")
                /\ UNCHANGED <<rx, rxc, log>>
    /\ UNCHANGED <<script, pipe, sender, got, slow>>

Next == Send \/ Writable \/ Close \/ Cut \/ Recv \/ Next1

(* The net thread keeps polling and popping; a socket with data is readable. *)
(* This is weak fairness of Send \/ Writable \/ Close and of Recv \/ Next1,   *)
(* with ENABLED written out (an end can always move when it is ready, and no *)
(* other action changes its variables, except Cut).                          *)
SenderReady == open = "yes" \/ (open = "closing" /\ tx # <<>>)
ReceiverReady ==
    phase \in {"drain", "last"} \/ (phase = "poll" /\ (pipe # <<>> \/ open = "no"))
Fairness ==
    /\ <>[]SenderReady => []<><<why' # "cut">>_sender
    /\ <>[]ReceiverReady => []<><<TRUE>>_receiver

Spec == Init /\ [][Next]_vars /\ Fairness

----------------------------------------------------------------------------
TypeOK ==
    /\ sent \in 0..Len(Items) /\ Len(ends) = sent
    /\ open \in {"yes", "closing", "no"}
    /\ why \in {"", "close-msg", "send-full", "cut"}
    /\ phase \in {"poll", "drain", "last", "gone"}
    /\ corrupt \in BOOLEAN
    /\ Len(log) <= sent
    /\ Size(tx) <= BUF_CAP /\ Size(rx) <= BUF_CAP
    /\ slow \in 0..script.slow

(* The handlers get the packets that were sent, whole, unchanged and in      *)
(* order, however the bytes were cut up.                                     *)
Faithful == \A i \in DOMAIN log : Right(Items[i], log[i])

(* A receiver that waits for the socket has taken every frame whose last     *)
(* byte has come in: none lies in its buffer until some later byte, and one  *)
(* that came with the end of the stream is not thrown away.                  *)
NoneWaits ==
    phase \in {"poll", "gone"} =>
        Len(log) = Cardinality({i \in DOMAIN ends : ends[i] <= got})

(* The two ends keep what net.h promises of a channel (Stream), whatever the *)
(* bytes stand for: frames are taken in order and in time, the end of the    *)
(* stream is seen behind the last byte, a close has sent everything, and     *)
(* what chan_send writes, chan_next never calls corrupt, across the switch   *)
(* of compression too: Stream has no corrupt phase.                          *)
Promise == INSTANCE Stream WITH
    taken <- Len(log),
    open  <- IF open # "no" THEN "yes" ELSE IF why = "close-msg" THEN "closed" ELSE "lost",
    phase <- IF corrupt THEN "corrupt" ELSE phase
ImplementsStream == Promise!Spec

(* A connection that is closed only after its last packet has delivered all  *)
(* of them in the end; one that is lost, or whose buffer is full, is noticed *)
(* by the other end.                                                         *)
Delivered ==
    /\ <>(phase = "gone")
    /\ <>(Len(log) = Len(Items) \/ why \in {"cut", "send-full"})
=============================================================================
