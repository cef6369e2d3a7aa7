----------------------------- MODULE SessionsProofs ----------------------------
(* What Sessions promises of every set of connections and names, of every      *)
(* threshold, timer and buffer: proofs for TLAPS.                              *)
EXTENDS Sessions, SequenceTheorems, TLAPS

InMsg  == [conn : Conns, what : Requests \cup {"Connected", "Disconnected"}]
OutMsg == [conn : Conns, what : Replies \cup {"EnableCompression", "Close"}]
Down   == [what : Replies, z : BOOLEAN]
Upward == [what : Requests, z : BOOLEAN]

\* What the tick has said and the net thread has not heard, and the frames
\* between the net thread and the client p.
Outbox  == outq \o emit
Pipe(p) == sock[p] \o tx[p]

-------------------------------------------------------------------------------
(* The inductive invariant.  Order in a queue is a relation between each entry *)
(* and all that come behind it.                                                *)

Ordered(q, R) == \A i, j \in DOMAIN q : i < j => <<q[i], q[j]>> \in R

\* Nothing in S comes behind anything in S.
Once(T, S) == {r \in T \X T : r[1] \notin S \/ r[2] \notin S}

\* What a client says last before it waits or falls silent, short of the game.
LastWords == Names \cup {"badname", "unknown"}

\* Connected comes first, Disconnected last.
InOrder ==
  {r \in InMsg \X InMsg :
     r[1].conn = r[2].conn =>
       /\ r[1].what # "Disconnected" /\ r[2].what # "Connected"
       /\ r[1].what \in LastWords => r[2].what = "Disconnected"}

UpOrder == {r \in Upward \X Upward : r[1].what \notin LastWords}

\* The messages of Welcome, in their order, with nothing to the same client
\* before them.
Switch == {"compression", "EnableCompression", "success"}
OutOrder ==
  {r \in OutMsg \X OutMsg :
     r[1].conn = r[2].conn /\ r[2].what \in Switch =>
       \/ r[1].what = "compression" /\ r[2].what # "compression"
       \/ r[1].what = "EnableCompression" /\ r[2].what = "success"}

\* One SetCompression parts the plain frames from the compressed ones.
DownOrder ==
  {r \in Down \X Down :
     /\ r[1].what = "success" => r[2].what \notin {"compression", "success"}
     /\ r[1].what = "compression" => r[2].what # "compression" /\ r[2].z
     /\ r[2].what = "compression" => ~r[1].z}

\* The stop sequence.
Shutdown ==
  /\ at \in {"free in", "free out", "done"} => net = "over"
  /\ net \in {"exit", "over"} => ~Ticking
  /\ net = "over" => \A p \in Conns : ~Live(p)
  /\ ~Ticking => emit = <<>>
  /\ at \in {"free out", "done"} => inq = <<>>
  /\ at = "done" => outq = <<>>

\* The timer loop has players to visit only while it runs, and they are in Play.
TimerLoop == \A p \in due : at = "timers" /\ state[p] = "Play"

\* What a connection is before its first and after its last frame.
Ends(p) ==
  /\ chan[p] = "none" => phase[p] = "new" /\ state[p] = "none"
  /\ ~Live(p) => up[p] = <<>> /\ tx[p] = <<>>
  /\ phase[p] = "left" => sock[p] = <<>>
  /\ state[p] # "Play" => ~pending[p]

\* What the two threads know of each other.
News(p) ==
  /\ \A m \in Range(inq) :
       m.conn = p => /\ chan[p] # "none"
                     /\ m.what = "Connected" => state[p] = "none"
                     /\ m.what = "Disconnected" => chan[p] = "closed"
  /\ Ticking /\ chan[p] = "closed" /\ (state[p] # "none" \/ Msg(p, "Connected") \in Range(inq))
       => Msg(p, "Disconnected") \in Range(inq)
  /\ chan[p] = "open" /\ state[p] = "none"
       => Msg(p, "Connected") \in Range(inq) \/ Msg(p, "Close") \in Range(Outbox)

\* Nothing was said to p yet.
Fresh(p) ==
  /\ ~mode[p] /\ ~cmode[p] /\ sock[p] = <<>> /\ tx[p] = <<>> /\ state[p] # "Play"
  /\ \A m \in Range(Outbox) : m.conn # p
  /\ Msg(p, "alive") \notin Range(inq) /\ \A f \in Range(up[p]) : f.what # "alive"

LastWordIn(p) == \E m \in Range(inq) : m.conn = p /\ m.what \in LastWords
LastWordUp(p) == \E f \in Range(up[p]) : f.what \in LastWords

\* Until its last word before the game is handled p is told nothing.
Words(p) ==
  /\ Ordered(up[p], UpOrder)
  /\ LastWordIn(p) => up[p] = <<>>
  /\ LastWordIn(p) \/ LastWordUp(p) => Fresh(p) /\ phase[p] \in {"waiting", "silent", "left"}
  /\ phase[p] \in {"new", "hello", "login"} => Fresh(p)

\* p has been sent SetCompression, whether it has read it or not.
Told(p) == cmode[p] \/ \E f \in Range(Pipe(p)) : f.what = "compression"
Has(p, what) == Msg(p, what) \in Range(Outbox)
Switching(p) == \E k \in Switch : Has(p, k)
Hushed(p) == up[p] = <<>> /\ phase[p] \in {"waiting", "silent", "left"}

\* The switch to compression on the tick's side of the net thread...
Switches(p) ==
  /\ Has(p, "compression") =>
       ~mode[p] /\ ~cmode[p] /\ sock[p] = <<>> /\ tx[p] = <<>> /\ Has(p, "EnableCompression")
  /\ Has(p, "EnableCompression") =>
       /\ Compress /\ ~mode[p]
       /\ Has(p, "compression") \/ (Live(p) /\ phase[p] # "left" => Told(p))
  /\ Has(p, "success") /\ Live(p) => mode[p] = Compress \/ Has(p, "EnableCompression")
  /\ Switching(p) => Hushed(p)
  /\ phase[p] = "play" => mode[p] = Compress /\ cmode[p] = Compress
  /\ \A f \in Range(up[p]) : f.z = mode[p] /\ f.z = cmode[p]

\* ...and on the client's.
PipeFormat(p) ==
  /\ Ordered(Pipe(p), DownOrder)
  /\ \A f \in Range(Pipe(p)) :
       /\ f.z => Told(p)
       /\ ~f.z => ~cmode[p]
       /\ f.what = "compression" => ~f.z
       /\ f.what \in {"compression", "success"} => Hushed(p)
       /\ f.what = "success" => f.z = Compress /\ mode[p] = Compress /\ ~Switching(p)
  /\ Live(p) => \/ mode[p] <=> Told(p)
                \/ ~mode[p] /\ Told(p) /\ Has(p, "EnableCompression")

\* The tokens of p, place by place.
KeepAlives(p) == {Msg(p, "keepalive")}
Answers(p)    == {Msg(p, "alive")}
Asking        == {f \in Down : f.what = "keepalive"}
Answering     == {f \in Upward : f.what = "alive"}
InOutbox(p)   == Msg(p, "keepalive") \in Range(Outbox)
InPipe(p)     == \E f \in Range(Pipe(p)) : f.what = "keepalive"
InUp(p)       == \E f \in Range(up[p]) : f.what = "alive"
InInbox(p)    == Msg(p, "alive") \in Range(inq)

Alone(p) ==
  /\ Ordered(Outbox, Once(OutMsg, KeepAlives(p))) /\ Ordered(Pipe(p), Once(Down, Asking))
  /\ Ordered(up[p], Once(Upward, Answering)) /\ Ordered(inq, Once(InMsg, Answers(p)))
  /\ InOutbox(p) => ~InPipe(p) /\ ~InUp(p) /\ ~InInbox(p)
  /\ InPipe(p) => ~InUp(p) /\ ~InInbox(p)
  /\ InUp(p) => ~InInbox(p)

Alive(p) ==
  state[p] = "Play" =>
    /\ Alone(p)
    /\ InOutbox(p) \/ InPipe(p) \/ InUp(p) \/ InInbox(p) => pending[p]
    /\ Live(p) /\ phase[p] # "left" /\ ~ignored[p] /\ pending[p] =>
         InOutbox(p) \/ InPipe(p) \/ InUp(p) \/ InInbox(p)

Session(p) ==
  /\ Ends(p) /\ News(p) /\ Words(p) /\ Switches(p) /\ (phase[p] # "left" => PipeFormat(p))
  /\ Alive(p)

Flow ==
  /\ Ordered(inq, InOrder) /\ Ordered(Outbox, OutOrder)
  /\ \A p \in Conns : Session(p)

SessionInv == TypeOK /\ UniqueNames /\ Shutdown /\ TimerLoop /\ Flow

-------------------------------------------------------------------------------
(* Sequences: what they hold and in which order.                               *)

\* What a sequence holds is what its first entry and the others hold.
LEMMA RangeTail ==
  ASSUME NEW S, NEW q \in Seq(S), q # <<>>
  PROVE  /\ Head(q) \in S /\ Tail(q) \in Seq(S)
         /\ Range(q) = {Head(q)} \cup Range(Tail(q))
<1>1. /\ Head(q) \in S /\ Tail(q) \in Seq(S) /\ Len(Tail(q)) = Len(q) - 1
      /\ \A i \in 1..Len(Tail(q)) : Tail(q)[i] = q[i + 1]
  BY HeadTailProperties
<1>2. Len(q) \in Nat \ {0} /\ Head(q) = q[1] /\ Len(Tail(q)) \in Nat
  BY EmptySeq, <1>1, LenProperties
<1>3. /\ Range(q) = {q[i] : i \in 1..Len(q)}
      /\ Range(Tail(q)) = {Tail(q)[i] : i \in 1..Len(Tail(q))}
  BY <1>1, RangeEquality
<1>4. ASSUME NEW x \in Range(q) PROVE x \in {Head(q)} \cup Range(Tail(q))
  <2>1. PICK i \in 1..Len(q) : x = q[i]
    BY <1>3
  <2>2. CASE i = 1
    BY <2>1, <2>2, <1>2
  <2>3. CASE i # 1
    <3>1. i - 1 \in 1..Len(Tail(q)) /\ (i - 1) + 1 = i
      BY <2>3, <1>1, <1>2
    <3>2. Tail(q)[i - 1] = q[i]
      BY <3>1, <1>1
    <3> QED
      BY <3>1, <3>2, <2>1, <1>3
  <2> QED
    BY <2>2, <2>3
<1>5. ASSUME NEW x \in {Head(q)} \cup Range(Tail(q)) PROVE x \in Range(q)
  <2>1. CASE x = Head(q)
    BY <2>1, <1>2, <1>3
  <2>2. CASE x \in Range(Tail(q))
    <3>1. PICK i \in 1..Len(Tail(q)) : x = Tail(q)[i]
      BY <2>2, <1>3
    <3>2. i + 1 \in 1..Len(q) /\ x = q[i + 1]
      BY <3>1, <1>1, <1>2
    <3> QED
      BY <3>2, <1>3
  <2> QED
    BY <2>1, <2>2
<1> QED
  BY <1>1, <1>4, <1>5

LEMMA RangeOne == \A e : Range(<<e>>) = {e}
<1> TAKE e
<1>1. DOMAIN <<e>> = {1} /\ <<e>>[1] = e
  OBVIOUS
<1> QED
  BY <1>1 DEF Range

LEMMA RangeEmpty == Range(<<>>) = {}
BY DEF Range

LEMMA RangeAppend ==
  ASSUME NEW S, NEW q \in Seq(S), NEW e \in S
  PROVE  Append(q, e) \in Seq(S) /\ Range(Append(q, e)) = Range(q) \cup {e}
<1>1. Append(q, e) = q \o <<e>> /\ Append(q, e) \in Seq(S) /\ <<e>> \in Seq(S)
  BY AppendIsConcat, AppendProperties
<1>2. Range(q \o <<e>>) = Range(q) \cup Range(<<e>>)
  BY <1>1, RangeConcatenation
<1> QED
  BY <1>1, <1>2, RangeOne

\* A sequence cut in two.
LEMMA Cut ==
  ASSUME NEW S, NEW q \in Seq(S), NEW n \in 0..Len(q)
  PROVE  /\ SubSeq(q, 1, n) \in Seq(S) /\ SubSeq(q, n + 1, Len(q)) \in Seq(S)
         /\ q = SubSeq(q, 1, n) \o SubSeq(q, n + 1, Len(q))
         /\ Len(SubSeq(q, 1, n)) = n /\ Len(SubSeq(q, n + 1, Len(q))) = Len(q) - n
         /\ \A i \in 1..n : SubSeq(q, 1, n)[i] = q[i]
<1>1. Len(q) \in Nat /\ \A i \in 1..Len(q) : q[i] \in S
  BY LenProperties, ElementOfSeq
<1>2. /\ SubSeq(q, 1, n) \in Seq(S)
      /\ Len(SubSeq(q, 1, n)) = IF 1 <= n THEN n - 1 + 1 ELSE 0
      /\ \A i \in 1..(n - 1 + 1) : SubSeq(q, 1, n)[i] = q[1 + i - 1]
  BY <1>1, SubSeqProperties
<1>3. /\ SubSeq(q, n + 1, Len(q)) \in Seq(S)
      /\ Len(SubSeq(q, n + 1, Len(q))) = IF n + 1 <= Len(q) THEN Len(q) - (n + 1) + 1 ELSE 0
  BY <1>1, SubSeqProperties
<1>4. SubSeq(q, 1, n) \o SubSeq(q, n + 1, Len(q)) = SubSeq(q, 1, Len(q))
  <2>1. 1 \in 1..Len(q) + 1 /\ n \in 1 - 1..Len(q) /\ Len(q) \in n..Len(q)
    BY <1>1
  <2> QED
    BY <2>1, ConcatAdjacentSubSeq
<1>5. SubSeq(q, 1, Len(q)) = q
  BY SubSeqFull
<1>6. Len(SubSeq(q, 1, n)) = n /\ \A i \in 1..n : SubSeq(q, 1, n)[i] = q[i]
  <2>1. n - 1 + 1 = n /\ (1 <= n \/ n = 0) /\ \A i \in 1..n : 1 + i - 1 = i
    BY <1>1
  <2> QED
    BY <2>1, <1>2
<1>7. Len(SubSeq(q, n + 1, Len(q))) = Len(q) - n
  BY <1>1, <1>3
<1> QED
  BY <1>2, <1>3, <1>4, <1>5, <1>6, <1>7

LEMMA OrderedEmpty == ASSUME NEW R PROVE Ordered(<<>>, R)
BY DEF Ordered

\* Two sequences are in order when each is and one may stand before the other.
LEMMA OrderedConcat ==
  ASSUME NEW S, NEW q \in Seq(S), NEW e \in Seq(S), NEW R
  PROVE  Ordered(q \o e, R) <=> /\ Ordered(q, R) /\ Ordered(e, R)
                                /\ \A a \in Range(q), b \in Range(e) : <<a, b>> \in R
<1> DEFINE qe == q \o e
<1>1. /\ qe \in Seq(S) /\ Len(qe) = Len(q) + Len(e)
      /\ \A i \in 1..Len(q) + Len(e) : qe[i] = IF i <= Len(q) THEN q[i] ELSE e[i - Len(q)]
  BY ConcatProperties
<1>2. /\ Len(q) \in Nat /\ Len(e) \in Nat /\ Len(qe) \in Nat
      /\ DOMAIN q = 1..Len(q) /\ DOMAIN e = 1..Len(e) /\ DOMAIN qe = 1..Len(qe)
  BY <1>1, LenProperties
<1>3. Range(q) = {q[i] : i \in 1..Len(q)} /\ Range(e) = {e[i] : i \in 1..Len(e)}
  BY RangeEquality
<1> HIDE DEF qe
<1>4. ASSUME Ordered(qe, R)
      PROVE  /\ Ordered(q, R) /\ Ordered(e, R)
             /\ \A a \in Range(q), b \in Range(e) : <<a, b>> \in R
  <2>1. \A i, j \in 1..Len(qe) : i < j => <<qe[i], qe[j]>> \in R
    BY <1>4, <1>2 DEF Ordered
  <2>2. ASSUME NEW i \in 1..Len(q), NEW j \in 1..Len(q), i < j PROVE <<q[i], q[j]>> \in R
    <3>1. i \in 1..Len(qe) /\ j \in 1..Len(qe) /\ qe[i] = q[i] /\ qe[j] = q[j]
      BY <1>1, <1>2
    <3> QED
      BY <3>1, <2>1, <2>2
  <2>3. ASSUME NEW i \in 1..Len(e), NEW j \in 1..Len(e), i < j PROVE <<e[i], e[j]>> \in R
    <3>1. /\ Len(q) + i \in 1..Len(qe) /\ Len(q) + j \in 1..Len(qe) /\ Len(q) + i < Len(q) + j
          /\ ~(Len(q) + i <= Len(q)) /\ ~(Len(q) + j <= Len(q))
          /\ Len(q) + i - Len(q) = i /\ Len(q) + j - Len(q) = j
      BY <1>1, <1>2, <2>3
    <3>2. qe[Len(q) + i] = e[i] /\ qe[Len(q) + j] = e[j]
      <4>1. \A k \in 1..Len(qe) : ~(k <= Len(q)) => qe[k] = e[k - Len(q)]
        BY <1>1
      <4> QED
        BY <3>1, <4>1
    <3> QED
      BY <3>1, <3>2, <2>1
  <2>4. ASSUME NEW a \in Range(q), NEW b \in Range(e) PROVE <<a, b>> \in R
    <3>1. PICK i \in 1..Len(q) : a = q[i]
      BY <1>3
    <3>2. PICK j \in 1..Len(e) : b = e[j]
      BY <1>3
    <3>3. /\ i \in 1..Len(qe) /\ Len(q) + j \in 1..Len(qe) /\ i < Len(q) + j
          /\ i <= Len(q) /\ ~(Len(q) + j <= Len(q)) /\ Len(q) + j - Len(q) = j
      BY <1>1, <1>2
    <3>4. qe[i] = q[i] /\ qe[Len(q) + j] = e[j]
      BY <3>3, <1>1
    <3> QED
      BY <3>1, <3>2, <3>3, <3>4, <2>1
  <2> QED
    BY <2>2, <2>3, <2>4, <1>2 DEF Ordered
<1>5. ASSUME Ordered(q, R), Ordered(e, R), \A a \in Range(q), b \in Range(e) : <<a, b>> \in R
      PROVE  Ordered(qe, R)
  <2> SUFFICES ASSUME NEW i \in 1..Len(qe), NEW j \in 1..Len(qe), i < j
               PROVE  <<qe[i], qe[j]>> \in R
    BY <1>2 DEF Ordered
  <2>1. CASE j <= Len(q)
    <3>1. i \in 1..Len(q) /\ j \in 1..Len(q) /\ qe[i] = q[i] /\ qe[j] = q[j]
      BY <2>1, <1>1, <1>2
    <3> QED
      BY <3>1, <1>5, <1>2 DEF Ordered
  <2>2. CASE Len(q) < i
    <3>1. /\ i - Len(q) \in 1..Len(e) /\ j - Len(q) \in 1..Len(e) /\ i - Len(q) < j - Len(q)
          /\ qe[i] = e[i - Len(q)] /\ qe[j] = e[j - Len(q)]
      BY <2>2, <1>1, <1>2
    <3> QED
      BY <3>1, <1>5, <1>2 DEF Ordered
  <2>3. CASE i <= Len(q) /\ Len(q) < j
    <3>1. /\ i \in 1..Len(q) /\ j - Len(q) \in 1..Len(e)
          /\ qe[i] = q[i] /\ qe[j] = e[j - Len(q)]
      BY <2>3, <1>1, <1>2
    <3>2. qe[i] \in Range(q) /\ qe[j] \in Range(e)
      BY <3>1, <1>3
    <3> QED
      BY <3>2, <1>5
  <2> QED
    BY <2>1, <2>2, <2>3, <1>2
<1> QED
  BY <1>4, <1>5 DEF qe

LEMMA HeadThenTail ==
  ASSUME NEW S, NEW q \in Seq(S), q # <<>>
  PROVE  q = <<Head(q)>> \o Tail(q)
<1>0. /\ Head(q) \in S /\ Tail(q) \in Seq(S) /\ <<Head(q)>> \in Seq(S)
      /\ Len(q) \in Nat \ {0}
  BY HeadTailProperties, EmptySeq
<1>1. q = SubSeq(q, 1, 1) \o SubSeq(q, 2, Len(q))
  BY <1>0, Cut
<1>2. SubSeq(q, 2, Len(q)) = Tail(q)
  BY TailIsSubSeq
<1>3. SubSeq(q, 1, 1) = <<Head(q)>>
  <2>1. /\ SubSeq(q, 1, 1) \in Seq(S) /\ Len(SubSeq(q, 1, 1)) = 1
        /\ SubSeq(q, 1, 1)[1] = q[1]
    BY <1>0, Cut
  <2>2. Len(<<Head(q)>>) = 1 /\ <<Head(q)>>[1] = q[1]
    BY <1>0
  <2>3. \A i \in 1..Len(SubSeq(q, 1, 1)) : SubSeq(q, 1, 1)[i] = <<Head(q)>>[i]
    BY <2>1, <2>2
  <2> QED
    BY <2>1, <2>2, <2>3, <1>0, SeqEqual, Zenon
<1> QED
  BY <1>1, <1>2, <1>3

LEMMA OrderedTail ==
  ASSUME NEW S, NEW q \in Seq(S), q # <<>>, NEW R
  PROVE  Ordered(q, R) <=> /\ Ordered(Tail(q), R)
                           /\ \A b \in Range(Tail(q)) : <<Head(q), b>> \in R
<1>1. /\ Head(q) \in S /\ Tail(q) \in Seq(S) /\ <<Head(q)>> \in Seq(S)
      /\ Len(q) \in Nat \ {0}
  BY HeadTailProperties, EmptySeq
<1>2. q = <<Head(q)>> \o Tail(q)
  BY HeadThenTail
<1>3. Range(<<Head(q)>>) = {Head(q)}
  BY RangeOne
<1>4. Ordered(<<Head(q)>>, R)
  BY DEF Ordered
<1>5. Ordered(<<Head(q)>> \o Tail(q), R) <=>
        /\ Ordered(<<Head(q)>>, R) /\ Ordered(Tail(q), R)
        /\ \A a \in Range(<<Head(q)>>), b \in Range(Tail(q)) : <<a, b>> \in R
  BY <1>1, OrderedConcat
<1> QED
  BY <1>2, <1>3, <1>4, <1>5

-------------------------------------------------------------------------------
(* Type correctness.                                                           *)

\* TypeOK in terms of the sets above.
LEMMA Types ==
  ASSUME TypeOK
  PROVE  /\ outq \in Seq(OutMsg) /\ emit \in Seq(OutMsg) /\ inq \in Seq(InMsg)
         /\ Outbox \in Seq(OutMsg)
         /\ tx \in [Conns -> Seq(Down)] /\ sock \in [Conns -> Seq(Down)]
         /\ up \in [Conns -> Seq(Upward)]
         /\ \A p \in Conns :
              /\ tx[p] \in Seq(Down) /\ sock[p] \in Seq(Down) /\ up[p] \in Seq(Upward)
              /\ Pipe(p) \in Seq(Down)
              /\ Len(tx[p]) \in 0..TxCap /\ Len(sock[p]) \in 0..SockCap /\ Len(up[p]) \in Nat
<1>1. /\ outq \in Seq(OutMsg) /\ emit \in Seq(OutMsg) /\ inq \in Seq(InMsg)
      /\ tx \in [Conns -> Seq(Down)] /\ sock \in [Conns -> Seq(Down)]
      /\ up \in [Conns -> Seq(Upward)]
  BY DEF TypeOK, OutMsg, InMsg, Frames, Down, Upward
<1>2. Outbox \in Seq(OutMsg)
  BY <1>1, ConcatProperties DEF Outbox
<1>3. ASSUME NEW p \in Conns
      PROVE  /\ tx[p] \in Seq(Down) /\ sock[p] \in Seq(Down) /\ up[p] \in Seq(Upward)
             /\ Pipe(p) \in Seq(Down)
             /\ Len(tx[p]) \in 0..TxCap /\ Len(sock[p]) \in 0..SockCap /\ Len(up[p]) \in Nat
  <2>1. tx[p] \in Seq(Down) /\ sock[p] \in Seq(Down) /\ up[p] \in Seq(Upward)
    BY <1>1
  <2>2. Pipe(p) \in Seq(Down)
    BY <2>1, ConcatProperties DEF Pipe
  <2>3. Len(tx[p]) \in Nat /\ Len(sock[p]) \in Nat /\ Len(up[p]) \in Nat
    BY <2>1, LenProperties
  <2>4. Len(tx[p]) <= TxCap /\ Len(sock[p]) <= SockCap
    BY DEF TypeOK
  <2>5. TxCap \in Nat /\ SockCap \in Nat
    BY SessionConstants
  <2> QED
    BY <2>1, <2>2, <2>3, <2>4, <2>5
<1> QED
  BY <1>1, <1>2, <1>3

\* What flushing does to the wire: of buf, some goes and the rest stays.
LEMMA FlushType ==
  ASSUME TypeOK, NEW p \in Conns, NEW buf \in Seq(Down), Flush(p, buf)
  PROVE  /\ sock' \in [Conns -> Seq(Down)] /\ \A q \in Conns : q # p => sock'[q] = sock[q]
         /\ Len(sock'[p]) <= SockCap
         /\ Rest(p, buf) \in Seq(Down) /\ Len(Rest(p, buf)) <= Len(buf)
         /\ phase[p] = "left" => sock'[p] = sock[p] /\ Rest(p, buf) = <<>>
         /\ phase[p] # "left" => sock'[p] \o Rest(p, buf) = sock[p] \o buf
         /\ phase[p] # "left" /\ Flushed(p, buf) => sock'[p] = sock[p] \o buf
<1> DEFINE w == Written(p, buf)
<1>1. Len(buf) \in Nat /\ sock[p] \in Seq(Down) /\ Len(sock[p]) \in 0..SockCap
      /\ sock \in [Conns -> Seq(Down)]
  BY Types, LenProperties
<1>2. w \in 0..Len(buf) /\ (phase[p] # "left" => Len(sock[p]) + w <= SockCap)
  BY <1>1, SessionConstants DEF Written
<1>3. phase[p] = "left" => w = Len(buf)
  BY DEF Written
<1> HIDE DEF w
<1>4. /\ SubSeq(buf, 1, w) \in Seq(Down) /\ SubSeq(buf, w + 1, Len(buf)) \in Seq(Down)
      /\ buf = SubSeq(buf, 1, w) \o SubSeq(buf, w + 1, Len(buf))
      /\ Len(SubSeq(buf, 1, w)) = w /\ Len(SubSeq(buf, w + 1, Len(buf))) = Len(buf) - w
  BY <1>2, Cut
<1>5. /\ sock[p] \o SubSeq(buf, 1, w) \in Seq(Down)
      /\ Len(sock[p] \o SubSeq(buf, 1, w)) = Len(sock[p]) + w
  BY <1>1, <1>4, ConcatProperties
<1>6. Rest(p, buf) = SubSeq(buf, w + 1, Len(buf))
  BY DEF Rest, w
<1>7. sock' = [sock EXCEPT ![p] = IF phase[p] = "left" THEN sock[p]
                                  ELSE sock[p] \o SubSeq(buf, 1, w)]
  BY DEF Flush, w
<1>8. CASE phase[p] = "left"
  <2>1. sock' = sock
    BY <1>1, <1>7, <1>8
  <2>2. SubSeq(buf, w + 1, Len(buf)) = <<>>
    BY <1>8, <1>3, <1>1, SubSeqEmpty
  <2>3. Rest(p, buf) = <<>> /\ <<>> \in Seq(Down) /\ Len(<<>>) = 0
    BY <2>2, <1>6, EmptySeq
  <2> QED
    BY <2>1, <2>3, <1>1, <1>8
<1>9. CASE phase[p] # "left"
  <2>1. sock'[p] = sock[p] \o SubSeq(buf, 1, w) /\ sock' \in [Conns -> Seq(Down)]
        /\ \A q \in Conns : q # p => sock'[q] = sock[q]
    BY <1>1, <1>5, <1>7, <1>9
  <2>2. sock'[p] \o Rest(p, buf) = sock[p] \o buf
    <3>1. \A s, a, b \in Seq(Down) : (s \o a) \o b = s \o (a \o b)
      BY ConcatAssociative
    <3>2. (sock[p] \o SubSeq(buf, 1, w)) \o SubSeq(buf, w + 1, Len(buf))
            = sock[p] \o (SubSeq(buf, 1, w) \o SubSeq(buf, w + 1, Len(buf)))
      BY <1>1, <1>4, <3>1
    <3> QED
      BY <3>2, <2>1, <1>4, <1>6, Zenon
  <2>3. ASSUME Flushed(p, buf) PROVE sock'[p] = sock[p] \o buf
    <3>1. w = Len(buf)
      BY <2>3 DEF Flushed, w
    <3>2. Rest(p, buf) = <<>>
      BY <3>1, <1>1, <1>6, SubSeqEmpty
    <3>3. sock'[p] \o <<>> = sock'[p]
      BY <2>1, <1>5, ConcatEmptySeq
    <3> QED
      BY <2>2, <3>2, <3>3
  <2>4. Len(sock'[p]) <= SockCap /\ Len(Rest(p, buf)) <= Len(buf)
    BY <2>1, <1>2, <1>4, <1>5, <1>6, <1>9, <1>1
  <2> QED
    BY <2>1, <2>2, <2>3, <2>4, <1>4, <1>6, <1>9
<1> QED
  BY <1>8, <1>9

\* The packets of the first frames of a buffer.
LEMMA PacketsType ==
  ASSUME TypeOK, NEW p \in Conns, NEW n \in 0..Len(up[p])
  PROVE  /\ Packets(p, n) \in Seq(InMsg) /\ Len(Packets(p, n)) = n
         /\ \A i \in 1..n : Packets(p, n)[i] = Msg(p, up[p][i].what)
<1>1. up[p] \in Seq(Upward) /\ Len(up[p]) \in Nat
  BY Types
<1>2. \A i \in 1..n : up[p][i] \in Upward
  BY <1>1, ElementOfSeq
<1>3. \A i \in 1..n : Msg(p, up[p][i].what) \in InMsg
  BY <1>2 DEF Msg, InMsg, Upward
<1>4. n \in Nat
  BY <1>1
<1> QED
  BY <1>3, <1>4 DEF Packets

\* What closing a connection leaves.
LEMMA CloseConnType ==
  ASSUME TypeOK, NEW p \in Conns, NEW packets \in Seq(InMsg), CloseConn(p, packets)
  PROVE  /\ chan' \in [Conns -> {"none", "open", "closing", "closed"}]
         /\ tx' \in [Conns -> Seq(Down)] /\ \A q \in Conns : Len(tx'[q]) <= TxCap
         /\ up' \in [Conns -> Seq(Upward)]
         /\ ready' \subseteq {q \in Conns : Live(q)'} \X {"r", "w"}
         /\ inq' \in Seq(InMsg)
<1>1. /\ tx \in [Conns -> Seq(Down)] /\ up \in [Conns -> Seq(Upward)] /\ inq \in Seq(InMsg)
      /\ \A q \in Conns : Len(tx[q]) \in 0..TxCap
  BY Types
<1>2. /\ chan \in [Conns -> {"none", "open", "closing", "closed"}]
      /\ ready \subseteq {q \in Conns : Live(q)} \X {"r", "w"}
  BY DEF TypeOK
<1>3. chan' \in [Conns -> {"none", "open", "closing", "closed"}]
  BY <1>2 DEF CloseConn
<1>4. /\ <<>> \in Seq(Down) /\ <<>> \in Seq(Upward) /\ Len(<<>>) = 0 /\ TxCap \in Nat
  BY EmptySeq, SessionConstants
<1>5. /\ tx' \in [Conns -> Seq(Down)] /\ up' \in [Conns -> Seq(Upward)]
      /\ \A q \in Conns : Len(tx'[q]) <= TxCap
  BY <1>1, <1>4 DEF CloseConn
<1>6. <<Msg(p, "Disconnected")>> \in Seq(InMsg)
  BY DEF Msg, InMsg
<1>7. inq \o packets \in Seq(InMsg)
  BY <1>1, ConcatProperties
<1>8. inq' \in Seq(InMsg)
  BY <1>6, <1>7, ConcatProperties DEF CloseConn
<1>9. ready' \subseteq {q \in Conns : Live(q)'} \X {"r", "w"}
  BY <1>2 DEF CloseConn, Live
<1> QED
  BY <1>3, <1>5, <1>8, <1>9

\* TypeOK, a part for each thread.
NetTypes ==
  /\ chan \in [Conns -> {"none", "open", "closing", "closed"}] /\ mode \in [Conns -> BOOLEAN]
  /\ tx \in [Conns -> Seq(Down)] /\ \A p \in Conns : Len(tx[p]) <= TxCap
  /\ net \in {"poll", "events", "queue", "exit", "over"}
  /\ ready \subseteq {p \in Conns : Live(p)} \X {"r", "w"}
PlayerTypes ==
  /\ state \in [Conns -> {"none", "Handshake", "Status", "Login", "Play"}]
  /\ name \in [Conns -> Names \cup {"none"}]
  /\ pending \in [Conns -> BOOLEAN] /\ age \in [Conns -> 0..TimeOut + 1]
TickTypes ==
  at \in {"drain", "timers", "join", "free in", "free out", "done"} /\ due \subseteq Conns
QueueTypes == inq \in Seq(InMsg) /\ outq \in Seq(OutMsg) /\ emit \in Seq(OutMsg)
ClientTypes ==
  /\ phase \in [Conns -> {"new", "hello", "login", "waiting", "play", "silent", "left"}]
  /\ ignored \in [Conns -> BOOLEAN] /\ cmode \in [Conns -> BOOLEAN]
WireTypes ==
  /\ sock \in [Conns -> Seq(Down)] /\ \A p \in Conns : Len(sock[p]) <= SockCap
  /\ up \in [Conns -> Seq(Upward)]

Typed == NetTypes /\ PlayerTypes /\ TickTypes /\ QueueTypes /\ ClientTypes /\ WireTypes

LEMMA TypeParts == (TypeOK <=> Typed) /\ (TypeOK <=> Typed)'
BY DEF Typed, TypeOK, NetTypes, PlayerTypes, TickTypes, QueueTypes, ClientTypes, WireTypes,
       InMsg, OutMsg, Frames, Down, Upward, Live

LEMMA SayType ==
  ASSUME NEW ph \in DOMAIN Says, NEW what \in DOMAIN Says[ph]
  PROVE  /\ ph \in {"hello", "login", "play"} /\ what \in Requests
         /\ Says[ph][what] \in {"login", "waiting", "silent"}
         /\ Says[ph][what] = "login" => ph = "hello" /\ what = "login"
         /\ Says[ph][what] = "waiting" => ph = "login" /\ what \in Names
         /\ what \in LastWords => ph # "play"
         /\ what # "alive"
<1>1. ph \in {"hello", "login", "play"}
  BY DEF Says
<1>2. CASE ph = "hello"
  BY <1>2, SessionConstants DEF Says, Requests, LastWords
<1>3. CASE ph = "play"
  BY <1>3, SessionConstants DEF Says, Requests, LastWords
<1>4. CASE ph = "login"
  BY <1>4, SessionConstants DEF Says, Requests, LastWords
<1> QED
  BY <1>1, <1>2, <1>3, <1>4
\* Parts whose variables a step leaves alone.
LEMMA SameTypes ==
  ASSUME Typed
  PROVE  /\ UNCHANGED <<channels, run>> => NetTypes'
         /\ UNCHANGED players => PlayerTypes'
         /\ UNCHANGED <<at, due>> => TickTypes'
         /\ UNCHANGED <<queues, emit>> => QueueTypes'
         /\ UNCHANGED peers => ClientTypes'
         /\ UNCHANGED wires => WireTypes'
BY DEF Typed, NetTypes, PlayerTypes, TickTypes, QueueTypes, ClientTypes, WireTypes,
       channels, run, players, queues, peers, wires, Live

LEMMA EraseType ==
  ASSUME PlayerTypes, NEW p \in Conns, Erase(p) PROVE PlayerTypes'
BY SessionConstants DEF PlayerTypes, Erase

LEMMA MsgType ==
  ASSUME NEW p \in Conns
  PROVE  /\ \A what \in Replies \cup {"EnableCompression", "Close"} : Msg(p, what) \in OutMsg
         /\ \A what \in Requests \cup {"Connected", "Disconnected"} : Msg(p, what) \in InMsg
         /\ \A what : Msg(p, what).conn = p /\ Msg(p, what).what = what
BY DEF Msg, OutMsg, InMsg

LEMMA WelcomeType == ASSUME NEW p \in Conns PROVE Welcome(p) \in Seq(OutMsg)
<1>1. Msg(p, "compression") \in OutMsg /\ Msg(p, "EnableCompression") \in OutMsg
      /\ Msg(p, "success") \in OutMsg
  BY MsgType DEF Replies
<1>2. /\ <<Msg(p, "compression"), Msg(p, "EnableCompression")>> \in Seq(OutMsg)
      /\ <<Msg(p, "success")>> \in Seq(OutMsg) /\ <<>> \in Seq(OutMsg)
  BY <1>1
<1> QED
  BY <1>2, ConcatProperties DEF Welcome

LEMMA KickType ==
  ASSUME PlayerTypes, NEW p \in Conns, Kick(p) PROVE PlayerTypes' /\ emit' \in Seq(OutMsg)
<1>1. Msg(p, "disconnect") \in OutMsg /\ Msg(p, "Close") \in OutMsg
  BY MsgType DEF Replies
<1>2. emit' \in Seq(OutMsg)
  BY <1>1 DEF Kick
<1> QED
  BY <1>2, EraseType DEF Kick

LEMMA PopInType ==
  ASSUME QueueTypes, NEW p \in Conns, NEW what, PopIn(p, what)
  PROVE  inq' \in Seq(InMsg) /\ outq' \in Seq(OutMsg) /\ emit = <<>>
BY HeadTailProperties DEF PopIn, QueueTypes

LEMMA PopOutType ==
  ASSUME QueueTypes, NEW p \in Conns, NEW kinds, PopOut(p, kinds)
  PROVE  outq' \in Seq(OutMsg) /\ emit' \in Seq(OutMsg)
BY HeadTailProperties DEF PopOut, QueueTypes, onTick

-------------------------------------------------------------------------------
(* Every step keeps the types.                                                 *)

LEMMA NetTypeNext == ASSUME TypeOK, NetThread PROVE Typed'
<1> USE DEF channels, run, queues, players, onTick, peers, wires
<1>0. Typed
  BY TypeParts
<1>0a. NetTypes /\ PlayerTypes /\ TickTypes /\ QueueTypes /\ ClientTypes /\ WireTypes
  BY <1>0 DEF Typed
<1>1. CASE Poll
  <2>1. NetTypes'
    BY <1>1, <1>0a DEF Poll, NetTypes, Readable, Writable, Live
  <2> QED
    BY <1>0, <1>1, <2>1, SameTypes DEF Typed, Poll
<1>2. CASE EventsEnd \/ QueueEnd \/ Leave \/ Over
  <2>1. NetTypes'
    BY <1>2, <1>0a DEF EventsEnd, QueueEnd, Leave, Over, NetTypes, Live
  <2> QED
    BY <1>0, <1>2, <2>1, SameTypes DEF Typed, EventsEnd, QueueEnd, Leave, Over
<1>3. ASSUME NEW p \in Conns, NEW n \in 1..Len(up[p]), Read(p, n) PROVE Typed'
  <2>1. NetTypes'
    BY <1>3, <1>0a DEF Read, NetTypes, Live
  <2>2. up[p] \in Seq(Upward) /\ Len(up[p]) \in Nat /\ n \in 0..Len(up[p])
    BY Types
  <2>3. SubSeq(up[p], n + 1, Len(up[p])) \in Seq(Upward)
    BY <2>2, Cut
  <2>4. WireTypes'
    BY <1>3, <1>0a, <2>3 DEF Read, WireTypes
  <2>5. Packets(p, n) \in Seq(InMsg)
    BY <2>2, PacketsType
  <2>6. QueueTypes'
    BY <1>3, <1>0a, <2>5, ConcatProperties DEF Read, QueueTypes
  <2> QED
    BY <1>0, <1>3, <2>1, <2>4, <2>6, SameTypes DEF Typed, Read
<1>4. ASSUME NEW p \in Conns, NEW packets \in Seq(InMsg), CloseConn(p, packets),
             UNCHANGED <<mode, net, players, at, due, emit, peers>>, outq' \in Seq(OutMsg),
             sock' \in [Conns -> Seq(Down)], \A q \in Conns : Len(sock'[q]) <= SockCap
      PROVE  Typed'
  <2>1. NetTypes'
    BY <1>4, <1>0a, CloseConnType DEF NetTypes
  <2>2. QueueTypes'
    BY <1>4, <1>0a, CloseConnType DEF QueueTypes
  <2>3. WireTypes'
    BY <1>4, <1>0a, CloseConnType DEF WireTypes
  <2> QED
    BY <1>0, <1>4, <2>1, <2>2, <2>3, SameTypes DEF Typed
<1>5. ASSUME NEW p \in Conns, NEW n \in 1..Len(up[p]), ReadCorrupt(p, n) PROVE Typed'
  <2>1. Len(up[p]) \in Nat /\ n - 1 \in 0..Len(up[p])
    BY Types
  <2>2. Packets(p, n - 1) \in Seq(InMsg)
    BY <2>1, PacketsType
  <2> QED
    BY <1>4, <1>5, <2>2, <1>0a DEF ReadCorrupt, QueueTypes, WireTypes
<1>6. ASSUME NEW p \in Conns, ReadEof(p) PROVE Typed'
  <2>1. Len(up[p]) \in 0..Len(up[p])
    BY Types
  <2>2. Packets(p, Len(up[p])) \in Seq(InMsg)
    BY <2>1, PacketsType
  <2> QED
    BY <1>4, <1>6, <2>2, <1>0a DEF ReadEof, QueueTypes, WireTypes
<1>7. <<>> \in Seq(InMsg)
  OBVIOUS
<1>8. ASSUME NEW p \in Conns, CloseLeft(p) PROVE Typed'
  BY <1>4, <1>7, <1>8, <1>0a DEF CloseLeft, QueueTypes, WireTypes
<1>9. ASSUME NEW p \in Conns, NEW buf \in Seq(Down), Flush(p, buf)
      PROVE  /\ sock' \in [Conns -> Seq(Down)] /\ \A q \in Conns : Len(sock'[q]) <= SockCap
             /\ Rest(p, buf) \in Seq(Down) /\ Len(Rest(p, buf)) <= Len(buf)
  <2>1. ASSUME NEW q \in Conns PROVE Len(sock'[q]) <= SockCap
    BY <1>9, FlushType, <1>0a DEF WireTypes
  <2> QED
    BY <1>9, <2>1, FlushType
<1>10. ASSUME NEW p \in Conns, NEW buf \in Seq(Down), Len(buf) <= TxCap, Flush(p, buf),
              tx' = [tx EXCEPT ![p] = Rest(p, buf)], chan' \in {chan, [chan EXCEPT ![p] = "closing"]},
              mode' = mode, net' = net, ready' \in SUBSET ready, Live(p),
              UNCHANGED <<inq, emit, players, at, due, peers, up>>, outq' \in Seq(OutMsg)
       PROVE  Typed'
  <2>1. /\ sock' \in [Conns -> Seq(Down)] /\ \A q \in Conns : Len(sock'[q]) <= SockCap
        /\ Rest(p, buf) \in Seq(Down) /\ Len(Rest(p, buf)) <= Len(buf)
    BY <1>9, <1>10
  <2>2. Len(Rest(p, buf)) <= TxCap
    <3>1. Len(Rest(p, buf)) \in Nat /\ Len(buf) \in Nat /\ TxCap \in Nat
      BY <2>1, LenProperties, SessionConstants
    <3> QED
      BY <3>1, <2>1, <1>10
  <2>3. tx' \in [Conns -> Seq(Down)] /\ \A q \in Conns : Len(tx'[q]) <= TxCap
    BY <2>1, <2>2, <1>10, <1>0a DEF NetTypes
  <2>4. /\ chan' \in [Conns -> {"none", "open", "closing", "closed"}]
        /\ \A q \in Conns : Live(q) => Live(q)'
    BY <1>10, <1>0a DEF NetTypes, Live
  <2>5. ready' \subseteq {q \in Conns : Live(q)'} \X {"r", "w"}
    BY <2>4, <1>10, <1>0a DEF NetTypes
  <2>6. NetTypes'
    BY <2>3, <2>4, <2>5, <1>10, <1>0a DEF NetTypes
  <2>7. QueueTypes'
    BY <1>10, <1>0a DEF QueueTypes
  <2>8. WireTypes'
    BY <1>10, <2>1, <1>0a DEF WireTypes
  <2> QED
    BY <1>0, <1>10, <2>6, <2>7, <2>8, SameTypes DEF Typed
<1>11. ASSUME NEW p \in Conns, Write(p) PROVE Typed'
  <2>1. tx[p] \in Seq(Down) /\ Len(tx[p]) <= TxCap /\ Live(p)
    BY <1>0a, <1>11 DEF NetTypes, Write
  <2>2. UNCHANGED <<mode, net, outq, players, at, due, emit, peers>> /\ outq' \in Seq(OutMsg)
    BY <1>11, <1>0a DEF Write, QueueTypes
  <2>3. CASE FlushFails(p, <<>>)
    BY <1>4, <1>7, <2>2, <2>3, <1>0a DEF FlushFails, WireTypes
  <2>4. CASE Flush(p, tx[p]) /\ CloseConn(p, <<>>)
    <3>1. sock' \in [Conns -> Seq(Down)] /\ \A q \in Conns : Len(sock'[q]) <= SockCap
      BY <1>9, <2>1, <2>4
    <3> QED
      BY <1>4, <1>7, <2>2, <2>4, <3>1
  <2>5. CASE /\ Flush(p, tx[p]) /\ tx' = [tx EXCEPT ![p] = Rest(p, @)]
             /\ ready' = ready \ {<<p, "w">>} /\ UNCHANGED <<chan, inq, up>>
    <3>1. tx' = [tx EXCEPT ![p] = Rest(p, tx[p])] /\ ready' \in SUBSET ready
          /\ chan' \in {chan, [chan EXCEPT ![p] = "closing"]}
      BY <2>5
    <3> QED
      BY <1>10, <2>1, <2>2, <2>5, <3>1
  <2> QED
    BY <1>11, <2>3, <2>4, <2>5 DEF Write
<1>12. ASSUME NEW p \in Conns, PopStale(p) PROVE Typed'
  <2>1. QueueTypes'
    BY <1>12, <1>0a, PopOutType DEF PopStale, QueueTypes
  <2> QED
    BY <1>0, <1>12, <2>1, SameTypes DEF Typed, PopStale, PopOut
<1>13. ASSUME NEW p \in Conns, PopSend(p) PROVE Typed'
  <2> DEFINE buf == Append(tx[p], [what |-> Head(outq).what, z |-> mode[p]])
  <2>1. PopOut(p, Replies) /\ Live(p)
    BY <1>13 DEF PopSend
  <2>2. /\ outq' \in Seq(OutMsg) /\ UNCHANGED <<mode, net, emit, players, at, due, peers>>
    BY <1>13, <2>1, <1>0a, PopOutType DEF PopOut, PopSend
  <2>3. [what |-> Head(outq).what, z |-> mode[p]] \in Down
    BY <2>1, <1>0a DEF PopOut, Down, NetTypes
  <2>4. tx[p] \in Seq(Down) /\ buf \in Seq(Down) /\ Len(buf) = Len(tx[p]) + 1
        /\ Len(tx[p]) \in Nat /\ TxCap \in Nat
    BY <2>3, AppendProperties, Types, SessionConstants
  <2> HIDE DEF buf
  <2>5. CASE CloseConn(p, <<>>) /\ UNCHANGED sock
    BY <1>4, <1>7, <2>2, <2>5, <1>0a DEF WireTypes
  <2>6. CASE Len(tx[p]) < TxCap /\ Flush(p, buf) /\ tx' = [tx EXCEPT ![p] = Rest(p, buf)]
             /\ UNCHANGED <<chan, ready, inq, up>>
    <3>1. Len(buf) <= TxCap /\ ready' \in SUBSET ready
          /\ chan' \in {chan, [chan EXCEPT ![p] = "closing"]}
      BY <2>4, <2>6
    <3> QED
      BY <1>10, <2>1, <2>2, <2>4, <2>6, <3>1
  <2> QED
    BY <1>13, <2>5, <2>6 DEF PopSend, FlushFails, buf
<1>14. ASSUME NEW p \in Conns, PopEnableCompression(p) PROVE Typed'
  <2>1. QueueTypes'
    BY <1>14, <1>0a, PopOutType DEF PopEnableCompression, QueueTypes
  <2>2. NetTypes'
    BY <1>14, <1>0a DEF PopEnableCompression, PopOut, NetTypes, Live
  <2> QED
    BY <1>0, <1>14, <2>1, <2>2, SameTypes DEF Typed, PopEnableCompression, PopOut
<1>15. ASSUME NEW p \in Conns, PopClose(p) PROVE Typed'
  <2>1. PopOut(p, {"Close"}) /\ Live(p)
    BY <1>15 DEF PopClose
  <2>2. /\ outq' \in Seq(OutMsg) /\ UNCHANGED <<mode, net, emit, players, at, due, peers>>
    BY <1>15, <2>1, <1>0a, PopOutType DEF PopOut, PopClose
  <2>3. tx[p] \in Seq(Down) /\ Len(tx[p]) <= TxCap
    BY <1>0a DEF NetTypes
  <2>4. CASE Flush(p, tx[p]) /\ CloseConn(p, <<>>)
    <3>1. sock' \in [Conns -> Seq(Down)] /\ \A q \in Conns : Len(sock'[q]) <= SockCap
      BY <1>9, <2>3, <2>4
    <3> QED
      BY <1>4, <1>7, <2>2, <2>4, <3>1
  <2>5. CASE /\ Flush(p, tx[p]) /\ chan' = [chan EXCEPT ![p] = "closing"]
             /\ tx' = [tx EXCEPT ![p] = Rest(p, @)] /\ UNCHANGED <<ready, inq, up>>
    <3>1. tx' = [tx EXCEPT ![p] = Rest(p, tx[p])] /\ ready' \in SUBSET ready
          /\ chan' \in {chan, [chan EXCEPT ![p] = "closing"]}
      BY <2>5
    <3> QED
      BY <1>10, <2>1, <2>2, <2>3, <2>5, <3>1
  <2>6. CASE chan' = [chan EXCEPT ![p] = "closing"] /\ UNCHANGED <<tx, ready, inq, wires>>
    <3>1. NetTypes'
      BY <2>1, <2>2, <2>6, <1>0a DEF NetTypes, Live
    <3>2. QueueTypes'
      BY <2>2, <2>6, <1>0a DEF QueueTypes
    <3> QED
      BY <1>0, <2>2, <2>6, <3>1, <3>2, SameTypes DEF Typed
  <2> QED
    BY <1>15, <2>4, <2>5, <2>6 DEF PopClose
<1> QED
  BY <1>1, <1>2, <1>3, <1>5, <1>6, <1>8, <1>11, <1>12, <1>13, <1>14, <1>15 DEF NetThread

LEMMA TickTypeNext == ASSUME TypeOK, TickThread PROVE Typed'
<1> USE DEF channels, run, queues, players, onTick, peers, wires
<1>0. Typed
  BY TypeParts
<1>0a. NetTypes /\ PlayerTypes /\ TickTypes /\ QueueTypes /\ ClientTypes /\ WireTypes
  BY <1>0 DEF Typed
<1>1. CASE Push
  <2>1. QueueTypes'
    BY <1>1, <1>0a, HeadTailProperties, AppendProperties DEF Push, QueueTypes
  <2> QED
    BY <1>0, <1>1, <2>1, SameTypes DEF Typed, Push
<1>2. CASE DrainEnd \/ Stop \/ Join
  <2>1. TickTypes'
    BY <1>2, <1>0a DEF DrainEnd, Stop, Join, TickTypes
  <2> QED
    BY <1>0, <1>2, <2>1, SameTypes DEF Typed, DrainEnd, Stop, Join
<1>3. CASE NextTick
  <2>1. TickTypes' /\ PlayerTypes'
    BY <1>3, <1>0a, SessionConstants DEF NextTick, TickTypes, PlayerTypes
  <2> QED
    BY <1>0, <1>3, <2>1, SameTypes DEF Typed, NextTick
<1>4. CASE Free
  <2>1. TickTypes' /\ QueueTypes'
    BY <1>4, <1>0a, HeadTailProperties DEF Free, TickTypes, QueueTypes
  <2> QED
    BY <1>0, <1>4, <2>1, SameTypes DEF Typed, Free
<1>5. ASSUME NEW p \in Conns, NEW what, PopIn(p, what), PlayerTypes', emit' \in Seq(OutMsg)
      PROVE  Typed'
  <2>1. QueueTypes'
    BY <1>5, <1>0a, PopInType DEF QueueTypes
  <2> QED
    BY <1>0, <1>5, <2>1, SameTypes DEF Typed, PopIn
<1>5a. emit \in Seq(OutMsg)
  BY <1>0a DEF QueueTypes
<1>6. ASSUME NEW p \in Conns, AddPlayer(p) PROVE Typed'
  <2>1. PlayerTypes' /\ emit' \in Seq(OutMsg)
    BY <1>6, <1>5a, <1>0a DEF AddPlayer, PlayerTypes
  <2> QED
    BY <1>5, <1>6, <2>1 DEF AddPlayer
<1>7. ASSUME NEW p \in Conns, RemovePlayer(p) PROVE Typed'
  BY <1>5, <1>7, <1>5a, <1>0a, EraseType DEF RemovePlayer
<1>8. ASSUME NEW p \in Conns, NEW what \in Requests, Ignore(p, what) PROVE Typed'
  <2>1. PlayerTypes' /\ emit' \in Seq(OutMsg)
    BY <1>8, <1>5a, <1>0, SameTypes DEF Ignore
  <2> QED
    BY <1>5, <1>8, <2>1 DEF Ignore
<1>9. ASSUME NEW p \in Conns, NEW what \in Requests, HandleHandshake(p, what) PROVE Typed'
  <2>1. PopIn(p, what)
    BY <1>9 DEF HandleHandshake
  <2>2. CASE what \in {"status", "login"} /\ UNCHANGED <<name, pending, age, emit>>
             /\ state' = [state EXCEPT ![p] = IF what = "status" THEN "Status" ELSE "Login"]
    <3>1. PlayerTypes' /\ emit' \in Seq(OutMsg)
      BY <2>2, <1>5a, <1>0a DEF PlayerTypes
    <3> QED
      BY <1>5, <2>1, <3>1
  <2>3. CASE Erase(p) /\ emit' = <<Msg(p, "Close")>>
    <3>1. Msg(p, "Close") \in OutMsg
      BY MsgType
    <3>2. emit' \in Seq(OutMsg)
      BY <2>3, <3>1
    <3> QED
      BY <1>5, <2>1, <2>3, <3>2, <1>0a, EraseType
  <2> QED
    BY <1>9, <2>2, <2>3 DEF HandleHandshake
<1>10. ASSUME NEW p \in Conns, NEW what \in Requests, HandleLogin(p, what) PROVE Typed'
  <2>1. PopIn(p, what)
    BY <1>10 DEF HandleLogin
  <2>2. CASE Kick(p)
    BY <1>5, <2>1, <2>2, <1>0a, KickType
  <2>3. CASE what \in Names /\ name' = [name EXCEPT ![p] = what] /\ UNCHANGED pending
             /\ state' = [state EXCEPT ![p] = "Play"] /\ age' = [age EXCEPT ![p] = 0]
             /\ emit' = Welcome(p)
    <3>1. PlayerTypes'
      BY <2>3, <1>0a, SessionConstants DEF PlayerTypes
    <3> QED
      BY <1>5, <2>1, <2>3, <3>1, WelcomeType
  <2> QED
    BY <1>10, <2>2, <2>3 DEF HandleLogin
<1>11. ASSUME NEW p \in Conns, NEW what \in Requests, HandlePlay(p, what) PROVE Typed'
  <2>1. PopIn(p, what)
    BY <1>11 DEF HandlePlay
  <2>2. CASE Kick(p)
    BY <1>5, <2>1, <2>2, <1>0a, KickType
  <2>3. CASE pending' = [pending EXCEPT ![p] = FALSE] /\ UNCHANGED <<state, name, age, emit>>
    <3>1. PlayerTypes' /\ emit' \in Seq(OutMsg)
      BY <2>3, <1>5a, <1>0a DEF PlayerTypes
    <3> QED
      BY <1>5, <2>1, <3>1
  <2> QED
    BY <1>11, <2>2, <2>3 DEF HandlePlay
<1>12. ASSUME NEW p \in Conns, Timer(p) PROVE Typed'
  <2>1. /\ due' = due \ {p} /\ UNCHANGED <<channels, run, queues, at, peers, wires>>
    BY <1>12 DEF Timer
  <2>2. TickTypes'
    BY <2>1, <1>0a DEF TickTypes
  <2>3. PlayerTypes' /\ emit' \in Seq(OutMsg)
    <3>1. CASE /\ pending' = [pending EXCEPT ![p] = TRUE] /\ age' = [age EXCEPT ![p] = 0]
               /\ emit' = <<Msg(p, "keepalive")>> /\ UNCHANGED <<state, name>>
      <4>1. Msg(p, "keepalive") \in OutMsg
        BY MsgType DEF Replies
      <4>2. emit' \in Seq(OutMsg)
        BY <3>1, <4>1
      <4> QED
        BY <3>1, <4>2, <1>0a, SessionConstants DEF PlayerTypes
    <3>2. CASE Kick(p)
      BY <3>2, <1>0a, KickType
    <3>3. CASE UNCHANGED <<players, emit>>
      BY <3>3, <1>0, <1>5a, SameTypes
    <3> QED
      BY <1>12, <3>1, <3>2, <3>3 DEF Timer
  <2>4. QueueTypes'
    BY <2>1, <2>3, <1>0a DEF QueueTypes
  <2> QED
    BY <1>0, <2>1, <2>2, <2>3, <2>4, SameTypes DEF Typed
<1> QED
  BY <1>1, <1>2, <1>3, <1>4, <1>6, <1>7, <1>8, <1>9, <1>10, <1>11, <1>12 DEF TickThread

LEMMA ClientTypeNext == ASSUME TypeOK, NEW p \in Conns, Client(p) PROVE Typed'
<1> USE DEF channels, run, queues, players, onTick, peers, wires
<1>0. Typed
  BY TypeParts
<1>0a. NetTypes /\ PlayerTypes /\ TickTypes /\ QueueTypes /\ ClientTypes /\ WireTypes
  BY <1>0 DEF Typed
<1>1. CASE Accept(p)
  <2>1. NetTypes' /\ ClientTypes'
    BY <1>1, <1>0a DEF Accept, NetTypes, ClientTypes, Live
  <2>2. Msg(p, "Connected") \in InMsg
    BY MsgType
  <2>3. QueueTypes'
    BY <1>1, <1>0a, <2>2, AppendProperties DEF Accept, QueueTypes
  <2> QED
    BY <1>0, <1>1, <2>1, <2>3, SameTypes DEF Typed, Accept
<1>2. CASE Say(p)
  <2>1. PICK what \in DOMAIN Says[phase[p]] :
          /\ phase' = [phase EXCEPT ![p] = Says[phase[p]][what]]
          /\ up' = [up EXCEPT ![p] = IF Live(p)
                                     THEN Append(@, [what |-> what, z |-> cmode[p]]) ELSE @]
    BY <1>2 DEF Say
  <2>2. what \in Requests /\ Says[phase[p]][what] \in {"login", "waiting", "silent"}
    BY <1>2, SayType DEF Say
  <2>3. ClientTypes'
    BY <1>2, <1>0a, <2>1, <2>2 DEF Say, ClientTypes
  <2>4. [what |-> what, z |-> cmode[p]] \in Upward
    BY <2>2, <1>0a DEF Upward, ClientTypes
  <2>5. Append(up[p], [what |-> what, z |-> cmode[p]]) \in Seq(Upward)
    BY <2>4, <1>0a, AppendProperties DEF WireTypes
  <2>6. WireTypes'
    BY <1>2, <1>0a, <2>1, <2>5 DEF Say, WireTypes
  <2> QED
    BY <1>0, <1>2, <2>3, <2>6, SameTypes DEF Typed, Say
<1>3. CASE Hear(p)
  <2>1. sock[p] # <<>> /\ sock[p] \in Seq(Down) /\ Len(sock[p]) \in Nat /\ Len(sock[p]) <= SockCap
    BY <1>3, Types, <1>0a DEF Hear, WireTypes
  <2>2. Head(sock[p]) \in Down /\ Tail(sock[p]) \in Seq(Down)
        /\ Len(Tail(sock[p])) = Len(sock[p]) - 1 /\ SockCap \in Nat
    BY <2>1, HeadTailProperties, SessionConstants
  <2>3. ClientTypes'
    BY <1>3, <1>0a DEF Hear, ClientTypes
  <2>4. [what |-> "alive", z |-> cmode[p]] \in Upward
    BY <1>0a DEF Upward, ClientTypes, Requests
  <2>5. Append(up[p], [what |-> "alive", z |-> cmode[p]]) \in Seq(Upward)
    BY <2>4, <1>0a, AppendProperties DEF WireTypes
  <2>6. Len(Tail(sock[p])) <= SockCap
    BY <2>1, <2>2
  <2>7. sock' \in [Conns -> Seq(Down)] /\ \A q \in Conns : Len(sock'[q]) <= SockCap
    BY <1>3, <1>0a, <2>2, <2>6 DEF Hear, WireTypes
  <2>8. up' \in [Conns -> Seq(Upward)]
    BY <1>3, <1>0a, <2>5 DEF Hear, WireTypes
  <2> QED
    BY <1>0, <1>3, <2>3, <2>7, <2>8, SameTypes DEF Typed, Hear, WireTypes
<1>4. CASE GoSilent(p)
  <2>1. ClientTypes'
    BY <1>4, <1>0a DEF GoSilent, ClientTypes
  <2> QED
    BY <1>0, <1>4, <2>1, SameTypes DEF Typed, GoSilent
<1>5. CASE HangUp(p)
  <2>1. ClientTypes'
    BY <1>5, <1>0a DEF HangUp, ClientTypes
  <2>2. <<>> \in Seq(Down) /\ <<>> \in Seq(Upward) /\ Len(<<>>) = 0 /\ SockCap \in Nat
    BY EmptySeq, SessionConstants
  <2>3. sock' \in [Conns -> Seq(Down)] /\ \A q \in Conns : Len(sock'[q]) <= SockCap
    BY <1>5, <2>2, <1>0a DEF HangUp, WireTypes
  <2>4. up' \in [Conns -> Seq(Upward)]
    BY <1>5, <2>2, <1>0a DEF HangUp, WireTypes
  <2> QED
    BY <1>0, <1>5, <2>1, <2>3, <2>4, SameTypes DEF Typed, HangUp, WireTypes
<1> QED
  BY <1>1, <1>2, <1>3, <1>4, <1>5 DEF Client

LEMMA TypeInit == Init => TypeOK
<1> SUFFICES ASSUME Init PROVE TypeOK
  OBVIOUS
<1>1. <<>> \in Seq(Down) /\ <<>> \in Seq(Upward) /\ <<>> \in Seq(InMsg) /\ <<>> \in Seq(OutMsg)
      /\ Len(<<>>) = 0 /\ TxCap \in Nat /\ SockCap \in Nat /\ TimeOut \in Nat
  BY EmptySeq, SessionConstants
<1>2. NetTypes /\ PlayerTypes /\ TickTypes /\ QueueTypes /\ ClientTypes /\ WireTypes
  BY <1>1 DEF Init, NetTypes, PlayerTypes, TickTypes, QueueTypes, ClientTypes, WireTypes, Live
<1> QED
  BY <1>2, TypeParts DEF Typed

LEMMA TypeNext == TypeOK /\ [Next]_vars => TypeOK'
<1> SUFFICES ASSUME TypeOK, [Next]_vars PROVE TypeOK'
  OBVIOUS
<1>1. CASE UNCHANGED vars
  BY <1>1, TypeParts, SameTypes
     DEF vars, Typed, channels, run, queues, players, onTick, peers, wires
<1> QED
  BY <1>1, TypeParts, NetTypeNext, TickTypeNext, ClientTypeNext DEF Next

\* Every variable keeps its type: what waits in a buffer fits in it, and events
\* of the poller concern connections that are still there.
THEOREM TypeCorrect == Spec => []TypeOK
BY TypeInit, TypeNext, PTL DEF Spec

-------------------------------------------------------------------------------
(* What the steps do to the queues.                                            *)

\* A handler says e.
LEMMA EmitOutbox ==
  ASSUME TypeOK, emit = <<>>, outq' = outq, emit' \in Seq(OutMsg)
  PROVE  /\ Outbox' \in Seq(OutMsg) /\ Range(Outbox') = Range(Outbox) \cup Range(emit')
         /\ \A R : Ordered(Outbox, R) /\ Ordered(emit', R)
                   /\ (\A a \in Range(Outbox), b \in Range(emit') : <<a, b>> \in R)
                     => Ordered(Outbox', R)
<1>1. outq \in Seq(OutMsg) /\ outq \o <<>> = outq
  BY Types, ConcatEmptySeq
<1>2. Outbox = outq /\ Outbox' = outq \o emit'
  BY <1>1 DEF Outbox
<1>3. Outbox' \in Seq(OutMsg) /\ Range(Outbox') = Range(Outbox) \cup Range(emit')
  BY <1>1, <1>2, ConcatProperties, RangeConcatenation
<1>4. ASSUME NEW R, Ordered(Outbox, R), Ordered(emit', R),
             \A a \in Range(Outbox), b \in Range(emit') : <<a, b>> \in R
      PROVE  Ordered(Outbox', R)
  BY <1>1, <1>2, <1>4, OrderedConcat
<1> QED
  BY <1>3, <1>4

\* What a handler has to say and what it has pushed are one sequence.
LEMMA PushOutbox == ASSUME TypeOK, Push PROVE Outbox' = Outbox
<1>1. /\ outq \in Seq(OutMsg) /\ emit \in Seq(OutMsg) /\ emit # <<>>
      /\ outq' = Append(outq, Head(emit)) /\ emit' = Tail(emit)
  BY Types DEF Push
<1>2. /\ Head(emit) \in OutMsg /\ Tail(emit) \in Seq(OutMsg) /\ <<Head(emit)>> \in Seq(OutMsg)
  BY <1>1, HeadTailProperties
<1>3. Append(outq, Head(emit)) = outq \o <<Head(emit)>>
  BY <1>1, <1>2, AppendIsConcat
<1>4. emit = <<Head(emit)>> \o Tail(emit)
  BY <1>1, HeadThenTail
<1>5. \A s, a, b \in Seq(OutMsg) : (s \o a) \o b = s \o (a \o b)
  BY ConcatAssociative
<1>6. (outq \o <<Head(emit)>>) \o Tail(emit) = outq \o (<<Head(emit)>> \o Tail(emit))
  BY <1>1, <1>2, <1>5
<1> QED
  BY <1>1, <1>3, <1>4, <1>6, Zenon DEF Outbox

\* The first entry leaves the first of two sequences that follow each other.
LEMMA PopFront ==
  ASSUME NEW S, NEW q \in Seq(S), NEW e \in Seq(S), q # <<>>
  PROVE  /\ Head(q) \in S /\ Tail(q) \o e \in Seq(S)
         /\ Range(q \o e) = {Head(q)} \cup Range(Tail(q) \o e)
         /\ \A R : Ordered(q \o e, R) => /\ Ordered(Tail(q) \o e, R)
                                        /\ \A b \in Range(Tail(q) \o e) : <<Head(q), b>> \in R
<1>1. /\ Head(q) \in S /\ Tail(q) \in Seq(S) /\ Range(q) = {Head(q)} \cup Range(Tail(q))
  BY RangeTail
<1>2. Tail(q) \in Seq(S)
  BY <1>1
<1>3. /\ Tail(q) \o e \in Seq(S) /\ Range(Tail(q) \o e) = Range(Tail(q)) \cup Range(e)
  BY <1>2, ConcatProperties, RangeConcatenation
<1>4. Range(q \o e) = Range(q) \cup Range(e)
  BY RangeConcatenation
<1>5. ASSUME NEW R, Ordered(q \o e, R)
      PROVE  Ordered(Tail(q) \o e, R) /\ \A b \in Range(Tail(q) \o e) : <<Head(q), b>> \in R
  <2>1. /\ Ordered(q, R) /\ Ordered(e, R) /\ \A a \in Range(q), b \in Range(e) : <<a, b>> \in R
    BY <1>5, OrderedConcat
  <2>2. Ordered(Tail(q), R) /\ \A b \in Range(Tail(q)) : <<Head(q), b>> \in R
    BY <2>1, OrderedTail
  <2>3. Ordered(Tail(q) \o e, R)
    BY <1>1, <1>2, <2>1, <2>2, OrderedConcat
  <2> QED
    BY <2>1, <2>2, <2>3, <1>1, <1>3
<1> QED
  BY <1>1, <1>3, <1>4, <1>5

\* A message leaves the outbox.
LEMMA PopOutbox ==
  ASSUME TypeOK, outq # <<>>, outq' = Tail(outq), emit' = emit
  PROVE  /\ Head(outq) \in OutMsg /\ Outbox' \in Seq(OutMsg)
         /\ Range(Outbox) = {Head(outq)} \cup Range(Outbox')
         /\ \A R : Ordered(Outbox, R) => /\ Ordered(Outbox', R)
                                         /\ \A b \in Range(Outbox') : <<Head(outq), b>> \in R
BY Types, PopFront DEF Outbox

\* The client reads a frame.
LEMMA PopPipe ==
  ASSUME TypeOK, NEW p \in Conns, sock[p] # <<>>, sock'[p] = Tail(sock[p]), tx'[p] = tx[p]
  PROVE  /\ Head(sock[p]) \in Down /\ Range(Pipe(p)) = {Head(sock[p])} \cup Range(Pipe(p)')
         /\ \A R : Ordered(Pipe(p), R) =>
                 /\ Ordered(Pipe(p)', R)
                 /\ \A b \in Range(Pipe(p)') : <<Head(sock[p]), b>> \in R
BY Types, PopFront DEF Pipe

\* A message leaves the inbox.
LEMMA PopInbox ==
  ASSUME TypeOK, inq # <<>>, inq' = Tail(inq)
  PROVE  /\ Head(inq) \in InMsg /\ Range(inq) = {Head(inq)} \cup Range(inq')
         /\ \A R : Ordered(inq, R) => /\ Ordered(inq', R)
                                      /\ \A b \in Range(inq') : <<Head(inq), b>> \in R
BY Types, RangeTail, OrderedTail

\* Messages join the inbox.
LEMMA PushInbox ==
  ASSUME TypeOK, NEW e \in Seq(InMsg), inq' = inq \o e
  PROVE  /\ Range(inq') = Range(inq) \cup Range(e)
         /\ \A R : Ordered(inq, R) /\ Ordered(e, R)
                   /\ (\A a \in Range(inq), b \in Range(e) : <<a, b>> \in R)
                     => Ordered(inq', R)
BY Types, RangeConcatenation, OrderedConcat

\* What a step does not touch of a connection it keeps.
Untouched(c) ==
  /\ chan'[c] = chan[c] /\ mode'[c] = mode[c] /\ tx'[c] = tx[c] /\ sock'[c] = sock[c]
  /\ up'[c] = up[c] /\ state'[c] = state[c] /\ pending'[c] = pending[c]
  /\ phase'[c] = phase[c] /\ cmode'[c] = cmode[c] /\ ignored'[c] = ignored[c]

LEMMA Others ==
  ASSUME NEW c \in Conns, Session(c), Untouched(c), Ticking' => Ticking,
         \A m : m.conn = c => (m \in Range(inq') <=> m \in Range(inq)),
         \A m : m.conn = c => (m \in Range(Outbox') <=> m \in Range(Outbox)),
         Ordered(Outbox, Once(OutMsg, KeepAlives(c))) =>
           Ordered(Outbox', Once(OutMsg, KeepAlives(c))),
         Ordered(inq, Once(InMsg, Answers(c))) => Ordered(inq', Once(InMsg, Answers(c)))
  PROVE  Session(c)'
<1>1. \A w : Msg(c, w).conn = c
  BY DEF Msg
<1>2. Pipe(c)' = Pipe(c) /\ (Live(c)' <=> Live(c))
  BY DEF Pipe, Untouched, Live
<1>3. \A w : /\ Msg(c, w) \in Range(inq') <=> Msg(c, w) \in Range(inq)
             /\ Has(c, w)' <=> Has(c, w)
  BY <1>1 DEF Has
<1>4. Ends(c)'
  BY <1>2 DEF Session, Ends, Untouched
<1>5. News(c)'
  <2>1. News(c) /\ (\A w : Has(c, w)' <=> Has(c, w))
    BY <1>3 DEF Session
  <2>2. \A m \in Range(inq') :
          m.conn = c => /\ chan'[c] # "none"
                        /\ m.what = "Connected" => state'[c] = "none"
                        /\ m.what = "Disconnected" => chan'[c] = "closed"
    BY <2>1 DEF News, Untouched
  <2>3. /\ Ticking' /\ chan'[c] = "closed"
              /\ (state'[c] # "none" \/ Msg(c, "Connected") \in Range(inq'))
            => Msg(c, "Disconnected") \in Range(inq')
        /\ chan'[c] = "open" /\ state'[c] = "none"
            => Msg(c, "Connected") \in Range(inq') \/ Msg(c, "Close") \in Range(Outbox')
    BY <2>1, <1>3 DEF News, Untouched, Has
  <2> QED
    BY <2>2, <2>3 DEF News
<1>6. (Fresh(c) => Fresh(c)') /\ (LastWordIn(c)' <=> LastWordIn(c)) /\ (LastWordUp(c)' <=> LastWordUp(c))
  BY <1>3 DEF Fresh, LastWordIn, LastWordUp, Untouched
<1>7. Words(c)'
  BY <1>6 DEF Session, Words, Untouched
<1>8. (Told(c)' <=> Told(c)) /\ (Switching(c)' <=> Switching(c)) /\ (Hushed(c)' <=> Hushed(c))
  BY <1>2, <1>3 DEF Told, Switching, Hushed, Untouched
<1>9. Switches(c)'
  BY <1>2, <1>3, <1>8 DEF Session, Switches, Untouched
<1>10. phase'[c] # "left" => PipeFormat(c)'
  <2> SUFFICES ASSUME phase[c] # "left" PROVE PipeFormat(c)'
    BY DEF Untouched
  <2>1. PipeFormat(c)
    BY DEF Session
  <2>2. Ordered(Pipe(c)', DownOrder)
    BY <2>1, <1>2 DEF PipeFormat
  <2>3. Range(Pipe(c)') = Range(Pipe(c))
    BY <1>2
  <2>4. \A f \in Range(Pipe(c)') :
          /\ f.z => Told(c)'
          /\ ~f.z => ~cmode'[c]
          /\ f.what = "compression" => ~f.z
          /\ f.what \in {"compression", "success"} => Hushed(c)'
          /\ f.what = "success" => f.z = Compress /\ mode'[c] = Compress /\ ~Switching(c)'
    BY <2>1, <2>3, <1>8 DEF PipeFormat, Untouched
  <2>5. Live(c)' => \/ mode'[c] <=> Told(c)'
                    \/ ~mode'[c] /\ Told(c)' /\ Has(c, "EnableCompression")'
    BY <2>1, <1>2, <1>3, <1>8 DEF PipeFormat, Untouched
  <2> QED
    BY <2>2, <2>4, <2>5 DEF PipeFormat
<1>11. Alive(c)'
  <2>1. /\ InOutbox(c)' <=> InOutbox(c)
        /\ InInbox(c)' <=> InInbox(c)
        /\ InPipe(c)' <=> InPipe(c)
        /\ InUp(c)' <=> InUp(c)
    BY <1>1, <1>2 DEF InOutbox, InInbox, InPipe, InUp, Untouched
  <2>2. Alone(c) => Alone(c)'
    BY <2>1, <1>2 DEF Alone, Untouched, KeepAlives, Answers, Msg
  <2> QED
    BY <2>1, <2>2, <1>2 DEF Session, Alive, Untouched
<1> QED
  BY <1>4, <1>5, <1>7, <1>9, <1>10, <1>11 DEF Session

-------------------------------------------------------------------------------
(* Names, the stop sequence and the timer loop.                                *)

\* Only the tick thread has to do with players.
LEMMA NotTheTick ==
  ASSUME NetThread \/ (\E p \in Conns : Client(p))
  PROVE  UNCHANGED <<players, at, due, emit>>
BY DEF NetThread, Poll, EventsEnd, QueueEnd, Leave, Over, ReadEof, Write, Read, ReadCorrupt,
       CloseLeft, PopStale, PopSend, PopEnableCompression, PopClose, PopOut, Client, Accept,
       Say, Hear, GoSilent, HangUp, onTick

LEMMA UniqueNext == TypeOK /\ UniqueNames /\ [Next]_vars => UniqueNames'
<1> SUFFICES ASSUME TypeOK, UniqueNames, [Next]_vars PROVE UniqueNames'
  OBVIOUS
<1>0. /\ state \in [Conns -> {"none", "Handshake", "Status", "Login", "Play"}]
      /\ name \in [Conns -> Names \cup {"none"}]
  BY DEF TypeOK
<1>1. ASSUME UNCHANGED <<state, name>> PROVE UniqueNames'
  BY <1>1 DEF UniqueNames
<1>2. ASSUME NEW p \in Conns, name' \in {name, [name EXCEPT ![p] = "none"]},
             NEW st \in {"none", "Handshake", "Status", "Login"},
             state' = [state EXCEPT ![p] = st]
      PROVE  UniqueNames'
  BY <1>0, <1>2 DEF UniqueNames
<1>3. ASSUME NEW p \in Conns, Erase(p) PROVE UniqueNames'
  BY <1>2, <1>3 DEF Erase
<1>4. CASE NetThread \/ \E p \in Conns : Client(p)
  BY <1>1, <1>4, NotTheTick DEF players
<1>5. CASE UNCHANGED vars
  BY <1>1, <1>5 DEF vars, players
<1>6. CASE Push \/ DrainEnd \/ NextTick \/ Stop \/ Join \/ Free
  BY <1>1, <1>6 DEF Push, DrainEnd, NextTick, Stop, Join, Free, players
<1>7. ASSUME NEW p \in Conns, AddPlayer(p) \/ RemovePlayer(p) \/ Timer(p) PROVE UniqueNames'
  BY <1>1, <1>2, <1>3, <1>7 DEF AddPlayer, RemovePlayer, Timer, Kick, players
<1>8. ASSUME NEW p \in Conns, NEW what \in Requests,
             Ignore(p, what) \/ HandleHandshake(p, what) \/ HandlePlay(p, what)
      PROVE  UniqueNames'
  BY <1>1, <1>2, <1>3, <1>8 DEF Ignore, HandleHandshake, HandlePlay, Kick, players
<1>9. ASSUME NEW p \in Conns, NEW what \in Requests, HandleLogin(p, what) PROVE UniqueNames'
  <2>1. CASE Kick(p)
    BY <1>3, <2>1 DEF Kick
  <2>2. CASE /\ what \in Names /\ ~Taken(what)
             /\ name' = [name EXCEPT ![p] = what] /\ state' = [state EXCEPT ![p] = "Play"]
    BY <1>0, <2>2 DEF UniqueNames, Taken
  <2> QED
    BY <1>9, <2>1, <2>2 DEF HandleLogin
<1> QED
  BY <1>4, <1>5, <1>6, <1>7, <1>8, <1>9 DEF Next, TickThread

LEMMA TimerNext == TypeOK /\ TimerLoop /\ [Next]_vars => TimerLoop'
<1> SUFFICES ASSUME TypeOK, TimerLoop, [Next]_vars PROVE TimerLoop'
  OBVIOUS
<1>0. state \in [Conns -> {"none", "Handshake", "Status", "Login", "Play"}] /\ due \subseteq Conns
  BY DEF TypeOK
<1>1. ASSUME due' = due, at' = at, state' = state PROVE TimerLoop'
  BY <1>1 DEF TimerLoop
<1>2. ASSUME due' = due, at # "timers" \/ due = {} PROVE TimerLoop'
  BY <1>2 DEF TimerLoop
<1>3. CASE NetThread \/ \E p \in Conns : Client(p)
  BY <1>1, <1>3, NotTheTick DEF players
<1>4. CASE UNCHANGED vars
  BY <1>1, <1>4 DEF vars, players, onTick
<1>5. CASE Push
  BY <1>1, <1>5 DEF Push, players
<1>6. CASE NextTick \/ Stop \/ Join \/ Free
  BY <1>2, <1>6 DEF NextTick, Stop, Join, Free
<1>7. CASE DrainEnd
  BY <1>0, <1>7 DEF DrainEnd, TimerLoop, players
<1>8. ASSUME NEW p \in Conns, Timer(p) PROVE TimerLoop'
  <2>1. /\ due' = due \ {p} /\ at' = at /\ at = "timers"
        /\ state' = state \/ state' = [state EXCEPT ![p] = "none"]
    BY <1>8 DEF Timer, Kick, Erase, players
  <2> QED
    BY <1>0, <2>1 DEF TimerLoop
<1>9. ASSUME NEW p \in Conns, NEW what, PopIn(p, what) PROVE TimerLoop'
  BY <1>2, <1>9 DEF PopIn
<1>10. ASSUME NEW p \in Conns, AddPlayer(p) \/ RemovePlayer(p) PROVE TimerLoop'
  BY <1>9, <1>10 DEF AddPlayer, RemovePlayer
<1>11. ASSUME NEW p \in Conns, NEW what \in Requests,
              \/ Ignore(p, what) \/ HandleHandshake(p, what)
              \/ HandleLogin(p, what) \/ HandlePlay(p, what)
       PROVE  TimerLoop'
  BY <1>9, <1>11 DEF Ignore, HandleHandshake, HandleLogin, HandlePlay
<1> QED
  BY <1>3, <1>4, <1>5, <1>6, <1>7, <1>8, <1>10, <1>11 DEF Next, TickThread

LEMMA ShutdownNext == TypeOK /\ Shutdown /\ [Next]_vars => Shutdown'
<1> SUFFICES ASSUME TypeOK, Shutdown, [Next]_vars PROVE Shutdown'
  OBVIOUS
<1>0. /\ at \in {"drain", "timers", "join", "free in", "free out", "done"}
      /\ net \in {"poll", "events", "queue", "exit", "over"}
  BY DEF TypeOK
<1>1. ASSUME UNCHANGED <<net, chan, inq, outq, emit, at>> PROVE Shutdown'
  BY <1>1 DEF Shutdown, Live, Ticking
\* The net thread before its end.
<1>2. ASSUME net \in {"poll", "events", "queue"}, net' \in {"poll", "events", "queue"},
             UNCHANGED <<at, emit>>
      PROVE  Shutdown'
  BY <1>2 DEF Shutdown, Ticking
<1>3. CASE \/ Poll \/ EventsEnd \/ QueueEnd
           \/ \E p \in Conns :
                \/ ReadEof(p) \/ Write(p) \/ (\E n \in 1..Len(up[p]) : Read(p, n) \/ ReadCorrupt(p, n))
                \/ PopStale(p) \/ PopSend(p) \/ PopEnableCompression(p) \/ PopClose(p)
  <2>1. NetThread
    BY <1>3 DEF NetThread
  <2>2. UNCHANGED <<at, emit>>
    BY <2>1, NotTheTick
  <2>3. net \in {"poll", "events", "queue"} /\ net' \in {"poll", "events", "queue"}
    BY <1>3 DEF Poll, EventsEnd, QueueEnd, ReadEof, Write, Read, ReadCorrupt, PopStale,
                PopSend, PopEnableCompression, PopClose, PopOut
  <2> QED
    BY <1>2, <2>2, <2>3
<1>4. CASE Leave
  BY <1>4, <1>0 DEF Leave, Stopped, Shutdown, Ticking, channels, queues, onTick
<1>5. CASE Over
  BY <1>5, <1>0 DEF Over, Shutdown, Ticking, channels, queues, onTick, Live
<1>6. ASSUME NEW p \in Conns, CloseLeft(p) PROVE Shutdown'
  <2>1. net = "exit" /\ UNCHANGED <<net, at, emit>>
    BY <1>6 DEF CloseLeft, onTick
  <2> QED
    BY <2>1 DEF Shutdown, Ticking
<1>7. ASSUME NEW p \in Conns, Accept(p) PROVE Shutdown'
  <2>1. net = "events" /\ UNCHANGED <<net, at, emit>>
    BY <1>7 DEF Accept, run, onTick
  <2> QED
    BY <1>2, <2>1
<1>8. ASSUME NEW p \in Conns, Say(p) \/ Hear(p) \/ GoSilent(p) \/ HangUp(p) PROVE Shutdown'
  BY <1>1, <1>8 DEF Say, Hear, GoSilent, HangUp, channels, run, queues, onTick
\* The tick.
<1>9. ASSUME Ticking, Ticking', net' = net PROVE Shutdown'
  BY <1>9 DEF Shutdown, Ticking
<1>10. CASE Push
  <2>1. Ticking
    BY <1>10 DEF Push, Shutdown
  <2> QED
    BY <1>9, <1>10, <2>1 DEF Push, Ticking, run
<1>11. CASE DrainEnd \/ NextTick
  BY <1>9, <1>11 DEF DrainEnd, NextTick, Ticking, run
<1>12. ASSUME NEW p \in Conns, Timer(p) PROVE Shutdown'
  BY <1>9, <1>12 DEF Timer, Ticking, run
<1>13. ASSUME NEW p \in Conns, NEW what, PopIn(p, what) PROVE Shutdown'
  BY <1>9, <1>13 DEF PopIn, Ticking, run
<1>14. ASSUME NEW p \in Conns, AddPlayer(p) \/ RemovePlayer(p) PROVE Shutdown'
  BY <1>13, <1>14 DEF AddPlayer, RemovePlayer
<1>15. ASSUME NEW p \in Conns, NEW what \in Requests,
              \/ Ignore(p, what) \/ HandleHandshake(p, what)
              \/ HandleLogin(p, what) \/ HandlePlay(p, what)
       PROVE  Shutdown'
  BY <1>13, <1>15 DEF Ignore, HandleHandshake, HandleLogin, HandlePlay
<1>16. CASE Stop
  BY <1>16 DEF Stop, Shutdown, Ticking, channels, run, queues, Live
<1>17. CASE Join
  BY <1>17 DEF Join, Shutdown, Ticking, channels, run, queues, Live
<1>18. CASE Free
  BY <1>18 DEF Free, Shutdown, Ticking, channels, run, Live
<1>19. CASE UNCHANGED vars
  BY <1>1, <1>19 DEF vars, channels, run, queues, onTick
<1> QED
  BY <1>3, <1>4, <1>5, <1>6, <1>7, <1>8, <1>10, <1>11, <1>12, <1>14, <1>15, <1>16, <1>17,
     <1>18, <1>19 DEF Next, NetThread, TickThread, Client

-------------------------------------------------------------------------------
(* The clients.                                                                *)

LEMMA Domains ==
  ASSUME TypeOK
  PROVE  /\ DOMAIN chan = Conns /\ DOMAIN mode = Conns /\ DOMAIN tx = Conns
         /\ DOMAIN state = Conns /\ DOMAIN pending = Conns
         /\ DOMAIN phase = Conns /\ DOMAIN cmode = Conns /\ DOMAIN ignored = Conns
         /\ DOMAIN sock = Conns /\ DOMAIN up = Conns
         /\ \A c \in Conns : /\ mode[c] \in BOOLEAN /\ cmode[c] \in BOOLEAN
                             /\ pending[c] \in BOOLEAN /\ ignored[c] \in BOOLEAN
BY DEF TypeOK

\* A step that leaves connections and queues alone.
LEMMA QuietFlow ==
  ASSUME Flow, \A c \in Conns : Untouched(c), inq' = inq, Outbox' = Outbox, Ticking' => Ticking
  PROVE  Flow'
<1>1. ASSUME NEW c \in Conns PROVE Session(c)'
  BY Others DEF Flow
<1> QED
  BY <1>1 DEF Flow

\* Who was told nothing is in step with the server.
LEMMA FreshSession ==
  ASSUME NEW c \in Conns, Fresh(c)', phase'[c] # "play", \A f \in Range(up'[c]) : ~f.z,
         TypeOK'
  PROVE  Switches(c)' /\ PipeFormat(c)' /\ Alive(c)'
<1>1. \A w : ~Has(c, w)'
  BY DEF Fresh, Has, Msg
<1>2. Pipe(c)' = <<>>
  BY DEF Fresh, Pipe
<1>3. Range(Pipe(c)') = {} /\ Ordered(Pipe(c)', DownOrder)
  BY <1>2, RangeEmpty, OrderedEmpty
<1>4. ~Told(c)'
  BY <1>3 DEF Told, Fresh
<1>5. /\ mode'[c] = FALSE /\ cmode'[c] = FALSE
      /\ \A f \in Range(up'[c]) : f.z = FALSE
  <2>1. mode'[c] \in BOOLEAN /\ cmode'[c] \in BOOLEAN
    BY DEF TypeOK
  <2>2. \A f \in Range(up'[c]) : f \in Upward
    <3>1. up'[c] \in Seq(Upward)
      BY TypeParts DEF Typed, WireTypes
    <3> QED
      BY <3>1, RangeOfSeq
  <2> QED
    BY <2>1, <2>2 DEF Fresh, Upward
<1>6. Switches(c)'
  BY <1>1, <1>5 DEF Switches, Switching
<1>7. PipeFormat(c)'
  BY <1>3, <1>4, <1>5 DEF PipeFormat
<1> QED
  BY <1>6, <1>7 DEF Alive, Fresh

LEMMA AcceptFlow == ASSUME SessionInv, NEW p \in Conns, Accept(p) PROVE Flow'
<1> DEFINE m == Msg(p, "Connected")
<1>0. TypeOK /\ Flow /\ Session(p) /\ TypeOK'
  BY TypeNext DEF SessionInv, Flow, Next, Client
<1>1. /\ chan[p] = "none" /\ net = "events" /\ chan' = [chan EXCEPT ![p] = "open"]
      /\ phase' = [phase EXCEPT ![p] = "hello"] /\ inq' = Append(inq, m)
      /\ UNCHANGED <<mode, tx, outq, state, name, pending, at, emit, cmode, ignored, sock, up>>
  BY DEF Accept, players, onTick, wires
<1>2. m \in InMsg /\ <<m>> \in Seq(InMsg) /\ m.conn = p /\ m.what = "Connected"
  BY MsgType
<1>3. inq \in Seq(InMsg) /\ inq' = inq \o <<m>> /\ \A a \in Range(inq) : a \in InMsg
  BY <1>0, <1>1, <1>2, Types, AppendIsConcat, RangeOfSeq
<1>4. /\ Range(inq') = Range(inq) \cup {m}
      /\ \A R : Ordered(inq, R) /\ (\A a \in Range(inq) : <<a, m>> \in R) => Ordered(inq', R)
  <2>1. Range(<<m>>) = {m}
    BY RangeOne
  <2>2. \A R : Ordered(<<m>>, R)
    BY DEF Ordered
  <2> QED
    BY <1>0, <1>2, <1>3, <2>1, <2>2, PushInbox
<1>5. Outbox' = Outbox /\ (Ticking' <=> Ticking)
  BY <1>1 DEF Outbox, Ticking
<1>6. \A a \in Range(inq) : a.conn # p
  BY <1>0, <1>1 DEF Session, News
<1> HIDE DEF m
<1>7. Ordered(inq', InOrder)
  <2>1. \A a \in Range(inq) : <<a, m>> \in InOrder
    BY <1>2, <1>3, <1>6 DEF InOrder
  <2> QED
    BY <2>1, <1>0, <1>4 DEF Flow
<1>8. ASSUME NEW c \in Conns, c # p PROVE Session(c)'
  <2>1. Untouched(c)
    BY <1>0, <1>1, <1>8, Domains DEF Untouched
  <2>2. \A x : x.conn = c => (x \in Range(inq') <=> x \in Range(inq))
    BY <1>2, <1>4, <1>8
  <2>3. \A a \in Range(inq) : <<a, m>> \in Once(InMsg, Answers(c))
    BY <1>2, <1>3, <1>8 DEF Once, Answers, Msg
  <2>4. Ordered(inq, Once(InMsg, Answers(c))) => Ordered(inq', Once(InMsg, Answers(c)))
    BY <2>3, <1>4
  <2> QED
    BY <2>1, <2>2, <2>4, <1>0, <1>5, Others DEF Flow
<1>9. Session(p)'
  <2>1. /\ chan'[p] = "open" /\ phase'[p] = "hello" /\ phase[p] = "new" /\ state[p] = "none"
        /\ up[p] = <<>> /\ ~pending[p] /\ Fresh(p)
    <3>1. chan'[p] = "open" /\ phase'[p] = "hello"
      BY <1>0, <1>1, Domains
    <3>2. Ends(p) /\ Words(p)
      BY <1>0 DEF Session
    <3> QED
      BY <1>1, <3>1, <3>2 DEF Ends, Words, Live
  <2>2. Ends(p)'
    BY <1>1, <2>1 DEF Ends, Live
  <2>3. News(p)'
    BY <1>1, <1>2, <1>4, <1>6, <2>1 DEF News, m
  <2>4. Fresh(p)'
    <3>1. Msg(p, "alive") \notin Range(inq')
      BY <1>2, <1>4, <1>6 DEF Msg
    <3> QED
      BY <1>1, <1>5, <2>1, <3>1 DEF Fresh
  <2>5. Range(up'[p]) = {} /\ up'[p] = <<>>
    BY <1>1, <2>1, RangeEmpty
  <2>6. ~LastWordIn(p)' /\ ~LastWordUp(p)'
    <3>1. "Connected" \notin LastWords
      BY SessionConstants DEF LastWords
    <3> QED
      BY <3>1, <2>5, <1>2, <1>4, <1>6 DEF LastWordIn, LastWordUp
  <2>7. Words(p)'
    BY <2>4, <2>5, <2>6, OrderedEmpty DEF Words
  <2> QED
    BY <1>0, <2>1, <2>2, <2>3, <2>4, <2>5, <2>7, FreshSession DEF Session
<1> QED
  BY <1>0, <1>5, <1>7, <1>8, <1>9 DEF Flow

\* The pipe of a connection whose wire does not change.
LEMMA SamePipe ==
  ASSUME NEW c \in Conns, sock'[c] = sock[c], tx'[c] = tx[c], cmode'[c] = cmode[c]
  PROVE  Pipe(c)' = Pipe(c) /\ (Told(c)' <=> Told(c))
BY DEF Pipe, Told

\* A step of one connection that leaves the queues alone.
LEMMA OthersFlow ==
  ASSUME Flow, NEW p \in Conns, \A c \in Conns : c # p => Untouched(c),
         inq' = inq, Outbox' = Outbox, Ticking' => Ticking, Session(p)'
  PROVE  Flow'
<1>1. ASSUME NEW c \in Conns, c # p PROVE Session(c)'
  BY <1>1, Others DEF Flow
<1> QED
  BY <1>1 DEF Flow

\* What the client sends comes behind what it has sent.
LEMMA UpAppend ==
  ASSUME TypeOK, NEW p \in Conns, NEW f \in Upward, up'[p] = Append(up[p], f)
  PROVE  /\ Range(up'[p]) = Range(up[p]) \cup {f}
         /\ \A a \in Range(up[p]) : a \in Upward
         /\ \A R : Ordered(up[p], R) /\ (\A a \in Range(up[p]) : <<a, f>> \in R)
                     => Ordered(up'[p], R)
<1>1. up[p] \in Seq(Upward) /\ <<f>> \in Seq(Upward) /\ up'[p] = up[p] \o <<f>>
  BY Types, AppendIsConcat
<1>2. Range(<<f>>) = {f} /\ \A R : Ordered(<<f>>, R)
  BY RangeOne DEF Ordered
<1>3. Range(up'[p]) = Range(up[p]) \cup {f} /\ \A a \in Range(up[p]) : a \in Upward
  <2>1. Range(up[p] \o <<f>>) = Range(up[p]) \cup Range(<<f>>)
    <3>1. \A s, t \in Seq(Upward) : Range(s \o t) = Range(s) \cup Range(t)
      BY RangeConcatenation
    <3> QED
      BY <1>1, <3>1
  <2>2. \A a \in Range(up[p]) : a \in Upward
    BY <1>1, RangeOfSeq
  <2> QED
    BY <2>1, <2>2, <1>1, <1>2
<1>4. ASSUME NEW R, Ordered(up[p], R), \A a \in Range(up[p]) : <<a, f>> \in R
      PROVE  Ordered(up'[p], R)
  BY <1>1, <1>2, <1>4, OrderedConcat
<1> QED
  BY <1>3, <1>4

LEMMA SayFlow == ASSUME SessionInv, NEW p \in Conns, Say(p) PROVE Flow'
<1>0. TypeOK /\ Flow /\ Session(p) /\ TypeOK'
  BY TypeNext DEF SessionInv, Flow, Next, Client
<1>1. PICK what \in DOMAIN Says[phase[p]] :
        /\ phase' = [phase EXCEPT ![p] = Says[phase[p]][what]]
        /\ up' = [up EXCEPT ![p] = IF Live(p)
                                   THEN Append(@, [what |-> what, z |-> cmode[p]]) ELSE @]
  BY DEF Say
<1> DEFINE f == [what |-> what, z |-> cmode[p]]
<1>2. /\ phase[p] \in {"hello", "login", "play"} /\ what \in Requests
      /\ Says[phase[p]][what] \in {"login", "waiting", "silent"}
      /\ Says[phase[p]][what] = "login" => phase[p] = "hello" /\ what = "login"
      /\ what \in LastWords => phase[p] # "play"
      /\ what # "alive"
  BY SayType DEF Say
<1>3. UNCHANGED <<chan, mode, tx, inq, outq, state, pending, at, emit, cmode, ignored, sock>>
  BY DEF Say, channels, queues, players, onTick
<1>4. Outbox' = Outbox /\ (Ticking' <=> Ticking) /\ (Live(p)' <=> Live(p))
  BY <1>3 DEF Outbox, Ticking, Live
<1>5. ASSUME NEW c \in Conns, c # p PROVE Untouched(c)
  BY <1>0, <1>1, <1>3, <1>5, Domains DEF Untouched
<1>6. phase'[p] = Says[phase[p]][what] /\ phase'[p] \in {"login", "waiting", "silent"}
      /\ phase[p] # "left"
  BY <1>0, <1>1, <1>2, Domains
<1>7. f \in Upward /\ f.what = what /\ f.z = cmode[p]
  BY <1>0, <1>2, Domains DEF Upward
<1>8. /\ up'[p] = up[p] \/ (Live(p) /\ up'[p] = Append(up[p], f))
      /\ ~Live(p) => up'[p] = up[p]
  BY <1>0, <1>1, Domains
<1> HIDE DEF f
<1>9. /\ Range(up'[p]) \in {Range(up[p]), Range(up[p]) \cup {f}}
      /\ \A a \in Range(up[p]) : a \in Upward
      /\ \A R : Ordered(up[p], R) /\ (\A a \in Range(up[p]) : <<a, f>> \in R)
                  => Ordered(up'[p], R)
  <2>1. \A a \in Range(up[p]) : a \in Upward
    BY <1>0, Types, RangeOfSeq
  <2> QED
    BY <2>1, <1>0, <1>7, <1>8, UpAppend
<1>10. Ends(p) /\ News(p) /\ Words(p) /\ Switches(p) /\ PipeFormat(p) /\ Alive(p)
  BY <1>0, <1>6 DEF Session
<1>11. ~LastWordIn(p) /\ ~LastWordUp(p)
  BY <1>2, <1>10 DEF Words
<1>12. Ends(p)' /\ News(p)'
  <2>1. Ends(p)'
    BY <1>2, <1>3, <1>4, <1>6, <1>8, <1>10 DEF Ends
  <2> QED
    BY <2>1, <1>3, <1>4, <1>10 DEF News
<1>13. Ordered(up'[p], UpOrder)
  <2>1. \A a \in Range(up[p]) : <<a, f>> \in UpOrder
    BY <1>7, <1>9, <1>11 DEF LastWordUp, UpOrder
  <2> QED
    BY <2>1, <1>9, <1>10 DEF Words
<1>14. ~LastWordIn(p)' /\ (LastWordUp(p)' => what \in LastWords)
  BY <1>3, <1>7, <1>9, <1>11 DEF LastWordIn, LastWordUp
<1>15. CASE phase[p] \in {"hello", "login"}
  <2>1. Fresh(p)
    BY <1>10, <1>15 DEF Words
  <2>2. Fresh(p)'
    BY <1>2, <1>3, <1>4, <1>7, <1>9, <2>1 DEF Fresh
  <2>3. what \in LastWords => phase'[p] # "login"
    <3>1. "login" \notin LastWords
      BY SessionConstants DEF LastWords
    <3> QED
      BY <3>1, <1>2, <1>6
  <2>4. Words(p)'
    BY <2>2, <2>3, <1>6, <1>13, <1>14 DEF Words
  <2>5. \A g \in Range(up'[p]) : ~g.z
    BY <2>1, <1>7, <1>9, <1>10 DEF Switches, Fresh
  <2> QED
    BY <2>2, <2>4, <2>5, <1>0, <1>5, <1>3, <1>4, <1>6, <1>12, FreshSession, OthersFlow DEF Session
<1>16. CASE phase[p] = "play"
  <2>1. phase'[p] = "silent" /\ what \notin LastWords
    <3>1. Says[phase[p]][what] = "silent"
      BY <1>1, <1>16 DEF Says
    <3> QED
      BY <3>1, <1>2, <1>6, <1>16
  <2>2. Words(p)'
    BY <2>1, <1>13, <1>14 DEF Words
  <2>3. ~Hushed(p) /\ ~Switching(p) /\ mode[p] = Compress /\ cmode[p] = Compress
    BY <1>10, <1>16 DEF Hushed, Switches
  <2>4. \A w : Has(p, w)' <=> Has(p, w)
    BY <1>4 DEF Has
  <2>5. Pipe(p)' = Pipe(p) /\ (Told(p)' <=> Told(p)) /\ ~Switching(p)'
    BY <1>3, <2>3, <2>4, SamePipe DEF Switching
  <2>6. \A g \in Range(up'[p]) : g.z = mode'[p] /\ g.z = cmode'[p]
    BY <2>3, <1>3, <1>7, <1>9, <1>10 DEF Switches
  <2>7. Switches(p)'
    BY <2>1, <2>5, <2>6, <1>3 DEF Switches, Switching, Switch
  <2>8. PipeFormat(p)'
    <3>1. \A g \in Range(Pipe(p)) : g.what \notin {"compression", "success"}
      BY <2>3, <1>10 DEF PipeFormat
    <3>2. \A g \in Range(Pipe(p)') :
            (g.z => Told(p)') /\ (~g.z => ~cmode'[p]) /\ g.what \notin {"compression", "success"}
      BY <3>1, <2>5, <1>3, <1>10 DEF PipeFormat
    <3>3. Live(p)' => (mode'[p] <=> Told(p)')
      BY <2>3, <2>5, <1>3, <1>4, <1>10 DEF PipeFormat, Switching, Switch
    <3>4. Ordered(Pipe(p)', DownOrder)
      BY <2>5, <1>10 DEF PipeFormat
    <3> QED
      BY <3>2, <3>3, <3>4 DEF PipeFormat
  <2>9. Alive(p)'
    <3>1. Ordered(up[p], Once(Upward, Answering)) => Ordered(up'[p], Once(Upward, Answering))
      <4>1. \A a \in Range(up[p]) : <<a, f>> \in Once(Upward, Answering)
        BY <1>2, <1>7, <1>9 DEF Once, Answering
      <4> QED
        BY <4>1, <1>9
    <3>2. /\ InOutbox(p)' <=> InOutbox(p)
          /\ InInbox(p)' <=> InInbox(p)
          /\ InPipe(p)' <=> InPipe(p)
          /\ InUp(p)' <=> InUp(p)
      BY <1>2, <1>3, <1>4, <1>7, <1>9, <2>5 DEF InOutbox, InInbox, InPipe, InUp
    <3>3. Alone(p) => Alone(p)'
      BY <3>1, <3>2, <2>5, <1>3, <1>4 DEF Alone, KeepAlives, Answers, Msg
    <3> QED
      BY <3>2, <3>3, <1>3, <1>4, <1>6, <1>10 DEF Alive
  <2> QED
    BY <2>2, <2>7, <2>8, <2>9, <1>0, <1>5, <1>3, <1>4, <1>12, OthersFlow DEF Session
<1> QED
  BY <1>2, <1>15, <1>16

LEMMA HearFlow == ASSUME SessionInv, NEW p \in Conns, Hear(p) PROVE Flow'
<1> DEFINE h == Head(sock[p])
           f == [what |-> "alive", z |-> cmode[p]]
           answers == h.what = "keepalive" /\ phase[p] = "play" /\ Live(p)
<1>0. TypeOK /\ Flow /\ Session(p) /\ TypeOK'
  BY TypeNext DEF SessionInv, Flow, Next, Client
<1>1. /\ phase[p] # "left" /\ sock[p] # <<>>
      /\ sock' = [sock EXCEPT ![p] = Tail(@)]
      /\ cmode' = [cmode EXCEPT ![p] = @ \/ h.what = "compression"]
      /\ phase' = [phase EXCEPT ![p] = IF @ = "waiting" /\ h.what = "success"
                                       THEN "play" ELSE @]
      /\ up' = [up EXCEPT ![p] = IF answers THEN Append(@, f) ELSE @]
      /\ ignored' = [ignored EXCEPT ![p] = @ \/ (h.what = "keepalive" /\ phase[p] # "play")]
  BY DEF Hear
<1>2. UNCHANGED <<chan, mode, tx, inq, outq, state, pending, at, emit>>
  BY DEF Hear, channels, queues, players, onTick
<1>3. Outbox' = Outbox /\ (Ticking' <=> Ticking) /\ (Live(p)' <=> Live(p))
  BY <1>2 DEF Outbox, Ticking, Live
<1>4. ASSUME NEW c \in Conns, c # p PROVE Untouched(c)
  BY <1>0, <1>1, <1>2, <1>4, Domains DEF Untouched
<1>5. /\ sock'[p] = Tail(sock[p]) /\ cmode'[p] = (cmode[p] \/ h.what = "compression")
      /\ phase'[p] = IF phase[p] = "waiting" /\ h.what = "success" THEN "play" ELSE phase[p]
      /\ up'[p] = IF answers THEN Append(up[p], f) ELSE up[p]
      /\ ignored'[p] <=> ignored[p] \/ (h.what = "keepalive" /\ phase[p] # "play")
  BY <1>0, <1>1, Domains
<1>6. phase'[p] # "left"
  BY <1>1, <1>5
<1>7. Ends(p) /\ News(p) /\ Words(p) /\ Switches(p) /\ PipeFormat(p) /\ Alive(p)
  BY <1>0, <1>1 DEF Session
<1>8. /\ h \in Down /\ Range(Pipe(p)) = {h} \cup Range(Pipe(p)')
      /\ \A R : Ordered(Pipe(p), R) => /\ Ordered(Pipe(p)', R)
                                       /\ \A b \in Range(Pipe(p)') : <<h, b>> \in R
  BY <1>0, <1>1, <1>2, <1>5, PopPipe
<1>9. f \in Upward /\ f.what = "alive" /\ f.z = cmode[p]
  BY <1>0, Domains DEF Upward, Requests
<1>10. /\ Range(up'[p]) = Range(up[p]) \cup (IF answers THEN {f} ELSE {})
       /\ \A a \in Range(up[p]) : a \in Upward
       /\ \A R : Ordered(up[p], R) /\ (answers => \A a \in Range(up[p]) : <<a, f>> \in R)
                   => Ordered(up'[p], R)
  <2>1. \A a \in Range(up[p]) : a \in Upward
    BY <1>0, Types, RangeOfSeq
  <2> QED
    BY <2>1, <1>0, <1>5, <1>9, UpAppend
<1>11. ~Fresh(p)
  BY <1>1 DEF Fresh
<1>12. ~LastWordIn(p) /\ ~LastWordUp(p) /\ phase[p] \notin {"new", "hello", "login"}
  BY <1>7, <1>11 DEF Words
<1>13. "alive" \notin LastWords
  BY SessionConstants DEF LastWords
<1> HIDE DEF h, f
<1>14. ~LastWordIn(p)' /\ ~LastWordUp(p)'
  BY <1>2, <1>9, <1>10, <1>12, <1>13 DEF LastWordIn, LastWordUp
<1>15. Words(p)'
  <2>1. Ordered(up'[p], UpOrder)
    <3>1. \A a \in Range(up[p]) : <<a, f>> \in UpOrder
      BY <1>9, <1>10, <1>12 DEF UpOrder, LastWordUp
    <3> QED
      BY <3>1, <1>7, <1>10 DEF Words
  <2> QED
    BY <2>1, <1>5, <1>12, <1>14 DEF Words
<1>16. Ends(p)' /\ News(p)'
  <2>1. Ends(p)'
    <3>1. ~Live(p) => ~answers
      BY DEF answers
    <3>2. chan[p] # "none"
      BY <1>7, <1>12 DEF Ends
    <3> QED
      BY <3>1, <3>2, <1>2, <1>3, <1>5, <1>6, <1>7 DEF Ends
  <2> QED
    BY <2>1, <1>2, <1>3, <1>7 DEF News
\* The switch.
<1>17. /\ \A w : Has(p, w)' <=> Has(p, w)
       /\ Switching(p)' <=> Switching(p)
  BY <1>3 DEF Has, Switching
<1>18. Told(p)' <=> Told(p)
  BY <1>5, <1>8 DEF Told
<1>19. h.what = "compression" => ~cmode[p] /\ Hushed(p)
  BY <1>7, <1>8 DEF PipeFormat
<1>20. ~Has(p, "compression")
  BY <1>1, <1>7 DEF Switches
<1>21. h.z = cmode[p]
  <2>1. CASE h.z
    <3>1. Told(p) /\ h.what # "compression"
      BY <2>1, <1>7, <1>8 DEF PipeFormat
    <3>2. ASSUME NEW g \in Range(Pipe(p)'), g.what = "compression" PROVE FALSE
      <4>1. <<h, g>> \in DownOrder
        BY <1>7, <1>8 DEF PipeFormat
      <4> QED
        BY <2>1, <3>2, <4>1 DEF DownOrder
    <3>3. cmode[p]
      BY <3>1, <3>2, <1>8 DEF Told
    <3> QED
      BY <2>1, <3>3, <1>0, <1>8, Domains DEF Down
  <2>2. CASE ~h.z
    BY <2>2, <1>0, <1>7, <1>8, Domains DEF PipeFormat, Down
  <2> QED
    BY <2>1, <2>2
<1>22. Hushed(p) /\ phase'[p] # "play" => Hushed(p)'
  BY <1>5 DEF Hushed, answers
<1>23. phase'[p] = "play" =>
         /\ ~Switching(p) /\ mode[p] = Compress /\ cmode[p] = Compress
         /\ \A g \in Range(Pipe(p)') : g.what \notin {"compression", "success"}
         /\ h.what # "compression"
  <2>1. CASE phase[p] = "play"
    <3>1. ~Hushed(p)
      BY <2>1 DEF Hushed
    <3> QED
      BY <3>1, <2>1, <1>7, <1>8 DEF Switches, PipeFormat
  <2>2. CASE h.what = "success"
    <3>1. ~Switching(p) /\ mode[p] = Compress /\ h.z = Compress
      BY <2>2, <1>7, <1>8 DEF PipeFormat
    <3>2. ASSUME NEW g \in Range(Pipe(p)') PROVE g.what \notin {"compression", "success"}
      <4>1. <<h, g>> \in DownOrder
        BY <1>7, <1>8 DEF PipeFormat
      <4> QED
        BY <2>2, <4>1 DEF DownOrder
    <3> QED
      BY <2>2, <3>1, <3>2, <1>21
  <2> QED
    BY <2>1, <2>2, <1>5
<1>24. \A g \in Range(up'[p]) : g.z = mode'[p] /\ g.z = cmode'[p]
  <2>1. CASE h.what = "compression"
    <3>1. up'[p] = <<>>
      BY <2>1, <1>5, <1>19 DEF Hushed, answers
    <3> QED
      BY <3>1, RangeEmpty
  <2>2. CASE h.what # "compression"
    <3>1. cmode'[p] = cmode[p]
      BY <2>2, <1>0, <1>5, Domains
    <3>2. answers => phase[p] = "play"
      BY DEF answers
    <3> QED
      BY <3>1, <3>2, <1>2, <1>7, <1>9, <1>10 DEF Switches
  <2> QED
    BY <2>1, <2>2
<1>25. Switches(p)'
  <2>1. Switching(p)' => Hushed(p)'
    BY <1>7, <1>17, <1>22, <1>23 DEF Switches
  <2>2. phase'[p] = "play" => cmode'[p] = Compress
    BY <1>0, <1>5, <1>23, Domains
  <2>3. Has(p, "EnableCompression")' =>
          /\ Compress /\ ~mode'[p]
          /\ Has(p, "compression")' \/ (Live(p)' /\ phase'[p] # "left" => Told(p)')
    BY <1>1, <1>2, <1>3, <1>7, <1>17, <1>18 DEF Switches
  <2>4. Has(p, "success")' /\ Live(p)' => mode'[p] = Compress \/ Has(p, "EnableCompression")'
    BY <1>2, <1>3, <1>7, <1>17 DEF Switches
  <2>5. ~Has(p, "compression")' /\ (phase'[p] = "play" => mode'[p] = Compress)
    BY <1>2, <1>17, <1>20, <1>23
  <2> QED
    BY <2>1, <2>2, <2>3, <2>4, <2>5, <1>24 DEF Switches
<1>26. PipeFormat(p)'
  <2>1. Ordered(Pipe(p)', DownOrder)
    BY <1>7, <1>8 DEF PipeFormat
  <2>2. ASSUME NEW g \in Range(Pipe(p)')
        PROVE  /\ g.z => Told(p)'
               /\ ~g.z => ~cmode'[p]
               /\ g.what = "compression" => ~g.z
               /\ g.what \in {"compression", "success"} => Hushed(p)'
               /\ g.what = "success" => g.z = Compress /\ mode'[p] = Compress /\ ~Switching(p)'
    <3>1. g \in Range(Pipe(p)) /\ <<h, g>> \in DownOrder
      BY <1>7, <1>8 DEF PipeFormat
    <3>2. h.what = "compression" => g.z
      BY <3>1 DEF DownOrder
    <3>3. ~g.z => ~cmode'[p]
      BY <3>1, <3>2, <1>5, <1>7 DEF PipeFormat
    <3>4. g.what \in {"compression", "success"} => Hushed(p)'
      BY <3>1, <1>7, <1>22, <1>23 DEF PipeFormat
    <3> QED
      BY <3>1, <3>3, <3>4, <1>2, <1>7, <1>17, <1>18 DEF PipeFormat
  <2>3. Live(p)' => \/ mode'[p] <=> Told(p)'
                    \/ ~mode'[p] /\ Told(p)' /\ Has(p, "EnableCompression")'
    BY <1>2, <1>3, <1>7, <1>17, <1>18 DEF PipeFormat
  <2> QED
    BY <2>1, <2>2, <2>3 DEF PipeFormat
\* The keepalives.
<1>27. Alive(p)'
  <2> SUFFICES ASSUME state[p] = "Play" PROVE Alive(p)'
    BY <1>2 DEF Alive
  <2>1. Alone(p) /\ (InOutbox(p) \/ InPipe(p) \/ InUp(p) \/ InInbox(p) => pending[p])
        /\ (Live(p) /\ phase[p] # "left" /\ ~ignored[p] /\ pending[p]
              => InOutbox(p) \/ InPipe(p) \/ InUp(p) \/ InInbox(p))
    BY <1>7 DEF Alive
  <2>2. (InOutbox(p)' <=> InOutbox(p)) /\ (InInbox(p)' <=> InInbox(p))
    BY <1>2, <1>3 DEF InOutbox, InInbox
  <2>3. InUp(p)' <=> InUp(p) \/ answers
    BY <1>9, <1>10 DEF InUp
  <2>4. InPipe(p) <=> InPipe(p)' \/ h.what = "keepalive"
    BY <1>8 DEF InPipe
  <2>5. h.what = "keepalive" => ~InPipe(p)' /\ ~InUp(p) /\ ~InInbox(p) /\ ~InOutbox(p)
    <3>1. ASSUME h.what = "keepalive", NEW g \in Range(Pipe(p)'), g.what = "keepalive" PROVE FALSE
      <4>1. <<h, g>> \in Once(Down, Asking)
        BY <2>1, <1>8 DEF Alone
      <4>2. g \in Down
        BY <4>1 DEF Once
      <4> QED
        BY <3>1, <4>1, <4>2, <1>8 DEF Once, Asking
    <3> QED
      BY <3>1, <2>1, <2>4 DEF Alone, InPipe
  <2>6. Ordered(up'[p], Once(Upward, Answering))
    <3>1. answers => \A a \in Range(up[p]) : <<a, f>> \in Once(Upward, Answering)
      <4>1. answers => \A a \in Range(up[p]) : a.what # "alive"
        BY <2>5 DEF InUp, answers
      <4> QED
        BY <4>1, <1>9, <1>10 DEF Once, Answering
    <3> QED
      BY <3>1, <2>1, <1>10 DEF Alone
  <2>7. Ordered(Pipe(p)', Once(Down, Asking))
    BY <2>1, <1>8 DEF Alone
  <2>8. answers => h.what = "keepalive"
    BY DEF answers
  <2>9. Alone(p)'
    BY <2>1, <2>2, <2>3, <2>4, <2>5, <2>6, <2>7, <2>8, <1>2, <1>3 DEF Alone, KeepAlives, Answers, Msg
  <2>10. InOutbox(p)' \/ InPipe(p)' \/ InUp(p)' \/ InInbox(p)' => pending'[p]
    BY <2>1, <2>2, <2>3, <2>4, <2>8, <1>2
  <2>11. Live(p) /\ ~ignored'[p] /\ h.what = "keepalive" => answers
    BY <1>5 DEF answers
  <2>12. Live(p)' /\ phase'[p] # "left" /\ ~ignored'[p] /\ pending'[p]
           => InOutbox(p)' \/ InPipe(p)' \/ InUp(p)' \/ InInbox(p)'
    BY <2>1, <2>2, <2>3, <2>4, <2>11, <1>1, <1>2, <1>3, <1>5
  <2> QED
    BY <2>9, <2>10, <2>12 DEF Alive
<1> QED
  BY <1>0, <1>2, <1>3, <1>4, <1>15, <1>16, <1>25, <1>26, <1>27, OthersFlow DEF Session

LEMMA HangUpFlow == ASSUME SessionInv, NEW p \in Conns, GoSilent(p) \/ HangUp(p) PROVE Flow'
<1>0. TypeOK /\ Flow /\ Session(p) /\ TypeOK'
  BY TypeNext DEF SessionInv, Flow, Next, Client
<1>1. /\ UNCHANGED <<chan, mode, tx, inq, outq, state, pending, at, emit, cmode, ignored>>
      /\ phase[p] \notin {"new", "left"}
  BY DEF GoSilent, HangUp, channels, queues, players, onTick, wires
<1>2. Outbox' = Outbox /\ (Ticking' <=> Ticking) /\ (Live(p)' <=> Live(p))
  BY <1>1 DEF Outbox, Ticking, Live
<1>3. ASSUME NEW c \in Conns, c # p PROVE Untouched(c)
  BY <1>0, <1>1, <1>3, Domains DEF Untouched, GoSilent, HangUp, wires
<1>4. Ends(p) /\ News(p) /\ Words(p) /\ Switches(p) /\ PipeFormat(p) /\ Alive(p)
  BY <1>0, <1>1 DEF Session
<1>5. \A w : Has(p, w)' <=> Has(p, w)
  BY <1>2 DEF Has
<1>6. \/ phase'[p] = "silent" /\ up'[p] = up[p] /\ sock'[p] = sock[p]
      \/ phase'[p] = "left" /\ up'[p] \in {up[p], <<>>} /\ sock'[p] = <<>>
  BY <1>0, <1>1, Domains DEF GoSilent, HangUp, wires
<1>7. /\ Range(up'[p]) = Range(up[p]) \/ Range(up'[p]) = {}
      /\ \A R : Ordered(up[p], R) => Ordered(up'[p], R)
  BY <1>6, RangeEmpty, OrderedEmpty
<1>8. Ends(p)' /\ News(p)'
  <2>1. Ends(p)'
    BY <1>1, <1>2, <1>4, <1>6 DEF Ends
  <2> QED
    BY <2>1, <1>1, <1>2, <1>4 DEF News
<1>9. Words(p)'
  <2>1. Fresh(p) => Fresh(p)'
    BY <1>1, <1>2, <1>6, <1>7 DEF Fresh
  <2>2. (LastWordIn(p)' <=> LastWordIn(p)) /\ (LastWordUp(p)' => LastWordUp(p))
    BY <1>1, <1>7 DEF LastWordIn, LastWordUp
  <2> QED
    BY <2>1, <2>2, <1>4, <1>6, <1>7 DEF Words
<1>10. Hushed(p) => Hushed(p)'
  BY <1>6 DEF Hushed
<1>11. phase'[p] # "left" => Pipe(p)' = Pipe(p) /\ (Told(p)' <=> Told(p))
  BY <1>1, <1>6, SamePipe
<1>12. Switches(p)'
  <2>1. Has(p, "compression")' =>
          /\ ~mode'[p] /\ ~cmode'[p] /\ sock'[p] = <<>> /\ tx'[p] = <<>>
          /\ Has(p, "EnableCompression")'
    BY <1>1, <1>4, <1>5, <1>6 DEF Switches
  <2>2. Has(p, "EnableCompression")' =>
          /\ Compress /\ ~mode'[p]
          /\ Has(p, "compression")' \/ (Live(p)' /\ phase'[p] # "left" => Told(p)')
    BY <1>1, <1>2, <1>4, <1>5, <1>11 DEF Switches
  <2>3. Has(p, "success")' /\ Live(p)' => mode'[p] = Compress \/ Has(p, "EnableCompression")'
    BY <1>1, <1>2, <1>4, <1>5 DEF Switches
  <2>4. Switching(p)' => Hushed(p)'
    BY <1>4, <1>5, <1>10 DEF Switches, Switching
  <2>5. \A f \in Range(up'[p]) : f.z = mode'[p] /\ f.z = cmode'[p]
    BY <1>1, <1>4, <1>7 DEF Switches
  <2> QED
    BY <2>1, <2>2, <2>3, <2>4, <2>5, <1>6 DEF Switches
<1>13. phase'[p] # "left" => PipeFormat(p)'
  <2> SUFFICES ASSUME phase'[p] # "left" PROVE PipeFormat(p)'
    OBVIOUS
  <2>1. Range(Pipe(p)') = Range(Pipe(p)) /\ Ordered(Pipe(p)', DownOrder)
    BY <1>4, <1>11 DEF PipeFormat
  <2>2. Switching(p)' <=> Switching(p)
    BY <1>5 DEF Switching
  <2>3. \A f \in Range(Pipe(p)') :
          /\ f.z => Told(p)'
          /\ ~f.z => ~cmode'[p]
          /\ f.what = "compression" => ~f.z
          /\ f.what \in {"compression", "success"} => Hushed(p)'
          /\ f.what = "success" => f.z = Compress /\ mode'[p] = Compress /\ ~Switching(p)'
    BY <2>1, <2>2, <1>1, <1>4, <1>10, <1>11 DEF PipeFormat
  <2>4. Live(p)' => \/ mode'[p] <=> Told(p)'
                    \/ ~mode'[p] /\ Told(p)' /\ Has(p, "EnableCompression")'
    BY <1>1, <1>2, <1>4, <1>5, <1>11 DEF PipeFormat
  <2> QED
    BY <2>1, <2>3, <2>4 DEF PipeFormat
<1>14. Alive(p)'
  <2>1. /\ InOutbox(p)' <=> InOutbox(p)
        /\ InInbox(p)' <=> InInbox(p)
        /\ InUp(p)' => InUp(p)
    BY <1>1, <1>2, <1>7 DEF InOutbox, InInbox, InUp
  <2>2. (InPipe(p)' => InPipe(p)) /\ \A R : Ordered(Pipe(p), R) => Ordered(Pipe(p)', R)
    <3>1. CASE phase'[p] # "left"
      BY <3>1, <1>11 DEF InPipe
    <3>2. CASE phase'[p] = "left"
      <4>1. sock[p] \in Seq(Down) /\ tx[p] \in Seq(Down) /\ Pipe(p)' = <<>> \o tx[p]
        BY <3>2, <1>0, <1>1, <1>6, Types DEF Pipe
      <4>2. Pipe(p)' = tx[p]
        BY <4>1, ConcatEmptySeq
      <4> QED
        BY <4>1, <4>2, RangeConcatenation, OrderedConcat DEF InPipe, Pipe
    <3> QED
      BY <3>1, <3>2
  <2>3. Alone(p) => Alone(p)'
    BY <2>1, <2>2, <1>1, <1>2, <1>7 DEF Alone, KeepAlives, Answers, Msg
  <2>4. phase'[p] # "left" => (InPipe(p)' <=> InPipe(p)) /\ (InUp(p)' <=> InUp(p))
    BY <1>6, <1>11 DEF InPipe, InUp
  <2> QED
    BY <2>1, <2>2, <2>3, <2>4, <1>1, <1>2, <1>4 DEF Alive
<1> QED
  BY <1>0, <1>1, <1>2, <1>3, <1>8, <1>9, <1>12, <1>13, <1>14, OthersFlow DEF Session

-------------------------------------------------------------------------------
(* Steps that concern no connection, and messages that are dropped.            *)

LEMMA QuietStepsFlow ==
  ASSUME SessionInv,
         \/ Poll \/ EventsEnd \/ QueueEnd \/ Leave \/ Over
         \/ Push \/ DrainEnd \/ NextTick \/ Stop \/ Join \/ UNCHANGED vars
  PROVE  Flow'
<1>0. TypeOK /\ Flow /\ Shutdown
  BY DEF SessionInv
<1>1. /\ UNCHANGED <<chan, mode, tx, sock, up, state, pending, phase, cmode, ignored, inq>>
      /\ Outbox' = Outbox /\ (Ticking' => Ticking)
  <2>1. CASE Push
    BY <2>1, <1>0, PushOutbox DEF Push, channels, run, players, peers, wires, Ticking
  <2>2. CASE \/ Poll \/ EventsEnd \/ QueueEnd \/ Leave \/ Over
             \/ DrainEnd \/ NextTick \/ Stop \/ Join \/ UNCHANGED vars
    BY <2>2 DEF Poll, EventsEnd, QueueEnd, Leave, Over, DrainEnd, NextTick, Stop, Join, vars,
                channels, run, queues, players, onTick, peers, wires, Outbox, Ticking
  <2> QED
    BY <2>1, <2>2
<1>2. \A c \in Conns : Untouched(c)
  BY <1>1 DEF Untouched
<1> QED
  BY <1>0, <1>1, <1>2, QuietFlow

\* Fewer tokens in the same order are alone as well.
LEMMA FewerTokens ==
  ASSUME NEW c \in Conns, Alone(c),
         InOutbox(c)' => InOutbox(c), InPipe(c)' => InPipe(c), InUp(c)' => InUp(c),
         InInbox(c)' => InInbox(c),
         \A R : Ordered(Outbox, R) => Ordered(Outbox', R),
         \A R : Ordered(Pipe(c), R) => Ordered(Pipe(c)', R),
         \A R : Ordered(up[c], R) => Ordered(up'[c], R),
         \A R : Ordered(inq, R) => Ordered(inq', R)
  PROVE  Alone(c)'
BY DEF Alone, KeepAlives, Answers, Msg

\* A message is dropped that is to or from a closed connection.
LEMMA DropSession ==
  ASSUME NEW c \in Conns, Session(c), Untouched(c), ~Live(c),
         Ticking' => Ticking /\ inq' = inq,
         Range(inq') \subseteq Range(inq), Range(Outbox') \subseteq Range(Outbox),
         \A R : Ordered(Outbox, R) => Ordered(Outbox', R),
         \A R : Ordered(inq, R) => Ordered(inq', R),
         Has(c, "compression")' => Has(c, "EnableCompression")'
  PROVE  Session(c)'
<1>1. Ends(c) /\ News(c) /\ Words(c) /\ Switches(c) /\ Alive(c)
  BY DEF Session
<1>2. Pipe(c)' = Pipe(c) /\ (Told(c)' <=> Told(c)) /\ ~Live(c)'
  BY SamePipe DEF Untouched, Live
<1>3. \A w : Has(c, w)' => Has(c, w)
  BY DEF Has
<1>4. Ends(c)'
  BY <1>1, <1>2 DEF Ends, Untouched
<1>5. News(c)'
  <2>1. chan'[c] # "open"
    BY <1>2 DEF Live
  <2> QED
    BY <2>1, <1>1 DEF News, Untouched
<1>6. Words(c)'
  <2>1. Fresh(c) => Fresh(c)'
    BY DEF Fresh, Untouched
  <2>2. (LastWordIn(c)' => LastWordIn(c)) /\ (LastWordUp(c)' <=> LastWordUp(c))
    BY DEF LastWordIn, LastWordUp, Untouched
  <2> QED
    BY <2>1, <2>2, <1>1 DEF Words, Untouched
<1>7. (Switching(c)' => Switching(c)) /\ (Hushed(c)' <=> Hushed(c))
  BY <1>3 DEF Switching, Hushed, Untouched
<1>8. Switches(c)'
  BY <1>1, <1>2, <1>3, <1>7 DEF Switches, Untouched
<1>9. phase'[c] # "left" => PipeFormat(c)'
  <2> SUFFICES ASSUME phase[c] # "left" PROVE PipeFormat(c)'
    BY DEF Untouched
  <2>1. PipeFormat(c)
    BY DEF Session
  <2>2. \A f \in Range(Pipe(c)') :
          /\ f.z => Told(c)'
          /\ ~f.z => ~cmode'[c]
          /\ f.what = "compression" => ~f.z
          /\ f.what \in {"compression", "success"} => Hushed(c)'
          /\ f.what = "success" => f.z = Compress /\ mode'[c] = Compress /\ ~Switching(c)'
    BY <2>1, <1>2, <1>7 DEF PipeFormat, Untouched
  <2> QED
    BY <2>1, <2>2, <1>2 DEF PipeFormat
<1>10. Alive(c)'
  <2>1. /\ InOutbox(c)' => InOutbox(c)
        /\ InInbox(c)' => InInbox(c)
        /\ InPipe(c)' <=> InPipe(c)
        /\ InUp(c)' <=> InUp(c)
    BY <1>2 DEF InOutbox, InInbox, InPipe, InUp, Untouched
  <2>2. Alone(c) => Alone(c)'
    BY <2>1, <1>2, FewerTokens DEF Untouched
  <2> QED
    BY <2>1, <2>2, <1>1, <1>2 DEF Alive, Untouched
<1> QED
  BY <1>4, <1>5, <1>6, <1>8, <1>9, <1>10 DEF Session

\* SetCompression is never the one that is left when its switch has gone.
LEMMA SwitchLeft ==
  ASSUME TypeOK, Flow, NEW c \in Conns, Range(Outbox') \subseteq Range(Outbox),
         NEW h \in OutMsg, Range(Outbox) = {h} \cup Range(Outbox'),
         \A b \in Range(Outbox') : <<h, b>> \in OutOrder
  PROVE  Has(c, "compression")' => Has(c, "EnableCompression")'
<1> SUFFICES ASSUME Has(c, "compression")' PROVE Has(c, "EnableCompression")'
  OBVIOUS
<1>1. Msg(c, "compression") \in Range(Outbox') /\ Msg(c, "compression") \in Range(Outbox)
  BY DEF Has
<1>2. Msg(c, "EnableCompression") \in Range(Outbox)
  BY <1>1 DEF Flow, Session, Switches, Has
<1>3. <<h, Msg(c, "compression")>> \in OutOrder
  BY <1>1
<1>4. h # Msg(c, "EnableCompression")
  BY <1>3 DEF OutOrder, Msg, Switch
<1> QED
  BY <1>2, <1>4 DEF Has

LEMMA PopStaleFlow == ASSUME SessionInv, NEW p \in Conns, PopStale(p) PROVE Flow'
<1>0. TypeOK /\ Flow
  BY DEF SessionInv
<1>1. /\ ~Live(p) /\ outq # <<>> /\ Head(outq).conn = p /\ outq' = Tail(outq)
      /\ UNCHANGED <<chan, mode, tx, sock, up, state, pending, phase, cmode, ignored, inq, at, emit>>
  BY DEF PopStale, PopOut, channels, players, onTick, peers, wires
<1>2. /\ Head(outq) \in OutMsg /\ Range(Outbox) = {Head(outq)} \cup Range(Outbox')
      /\ \A R : Ordered(Outbox, R) => /\ Ordered(Outbox', R)
                                      /\ \A b \in Range(Outbox') : <<Head(outq), b>> \in R
  BY <1>0, <1>1, PopOutbox
<1>3. Ordered(Outbox', OutOrder) /\ \A b \in Range(Outbox') : <<Head(outq), b>> \in OutOrder
  BY <1>0, <1>2 DEF Flow
<1>4. \A c \in Conns : Untouched(c)
  BY <1>1 DEF Untouched
<1>5. Ticking' <=> Ticking
  BY <1>1 DEF Ticking
<1>6. Session(p)'
  <2>1. Has(p, "compression")' => Has(p, "EnableCompression")'
    BY <1>0, <1>2, <1>3, SwitchLeft
  <2> QED
    BY <2>1, <1>0, <1>1, <1>2, <1>4, <1>5, DropSession DEF Flow
<1>7. ASSUME NEW c \in Conns, c # p PROVE Session(c)'
  <2>1. \A m : m.conn = c => (m \in Range(Outbox') <=> m \in Range(Outbox))
    BY <1>1, <1>2, <1>7
  <2> QED
    BY <2>1, <1>0, <1>1, <1>2, <1>4, <1>5, Others DEF Flow
<1> QED
  BY <1>0, <1>1, <1>3, <1>6, <1>7 DEF Flow

LEMMA FreeFlow == ASSUME SessionInv, Free PROVE Flow'
<1>0. TypeOK /\ Flow /\ Shutdown
  BY DEF SessionInv
<1>1. /\ at \in {"free in", "free out"} /\ emit = <<>> /\ ~Ticking /\ ~Ticking'
      /\ \A c \in Conns : ~Live(c)
      /\ UNCHANGED <<chan, mode, tx, sock, up, state, pending, phase, cmode, ignored, emit>>
      /\ \A c \in Conns : Untouched(c)
  BY <1>0 DEF Free, Shutdown, Ticking, channels, players, peers, wires, Untouched
<1>2. CASE UNCHANGED <<inq, outq>>
  BY <1>0, <1>1, <1>2, QuietFlow DEF Outbox
<1>3. CASE inq # <<>> /\ inq' = Tail(inq) /\ outq' = outq
  <2>1. /\ Range(inq') \subseteq Range(inq) /\ Outbox' = Outbox
        /\ \A R : Ordered(inq, R) => Ordered(inq', R)
    BY <1>0, <1>1, <1>3, PopInbox DEF Outbox
  <2>2. ASSUME NEW c \in Conns PROVE Session(c)'
    <3>1. Has(c, "compression")' => Has(c, "EnableCompression")'
      BY <2>1, <1>0 DEF Flow, Session, Switches, Has
    <3> QED
      BY <2>1, <3>1, <1>0, <1>1, DropSession DEF Flow
  <2> QED
    BY <2>1, <2>2, <1>0 DEF Flow
<1>4. CASE outq # <<>> /\ outq' = Tail(outq) /\ inq' = inq
  <2>1. /\ Head(outq) \in OutMsg /\ Range(Outbox) = {Head(outq)} \cup Range(Outbox')
        /\ \A R : Ordered(Outbox, R) => /\ Ordered(Outbox', R)
                                        /\ \A b \in Range(Outbox') : <<Head(outq), b>> \in R
    BY <1>0, <1>1, <1>4, PopOutbox
  <2>2. Ordered(Outbox', OutOrder) /\ \A b \in Range(Outbox') : <<Head(outq), b>> \in OutOrder
    BY <1>0, <2>1 DEF Flow
  <2>3. ASSUME NEW c \in Conns PROVE Session(c)'
    <3>1. Has(c, "compression")' => Has(c, "EnableCompression")'
      BY <1>0, <2>1, <2>2, SwitchLeft
    <3> QED
      BY <2>1, <3>1, <1>0, <1>1, <1>4, DropSession DEF Flow
  <2> QED
    BY <2>2, <2>3, <1>0, <1>4 DEF Flow
<1> QED
  BY <1>2, <1>3, <1>4 DEF Free

-------------------------------------------------------------------------------
(* The tick's handlers.                                                        *)

\* Who holds none of a set is in order with respect to it.
LEMMA OnceNone ==
  ASSUME NEW T, NEW S, NEW q \in Seq(T), \A r \in Range(q) : r \notin S
  PROVE  Ordered(q, Once(T, S))
<1>1. \A i \in DOMAIN q : q[i] \in T /\ q[i] \in Range(q)
  BY ElementOfSeq, LenProperties DEF Range
<1> QED
  BY <1>1 DEF Ordered, Once

\* What a handler about p does to the other connections: nothing.
LEMMA TickFlow ==
  ASSUME SessionInv, NEW p \in Conns,
         UNCHANGED <<chan, mode, tx, sock, up, phase, cmode, ignored, outq>>,
         Ticking' => Ticking, emit = <<>>, emit' \in Seq(OutMsg),
         \A R : Ordered(inq, R) => Ordered(inq', R),
         \A m : m.conn # p => (m \in Range(inq') <=> m \in Range(inq)),
         \A c \in Conns : c # p => state'[c] = state[c] /\ pending'[c] = pending[c],
         \A e \in Range(emit') : e.conn = p,
         Ordered(emit', OutOrder), \A a \in Range(Outbox), e \in Range(emit') : <<a, e>> \in OutOrder,
         Session(p)'
  PROVE  Flow'
<1>0. TypeOK /\ Flow
  BY DEF SessionInv
<1>1. /\ Range(Outbox') = Range(Outbox) \cup Range(emit')
      /\ \A R : Ordered(Outbox, R) /\ Ordered(emit', R)
                /\ (\A a \in Range(Outbox), b \in Range(emit') : <<a, b>> \in R)
                  => Ordered(Outbox', R)
  BY <1>0, EmitOutbox
<1>2. Ordered(Outbox', OutOrder) /\ Ordered(inq', InOrder)
  BY <1>0, <1>1 DEF Flow
<1>3. (\A a \in Range(Outbox) : a \in OutMsg) /\ (\A e \in Range(emit') : e \in OutMsg)
  BY <1>0, Types, RangeOfSeq
<1>4. ASSUME NEW c \in Conns, c # p PROVE Session(c)'
  <2>1. Untouched(c)
    BY <1>4 DEF Untouched
  <2>2. \A e \in Range(emit') : e \notin KeepAlives(c)
    BY <1>4 DEF KeepAlives, Msg
  <2>3. Ordered(emit', Once(OutMsg, KeepAlives(c)))
    BY <2>2, OnceNone
  <2>4. \A a \in Range(Outbox), e \in Range(emit') : <<a, e>> \in Once(OutMsg, KeepAlives(c))
    BY <2>2, <1>3 DEF Once
  <2>5. Ordered(Outbox, Once(OutMsg, KeepAlives(c))) => Ordered(Outbox', Once(OutMsg, KeepAlives(c)))
    BY <2>3, <2>4, <1>1
  <2>6. \A m : m.conn = c => (m \in Range(inq') <=> m \in Range(inq))
    BY <1>4
  <2>7. \A m : m.conn = c => (m \in Range(Outbox') <=> m \in Range(Outbox))
    BY <1>1, <1>4
  <2> QED
    BY <2>1, <2>5, <2>6, <2>7, <1>0, Others DEF Flow
<1> QED
  BY <1>2, <1>4 DEF Flow

\* The formats hang on no message but those of Welcome.
LEMMA SameSwitches ==
  ASSUME NEW p \in Conns, Session(p),
         UNCHANGED <<chan, mode, tx, sock, up, phase, cmode>>,
         \A k \in Switch : Has(p, k)' <=> Has(p, k)
  PROVE  Switches(p)' /\ (phase'[p] # "left" => PipeFormat(p)')
<1>1. Switches(p) /\ (phase[p] # "left" => PipeFormat(p))
  BY DEF Session
<1>2. Pipe(p)' = Pipe(p) /\ (Told(p)' <=> Told(p)) /\ (Live(p)' <=> Live(p))
  BY SamePipe DEF Live
<1>3. (Switching(p)' <=> Switching(p)) /\ (Hushed(p)' <=> Hushed(p))
  BY DEF Switching, Hushed
<1>4. Switches(p)'
  BY <1>1, <1>2, <1>3 DEF Switches, Switch
<1>5. phase'[p] # "left" => PipeFormat(p)'
  <2> SUFFICES ASSUME PipeFormat(p) PROVE PipeFormat(p)'
    BY <1>1
  <2>1. \A f \in Range(Pipe(p)') :
          /\ f.z => Told(p)'
          /\ ~f.z => ~cmode'[p]
          /\ f.what = "compression" => ~f.z
          /\ f.what \in {"compression", "success"} => Hushed(p)'
          /\ f.what = "success" => f.z = Compress /\ mode'[p] = Compress /\ ~Switching(p)'
    BY <1>2, <1>3 DEF PipeFormat
  <2> QED
    BY <2>1, <1>2 DEF PipeFormat, Switch
<1> QED
  BY <1>4, <1>5

\* A message of p is popped: what it says, and what can still come behind it.
LEMMA PopInFacts ==
  ASSUME SessionInv, NEW p \in Conns, NEW what, PopIn(p, what)
  PROVE  /\ UNCHANGED <<chan, mode, tx, sock, up, phase, cmode, ignored, outq>>
         /\ Ticking /\ Ticking' /\ emit = <<>>
         /\ what \in Requests \cup {"Connected", "Disconnected"} /\ Msg(p, what) \in InMsg
         /\ Msg(p, what) \in Range(inq) /\ Range(inq) = {Msg(p, what)} \cup Range(inq')
         /\ \A R : Ordered(inq, R) => /\ Ordered(inq', R)
                                      /\ \A b \in Range(inq') : <<Msg(p, what), b>> \in R
         /\ \A m : m.conn # p => (m \in Range(inq') <=> m \in Range(inq))
         /\ \A b \in Range(inq') :
              b.conn = p => /\ what # "Disconnected" /\ b.what # "Connected"
                            /\ what \in LastWords => b.what = "Disconnected"
<1>0. TypeOK /\ Flow
  BY DEF SessionInv
<1>1. /\ inq # <<>> /\ Head(inq) = Msg(p, what) /\ inq' = Tail(inq) /\ at' = at /\ at = "drain"
      /\ UNCHANGED <<chan, mode, tx, sock, up, phase, cmode, ignored, outq>> /\ emit = <<>>
  BY DEF PopIn, channels, peers, wires
<1>2. /\ Msg(p, what) \in InMsg /\ Range(inq) = {Msg(p, what)} \cup Range(inq')
      /\ \A R : Ordered(inq, R) => /\ Ordered(inq', R)
                                   /\ \A b \in Range(inq') : <<Msg(p, what), b>> \in R
  BY <1>0, <1>1, PopInbox
<1>3. \A b \in Range(inq') : <<Msg(p, what), b>> \in InOrder
  BY <1>0, <1>2 DEF Flow
<1>4. Msg(p, what).conn = p /\ Msg(p, what).what = what
  BY DEF Msg
<1>5. \A b \in Range(inq') :
        b.conn = p => /\ what # "Disconnected" /\ b.what # "Connected"
                      /\ what \in LastWords => b.what = "Disconnected"
  BY <1>3, <1>4 DEF InOrder
<1>6. what \in Requests \cup {"Connected", "Disconnected"}
  BY <1>2, <1>4 DEF InMsg
<1>7. \A m : m.conn # p => (m \in Range(inq') <=> m \in Range(inq))
  BY <1>2, <1>4
<1>8. Ticking /\ Ticking'
  BY <1>1 DEF Ticking
<1>9. Msg(p, what) \in Range(inq)
  BY <1>2
<1> QED
  BY <1>1, <1>2, <1>5, <1>6, <1>7, <1>8, <1>9

\* Words after a handler: one that says something heard the last word, or the
\* player is in the game.
LEMMA TickWords ==
  ASSUME NEW p \in Conns, Words(p), UNCHANGED <<mode, tx, sock, up, phase, cmode>>,
         Range(inq') \subseteq Range(inq),
         \/ Range(Outbox') = Range(Outbox) /\ (state[p] # "Play" => state'[p] # "Play")
         \/ /\ ~LastWordIn(p)' /\ ~LastWordUp(p) /\ phase[p] \notin {"new", "hello", "login"}
  PROVE  Words(p)'
<1>1. (LastWordIn(p)' => LastWordIn(p)) /\ (LastWordUp(p)' <=> LastWordUp(p))
  BY DEF LastWordIn, LastWordUp
<1>2. CASE Range(Outbox') = Range(Outbox) /\ (state[p] # "Play" => state'[p] # "Play")
  <2>1. Fresh(p) => Fresh(p)'
    BY <1>2 DEF Fresh
  <2> QED
    BY <2>1, <1>1 DEF Words
<1>3. CASE ~LastWordIn(p)' /\ ~LastWordUp(p) /\ phase[p] \notin {"new", "hello", "login"}
  BY <1>1, <1>3 DEF Words
<1> QED
  BY <1>2, <1>3

\* Nobody in the game has anything left to say that ends the conversation, nor
\* does anybody whose last word is being handled.
LEMMA NoMoreWords ==
  ASSUME NEW p \in Conns, Words(p), Range(inq') \subseteq Range(inq),
         \/ state[p] = "Play"
         \/ LastWordIn(p) /\ \A b \in Range(inq') : b.conn = p => b.what = "Disconnected"
  PROVE  ~LastWordIn(p)' /\ ~LastWordUp(p) /\ phase[p] \notin {"new", "hello", "login"}
<1>1. CASE state[p] = "Play"
  <2>1. ~Fresh(p)
    BY <1>1 DEF Fresh
  <2>2. ~LastWordIn(p)
    BY <2>1 DEF Words
  <2>3. ~LastWordIn(p)'
    BY <2>2 DEF LastWordIn
  <2> QED
    BY <2>1, <2>3 DEF Words
<1>2. CASE LastWordIn(p) /\ \A b \in Range(inq') : b.conn = p => b.what = "Disconnected"
  <2>1. "Disconnected" \notin LastWords
    BY SessionConstants DEF LastWords
  <2>2. ~LastWordIn(p)'
    BY <1>2, <2>1 DEF LastWordIn
  <2>3. up[p] = <<>> /\ phase[p] \in {"waiting", "silent", "left"}
    BY <1>2 DEF Words
  <2>4. ~LastWordUp(p)
    BY <2>3, RangeEmpty DEF LastWordUp
  <2> QED
    BY <2>2, <2>3, <2>4
<1> QED
  BY <1>1, <1>2

\* What the threads know of each other once a message of p is handled.
LEMMA PopInNews ==
  ASSUME SessionInv, NEW p \in Conns, NEW what, PopIn(p, what),
         Range(Outbox) \subseteq Range(Outbox'),
         state'[p] # "none" => /\ what # "Disconnected"
                               /\ state[p] # "none" \/ what = "Connected",
         state'[p] = "none" => \/ what = "Disconnected"
                               \/ state[p] = "none" /\ what # "Connected"
                               \/ Msg(p, "Close") \in Range(Outbox')
  PROVE  News(p)'
<1>0. News(p)
  BY DEF SessionInv, Flow, Session
<1>1. /\ chan' = chan /\ Ticking /\ Msg(p, what) \in Range(inq)
      /\ Range(inq) = {Msg(p, what)} \cup Range(inq')
      /\ \A b \in Range(inq') :
           b.conn = p => what # "Disconnected" /\ b.what # "Connected"
  BY PopInFacts
<1>2. \A w : Msg(p, w).conn = p /\ Msg(p, w).what = w
  BY DEF Msg
<1>3. chan[p] # "none" /\ (what = "Disconnected" => chan[p] = "closed")
  BY <1>0, <1>1, <1>2 DEF News
<1>4. Msg(p, "Connected") \notin Range(inq')
  BY <1>1, <1>2
<1>5. \A m \in Range(inq') :
        m.conn = p => /\ chan'[p] # "none"
                      /\ m.what = "Connected" => state'[p] = "none"
                      /\ m.what = "Disconnected" => chan'[p] = "closed"
  BY <1>0, <1>1, <1>3 DEF News
<1>6. ASSUME chan[p] = "closed", state'[p] # "none" PROVE Msg(p, "Disconnected") \in Range(inq')
  <2>1. state[p] # "none" \/ Msg(p, "Connected") \in Range(inq)
    BY <1>1, <1>6
  <2>2. Msg(p, "Disconnected") \in Range(inq)
    BY <2>1, <1>0, <1>1, <1>6 DEF News
  <2>3. Msg(p, "Disconnected") # Msg(p, what)
    BY <1>2, <1>6
  <2> QED
    BY <2>2, <2>3, <1>1
<1>7. ASSUME chan[p] = "open", state'[p] = "none" PROVE Msg(p, "Close") \in Range(Outbox')
  <2>1. CASE state[p] = "none" /\ what # "Connected"
    <3>1. Msg(p, "Connected") # Msg(p, what)
      BY <2>1, <1>2
    <3>2. Msg(p, "Connected") \notin Range(inq)
      BY <3>1, <1>1, <1>4
    <3> QED
      BY <3>2, <2>1, <1>0, <1>7 DEF News
  <2> QED
    BY <2>1, <1>3, <1>7
<1> QED
  BY <1>1, <1>4, <1>5, <1>6, <1>7 DEF News

\* A handler that says nothing.
LEMMA SilentFlow ==
  ASSUME SessionInv, NEW p \in Conns, NEW what, PopIn(p, what), emit' = emit,
         \A c \in Conns : c # p => state'[c] = state[c] /\ pending'[c] = pending[c],
         state[p] # "Play" => state'[p] # "Play",
         state'[p] # "Play" => ~pending'[p],
         state'[p] # "none" => /\ what # "Disconnected"
                               /\ state[p] # "none" \/ what = "Connected",
         state'[p] = "none" => what = "Disconnected" \/ (state[p] = "none" /\ what # "Connected"),
         Alive(p)'
  PROVE  Flow'
<1>0. TypeOK /\ Flow /\ Session(p)
  BY DEF SessionInv, Flow
<1>1. /\ UNCHANGED <<chan, mode, tx, sock, up, phase, cmode, ignored, outq>>
      /\ Ticking /\ Ticking' /\ emit = <<>>
      /\ Msg(p, what) \in Range(inq) /\ Range(inq') \subseteq Range(inq)
      /\ \A R : Ordered(inq, R) => Ordered(inq', R)
      /\ \A m : m.conn # p => (m \in Range(inq') <=> m \in Range(inq))
  BY PopInFacts
<1>2. Outbox' = Outbox
  BY <1>1 DEF Outbox
<1>3. News(p)'
  BY <1>2, PopInNews
<1>4. Ends(p)'
  <2>1. chan[p] # "none"
    BY <1>0, <1>1 DEF Session, News, Msg
  <2> QED
    BY <2>1, <1>0, <1>1 DEF Session, Ends, Live
<1>5. Words(p)'
  BY <1>0, <1>1, <1>2, TickWords DEF Session
<1>6. Switches(p)' /\ (phase'[p] # "left" => PipeFormat(p)')
  <2>1. \A k : Has(p, k)' <=> Has(p, k)
    BY <1>2 DEF Has
  <2> QED
    BY <2>1, <1>0, <1>1, SameSwitches
<1>7. Session(p)'
  BY <1>3, <1>4, <1>5, <1>6 DEF Session
<1>8. emit' = <<>> /\ emit' \in Seq(OutMsg) /\ Range(emit') = {} /\ Ordered(emit', OutOrder)
  BY <1>1, EmptySeq, RangeEmpty, OrderedEmpty
<1> QED
  BY <1>1, <1>7, <1>8, TickFlow

LEMMA AddPlayerFlow == ASSUME SessionInv, NEW p \in Conns, AddPlayer(p) PROVE Flow'
<1>0. TypeOK /\ Flow /\ Session(p)
  BY DEF SessionInv, Flow
<1>1. /\ PopIn(p, "Connected") /\ emit' = emit
      /\ state' = [state EXCEPT ![p] = "Handshake"] /\ pending' = pending
  BY DEF AddPlayer
<1>2. Msg(p, "Connected") \in Range(inq)
  BY <1>1, PopInFacts
<1>3. state[p] = "none" /\ ~pending[p]
  BY <1>0, <1>2 DEF Session, News, Ends, Msg
<1>4. state'[p] = "Handshake" /\ \A c \in Conns : c # p => state'[c] = state[c]
  BY <1>0, <1>1, Domains
<1> QED
  BY <1>1, <1>3, <1>4, SilentFlow DEF Alive

LEMMA RemovePlayerFlow == ASSUME SessionInv, NEW p \in Conns, RemovePlayer(p) PROVE Flow'
<1>0. TypeOK
  BY DEF SessionInv
<1>1. /\ PopIn(p, "Disconnected") /\ emit' = emit /\ Erase(p)
  BY DEF RemovePlayer
<1>2. /\ state'[p] = "none" /\ ~pending'[p]
      /\ \A c \in Conns : c # p => state'[c] = state[c] /\ pending'[c] = pending[c]
  BY <1>0, <1>1, Domains DEF Erase
<1> QED
  BY <1>1, <1>2, SilentFlow DEF Alive

\* A handler that leaves the tokens of p where they are.
LEMMA SameAlive ==
  ASSUME SessionInv, NEW p \in Conns, NEW what, PopIn(p, what), what # "alive", emit' = emit,
         state'[p] = "Play" => state[p] = "Play" /\ pending'[p] = pending[p]
  PROVE  Alive(p)'
<1> SUFFICES ASSUME state'[p] = "Play" PROVE Alive(p)'
  BY DEF Alive
<1>0. TypeOK /\ Alive(p) /\ state[p] = "Play" /\ pending'[p] = pending[p]
  BY DEF SessionInv, Flow, Session
<1>1. /\ UNCHANGED <<chan, mode, tx, sock, up, phase, cmode, ignored, outq>>
      /\ Range(inq) = {Msg(p, what)} \cup Range(inq')
      /\ \A R : Ordered(inq, R) => Ordered(inq', R)
  BY PopInFacts
<1>2. Outbox' = Outbox /\ Pipe(p)' = Pipe(p) /\ (Live(p)' <=> Live(p))
  BY <1>1 DEF Outbox, Pipe, Live
<1>3. Msg(p, what) # Msg(p, "alive")
  BY DEF Msg
<1>4. /\ InOutbox(p)' <=> InOutbox(p)
      /\ InPipe(p)' <=> InPipe(p)
      /\ InUp(p)' <=> InUp(p)
      /\ InInbox(p)' <=> InInbox(p)
  BY <1>1, <1>2, <1>3 DEF InOutbox, InPipe, InUp, InInbox
<1>5. Alone(p)'
  BY <1>0, <1>1, <1>2, <1>4, FewerTokens DEF Alive
<1> QED
  BY <1>0, <1>1, <1>2, <1>4, <1>5 DEF Alive

LEMMA IgnoreFlow ==
  ASSUME SessionInv, NEW p \in Conns, NEW what \in Requests, Ignore(p, what) PROVE Flow'
<1>0. TypeOK /\ Session(p)
  BY DEF SessionInv, Flow
<1>1. PopIn(p, what) /\ emit' = emit /\ state' = state /\ pending' = pending
  BY DEF Ignore, players
<1>2. what # "Connected" /\ what # "Disconnected"
  BY SessionConstants DEF Requests
<1>3. Alive(p)'
  <2>1. CASE state[p] = "Play"
    <3>1. what # "alive"
      BY <2>1 DEF Ignore
    <3> QED
      BY <3>1, <1>1, SameAlive
  <2>2. CASE state[p] # "Play"
    BY <2>2, <1>1 DEF Alive
  <2> QED
    BY <2>1, <2>2
<1>4. state[p] # "Play" => ~pending[p]
  BY <1>0 DEF Session, Ends
<1> QED
  BY <1>1, <1>2, <1>3, <1>4, SilentFlow

\* A handler that removes the player and closes the connection.
LEMMA ErasedFlow ==
  ASSUME SessionInv, NEW p \in Conns, Erase(p), emit = <<>>,
         UNCHANGED <<chan, mode, tx, sock, up, phase, cmode, ignored, outq>>,
         Ticking, Ticking',
         Range(inq') \subseteq Range(inq), \A R : Ordered(inq, R) => Ordered(inq', R),
         \A m : m.conn # p => (m \in Range(inq') <=> m \in Range(inq)),
         state[p] # "none",
         \/ state[p] = "Play"
         \/ LastWordIn(p) /\ \A b \in Range(inq') : b.conn = p => b.what = "Disconnected",
         emit' \in {<<Msg(p, "disconnect"), Msg(p, "Close")>>, <<Msg(p, "Close")>>}
  PROVE  Flow'
<1>0. TypeOK /\ Flow /\ Session(p)
  BY DEF SessionInv, Flow
<1>1. Ends(p) /\ News(p) /\ Words(p)
  BY <1>0 DEF Session
<1>2. /\ state'[p] = "none" /\ ~pending'[p]
      /\ \A c \in Conns : c # p => state'[c] = state[c] /\ pending'[c] = pending[c]
  BY <1>0, Domains DEF Erase
<1>3. Msg(p, "disconnect") \in OutMsg /\ Msg(p, "Close") \in OutMsg
  BY MsgType DEF Replies
<1>4. /\ emit' \in Seq(OutMsg) /\ Msg(p, "Close") \in Range(emit')
      /\ \A e \in Range(emit') : e \in {Msg(p, "disconnect"), Msg(p, "Close")}
  <2>1. CASE emit' = <<Msg(p, "Close")>>
    BY <2>1, <1>3, RangeOne
  <2>2. CASE emit' = <<Msg(p, "disconnect"), Msg(p, "Close")>>
    <3>1. emit' \in Seq(OutMsg) /\ DOMAIN emit' = {1, 2}
          /\ emit'[1] = Msg(p, "disconnect") /\ emit'[2] = Msg(p, "Close")
      BY <2>2, <1>3
    <3> QED
      BY <3>1 DEF Range
  <2> QED
    BY <2>1, <2>2
<1>5. \A e \in Range(emit') : e.conn = p /\ e.what \in {"disconnect", "Close"} /\ e \in OutMsg
  BY <1>3, <1>4 DEF Msg
<1>6. \A e \in Range(emit') : e.conn = p /\ e.what \notin Switch
  BY <1>5 DEF Switch
<1>7. \A a \in OutMsg, e \in Range(emit') : <<a, e>> \in OutOrder
  BY <1>5, <1>6 DEF OutOrder
<1>8. Ordered(emit', OutOrder)
  <2>1. \A i \in DOMAIN emit' : emit'[i] \in Range(emit') /\ emit'[i] \in OutMsg
    BY <1>5 DEF Range
  <2> QED
    BY <2>1, <1>7 DEF Ordered
<1>9. \A a \in Range(Outbox) : a \in OutMsg
  BY <1>0, Types, RangeOfSeq
<1>10. Range(Outbox') = Range(Outbox) \cup Range(emit')
  BY <1>0, <1>4, EmitOutbox
<1>11. Ends(p)'
  BY <1>1, <1>2 DEF Ends, Live
<1>12. News(p)'
  <2>1. \A m \in Range(inq') :
          m.conn = p => /\ chan'[p] # "none"
                        /\ m.what = "Disconnected" => chan'[p] = "closed"
    BY <1>1 DEF News
  <2>2. \A m \in Range(inq') : m.conn = p => m.what # "Connected"
    BY <1>1 DEF News
  <2>3. Msg(p, "Connected") \notin Range(inq')
    BY <2>2 DEF Msg
  <2>4. Msg(p, "Close") \in Range(Outbox')
    BY <1>4, <1>10
  <2> QED
    BY <2>1, <2>2, <2>3, <2>4, <1>2 DEF News
<1>13. Words(p)'
  <2>1. ~LastWordIn(p)' /\ ~LastWordUp(p) /\ phase[p] \notin {"new", "hello", "login"}
    BY <1>1, NoMoreWords
  <2> QED
    BY <2>1, <1>1, TickWords
<1>14. Switches(p)' /\ (phase'[p] # "left" => PipeFormat(p)')
  <2>1. \A k \in Switch : Msg(p, k) \notin Range(emit')
    BY <1>6 DEF Msg
  <2>2. \A k \in Switch : Has(p, k)' <=> Has(p, k)
    BY <2>1, <1>10 DEF Has
  <2> QED
    BY <2>2, <1>0, SameSwitches
<1>15. Session(p)'
  BY <1>2, <1>11, <1>12, <1>13, <1>14 DEF Session, Alive
<1> QED
  BY <1>2, <1>4, <1>5, <1>7, <1>8, <1>9, <1>15, TickFlow

\* The last word of p is handled and the player removed.
LEMMA LastWordFlow ==
  ASSUME SessionInv, NEW p \in Conns, NEW what, PopIn(p, what), Erase(p), state[p] # "none",
         what \in LastWords \/ state[p] = "Play",
         emit' \in {<<Msg(p, "disconnect"), Msg(p, "Close")>>, <<Msg(p, "Close")>>}
  PROVE  Flow'
<1>1. /\ UNCHANGED <<chan, mode, tx, sock, up, phase, cmode, ignored, outq>>
      /\ Ticking /\ Ticking' /\ emit = <<>>
      /\ Msg(p, what) \in Range(inq) /\ Range(inq) = {Msg(p, what)} \cup Range(inq')
      /\ \A R : Ordered(inq, R) => Ordered(inq', R)
      /\ \A m : m.conn # p => (m \in Range(inq') <=> m \in Range(inq))
      /\ \A b \in Range(inq') : b.conn = p => (what \in LastWords => b.what = "Disconnected")
  BY PopInFacts
<1>2. what \in LastWords =>
        LastWordIn(p) /\ \A b \in Range(inq') : b.conn = p => b.what = "Disconnected"
  BY <1>1 DEF LastWordIn, Msg
<1> QED
  BY <1>1, <1>2, ErasedFlow

LEMMA HandleHandshakeFlow ==
  ASSUME SessionInv, NEW p \in Conns, NEW what \in Requests, HandleHandshake(p, what) PROVE Flow'
<1>0. TypeOK /\ Session(p)
  BY DEF SessionInv, Flow
<1>1. PopIn(p, what) /\ state[p] = "Handshake"
  BY DEF HandleHandshake
<1>2. CASE /\ what \in {"status", "login"}
           /\ state' = [state EXCEPT ![p] = IF what = "status" THEN "Status" ELSE "Login"]
           /\ UNCHANGED <<name, pending, age, emit>>
  <2>1. /\ state'[p] \in {"Status", "Login"}
        /\ \A c \in Conns : c # p => state'[c] = state[c]
    BY <1>0, <1>2, Domains
  <2>2. ~pending[p]
    BY <1>0, <1>1 DEF Session, Ends
  <2> QED
    BY <1>1, <1>2, <2>1, <2>2, SilentFlow DEF Alive
<1>3. CASE what = "unknown" /\ Erase(p) /\ emit' = <<Msg(p, "Close")>>
  BY <1>1, <1>3, LastWordFlow DEF LastWords
<1> QED
  BY <1>2, <1>3 DEF HandleHandshake

LEMMA HandlePlayFlow ==
  ASSUME SessionInv, NEW p \in Conns, NEW what \in Requests, HandlePlay(p, what) PROVE Flow'
<1>0. TypeOK /\ Session(p)
  BY DEF SessionInv, Flow
<1>1. PopIn(p, what) /\ state[p] = "Play"
  BY DEF HandlePlay
<1>2. CASE /\ what = "alive" /\ pending' = [pending EXCEPT ![p] = FALSE]
           /\ UNCHANGED <<state, name, age, emit>>
  <2>1. ~pending'[p] /\ \A c \in Conns : c # p => pending'[c] = pending[c]
    BY <1>0, <1>2, Domains
  <2>2. /\ UNCHANGED <<chan, mode, tx, sock, up, phase, cmode, ignored, outq>> /\ emit' = emit
        /\ Msg(p, "alive") \in Range(inq) /\ Range(inq') \subseteq Range(inq)
        /\ \A R : Ordered(inq, R) => /\ Ordered(inq', R)
                                     /\ \A b \in Range(inq') : <<Msg(p, "alive"), b>> \in R
    BY <1>1, <1>2, PopInFacts
  <2>3. Alone(p)
    BY <1>0, <1>1 DEF Session, Alive
  <2>4. ~InOutbox(p) /\ ~InPipe(p) /\ ~InUp(p)
    BY <2>2, <2>3 DEF Alone, InInbox
  <2>5. ~InInbox(p)'
    <3> SUFFICES ASSUME Msg(p, "alive") \in Range(inq') PROVE FALSE
      BY DEF InInbox
    <3>1. <<Msg(p, "alive"), Msg(p, "alive")>> \in Once(InMsg, Answers(p))
      BY <2>2, <2>3 DEF Alone
    <3> QED
      BY <3>1 DEF Once, Answers
  <2>6. ~InOutbox(p)' /\ ~InPipe(p)' /\ ~InUp(p)'
    BY <2>2, <2>4 DEF InOutbox, InPipe, InUp, Outbox, Pipe
  <2>7. Alone(p)'
    BY <2>2, <2>3, <2>5, <2>6, FewerTokens DEF Outbox, Pipe
  <2> QED
    BY <1>1, <1>2, <2>1, <2>5, <2>6, <2>7, SilentFlow DEF Alive
<1>3. CASE what = "badpos" /\ Kick(p)
  BY <1>1, <1>3, LastWordFlow DEF Kick
<1> QED
  BY <1>2, <1>3 DEF HandlePlay

\* What Welcome says, and that it says it in order.
LEMMA WelcomeFacts ==
  ASSUME NEW p \in Conns
  PROVE  /\ \A e \in Range(Welcome(p)) : e \in OutMsg /\ e.conn = p /\ e.what \in Switch
         /\ Ordered(Welcome(p), OutOrder) /\ Msg(p, "success") \in Range(Welcome(p))
         /\ Compress => /\ Msg(p, "compression") \in Range(Welcome(p))
                        /\ Msg(p, "EnableCompression") \in Range(Welcome(p))
         /\ ~Compress => Range(Welcome(p)) = {Msg(p, "success")}
<1> DEFINE a == Msg(p, "compression")
           b == Msg(p, "EnableCompression")
           c == Msg(p, "success")
<1>1. a \in OutMsg /\ b \in OutMsg /\ c \in OutMsg
  BY MsgType DEF Replies
<1>2. /\ a.conn = p /\ b.conn = p /\ c.conn = p
      /\ a.what = "compression" /\ b.what = "EnableCompression" /\ c.what = "success"
  BY DEF Msg
<1>3. <<a, b>> \in OutOrder /\ <<a, c>> \in OutOrder /\ <<b, c>> \in OutOrder
  BY <1>1, <1>2 DEF OutOrder
<1> HIDE DEF a, b, c
<1>4. CASE Compress
  <2>1. Welcome(p) = <<a, b>> \o <<c>>
    BY <1>4 DEF Welcome, a, b, c
  <2>2. <<a, b>> \in Seq(OutMsg) /\ <<c>> \in Seq(OutMsg)
    BY <1>1
  <2>3. Range(<<a, b>>) = {a, b}
    BY DEF Range
  <2>4. Range(<<c>>) = {c}
    BY RangeOne
  <2>5. Range(Welcome(p)) = {a, b, c}
    <3>1. Range(<<a, b>> \o <<c>>) = Range(<<a, b>>) \cup Range(<<c>>)
      BY <2>2, RangeConcatenation
    <3> QED
      BY <3>1, <2>1, <2>3, <2>4
  <2>6. Ordered(<<a, b>>, OutOrder) /\ Ordered(<<c>>, OutOrder)
    BY <1>3 DEF Ordered
  <2>7. Ordered(<<a, b>> \o <<c>>, OutOrder)
    BY <2>2, <2>3, <2>4, <2>6, <1>3, OrderedConcat
  <2> QED
    BY <1>1, <1>2, <1>4, <2>1, <2>5, <2>7 DEF a, b, c, Switch
<1>5. CASE ~Compress
  <2>1. Welcome(p) = <<c>>
    <3>1. <<c>> \in Seq(OutMsg)
      BY <1>1
    <3>2. <<>> \o <<c>> = <<c>>
      BY <3>1, ConcatEmptySeq
    <3> QED
      BY <3>2, <1>5 DEF Welcome, c
  <2>2. Range(Welcome(p)) = {c} /\ Ordered(Welcome(p), OutOrder)
    BY <2>1, RangeOne DEF Ordered
  <2> QED
    BY <1>1, <1>2, <1>5, <2>2 DEF c, Switch
<1> QED
  BY <1>4, <1>5

LEMMA LoginFlow ==
  ASSUME SessionInv, NEW p \in Conns, NEW what \in Names, PopIn(p, what),
         state[p] = "Login", state' = [state EXCEPT ![p] = "Play"], pending' = pending,
         emit' = Welcome(p)
  PROVE  Flow'
<1>0. TypeOK /\ Flow /\ Session(p)
  BY DEF SessionInv, Flow
<1>1. /\ UNCHANGED <<chan, mode, tx, sock, up, phase, cmode, ignored, outq>>
      /\ Ticking /\ Ticking' /\ emit = <<>>
      /\ Msg(p, what) \in Range(inq) /\ Range(inq') \subseteq Range(inq)
      /\ \A R : Ordered(inq, R) => Ordered(inq', R)
      /\ \A m : m.conn # p => (m \in Range(inq') <=> m \in Range(inq))
      /\ \A b \in Range(inq') : b.conn = p => (what \in LastWords => b.what = "Disconnected")
  BY PopInFacts
<1>2. Ends(p) /\ News(p) /\ Words(p) /\ Switches(p)
  BY <1>0 DEF Session
<1>3. LastWordIn(p) /\ what \in LastWords
  BY <1>1 DEF LastWordIn, LastWords, Msg
<1>4. Fresh(p) /\ up[p] = <<>> /\ phase[p] \in {"waiting", "silent", "left"}
  BY <1>2, <1>3 DEF Words
<1>5. Hushed(p)
  BY <1>4 DEF Hushed
<1>6. /\ state'[p] = "Play" /\ ~pending'[p]
      /\ \A c \in Conns : c # p => state'[c] = state[c] /\ pending'[c] = pending[c]
  BY <1>0, <1>2, Domains DEF Ends
<1>7. /\ emit' \in Seq(OutMsg) /\ Ordered(emit', OutOrder)
      /\ \A e \in Range(emit') : e \in OutMsg /\ e.conn = p /\ e.what \in Switch
      /\ Msg(p, "success") \in Range(emit')
      /\ Compress => /\ Msg(p, "compression") \in Range(emit')
                     /\ Msg(p, "EnableCompression") \in Range(emit')
      /\ ~Compress => Range(emit') = {Msg(p, "success")}
  BY WelcomeFacts, WelcomeType
<1>8. /\ Range(Outbox') = Range(Outbox) \cup Range(emit')
      /\ \A R : Ordered(Outbox, R) /\ Ordered(emit', R)
                /\ (\A a \in Range(Outbox), b \in Range(emit') : <<a, b>> \in R)
                  => Ordered(Outbox', R)
  BY <1>0, <1>1, <1>7, EmitOutbox
<1>9. \A m \in Range(Outbox) : m.conn # p /\ m \in OutMsg
  <2>1. \A m \in Range(Outbox) : m \in OutMsg
    BY <1>0, Types, RangeOfSeq
  <2> QED
    BY <2>1, <1>4 DEF Fresh
<1>10. \A a \in Range(Outbox), e \in Range(emit') : <<a, e>> \in OutOrder
  BY <1>7, <1>9 DEF OutOrder
<1>11. \A w : Has(p, w)' <=> Msg(p, w) \in Range(emit')
  BY <1>8, <1>9 DEF Has, Msg
<1>12. Ends(p)'
  BY <1>1, <1>2, <1>6 DEF Ends, Live, News, Msg
<1>13. News(p)'
  <2>1. what # "Disconnected" /\ what # "Connected"
    BY SessionConstants
  <2> QED
    BY <2>1, <1>6, <1>8, PopInNews
<1>14. Words(p)'
  <2>1. ~LastWordIn(p)' /\ ~LastWordUp(p) /\ phase[p] \notin {"new", "hello", "login"}
    BY <1>1, <1>2, <1>3, NoMoreWords
  <2> QED
    BY <2>1, <1>1, <1>2, TickWords
<1>15. ~mode[p] /\ ~cmode[p] /\ sock[p] = <<>> /\ tx[p] = <<>> /\ Pipe(p)' = <<>>
  BY <1>1, <1>4 DEF Fresh, Pipe
<1>16. Range(Pipe(p)') = {} /\ Ordered(Pipe(p)', DownOrder) /\ ~Told(p)'
  BY <1>1, <1>15, RangeEmpty, OrderedEmpty DEF Told
<1>17. Range(up'[p]) = {} /\ Hushed(p)'
  BY <1>1, <1>4, <1>5, RangeEmpty DEF Hushed
<1>18. Switches(p)'
  <2>1. CASE Compress
    <3>1. Has(p, "compression")' /\ Has(p, "EnableCompression")'
      BY <2>1, <1>7, <1>11
    <3> QED
      BY <3>1, <2>1, <1>1, <1>4, <1>15, <1>17 DEF Switches
  <2>2. CASE ~Compress
    <3>1. ~Has(p, "compression")' /\ ~Has(p, "EnableCompression")'
      BY <2>2, <1>7, <1>11 DEF Msg
    <3>2. mode'[p] = Compress
      BY <2>2, <1>0, <1>1, <1>15, Domains, SessionConstants
    <3> QED
      BY <3>1, <3>2, <1>1, <1>4, <1>17 DEF Switches
  <2> QED
    BY <2>1, <2>2
<1>19. PipeFormat(p)'
  BY <1>1, <1>15, <1>16 DEF PipeFormat
<1>20. Alive(p)'
  <2>1. \A m \in Range(inq) : m \in InMsg /\ m \notin Answers(p)
    <3>1. \A m \in Range(inq) : m \in InMsg
      BY <1>0, Types, RangeOfSeq
    <3> QED
      BY <3>1, <1>4 DEF Fresh, Answers
  <2>2. \A m \in Range(Outbox') : m \notin KeepAlives(p)
    BY <1>7, <1>8, <1>9 DEF KeepAlives, Msg, Switch
  <2>3. Ordered(Outbox', Once(OutMsg, KeepAlives(p)))
    <3>1. Outbox' \in Seq(OutMsg)
      BY <1>0, <1>1, <1>7, EmitOutbox
    <3> QED
      BY <2>2, <3>1, OnceNone
  <2>4. Ordered(inq', Once(InMsg, Answers(p)))
    <3>1. inq \in Seq(InMsg)
      BY <1>0, Types
    <3>2. Ordered(inq, Once(InMsg, Answers(p)))
      BY <2>1, <3>1, OnceNone
    <3> QED
      BY <3>2, <1>1
  <2>5. Ordered(Pipe(p)', Once(Down, Asking)) /\ Ordered(up'[p], Once(Upward, Answering))
    BY <1>1, <1>4, <1>15, OrderedEmpty
  <2>6. ~InOutbox(p)' /\ ~InPipe(p)' /\ ~InUp(p)' /\ ~InInbox(p)'
    BY <2>1, <2>2, <1>1, <1>16, <1>17 DEF InOutbox, InPipe, InUp, InInbox, KeepAlives, Answers
  <2> QED
    BY <2>3, <2>4, <2>5, <2>6, <1>6 DEF Alive, Alone, KeepAlives, Answers, Msg
<1>21. Session(p)'
  BY <1>12, <1>13, <1>14, <1>18, <1>19, <1>20 DEF Session
<1> QED
  BY <1>1, <1>6, <1>7, <1>10, <1>21, TickFlow

LEMMA HandleLoginFlow ==
  ASSUME SessionInv, NEW p \in Conns, NEW what \in Requests, HandleLogin(p, what) PROVE Flow'
<1>1. PopIn(p, what) /\ state[p] = "Login"
  BY DEF HandleLogin
<1>2. CASE what \in {"badname"} \cup Names /\ Kick(p)
  BY <1>1, <1>2, LastWordFlow DEF Kick, LastWords
<1>3. CASE /\ what \in Names /\ state' = [state EXCEPT ![p] = "Play"] /\ pending' = pending
           /\ emit' = Welcome(p)
  BY <1>1, <1>3, LoginFlow
<1> QED
  BY <1>2, <1>3 DEF HandleLogin

LEMMA TimerFlow == ASSUME SessionInv, NEW p \in Conns, Timer(p) PROVE Flow'
<1>0. TypeOK /\ Flow /\ Session(p) /\ TimerLoop
  BY DEF SessionInv, Flow
<1>1. /\ at = "timers" /\ at' = at /\ emit = <<>> /\ p \in due /\ Ticking /\ Ticking'
      /\ UNCHANGED <<chan, mode, tx, sock, up, phase, cmode, ignored, inq, outq>>
  BY DEF Timer, Ticking, channels, peers, wires, queues
<1>2. state[p] = "Play"
  BY <1>0, <1>1 DEF TimerLoop
<1>3. CASE TimedOut(p) /\ Kick(p)
  BY <1>1, <1>2, <1>3, ErasedFlow DEF Kick
<1>4. CASE UNCHANGED <<players, emit>>
  <2>1. Outbox' = Outbox /\ \A c \in Conns : Untouched(c)
    BY <1>1, <1>4 DEF Outbox, Untouched, players
  <2> QED
    BY <2>1, <1>0, <1>1, QuietFlow
<1>5. CASE /\ KeepAliveDue(p) /\ pending' = [pending EXCEPT ![p] = TRUE]
           /\ emit' = <<Msg(p, "keepalive")>> /\ UNCHANGED <<state, name>>
  <2> DEFINE k == Msg(p, "keepalive")
  <2>1. k \in OutMsg /\ k.conn = p /\ k.what = "keepalive"
    BY MsgType DEF Replies
  <2>2. /\ emit' \in Seq(OutMsg) /\ Range(emit') = {k} /\ \A R : Ordered(emit', R)
    BY <1>5, <2>1, RangeOne DEF Ordered
  <2>3. \A a \in Range(Outbox) : a \in OutMsg
    BY <1>0, Types, RangeOfSeq
  <2>4. /\ Range(Outbox') = Range(Outbox) \cup {k}
        /\ \A R : Ordered(Outbox, R) /\ (\A a \in Range(Outbox) : <<a, k>> \in R)
                    => Ordered(Outbox', R)
    BY <1>0, <1>1, <2>2, EmitOutbox
  <2>5. \A a \in Range(Outbox), e \in Range(emit') : <<a, e>> \in OutOrder
    BY <2>1, <2>2, <2>3 DEF OutOrder, Switch
  <2>6. /\ ~pending[p] /\ pending'[p] /\ state' = state
        /\ \A c \in Conns : c # p => pending'[c] = pending[c]
    BY <1>0, <1>5, Domains DEF KeepAliveDue
  <2>7. Ends(p) /\ News(p) /\ Words(p) /\ Switches(p) /\ Alive(p)
    BY <1>0 DEF Session
  <2>8. Ends(p)'
    BY <1>1, <1>2, <2>6, <2>7 DEF Ends, Live
  <2>9. News(p)'
    BY <1>1, <2>4, <2>6, <2>7 DEF News, Ticking
  <2>10. Words(p)'
    <3>1. ~LastWordIn(p)' /\ ~LastWordUp(p) /\ phase[p] \notin {"new", "hello", "login"}
      BY <1>1, <1>2, <2>7, NoMoreWords
    <3> QED
      BY <3>1, <1>1, <2>7, TickWords
  <2>11. Switches(p)' /\ (phase'[p] # "left" => PipeFormat(p)')
    <3>1. \A w \in Switch : Msg(p, w) # k
      BY DEF Msg, Switch
    <3>2. \A w \in Switch : Has(p, w)' <=> Has(p, w)
      BY <3>1, <2>4 DEF Has
    <3> QED
      BY <3>2, <1>0, <1>1, SameSwitches
  <2>12. Alive(p)'
    <3>1. Alone(p) /\ ~InOutbox(p) /\ ~InPipe(p) /\ ~InUp(p) /\ ~InInbox(p)
      BY <1>2, <2>6, <2>7 DEF Alive
    <3>2. InOutbox(p)' /\ ~InPipe(p)' /\ ~InUp(p)' /\ ~InInbox(p)'
      BY <1>1, <3>1, <2>4 DEF InOutbox, InPipe, InUp, InInbox, Pipe
    <3>3. Ordered(Outbox', Once(OutMsg, KeepAlives(p)))
      <4>1. \A a \in Range(Outbox) : <<a, k>> \in Once(OutMsg, KeepAlives(p))
        BY <2>1, <2>3, <3>1 DEF Once, KeepAlives, InOutbox
      <4> QED
        BY <4>1, <2>4, <3>1 DEF Alone
    <3>4. Alone(p)'
      BY <3>1, <3>2, <3>3, <1>1 DEF Alone, Pipe, KeepAlives, Answers, Msg
    <3> QED
      BY <3>2, <3>4, <2>6 DEF Alive
  <2>13. Session(p)'
    BY <2>8, <2>9, <2>10, <2>11, <2>12 DEF Session
  <2> HIDE DEF k
  <2> QED
    BY <1>1, <2>1, <2>2, <2>5, <2>6, <2>13, TickFlow
<1> QED
  BY <1>3, <1>4, <1>5 DEF Timer

-------------------------------------------------------------------------------
(* The net thread reads and closes.                                            *)

\* The first n frames of p as packets, and the frames behind them.
First(p, n)  == SubSeq(up[p], 1, n)
Behind(p, n) == SubSeq(up[p], n + 1, Len(up[p]))

LEMMA PacketsFacts ==
  ASSUME TypeOK, NEW p \in Conns, NEW n \in 0..Len(up[p])
  PROVE  /\ Packets(p, n) \in Seq(InMsg) /\ Behind(p, n) \in Seq(Upward)
         /\ Range(up[p]) = Range(First(p, n)) \cup Range(Behind(p, n))
         /\ \A m \in Range(Packets(p, n)) :
              /\ m \in InMsg /\ m.conn = p /\ m.what \in Requests
              /\ \E f \in Range(First(p, n)) : m.what = f.what
         /\ \A f \in Range(First(p, n)) : Msg(p, f.what) \in Range(Packets(p, n))
         /\ \A R : Ordered(up[p], R) =>
              /\ Ordered(Behind(p, n), R)
              /\ \A a \in Range(First(p, n)), b \in Range(Behind(p, n)) : <<a, b>> \in R
         /\ Ordered(up[p], UpOrder) => Ordered(Packets(p, n), InOrder)
         /\ Ordered(up[p], Once(Upward, Answering)) =>
              Ordered(Packets(p, n), Once(InMsg, Answers(p)))
         /\ \A c \in Conns : c # p => Ordered(Packets(p, n), Once(InMsg, Answers(c)))
         /\ n = 0 => Packets(p, n) = <<>>
         /\ up[p] = <<>> => Behind(p, n) = <<>>
<1> DEFINE ps == Packets(p, n)
           fs == First(p, n)
           bs == Behind(p, n)
<1>1. up[p] \in Seq(Upward) /\ Len(up[p]) \in Nat /\ n \in Nat
  BY Types
<1>2. /\ fs \in Seq(Upward) /\ bs \in Seq(Upward) /\ up[p] = fs \o bs
      /\ Len(fs) = n /\ Len(bs) = Len(up[p]) - n /\ \A i \in 1..n : fs[i] = up[p][i]
  BY <1>1, Cut DEF First, Behind
<1>3. /\ ps \in Seq(InMsg) /\ Len(ps) = n
      /\ \A i \in 1..n : ps[i] = Msg(p, up[p][i].what)
  BY PacketsType
<1>4. \A i \in 1..n : ps[i] = Msg(p, fs[i].what) /\ fs[i] \in Upward /\ fs[i] \in Range(fs)
  <2>1. DOMAIN fs = 1..n
    BY <1>2, LenProperties
  <2>2. \A i \in 1..n : fs[i] \in Upward
    BY <1>2, ElementOfSeq
  <2> QED
    BY <2>1, <2>2, <1>2, <1>3 DEF Range
<1>5. Range(ps) = {ps[i] : i \in 1..n} /\ Range(fs) = {fs[i] : i \in 1..n}
  BY <1>2, <1>3, RangeEquality
<1>6. DOMAIN ps = 1..n /\ DOMAIN fs = 1..n
  BY <1>2, <1>3, LenProperties
<1> HIDE DEF ps, fs, bs
<1>7. ASSUME NEW m \in Range(ps)
      PROVE  /\ m \in InMsg /\ m.conn = p /\ m.what \in Requests
             /\ \E f \in Range(fs) : m.what = f.what
  <2>1. PICK i \in 1..n : m = ps[i]
    BY <1>7, <1>5
  <2>2. m = Msg(p, fs[i].what) /\ fs[i] \in Upward /\ fs[i] \in Range(fs)
    BY <2>1, <1>4
  <2>3. fs[i].what \in Requests
    BY <2>2 DEF Upward
  <2>4. m \in InMsg
    BY <2>2, <2>3, MsgType
  <2> QED
    BY <2>2, <2>3, <2>4 DEF Msg
<1>8. \A f \in Range(fs) : Msg(p, f.what) \in Range(ps)
  BY <1>4, <1>5
<1>9. /\ Range(up[p]) = Range(fs) \cup Range(bs)
      /\ \A R : Ordered(up[p], R) => /\ Ordered(fs, R) /\ Ordered(bs, R)
                                     /\ \A a \in Range(fs), b \in Range(bs) : <<a, b>> \in R
  <2>1. \A s, t \in Seq(Upward) : Range(s \o t) = Range(s) \cup Range(t)
    BY RangeConcatenation
  <2>2. Range(fs \o bs) = Range(fs) \cup Range(bs)
    BY <2>1, <1>2
  <2>3. \A R : Ordered(fs \o bs, R) => /\ Ordered(fs, R) /\ Ordered(bs, R)
                                       /\ \A a \in Range(fs), b \in Range(bs) : <<a, b>> \in R
    BY <1>2, OrderedConcat
  <2> QED
    BY <2>2, <2>3, <1>2
<1>10. ASSUME Ordered(up[p], UpOrder) PROVE Ordered(ps, InOrder)
  <2> SUFFICES ASSUME NEW i \in 1..n, NEW j \in 1..n, i < j PROVE <<ps[i], ps[j]>> \in InOrder
    BY <1>6 DEF Ordered
  <2>1. <<fs[i], fs[j]>> \in UpOrder
    BY <1>6, <1>9, <1>10 DEF Ordered
  <2>2. fs[i].what \notin LastWords
    BY <2>1 DEF UpOrder
  <2>3. ps[i] \in Range(ps) /\ ps[j] \in Range(ps)
    BY <1>5
  <2>4. ps[i].what \notin LastWords
    <3>1. ps[i] = Msg(p, fs[i].what)
      BY <1>4
    <3>2. \A w : Msg(p, w).what = w
      BY DEF Msg
    <3>3. ps[i].what = fs[i].what
      BY <3>1, <3>2, Zenon
    <3> QED
      BY <3>3, <2>2
  <2>5. ps[i].what # "Disconnected" /\ ps[j].what # "Connected"
    <3>1. "Disconnected" \notin Requests /\ "Connected" \notin Requests
      BY SessionConstants DEF Requests
    <3> QED
      BY <3>1, <2>3, <1>7
  <2>6. ps[i] \in InMsg /\ ps[j] \in InMsg
    BY <2>3, <1>7
  <2> QED
    BY <2>4, <2>5, <2>6 DEF InOrder
<1>11. ASSUME Ordered(up[p], Once(Upward, Answering)) PROVE Ordered(ps, Once(InMsg, Answers(p)))
  <2> SUFFICES ASSUME NEW i \in 1..n, NEW j \in 1..n, i < j
               PROVE  <<ps[i], ps[j]>> \in Once(InMsg, Answers(p))
    BY <1>6 DEF Ordered
  <2>1. <<fs[i], fs[j]>> \in Once(Upward, Answering)
    BY <1>6, <1>9, <1>11 DEF Ordered
  <2>2. fs[i].what # "alive" \/ fs[j].what # "alive"
    BY <2>1, <1>4 DEF Once, Answering
  <2>3. ps[i] \in InMsg /\ ps[j] \in InMsg
    BY <1>5, <1>7
  <2>4. /\ ps[i] \in Answers(p) => fs[i].what = "alive"
        /\ ps[j] \in Answers(p) => fs[j].what = "alive"
    <3>1. \A w : Msg(p, w) \in Answers(p) => w = "alive"
      BY DEF Answers, Msg
    <3> QED
      BY <3>1, <1>4, Zenon
  <2> QED
    BY <2>2, <2>3, <2>4 DEF Once
<1>12. ASSUME NEW c \in Conns, c # p PROVE Ordered(ps, Once(InMsg, Answers(c)))
  <2>1. \A m \in Range(ps) : m \notin Answers(c)
    BY <1>7, <1>12 DEF Answers, Msg
  <2> QED
    BY <2>1, <1>3, OnceNone DEF ps
<1>13. n = 0 => ps = <<>>
  BY <1>3, EmptySeq DEF ps
<1>14. up[p] = <<>> => bs = <<>>
  <2> SUFFICES ASSUME up[p] = <<>> PROVE bs = <<>>
    OBVIOUS
  <2>1. Len(up[p]) = 0
    OBVIOUS
  <2>2. Len(bs) = 0
    BY <2>1, <1>1, <1>2
  <2> QED
    BY <2>2, <1>2, EmptySeq
<1> QED
  BY <1>2, <1>3, <1>7, <1>8, <1>9, <1>10, <1>11, <1>12, <1>13, <1>14 DEF ps, fs, bs

\* Packets of an open connection fit behind all that the tick was told.
LEMMA ReadIn ==
  ASSUME TypeOK, Flow, NEW p \in Conns, Live(p), NEW n \in 0..Len(up[p]),
         NEW in1, in1 = inq \o Packets(p, n)
  PROVE  /\ in1 \in Seq(InMsg) /\ Range(in1) = Range(inq) \cup Range(Packets(p, n))
         /\ Ordered(in1, InOrder)
         /\ \A c \in Conns : c # p => (Ordered(inq, Once(InMsg, Answers(c))) =>
                                         Ordered(in1, Once(InMsg, Answers(c))))
         /\ \A m : m.conn # p => (m \in Range(in1) <=> m \in Range(inq))
         /\ \A m \in Range(in1) : m \in InMsg /\ (m.conn = p => m.what # "Disconnected")
         /\ Alone(p) => Ordered(in1, Once(InMsg, Answers(p)))
         /\ Msg(p, "alive") \in Range(in1) <=>
              InInbox(p) \/ \E f \in Range(First(p, n)) : f.what = "alive"
<1> DEFINE ps == Packets(p, n)
<1>0. Session(p) /\ Ordered(inq, InOrder)
  BY DEF Flow
<1>1. Ends(p) /\ News(p) /\ Words(p)
  BY <1>0 DEF Session
<1>2. /\ inq \in Seq(InMsg) /\ \A m \in Range(inq) : m \in InMsg
  BY Types, RangeOfSeq
<1>3. /\ ps \in Seq(InMsg)
      /\ \A m \in Range(ps) : /\ m \in InMsg /\ m.conn = p /\ m.what \in Requests
                              /\ \E f \in Range(First(p, n)) : m.what = f.what
      /\ \A f \in Range(First(p, n)) : Msg(p, f.what) \in Range(ps) /\ f \in Range(up[p])
      /\ Ordered(up[p], UpOrder) => Ordered(ps, InOrder)
      /\ Ordered(up[p], Once(Upward, Answering)) => Ordered(ps, Once(InMsg, Answers(p)))
      /\ \A c \in Conns : c # p => Ordered(ps, Once(InMsg, Answers(c)))
  BY PacketsFacts
<1> HIDE DEF ps
<1>4. /\ in1 \in Seq(InMsg) /\ Range(in1) = Range(inq) \cup Range(ps)
      /\ \A R : Ordered(inq, R) /\ Ordered(ps, R)
                /\ (\A a \in Range(inq), b \in Range(ps) : <<a, b>> \in R) => Ordered(in1, R)
  <2>1. in1 = inq \o ps
    BY DEF ps
  <2>2. inq \o ps \in Seq(InMsg) /\ Range(inq \o ps) = Range(inq) \cup Range(ps)
    BY <1>2, <1>3, ConcatProperties, RangeConcatenation
  <2>3. \A R : Ordered(inq, R) /\ Ordered(ps, R)
               /\ (\A a \in Range(inq), b \in Range(ps) : <<a, b>> \in R) => Ordered(inq \o ps, R)
    BY <1>2, <1>3, OrderedConcat
  <2> QED
    BY <2>1, <2>2, <2>3
<1>5. "Disconnected" \notin Requests /\ "Connected" \notin Requests
  BY SessionConstants DEF Requests
<1>6. \A m \in Range(inq) : m.conn = p => m.what # "Disconnected"
  BY <1>1 DEF News, Live
<1>7. Ordered(in1, InOrder)
  <2>1. ASSUME NEW a \in Range(inq), NEW b \in Range(ps) PROVE <<a, b>> \in InOrder
    <3>1. a.conn = p => a.what \notin LastWords
      <4> SUFFICES ASSUME a.conn = p, a.what \in LastWords PROVE FALSE
        OBVIOUS
      <4>1. up[p] = <<>>
        BY <1>1 DEF Words, LastWordIn
      <4>2. PICK f \in Range(First(p, n)) : TRUE
        BY <1>3
      <4> QED
        BY <4>1, <4>2, <1>3, RangeEmpty
    <3> QED
      BY <3>1, <1>2, <1>3, <1>5, <1>6 DEF InOrder
  <2> QED
    BY <2>1, <1>0, <1>1, <1>3, <1>4 DEF Words
<1>8. ASSUME NEW c \in Conns, c # p, Ordered(inq, Once(InMsg, Answers(c)))
      PROVE  Ordered(in1, Once(InMsg, Answers(c)))
  <2>1. \A a \in Range(inq), b \in Range(ps) : <<a, b>> \in Once(InMsg, Answers(c))
    BY <1>2, <1>3, <1>8 DEF Once, Answers, Msg
  <2> QED
    BY <2>1, <1>3, <1>4, <1>8
<1>9. ASSUME Alone(p) PROVE Ordered(in1, Once(InMsg, Answers(p)))
  <2>1. ASSUME NEW a \in Range(inq), NEW b \in Range(ps)
        PROVE  <<a, b>> \in Once(InMsg, Answers(p))
    <3> SUFFICES ASSUME a = Msg(p, "alive"), b = Msg(p, "alive") PROVE FALSE
      BY <1>2, <1>3 DEF Once, Answers
    <3>1. InInbox(p)
      BY DEF InInbox
    <3>2. PICK f \in Range(First(p, n)) : f.what = "alive"
      BY <1>3 DEF Msg
    <3>3. InUp(p)
      BY <3>2, <1>3 DEF InUp
    <3> QED
      BY <3>1, <3>3, <1>9 DEF Alone
  <2> QED
    BY <2>1, <1>3, <1>4, <1>9 DEF Alone
<1>10. Msg(p, "alive") \in Range(in1) <=>
         InInbox(p) \/ \E f \in Range(First(p, n)) : f.what = "alive"
  <2>1. Msg(p, "alive") \in Range(ps) <=> \E f \in Range(First(p, n)) : f.what = "alive"
    BY <1>3 DEF Msg
  <2> QED
    BY <2>1, <1>4 DEF InInbox
<1>11. \A m \in Range(in1) : m \in InMsg /\ (m.conn = p => m.what # "Disconnected")
  BY <1>2, <1>3, <1>4, <1>5, <1>6
<1> QED
  BY <1>3, <1>4, <1>7, <1>8, <1>9, <1>10, <1>11 DEF ps

LEMMA ReadFlow ==
  ASSUME SessionInv, NEW p \in Conns, NEW n \in 1..Len(up[p]), Read(p, n) PROVE Flow'
<1>0. TypeOK /\ Flow /\ Session(p) /\ up[p] \in Seq(Upward)
  BY Types DEF SessionInv, Flow
<1>1. /\ inq' = inq \o Packets(p, n) /\ up' = [up EXCEPT ![p] = Behind(p, n)]
      /\ UNCHANGED <<chan, mode, tx, sock, state, pending, phase, cmode, ignored, outq, at, emit>>
      /\ <<p, "r">> \in ready
  BY DEF Read, Behind, channels, players, onTick, peers
<1>2. Live(p) /\ Live(p)' /\ Outbox' = Outbox /\ Pipe(p)' = Pipe(p) /\ (Ticking' <=> Ticking)
  BY <1>0, <1>1 DEF TypeOK, Live, Outbox, Pipe, Ticking
<1>3. /\ up'[p] = Behind(p, n) /\ \A c \in Conns : c # p => Untouched(c)
  BY <1>0, <1>1, Domains DEF Untouched
<1>4. n \in 0..Len(up[p]) /\ up[p] # <<>>
  <2>1. Len(up[p]) \in Nat
    BY <1>0, LenProperties
  <2>2. up[p] = <<>> => Len(up[p]) = 0
    BY <1>0, EmptySeq
  <2> QED
    BY <2>1, <2>2
<1>5. /\ Range(up[p]) = Range(First(p, n)) \cup Range(up'[p])
      /\ \A m \in Range(Packets(p, n)) :
           /\ m.conn = p /\ m.what \in Requests
           /\ \E f \in Range(First(p, n)) : m.what = f.what
      /\ \A R : Ordered(up[p], R) =>
           /\ Ordered(up'[p], R)
           /\ \A a \in Range(First(p, n)), b \in Range(up'[p]) : <<a, b>> \in R
      /\ up'[p] \in Seq(Upward)
  <2>1. /\ Range(up[p]) = Range(First(p, n)) \cup Range(Behind(p, n))
        /\ \A R : Ordered(up[p], R) =>
             /\ Ordered(Behind(p, n), R)
             /\ \A a \in Range(First(p, n)), b \in Range(Behind(p, n)) : <<a, b>> \in R
        /\ Behind(p, n) \in Seq(Upward)
    BY <1>0, <1>4, PacketsFacts
  <2>2. \A m \in Range(Packets(p, n)) :
          /\ m.conn = p /\ m.what \in Requests
          /\ \E f \in Range(First(p, n)) : m.what = f.what
    BY <1>0, <1>4, PacketsFacts
  <2> QED
    BY <2>1, <2>2, <1>3
<1>6. /\ Range(inq') = Range(inq) \cup Range(Packets(p, n)) /\ Ordered(inq', InOrder)
      /\ \A c \in Conns : c # p => (Ordered(inq, Once(InMsg, Answers(c))) =>
                                      Ordered(inq', Once(InMsg, Answers(c))))
      /\ \A m : m.conn # p => (m \in Range(inq') <=> m \in Range(inq))
      /\ \A m \in Range(inq') : m.conn = p => m.what # "Disconnected"
      /\ Alone(p) => Ordered(inq', Once(InMsg, Answers(p)))
      /\ InInbox(p)' <=> InInbox(p) \/ \E f \in Range(First(p, n)) : f.what = "alive"
  <2> DEFINE in1 == inq \o Packets(p, n)
  <2>1. /\ Range(in1) = Range(inq) \cup Range(Packets(p, n)) /\ Ordered(in1, InOrder)
        /\ \A c \in Conns : c # p => (Ordered(inq, Once(InMsg, Answers(c))) =>
                                        Ordered(in1, Once(InMsg, Answers(c))))
        /\ \A m : m.conn # p => (m \in Range(in1) <=> m \in Range(inq))
        /\ \A m \in Range(in1) : m.conn = p => m.what # "Disconnected"
        /\ Alone(p) => Ordered(in1, Once(InMsg, Answers(p)))
        /\ Msg(p, "alive") \in Range(in1) <=>
             InInbox(p) \/ \E f \in Range(First(p, n)) : f.what = "alive"
    BY <1>0, <1>2, <1>4, ReadIn
  <2>2. inq' = in1
    BY <1>1
  <2> HIDE DEF in1
  <2> QED
    BY <2>1, <2>2 DEF InInbox
<1>7. ASSUME NEW c \in Conns, c # p PROVE Session(c)'
  <2>1. \A m : m.conn = c => (m \in Range(inq') <=> m \in Range(inq))
    BY <1>6, <1>7
  <2> QED
    BY <2>1, <1>0, <1>2, <1>3, <1>6, <1>7, Others DEF Flow
<1>8. Ends(p) /\ News(p) /\ Words(p) /\ Switches(p) /\ (phase[p] # "left" => PipeFormat(p))
      /\ Alive(p) /\ ~Hushed(p)
  BY <1>0, <1>4 DEF Session, Hushed
<1>9. Ends(p)'
  BY <1>1, <1>2, <1>8 DEF Ends, Live
<1>10. News(p)'
  <2>1. "Disconnected" \notin Requests /\ "Connected" \notin Requests
    BY SessionConstants DEF Requests
  <2>2. chan[p] # "none" /\ chan[p] # "closed"
    BY <1>2 DEF Live
  <2> QED
    BY <2>1, <2>2, <1>1, <1>2, <1>5, <1>6, <1>8 DEF News
<1>11. Words(p)'
  <2>1. ~LastWordIn(p)
    BY <1>4, <1>8 DEF Words
  <2>2. LastWordIn(p)' => LastWordUp(p) /\ up'[p] = <<>>
    <3> SUFFICES ASSUME NEW m \in Range(inq'), m.conn = p, m.what \in LastWords
                 PROVE  LastWordUp(p) /\ up'[p] = <<>>
      BY DEF LastWordIn
    <3>1. PICK f \in Range(First(p, n)) : m.what = f.what
      BY <2>1, <1>5, <1>6 DEF LastWordIn
    <3>2. ASSUME NEW b \in Range(up'[p]) PROVE FALSE
      <4>1. Ordered(up[p], UpOrder)
        BY <1>8 DEF Words
      <4>2. <<f, b>> \in UpOrder
        BY <4>1, <1>5
      <4>3. f.what \notin LastWords
        BY <4>2 DEF UpOrder
      <4> QED
        BY <4>3, <3>1
    <3>3. up'[p] = <<>>
      <4>1. \A i \in 1..Len(up'[p]) : up'[p][i] \in Range(up'[p])
        BY <1>5, LenProperties DEF Range
      <4> QED
        BY <4>1, <3>2, <1>5, LenProperties, EmptySeq
    <3> QED
      BY <3>1, <3>3, <1>5 DEF LastWordUp
  <2>3. LastWordUp(p)' => LastWordUp(p)
    BY <1>5 DEF LastWordUp
  <2>4. Fresh(p) => Fresh(p)'
    <3> SUFFICES ASSUME Fresh(p) PROVE Fresh(p)'
      OBVIOUS
    <3>1. \A f \in Range(up'[p]) : f.what # "alive"
      BY <1>5 DEF Fresh
    <3>2. Msg(p, "alive") \notin Range(inq')
      BY <1>5, <1>6 DEF Fresh, InInbox
    <3> QED
      BY <3>1, <3>2, <1>1, <1>2 DEF Fresh
  <2> QED
    BY <2>2, <2>3, <2>4, <1>1, <1>5, <1>8 DEF Words
<1>12. ~Switching(p) /\ ~Switching(p)' /\ (\A w : Has(p, w)' <=> Has(p, w)) /\ (Told(p)' <=> Told(p))
  BY <1>1, <1>2, <1>8 DEF Switches, Switching, Has, Told
<1>13. Switches(p)'
  BY <1>1, <1>2, <1>5, <1>8, <1>12 DEF Switches
<1>14. phase'[p] # "left" => PipeFormat(p)'
  BY <1>1, <1>2, <1>8, <1>12 DEF PipeFormat
<1>15. Alive(p)'
  <2> SUFFICES ASSUME state[p] = "Play" PROVE Alive(p)'
    BY <1>1 DEF Alive
  <2>1. Alone(p)
    BY <1>8 DEF Alive
  <2>2. /\ InOutbox(p)' <=> InOutbox(p)
        /\ InPipe(p)' <=> InPipe(p)
    BY <1>2 DEF InOutbox, InPipe
  <2>3. InUp(p) \/ InInbox(p) <=> InUp(p)' \/ InInbox(p)'
    BY <1>5, <1>6 DEF InUp
  <2>4. InUp(p)' => InUp(p) /\ ~InInbox(p)'
    <3> SUFFICES ASSUME NEW f \in Range(up'[p]), f.what = "alive" PROVE InUp(p) /\ ~InInbox(p)'
      BY DEF InUp
    <3>1. InUp(p)
      BY <1>5 DEF InUp
    <3>2. ASSUME NEW g \in Range(First(p, n)), g.what = "alive" PROVE FALSE
      <4>1. <<g, f>> \in Once(Upward, Answering)
        BY <2>1, <1>5 DEF Alone
      <4> QED
        BY <3>2, <4>1 DEF Once, Answering
    <3> QED
      BY <3>1, <3>2, <2>1, <1>6 DEF Alone
  <2>5. Alone(p)'
    <3>1. Ordered(up'[p], Once(Upward, Answering)) /\ Ordered(inq', Once(InMsg, Answers(p)))
      BY <2>1, <1>5, <1>6 DEF Alone
    <3> QED
      BY <3>1, <2>1, <2>2, <2>3, <2>4, <1>2 DEF Alone, KeepAlives, Answers, Msg
  <2> QED
    BY <2>2, <2>3, <2>5, <1>1, <1>2, <1>8 DEF Alive
<1>16. Session(p)'
  BY <1>9, <1>10, <1>11, <1>13, <1>14, <1>15 DEF Session
<1> QED
  BY <1>0, <1>2, <1>6, <1>7, <1>16 DEF Flow

\* A connection is closed behind the packets of an event, with a message for it
\* popped or not, and with its last frames written to the socket or not.
LEMMA CloseFlow ==
  ASSUME SessionInv, NEW p \in Conns, Live(p), NEW n \in 0..Len(up[p]),
         CloseConn(p, Packets(p, n)),
         UNCHANGED <<mode, state, pending, phase, cmode, ignored, at>>,
         \A c \in Conns : c # p => sock'[c] = sock[c],
         sock'[p] = sock[p] \/ (phase[p] # "left" /\ sock'[p] = Pipe(p)),
         Range(Outbox') \subseteq Range(Outbox),
         \A R : Ordered(Outbox, R) => Ordered(Outbox', R),
         \A m : m.conn # p => (m \in Range(Outbox') <=> m \in Range(Outbox)),
         Has(p, "EnableCompression") => Has(p, "EnableCompression")'
  PROVE  Flow'
<1> DEFINE d == Msg(p, "Disconnected")
           in1 == inq \o Packets(p, n)
<1>0. TypeOK /\ Flow /\ Session(p) /\ sock[p] \in Seq(Down) /\ tx[p] \in Seq(Down)
  BY Types DEF SessionInv, Flow
<1>1. /\ chan' = [chan EXCEPT ![p] = "closed"] /\ tx' = [tx EXCEPT ![p] = <<>>]
      /\ up' = [up EXCEPT ![p] = <<>>] /\ inq' = in1 \o <<d>>
  BY DEF CloseConn
<1>2. /\ chan'[p] = "closed" /\ tx'[p] = <<>> /\ up'[p] = <<>> /\ ~Live(p)'
      /\ (Ticking' <=> Ticking) /\ \A c \in Conns : c # p => Untouched(c)
  BY <1>0, <1>1, Domains DEF Untouched, Ticking, Live
<1>3. d \in InMsg /\ <<d>> \in Seq(InMsg) /\ d.conn = p /\ d.what = "Disconnected"
  BY MsgType
<1>4. /\ in1 \in Seq(InMsg) /\ Range(in1) = Range(inq) \cup Range(Packets(p, n))
      /\ Ordered(in1, InOrder)
      /\ \A c \in Conns : c # p => (Ordered(inq, Once(InMsg, Answers(c))) =>
                                      Ordered(in1, Once(InMsg, Answers(c))))
      /\ \A m : m.conn # p => (m \in Range(in1) <=> m \in Range(inq))
      /\ \A m \in Range(in1) : m \in InMsg /\ (m.conn = p => m.what # "Disconnected")
      /\ Alone(p) => Ordered(in1, Once(InMsg, Answers(p)))
      /\ Msg(p, "alive") \in Range(in1) <=>
           InInbox(p) \/ \E f \in Range(First(p, n)) : f.what = "alive"
  BY <1>0, ReadIn
<1>5. /\ \A f \in Range(First(p, n)) : f \in Range(up[p])
      /\ \A m \in Range(Packets(p, n)) :
           /\ m.conn = p /\ m.what \in Requests
           /\ \E f \in Range(First(p, n)) : m.what = f.what
  <2>1. Range(up[p]) = Range(First(p, n)) \cup Range(Behind(p, n))
    BY <1>0, PacketsFacts
  <2>2. \A m \in Range(Packets(p, n)) :
           /\ m.conn = p /\ m.what \in Requests
           /\ \E f \in Range(First(p, n)) : m.what = f.what
    BY <1>0, PacketsFacts
  <2> QED
    BY <2>1, <2>2
<1> HIDE DEF d, in1
<1>6. /\ Range(inq') = Range(in1) \cup {d}
      /\ \A R : Ordered(in1, R) /\ (\A a \in Range(in1) : <<a, d>> \in R) => Ordered(inq', R)
  <2>1. Range(<<d>>) = {d} /\ \A R : Ordered(<<d>>, R)
    BY RangeOne DEF Ordered
  <2>2. Range(in1 \o <<d>>) = Range(in1) \cup Range(<<d>>)
    <3>1. \A s, t \in Seq(InMsg) : Range(s \o t) = Range(s) \cup Range(t)
      BY RangeConcatenation
    <3> QED
      BY <3>1, <1>3, <1>4
  <2>3. \A R : Ordered(in1, R) /\ (\A a \in Range(in1) : <<a, d>> \in R) => Ordered(in1 \o <<d>>, R)
    BY <2>1, <1>3, <1>4, OrderedConcat
  <2> QED
    BY <2>1, <2>2, <2>3, <1>1
<1>7. Ordered(inq', InOrder)
  <2>1. \A a \in Range(in1) : <<a, d>> \in InOrder
    BY <1>3, <1>4 DEF InOrder
  <2> QED
    BY <2>1, <1>4, <1>6
<1>8. \A c \in Conns : \A a \in Range(in1) : <<a, d>> \in Once(InMsg, Answers(c))
  BY <1>3, <1>4 DEF Once, Answers, Msg
<1>9. ASSUME NEW c \in Conns, c # p PROVE Session(c)'
  <2>1. \A m : m.conn = c => (m \in Range(inq') <=> m \in Range(inq))
    BY <1>3, <1>4, <1>6, <1>9
  <2>2. \A m : m.conn = c => (m \in Range(Outbox') <=> m \in Range(Outbox))
    BY <1>9
  <2>3. Ordered(inq, Once(InMsg, Answers(c))) => Ordered(inq', Once(InMsg, Answers(c)))
    BY <1>4, <1>6, <1>8, <1>9
  <2> QED
    BY <2>1, <2>2, <2>3, <1>0, <1>2, <1>9, Others DEF Flow
<1>10. Ends(p) /\ News(p) /\ Words(p) /\ Switches(p) /\ (phase[p] # "left" => PipeFormat(p))
       /\ Alive(p)
  BY <1>0 DEF Session
<1>11. /\ Pipe(p)' = sock'[p] /\ Range(Pipe(p)) = Range(sock[p]) \cup Range(tx[p])
       /\ \A R : Ordered(Pipe(p), R) =>
            /\ Ordered(sock[p], R)
            /\ \A a \in Range(sock[p]), b \in Range(tx[p]) : <<a, b>> \in R
       /\ Pipe(p) \in Seq(Down)
  <2>1. Pipe(p) \in Seq(Down)
    BY <1>0, Types
  <2>2. sock'[p] \o <<>> = sock'[p]
    BY <2>1, <1>0, ConcatEmptySeq
  <2>3. Range(sock[p] \o tx[p]) = Range(sock[p]) \cup Range(tx[p])
    BY <1>0, RangeConcatenation
  <2>4. \A R : Ordered(sock[p] \o tx[p], R) =>
            /\ Ordered(sock[p], R)
            /\ \A a \in Range(sock[p]), b \in Range(tx[p]) : <<a, b>> \in R
    BY <1>0, OrderedConcat
  <2> QED
    BY <2>1, <2>2, <2>3, <2>4, <1>2 DEF Pipe
<1>12. Range(Pipe(p)') \subseteq Range(Pipe(p)) /\ \A R : Ordered(Pipe(p), R) => Ordered(Pipe(p)', R)
  BY <1>11
<1>13. sock[p] = <<>> /\ tx[p] = <<>> => sock'[p] = <<>>
  <2>1. <<>> \o <<>> = <<>>
    OBVIOUS
  <2> QED
    BY <2>1 DEF Pipe
<1>14. Ends(p)'
  BY <1>2, <1>10 DEF Ends
<1>15. News(p)'
  <2>1. "Connected" \notin Requests
    BY SessionConstants DEF Requests
  <2> QED
    BY <2>1, <1>2, <1>3, <1>4, <1>5, <1>6, <1>10 DEF News, d
<1>16. Words(p)'
  <2>1. "Disconnected" \notin LastWords
    BY SessionConstants DEF LastWords
  <2>2. LastWordIn(p)' => LastWordIn(p) \/ LastWordUp(p)
    <3> SUFFICES ASSUME NEW m \in Range(inq'), m.conn = p, m.what \in LastWords
                 PROVE  LastWordIn(p) \/ LastWordUp(p)
      BY DEF LastWordIn
    <3>1. m \in Range(inq) \/ m \in Range(Packets(p, n))
      BY <2>1, <1>3, <1>4, <1>6
    <3> QED
      BY <3>1, <1>5 DEF LastWordIn, LastWordUp
  <2>3. ~LastWordUp(p)' /\ Ordered(up'[p], UpOrder)
    BY <1>2, RangeEmpty, OrderedEmpty DEF LastWordUp
  <2>4. Fresh(p) => Fresh(p)'
    <3> SUFFICES ASSUME Fresh(p) PROVE Fresh(p)'
      OBVIOUS
    <3>1. Msg(p, "alive") \notin Range(in1)
      BY <1>4, <1>5 DEF Fresh, InInbox
    <3>2. Msg(p, "alive") \notin Range(inq')
      BY <3>1, <1>3, <1>6 DEF Msg
    <3>3. \A f \in Range(up'[p]) : f.what # "alive"
      BY <1>2, RangeEmpty
    <3> QED
      BY <3>2, <3>3, <1>2, <1>13 DEF Fresh
  <2> QED
    BY <2>2, <2>3, <2>4, <1>2, <1>10 DEF Words
<1>17. /\ \A w : Has(p, w)' => Has(p, w)
       /\ Switching(p)' => Switching(p)
       /\ Hushed(p) => Hushed(p)'
  BY <1>2 DEF Has, Switching, Hushed
<1>18. Switches(p)'
  <2>1. Range(up'[p]) = {}
    BY <1>2, RangeEmpty
  <2> QED
    BY <2>1, <1>2, <1>10, <1>13, <1>17 DEF Switches
<1>19. phase'[p] # "left" => PipeFormat(p)'
  <2> SUFFICES ASSUME phase[p] # "left" PROVE PipeFormat(p)'
    OBVIOUS
  <2>1. Ordered(Pipe(p)', DownOrder)
    BY <1>10, <1>12 DEF PipeFormat
  <2>2. ASSUME NEW f \in Range(Pipe(p)'), f.z PROVE Told(p)'
    <3>1. Told(p)
      BY <2>2, <1>10, <1>12 DEF PipeFormat
    <3>2. CASE sock'[p] = Pipe(p)
      BY <3>1, <3>2, <1>11 DEF Told
    <3>3. CASE sock'[p] = sock[p]
      <4>1. ASSUME NEW g \in Range(tx[p]), g.what = "compression" PROVE FALSE
        <5>1. <<f, g>> \in DownOrder
          BY <3>3, <1>10, <1>11 DEF PipeFormat
        <5> QED
          BY <2>2, <4>1, <5>1 DEF DownOrder
      <4> QED
        BY <3>1, <3>3, <4>1, <1>11 DEF Told
    <3> QED
      BY <3>2, <3>3
  <2>3. \A f \in Range(Pipe(p)') :
          /\ ~f.z => ~cmode'[p]
          /\ f.what = "compression" => ~f.z
          /\ f.what \in {"compression", "success"} => Hushed(p)'
          /\ f.what = "success" => f.z = Compress /\ mode'[p] = Compress /\ ~Switching(p)'
    BY <1>10, <1>12, <1>17 DEF PipeFormat
  <2> QED
    BY <2>1, <2>2, <2>3, <1>2 DEF PipeFormat
<1>20. Alive(p)'
  <2> SUFFICES ASSUME state[p] = "Play" PROVE Alive(p)'
    BY DEF Alive
  <2>1. Alone(p) /\ (InOutbox(p) \/ InPipe(p) \/ InUp(p) \/ InInbox(p) => pending[p])
    BY <1>10 DEF Alive
  <2>2. /\ InOutbox(p)' => InOutbox(p)
        /\ InPipe(p)' => InPipe(p)
        /\ ~InUp(p)'
        /\ InInbox(p)' => InInbox(p) \/ InUp(p)
    BY <1>2, <1>3, <1>4, <1>5, <1>6, <1>12, RangeEmpty DEF InOutbox, InPipe, InUp, InInbox, Msg
  <2>3. Ordered(inq', Once(InMsg, Answers(p)))
    BY <2>1, <1>4, <1>6, <1>8
  <2>4. Ordered(up'[p], Once(Upward, Answering)) /\ Ordered(Pipe(p)', Once(Down, Asking))
        /\ Ordered(Outbox', Once(OutMsg, KeepAlives(p)))
    BY <2>1, <1>2, <1>12, OrderedEmpty DEF Alone
  <2>5. Alone(p)'
    BY <2>1, <2>2, <2>3, <2>4 DEF Alone, KeepAlives, Answers, Msg
  <2> QED
    BY <2>1, <2>2, <2>5, <1>2 DEF Alive
<1>21. Session(p)'
  BY <1>14, <1>15, <1>16, <1>18, <1>19, <1>20 DEF Session
<1>22. Ordered(Outbox', OutOrder)
  BY <1>0 DEF Flow
<1> QED
  BY <1>7, <1>9, <1>21, <1>22 DEF Flow

\* The connection is closed and no packet came before.
LEMMA CloseAtOnce ==
  ASSUME SessionInv, NEW p \in Conns, Live(p), CloseConn(p, <<>>),
         UNCHANGED <<mode, state, pending, phase, cmode, ignored, at>>,
         \A c \in Conns : c # p => sock'[c] = sock[c],
         sock'[p] = sock[p] \/ (phase[p] # "left" /\ sock'[p] = Pipe(p)),
         Range(Outbox') \subseteq Range(Outbox),
         \A R : Ordered(Outbox, R) => Ordered(Outbox', R),
         \A m : m.conn # p => (m \in Range(Outbox') <=> m \in Range(Outbox)),
         Has(p, "EnableCompression") => Has(p, "EnableCompression")'
  PROVE  Flow'
<1>0. TypeOK
  BY DEF SessionInv
<1>1. 0 \in 0..Len(up[p])
  BY <1>0, Types
<1>2. Packets(p, 0) = <<>>
  BY <1>0, <1>1, PacketsFacts
<1>3. CloseConn(p, Packets(p, 0))
  BY <1>2
<1> QED
  BY <1>1, <1>3, CloseFlow

LEMMA ReadEofFlow == ASSUME SessionInv, NEW p \in Conns, ReadEof(p) PROVE Flow'
<1>0. TypeOK
  BY DEF SessionInv
<1>1. /\ <<p, "r">> \in ready /\ CloseConn(p, Packets(p, Len(up[p])))
      /\ UNCHANGED <<mode, state, pending, phase, cmode, ignored, at, sock, outq, emit>>
  BY DEF ReadEof, players, onTick, peers
<1>2. Live(p) /\ Outbox' = Outbox
  BY <1>0, <1>1 DEF TypeOK, Outbox
<1>3. Len(up[p]) \in 0..Len(up[p])
  <2>1. Len(up[p]) \in Nat
    BY <1>0, Types
  <2> QED
    BY <2>1
<1> QED
  BY <1>1, <1>2, <1>3, CloseFlow DEF Has

LEMMA ReadCorruptFlow ==
  ASSUME SessionInv, NEW p \in Conns, NEW n \in 1..Len(up[p]), ReadCorrupt(p, n) PROVE Flow'
<1>0. TypeOK
  BY DEF SessionInv
<1>1. /\ <<p, "r">> \in ready /\ CloseConn(p, Packets(p, n - 1))
      /\ UNCHANGED <<mode, state, pending, phase, cmode, ignored, at, sock, outq, emit>>
  BY DEF ReadCorrupt, players, onTick, peers
<1>2. Live(p) /\ Outbox' = Outbox
  BY <1>0, <1>1 DEF TypeOK, Outbox
<1>3. n - 1 \in 0..Len(up[p])
  <2>1. Len(up[p]) \in Nat
    BY <1>0, Types
  <2> QED
    BY <2>1
<1> QED
  BY <1>1, <1>2, <1>3, CloseFlow DEF Has

LEMMA CloseLeftFlow == ASSUME SessionInv, NEW p \in Conns, CloseLeft(p) PROVE Flow'
<1>1. /\ Live(p) /\ CloseConn(p, <<>>)
      /\ UNCHANGED <<mode, state, pending, phase, cmode, ignored, at, sock, outq, emit>>
  BY DEF CloseLeft, players, onTick, peers
<1>2. Outbox' = Outbox
  BY <1>1 DEF Outbox
<1> QED
  BY <1>1, <1>2, CloseAtOnce DEF Has

-------------------------------------------------------------------------------
(* The net thread writes.                                                      *)

\* Frames move from the buffer to the socket, while a message that no format
\* hangs on is popped or none is.
LEMMA WriteFlow ==
  ASSUME SessionInv, TypeOK', NEW p \in Conns, Live(p),
         UNCHANGED <<mode, state, pending, phase, cmode, ignored, at, inq, up>>,
         \A c \in Conns : c # p => chan'[c] = chan[c] /\ tx'[c] = tx[c] /\ sock'[c] = sock[c],
         chan'[p] \in {chan[p], "closing"},
         phase[p] = "left" => sock'[p] = <<>> /\ tx'[p] \in {tx[p], <<>>},
         phase[p] # "left" => Pipe(p)' = Pipe(p),
         Range(Outbox') \subseteq Range(Outbox),
         \A R : Ordered(Outbox, R) => Ordered(Outbox', R),
         \A m : m.conn # p => (m \in Range(Outbox') <=> m \in Range(Outbox)),
         \A w : w # "Close" => (Has(p, w)' <=> Has(p, w)),
         chan'[p] = "open" => chan[p] = "open" /\ (Has(p, "Close") => Has(p, "Close")')
  PROVE  Flow'
<1>0. TypeOK /\ Flow /\ Session(p) /\ sock[p] \in Seq(Down) /\ tx[p] \in Seq(Down)
  BY Types DEF SessionInv, Flow
<1>1. Ends(p) /\ News(p) /\ Words(p) /\ Switches(p) /\ (phase[p] # "left" => PipeFormat(p))
       /\ Alive(p)
  BY <1>0 DEF Session
<1>2. Live(p)' /\ (Ticking' <=> Ticking)
  BY DEF Live, Ticking
<1>3. ASSUME NEW c \in Conns, c # p PROVE Session(c)'
  <2>1. Untouched(c)
    BY <1>3 DEF Untouched
  <2>2. \A m : m.conn = c => (m \in Range(Outbox') <=> m \in Range(Outbox))
    BY <1>3
  <2> QED
    BY <2>1, <2>2, <1>0, <1>2, <1>3, Others DEF Flow
<1>4. Ends(p)'
  BY <1>1, <1>2 DEF Ends, Live
<1>5. News(p)'
  <2>1. chan'[p] = "open" => chan[p] = "open" /\ (Has(p, "Close") => Has(p, "Close")')
    OBVIOUS
  <2>2. chan[p] \notin {"none", "closed"} /\ chan'[p] \notin {"none", "closed"}
    BY <1>2 DEF Live
  <2> QED
    BY <2>1, <2>2, <1>1 DEF News, Has
<1>6. sock[p] = <<>> /\ tx[p] = <<>> => sock'[p] = <<>> /\ tx'[p] = <<>>
  <2>1. CASE phase[p] = "left"
    BY <2>1
  <2>2. ASSUME phase[p] # "left", sock[p] = <<>>, tx[p] = <<>>
        PROVE  sock'[p] = <<>> /\ tx'[p] = <<>>
    <3>1. <<>> \o <<>> = <<>>
      OBVIOUS
    <3>2. sock'[p] \o tx'[p] = <<>>
      BY <3>1, <2>2 DEF Pipe
    <3>3. sock'[p] \in Seq(Down) /\ tx'[p] \in Seq(Down)
      BY TypeParts DEF Typed, NetTypes, WireTypes
    <3>4. \A s, t \in Seq(Down) : s \o t = <<>> => s = <<>> /\ t = <<>>
      <4> TAKE s, t \in Seq(Down)
      <4>1. Len(s \o t) = Len(s) + Len(t) /\ Len(s) \in Nat /\ Len(t) \in Nat
        BY ConcatProperties, LenProperties
      <4>2. Len(s) = 0 /\ Len(t) = 0 => s = <<>> /\ t = <<>>
        BY EmptySeq
      <4>3. Len(<<>>) = 0
        OBVIOUS
      <4> HAVE s \o t = <<>>
      <4>4. Len(s) + Len(t) = 0
        BY <4>1, <4>3
      <4> QED
        BY <4>1, <4>2, <4>4
    <3> QED
      BY <3>2, <3>3, <3>4
  <2> QED
    BY <2>1, <2>2
<1>7. Words(p)'
  <2>1. (LastWordIn(p)' <=> LastWordIn(p)) /\ (LastWordUp(p)' <=> LastWordUp(p))
    BY DEF LastWordIn, LastWordUp
  <2>2. Fresh(p) => Fresh(p)'
    BY <1>6 DEF Fresh
  <2> QED
    BY <2>1, <2>2, <1>1 DEF Words
<1>8. phase[p] # "left" => (Told(p)' <=> Told(p))
  BY DEF Told
<1>9. (Switching(p)' <=> Switching(p)) /\ (Hushed(p)' <=> Hushed(p))
  BY DEF Switching, Hushed, Switch
<1>10. Switches(p)'
  BY <1>1, <1>2, <1>6, <1>8, <1>9 DEF Switches
<1>11. phase'[p] # "left" => PipeFormat(p)'
  <2> SUFFICES ASSUME phase[p] # "left" PROVE PipeFormat(p)'
    OBVIOUS
  <2>1. \A f \in Range(Pipe(p)') :
          /\ f.z => Told(p)'
          /\ ~f.z => ~cmode'[p]
          /\ f.what = "compression" => ~f.z
          /\ f.what \in {"compression", "success"} => Hushed(p)'
          /\ f.what = "success" => f.z = Compress /\ mode'[p] = Compress /\ ~Switching(p)'
    BY <1>1, <1>8, <1>9 DEF PipeFormat
  <2> QED
    BY <2>1, <1>1, <1>2, <1>8 DEF PipeFormat
<1>12. Alive(p)'
  <2> SUFFICES ASSUME state[p] = "Play" PROVE Alive(p)'
    BY DEF Alive
  <2>1. Alone(p)
    BY <1>1 DEF Alive
  <2>2. /\ InOutbox(p)' <=> InOutbox(p)
        /\ InUp(p)' <=> InUp(p)
        /\ InInbox(p)' <=> InInbox(p)
    BY DEF InOutbox, InUp, InInbox, Has
  <2>3. /\ InPipe(p)' => InPipe(p)
        /\ \A R : Ordered(Pipe(p), R) => Ordered(Pipe(p)', R)
    <3>1. CASE phase[p] # "left"
      BY <3>1 DEF InPipe
    <3>2. CASE phase[p] = "left" /\ tx'[p] = <<>>
      <4>1. Pipe(p)' = <<>>
        BY <3>2 DEF Pipe
      <4> QED
        BY <4>1, RangeEmpty, OrderedEmpty DEF InPipe
    <3>3. CASE phase[p] = "left" /\ tx'[p] = tx[p]
      <4>1. Pipe(p)' = Pipe(p)
        BY <3>3, <1>1 DEF Pipe, Ends
      <4> QED
        BY <4>1 DEF InPipe
    <3> QED
      BY <3>1, <3>2, <3>3
  <2>4. Alone(p)'
    BY <2>1, <2>2, <2>3, FewerTokens
  <2>5. phase'[p] # "left" => (InPipe(p)' <=> InPipe(p))
    BY DEF InPipe
  <2> QED
    BY <2>2, <2>3, <2>4, <2>5, <1>1, <1>2 DEF Alive
<1>13. Session(p)'
  BY <1>4, <1>5, <1>7, <1>10, <1>11, <1>12 DEF Session
<1> QED
  BY <1>0, <1>3, <1>13 DEF Flow

LEMMA PopOutFacts ==
  ASSUME SessionInv, NEW p \in Conns, NEW kinds, PopOut(p, kinds), NEW h, h = Head(outq)
  PROVE  /\ UNCHANGED <<state, pending, phase, cmode, ignored, at, emit, net>>
         /\ h \in OutMsg /\ h.conn = p /\ h.what \in kinds /\ h = Msg(p, h.what)
         /\ Range(Outbox) = {h} \cup Range(Outbox')
         /\ \A R : Ordered(Outbox, R) => /\ Ordered(Outbox', R)
                                         /\ \A b \in Range(Outbox') : <<h, b>> \in R
         /\ \A m : m.conn # p => (m \in Range(Outbox') <=> m \in Range(Outbox))
         /\ \A w : w # h.what => (Has(p, w)' <=> Has(p, w))
         /\ \A w \in Switch :
              Has(p, w)' => \/ h.what = "compression" /\ w # "compression"
                            \/ h.what = "EnableCompression" /\ w = "success"
<1>0. TypeOK /\ Flow
  BY DEF SessionInv
<1>1. /\ outq # <<>> /\ h.conn = p /\ h.what \in kinds /\ outq' = Tail(outq)
      /\ UNCHANGED <<state, pending, phase, cmode, ignored, at, emit, net>>
  BY DEF PopOut, players, onTick, peers
<1>2. /\ h \in OutMsg /\ Range(Outbox) = {h} \cup Range(Outbox')
      /\ \A R : Ordered(Outbox, R) => /\ Ordered(Outbox', R)
                                      /\ \A b \in Range(Outbox') : <<h, b>> \in R
  BY <1>0, <1>1, PopOutbox
<1>3. h = Msg(p, h.what)
  BY <1>1, <1>2 DEF OutMsg, Msg
<1>4. \A m : m.conn # p => (m \in Range(Outbox') <=> m \in Range(Outbox))
  BY <1>1, <1>2
<1>5. \A w : Msg(p, w).conn = p /\ Msg(p, w).what = w
  BY DEF Msg
<1>6. \A w : w # h.what => (Has(p, w)' <=> Has(p, w))
  BY <1>2, <1>5 DEF Has
<1>7. ASSUME NEW w \in Switch, Has(p, w)'
      PROVE  \/ h.what = "compression" /\ w # "compression"
             \/ h.what = "EnableCompression" /\ w = "success"
  <2>1. <<h, Msg(p, w)>> \in OutOrder
    BY <1>0, <1>2, <1>7 DEF Flow, Has
  <2> QED
    BY <2>1, <1>1, <1>5 DEF OutOrder
<1> QED
  BY <1>1, <1>2, <1>3, <1>4, <1>6, <1>7

LEMMA WriteActionFlow == ASSUME SessionInv, NEW p \in Conns, Write(p) PROVE Flow'
<1>0. TypeOK /\ Flow /\ Session(p) /\ sock[p] \in Seq(Down) /\ tx[p] \in Seq(Down)
  BY Types DEF SessionInv, Flow
<1>0a. TypeOK'
  BY <1>0, TypeNext DEF Next, NetThread
<1>1. /\ UNCHANGED <<mode, state, pending, phase, cmode, ignored, at, emit, outq>>
      /\ <<p, "w">> \in ready
  BY DEF Write, players, onTick, peers
<1>2. Live(p) /\ Outbox' = Outbox /\ \A w : Has(p, w)' <=> Has(p, w)
  BY <1>0, <1>1 DEF TypeOK, Outbox, Has
<1>5. \/ FlushFails(p, <<>>)
      \/ /\ Flush(p, tx[p])
         /\ \/ Flushed(p, tx[p]) /\ CloseConn(p, <<>>)
            \/ tx' = [tx EXCEPT ![p] = Rest(p, tx[p])] /\ UNCHANGED <<chan, inq, up>>
  BY DEF Write
<1>3. CASE FlushFails(p, <<>>)
  BY <1>1, <1>2, <1>3, CloseAtOnce DEF FlushFails
<1>4. CASE /\ Flush(p, tx[p])
           /\ \/ Flushed(p, tx[p]) /\ CloseConn(p, <<>>)
              \/ tx' = [tx EXCEPT ![p] = Rest(p, tx[p])] /\ UNCHANGED <<chan, inq, up>>
  <2>1. /\ \A c \in Conns : c # p => sock'[c] = sock[c]
        /\ phase[p] = "left" => sock'[p] = sock[p] /\ Rest(p, tx[p]) = <<>>
        /\ phase[p] # "left" => sock'[p] \o Rest(p, tx[p]) = sock[p] \o tx[p]
        /\ phase[p] # "left" /\ Flushed(p, tx[p]) => sock'[p] = sock[p] \o tx[p]
    BY <1>0, <1>4, FlushType
  <2>2. CASE Flushed(p, tx[p]) /\ CloseConn(p, <<>>)
    <3>1. sock'[p] = sock[p] \/ (phase[p] # "left" /\ sock'[p] = Pipe(p))
      BY <2>1, <2>2 DEF Pipe
    <3> QED
      BY <2>1, <2>2, <3>1, <1>1, <1>2, CloseAtOnce
  <2>3. CASE tx' = [tx EXCEPT ![p] = Rest(p, tx[p])] /\ UNCHANGED <<chan, inq, up>>
    <3>1. tx'[p] = Rest(p, tx[p]) /\ \A c \in Conns : c # p => tx'[c] = tx[c]
      BY <2>3, <1>0, Domains
    <3>2. phase[p] = "left" => sock'[p] = <<>> /\ tx'[p] \in {tx[p], <<>>}
      BY <2>1, <3>1, <1>0 DEF Session, Ends
    <3>3. phase[p] # "left" => Pipe(p)' = Pipe(p)
      BY <2>1, <3>1 DEF Pipe
    <3> QED
      BY <2>1, <2>3, <3>1, <3>2, <3>3, <1>0a, <1>1, <1>2, WriteFlow
  <2> QED
    BY <2>2, <2>3, <1>4
<1> QED
  BY <1>3, <1>4, <1>5

LEMMA PopCloseFlow == ASSUME SessionInv, NEW p \in Conns, PopClose(p) PROVE Flow'
<1> DEFINE h == Head(outq)
<1>0. TypeOK /\ Flow /\ Session(p) /\ sock[p] \in Seq(Down) /\ tx[p] \in Seq(Down)
  BY Types DEF SessionInv, Flow
<1>0a. TypeOK'
  BY <1>0, TypeNext DEF Next, NetThread
<1>1. Live(p) /\ mode' = mode /\ PopOut(p, {"Close"})
  BY DEF PopClose
<1>2. /\ UNCHANGED <<state, pending, phase, cmode, ignored, at>> /\ h.what = "Close"
      /\ Range(Outbox) = {h} \cup Range(Outbox')
      /\ \A R : Ordered(Outbox, R) => Ordered(Outbox', R)
      /\ \A m : m.conn # p => (m \in Range(Outbox') <=> m \in Range(Outbox))
      /\ \A w : w # h.what => (Has(p, w)' <=> Has(p, w))
  <2>1. h = Head(outq)
    OBVIOUS
  <2> HIDE DEF h
  <2> QED
    BY <2>1, <1>1, PopOutFacts
<1> HIDE DEF h
<1>3. Range(Outbox') \subseteq Range(Outbox) /\ \A w : w # "Close" => (Has(p, w)' <=> Has(p, w))
  BY <1>2
<1>4. CASE /\ phase[p] = "left" /\ chan' = [chan EXCEPT ![p] = "closing"]
           /\ UNCHANGED <<tx, ready, inq, wires>>
  <2>1. chan'[p] = "closing" /\ \A c \in Conns : c # p => chan'[c] = chan[c]
    BY <1>0, <1>4, Domains
  <2>2. sock'[p] = <<>>
    BY <1>0, <1>4 DEF Session, Ends, wires
  <2> QED
    BY <2>1, <2>2, <1>0a, <1>1, <1>2, <1>3, <1>4, WriteFlow DEF wires
<1>5. CASE /\ Flush(p, tx[p])
           /\ \/ Flushed(p, tx[p]) /\ CloseConn(p, <<>>)
              \/ /\ chan' = [chan EXCEPT ![p] = "closing"]
                 /\ tx' = [tx EXCEPT ![p] = Rest(p, tx[p])] /\ UNCHANGED <<ready, inq, up>>
  <2>1. /\ \A c \in Conns : c # p => sock'[c] = sock[c]
        /\ phase[p] = "left" => sock'[p] = sock[p] /\ Rest(p, tx[p]) = <<>>
        /\ phase[p] # "left" => sock'[p] \o Rest(p, tx[p]) = sock[p] \o tx[p]
        /\ phase[p] # "left" /\ Flushed(p, tx[p]) => sock'[p] = sock[p] \o tx[p]
    BY <1>0, <1>5, FlushType
  <2>2. CASE Flushed(p, tx[p]) /\ CloseConn(p, <<>>)
    <3>1. sock'[p] = sock[p] \/ (phase[p] # "left" /\ sock'[p] = Pipe(p))
      BY <2>1, <2>2 DEF Pipe
    <3> QED
      BY <2>1, <2>2, <3>1, <1>1, <1>2, <1>3, CloseAtOnce
  <2>3. CASE /\ chan' = [chan EXCEPT ![p] = "closing"]
             /\ tx' = [tx EXCEPT ![p] = Rest(p, tx[p])] /\ UNCHANGED <<ready, inq, up>>
    <3>1. /\ tx'[p] = Rest(p, tx[p]) /\ \A c \in Conns : c # p => tx'[c] = tx[c]
          /\ chan'[p] = "closing" /\ \A c \in Conns : c # p => chan'[c] = chan[c]
      BY <2>3, <1>0, Domains
    <3>2. phase[p] = "left" => sock'[p] = <<>> /\ tx'[p] \in {tx[p], <<>>}
      BY <2>1, <3>1, <1>0 DEF Session, Ends
    <3>3. phase[p] # "left" => Pipe(p)' = Pipe(p)
      BY <2>1, <3>1 DEF Pipe
    <3> QED
      BY <2>1, <2>3, <3>1, <3>2, <3>3, <1>0a, <1>1, <1>2, <1>3, WriteFlow
  <2> QED
    BY <1>5, <2>2, <2>3
<1> QED
  BY <1>4, <1>5 DEF PopClose

LEMMA PopEnableCompressionFlow ==
  ASSUME SessionInv, NEW p \in Conns, PopEnableCompression(p) PROVE Flow'
<1> DEFINE h == Head(outq)
<1>0. TypeOK /\ Flow /\ Session(p)
  BY DEF SessionInv, Flow
<1>1. /\ Live(p) /\ PopOut(p, {"EnableCompression"}) /\ mode' = [mode EXCEPT ![p] = TRUE]
      /\ UNCHANGED <<chan, tx, inq, sock, up>>
  BY DEF PopEnableCompression, wires
<1>2. /\ UNCHANGED <<state, pending, phase, cmode, ignored, at>>
      /\ h.what = "EnableCompression" /\ h = Msg(p, h.what) /\ h.conn = p
      /\ Range(Outbox) = {h} \cup Range(Outbox')
      /\ \A R : Ordered(Outbox, R) => Ordered(Outbox', R)
      /\ \A m : m.conn # p => (m \in Range(Outbox') <=> m \in Range(Outbox))
      /\ \A w : w # h.what => (Has(p, w)' <=> Has(p, w))
      /\ \A w \in Switch :
           Has(p, w)' => \/ h.what = "compression" /\ w # "compression"
                         \/ h.what = "EnableCompression" /\ w = "success"
  <2>1. h = Head(outq)
    OBVIOUS
  <2> HIDE DEF h
  <2> QED
    BY <2>1, <1>1, PopOutFacts
<1> HIDE DEF h
<1>3. /\ Has(p, "EnableCompression") /\ ~Has(p, "EnableCompression")' /\ ~Has(p, "compression")
      /\ ~Has(p, "compression")' /\ (Has(p, "success")' <=> Has(p, "success"))
      /\ Range(Outbox') \subseteq Range(Outbox)
  BY <1>2 DEF Has, Switch
<1>4. /\ mode'[p] = TRUE /\ \A c \in Conns : c # p => mode'[c] = mode[c]
      /\ Pipe(p)' = Pipe(p) /\ (Told(p)' <=> Told(p)) /\ (Live(p)' <=> Live(p))
      /\ (Ticking' <=> Ticking)
  <2>1. mode'[p] = TRUE /\ \A c \in Conns : c # p => mode'[c] = mode[c]
    BY <1>0, <1>1, Domains
  <2> QED
    BY <2>1, <1>1, <1>2, SamePipe DEF Live, Ticking
<1>5. ASSUME NEW c \in Conns, c # p PROVE Session(c)'
  <2>1. Untouched(c)
    BY <1>1, <1>2, <1>4, <1>5 DEF Untouched
  <2>2. \A m : m.conn = c => (m \in Range(Outbox') <=> m \in Range(Outbox))
    BY <1>2, <1>5
  <2> QED
    BY <2>1, <2>2, <1>0, <1>1, <1>2, <1>4, Others DEF Flow
<1>6. Ends(p) /\ News(p) /\ Words(p) /\ Switches(p) /\ (phase[p] # "left" => PipeFormat(p))
      /\ Alive(p)
  BY <1>0 DEF Session
<1>7. ~Fresh(p)
  BY <1>2 DEF Fresh
<1>8. Compress /\ Hushed(p) /\ Hushed(p)' /\ (phase[p] # "left" => Told(p))
  BY <1>1, <1>2, <1>3, <1>6 DEF Switches, Switching, Switch, Hushed
<1>9. Ends(p)'
  BY <1>1, <1>2, <1>4, <1>6 DEF Ends
<1>10. News(p)'
  <2>1. Has(p, "Close")' <=> Has(p, "Close")
    BY <1>2
  <2> QED
    BY <2>1, <1>1, <1>2, <1>4, <1>6 DEF News, Has
<1>11. Words(p)'
  BY <1>1, <1>2, <1>6, <1>7 DEF Words, LastWordIn, LastWordUp
<1>12. Switches(p)'
  <2>1. Range(up'[p]) = {}
    BY <1>1, <1>8, RangeEmpty DEF Hushed
  <2>2. phase'[p] # "play"
    BY <1>8 DEF Hushed
  <2> QED
    BY <2>1, <2>2, <1>3, <1>4, <1>8, SessionConstants DEF Switches
<1>13. phase'[p] # "left" => PipeFormat(p)'
  <2> SUFFICES ASSUME phase[p] # "left" PROVE PipeFormat(p)'
    BY <1>2
  <2>1. Switching(p)
    BY <1>3 DEF Switching, Switch
  <2>2. \A f \in Range(Pipe(p)') :
          /\ f.z => Told(p)'
          /\ ~f.z => ~cmode'[p]
          /\ f.what = "compression" => ~f.z
          /\ f.what \in {"compression", "success"} => Hushed(p)'
          /\ f.what = "success" => f.z = Compress /\ mode'[p] = Compress /\ ~Switching(p)'
    BY <2>1, <1>2, <1>4, <1>6, <1>8 DEF PipeFormat
  <2> QED
    BY <2>2, <1>4, <1>6, <1>8 DEF PipeFormat
<1>14. Alive(p)'
  <2>1. /\ InOutbox(p)' <=> InOutbox(p)
        /\ InPipe(p)' <=> InPipe(p)
        /\ InUp(p)' <=> InUp(p)
        /\ InInbox(p)' <=> InInbox(p)
    BY <1>1, <1>2, <1>4 DEF InOutbox, InPipe, InUp, InInbox, Has
  <2>2. Alone(p) => Alone(p)'
    BY <2>1, <1>1, <1>2, <1>4, FewerTokens
  <2> QED
    BY <2>1, <2>2, <1>2, <1>4, <1>6 DEF Alive
<1>15. Session(p)'
  BY <1>9, <1>10, <1>11, <1>12, <1>13, <1>14 DEF Session
<1> QED
  BY <1>0, <1>1, <1>2, <1>5, <1>15 DEF Flow

LEMMA PopSendFlow == ASSUME SessionInv, NEW p \in Conns, PopSend(p) PROVE Flow'
<1> DEFINE h == Head(outq)
           f == [what |-> h.what, z |-> mode[p]]
           buf == Append(tx[p], f)
<1>0. TypeOK /\ Flow /\ Session(p) /\ sock[p] \in Seq(Down) /\ tx[p] \in Seq(Down)
  BY Types DEF SessionInv, Flow
<1>0a. TypeOK'
  BY <1>0, TypeNext DEF Next, NetThread
<1>1. /\ Live(p) /\ PopOut(p, Replies) /\ mode' = mode
      /\ \/ CloseConn(p, <<>>) /\ sock' = sock
         \/ /\ Flush(p, buf) /\ tx' = [tx EXCEPT ![p] = Rest(p, buf)]
            /\ UNCHANGED <<chan, ready, inq, up>>
  BY DEF PopSend, FlushFails
<1>2. /\ UNCHANGED <<state, pending, phase, cmode, ignored, at>>
      /\ h.what \in Replies /\ h = Msg(p, h.what) /\ h.conn = p
      /\ Range(Outbox) = {h} \cup Range(Outbox')
      /\ \A R : Ordered(Outbox, R) => /\ Ordered(Outbox', R)
                                      /\ \A b \in Range(Outbox') : <<h, b>> \in R
      /\ \A m : m.conn # p => (m \in Range(Outbox') <=> m \in Range(Outbox))
      /\ \A w : w # h.what => (Has(p, w)' <=> Has(p, w))
      /\ \A w \in Switch :
           Has(p, w)' => \/ h.what = "compression" /\ w # "compression"
                         \/ h.what = "EnableCompression" /\ w = "success"
  <2>1. h = Head(outq)
    OBVIOUS
  <2> HIDE DEF h
  <2> QED
    BY <2>1, <1>1, PopOutFacts
<1>3. f \in Down /\ f.what = h.what /\ f.z = mode[p]
  BY <1>0, <1>2, Domains DEF Down
<1>4. buf \in Seq(Down) /\ <<f>> \in Seq(Down) /\ buf = tx[p] \o <<f>>
  BY <1>0, <1>3, AppendProperties, AppendIsConcat
<1> HIDE DEF h, f, buf
<1>5. /\ Range(Outbox') \subseteq Range(Outbox) /\ h.what # "EnableCompression"
      /\ (Has(p, "EnableCompression")' <=> Has(p, "EnableCompression"))
      /\ Has(p, h.what)
  BY <1>2 DEF Replies, Has
<1>6. CASE CloseConn(p, <<>>) /\ sock' = sock
  BY <1>1, <1>2, <1>5, <1>6, CloseAtOnce
<1>7. CASE /\ Flush(p, buf) /\ tx' = [tx EXCEPT ![p] = Rest(p, buf)]
           /\ UNCHANGED <<chan, ready, inq, up>>
  <2>1. /\ \A c \in Conns : c # p => sock'[c] = sock[c]
        /\ phase[p] = "left" => sock'[p] = sock[p] /\ Rest(p, buf) = <<>>
        /\ phase[p] # "left" => sock'[p] \o Rest(p, buf) = sock[p] \o buf
    BY <1>0, <1>4, <1>7, FlushType
  <2>2. tx'[p] = Rest(p, buf) /\ \A c \in Conns : c # p => tx'[c] = tx[c]
    BY <1>0, <1>7, Domains
  <2>3. phase[p] = "left" => sock'[p] = <<>> /\ tx'[p] = <<>> /\ Pipe(p)' = <<>>
    BY <2>1, <2>2, <1>0 DEF Session, Ends, Pipe
  <2>4. phase[p] # "left" =>
          /\ Range(Pipe(p)') = Range(Pipe(p)) \cup {f}
          /\ \A R : Ordered(Pipe(p), R) /\ (\A a \in Range(Pipe(p)) : <<a, f>> \in R)
                      => Ordered(Pipe(p)', R)
    <3> SUFFICES ASSUME phase[p] # "left"
                 PROVE  /\ Range(Pipe(p)') = Range(Pipe(p)) \cup {f}
                        /\ \A R : Ordered(Pipe(p), R) /\ (\A a \in Range(Pipe(p)) : <<a, f>> \in R)
                                    => Ordered(Pipe(p)', R)
      OBVIOUS
    <3>1. sock[p] \o (tx[p] \o <<f>>) = (sock[p] \o tx[p]) \o <<f>>
      <4>1. \A s, a, b \in Seq(Down) : (s \o a) \o b = s \o (a \o b)
        BY ConcatAssociative
      <4> QED
        BY <4>1, <1>0, <1>4
    <3>2. Pipe(p)' = Pipe(p) \o <<f>>
      <4>1. Pipe(p)' = sock'[p] \o Rest(p, buf)
        BY <2>2 DEF Pipe
      <4>2. Pipe(p)' = sock[p] \o buf
        BY <4>1, <2>1
      <4> QED
        BY <4>2, <3>1, <1>4 DEF Pipe
    <3>3. Pipe(p) \in Seq(Down)
      BY <1>0, Types
    <3>4. Range(<<f>>) = {f} /\ \A R : Ordered(<<f>>, R)
      BY RangeOne DEF Ordered
    <3>5. \A s, t \in Seq(Down) : Range(s \o t) = Range(s) \cup Range(t)
      BY RangeConcatenation
    <3>6. Range(Pipe(p) \o <<f>>) = Range(Pipe(p)) \cup {f}
      BY <3>3, <3>4, <3>5, <1>4
    <3>7. \A R : Ordered(Pipe(p), R) /\ (\A a \in Range(Pipe(p)) : <<a, f>> \in R)
                   => Ordered(Pipe(p) \o <<f>>, R)
      BY <3>3, <3>4, <1>4, OrderedConcat
    <3> QED
      BY <3>2, <3>6, <3>7
  <2>5. \A a \in Range(Pipe(p)) : a \in Down
    <3>1. Pipe(p) \in Seq(Down)
      BY <1>0, Types
    <3> QED
      BY <3>1, RangeOfSeq
  <2>6. Live(p)' /\ (Ticking' <=> Ticking) /\ mode[p] \in BOOLEAN
    BY <1>0, <1>1, <1>2, <1>7, Domains DEF Live, Ticking
  <2>7. ASSUME NEW c \in Conns, c # p PROVE Session(c)'
    <3>1. Untouched(c)
      BY <2>1, <2>2, <2>7, <1>1, <1>2, <1>7 DEF Untouched
    <3>2. \A m : m.conn = c => (m \in Range(Outbox') <=> m \in Range(Outbox))
      BY <1>2, <2>7
    <3> QED
      BY <3>1, <3>2, <2>6, <1>0, <1>2, <1>7, Others DEF Flow
  <2>8. Ends(p) /\ News(p) /\ Words(p) /\ Switches(p) /\ (phase[p] # "left" => PipeFormat(p))
        /\ Alive(p)
    BY <1>0 DEF Session
  <2>9. ~Fresh(p)
    BY <1>2 DEF Fresh
  <2>10. Ends(p)'
    BY <2>3, <2>6, <2>8, <1>2, <1>7 DEF Ends, Live
  <2>11. News(p)'
    <3>1. Has(p, "Close")' <=> Has(p, "Close")
      BY <1>2 DEF Replies
    <3> QED
      BY <3>1, <2>6, <2>8, <1>2, <1>7 DEF News, Has
  <2>12. Words(p)'
    BY <2>8, <2>9, <1>2, <1>7 DEF Words, LastWordIn, LastWordUp
\* The switch: what is said may open it or end it, nothing is said within it.
  <2>13. /\ ~Has(p, "compression")'
         /\ Has(p, "EnableCompression") => h.what = "compression"
         /\ h.what = "success" => ~Switching(p)'
         /\ Has(p, "success")' => Has(p, "success")
         /\ Switching(p)' => Switching(p)
         /\ h.what \in {"compression", "success"} => Switching(p)
         /\ Hushed(p)' <=> Hushed(p)
    BY <1>2, <1>5, <1>7 DEF Switching, Switch, Hushed, Has
  <2>14. h.what = "compression" =>
           /\ ~mode[p] /\ ~cmode[p] /\ sock[p] = <<>> /\ tx[p] = <<>>
           /\ Has(p, "EnableCompression") /\ Compress /\ Range(Pipe(p)) = {}
    <3> SUFFICES ASSUME h.what = "compression"
                 PROVE  /\ ~mode[p] /\ ~cmode[p] /\ sock[p] = <<>> /\ tx[p] = <<>>
                        /\ Has(p, "EnableCompression") /\ Compress /\ Range(Pipe(p)) = {}
      OBVIOUS
    <3>1. /\ ~mode[p] /\ ~cmode[p] /\ sock[p] = <<>> /\ tx[p] = <<>>
          /\ Has(p, "EnableCompression") /\ Compress
      BY <2>8, <1>5 DEF Switches
    <3>2. Pipe(p) = <<>>
      BY <3>1 DEF Pipe
    <3> QED
      BY <3>1, <3>2, RangeEmpty
  <2>15. phase[p] # "left" => (Told(p)' <=> Told(p) \/ h.what = "compression")
    BY <2>4, <1>2, <1>3 DEF Told
  <2>16. Switches(p)'
    <3>1. Has(p, "EnableCompression")' =>
            /\ Compress /\ ~mode'[p] /\ (phase'[p] # "left" => Told(p)')
      BY <2>13, <2>14, <2>15, <1>1, <1>2, <1>5
    <3>2. Has(p, "success")' => mode'[p] = Compress \/ Has(p, "EnableCompression")'
      BY <2>8, <2>13, <1>1, <1>5 DEF Switches
    <3>3. Switching(p)' => Hushed(p)'
      BY <2>8, <2>13 DEF Switches
    <3>4. phase'[p] = "play" => mode'[p] = Compress /\ cmode'[p] = Compress
      BY <2>8, <1>1, <1>2 DEF Switches
    <3>5. \A g \in Range(up'[p]) : g.z = mode'[p] /\ g.z = cmode'[p]
      BY <2>8, <1>1, <1>2, <1>7 DEF Switches
    <3> QED
      BY <3>1, <3>2, <3>3, <3>4, <3>5, <2>13 DEF Switches
  <2>17. phase'[p] # "left" => PipeFormat(p)'
    <3> SUFFICES ASSUME phase[p] # "left" PROVE PipeFormat(p)'
      BY <1>2
    <3>1. PipeFormat(p)
      BY <2>8
    <3>2. Told(p) /\ h.what # "compression" => mode[p]
      BY <3>1, <2>13, <1>1 DEF PipeFormat
    <3>3. mode[p] => Told(p)
      BY <3>1, <1>1 DEF PipeFormat
    <3>4. Ordered(Pipe(p)', DownOrder)
      <4>1. ASSUME NEW a \in Range(Pipe(p)) PROVE <<a, f>> \in DownOrder
        <5>1. h.what # "compression"
          BY <2>14, <4>1
        <5>2. a.what = "success" => h.what # "success"
          BY <3>1, <2>13 DEF PipeFormat
        <5>3. a.what = "compression" => mode[p]
          BY <3>2, <5>1 DEF Told
        <5> QED
          BY <5>1, <5>2, <5>3, <2>5, <1>3 DEF DownOrder
      <4> QED
        BY <4>1, <3>1, <2>4 DEF PipeFormat
    <3>5. ASSUME NEW g \in Range(Pipe(p))
          PROVE  /\ g.z => Told(p)'
                 /\ ~g.z => ~cmode'[p]
                 /\ g.what = "compression" => ~g.z
                 /\ g.what \in {"compression", "success"} => Hushed(p)'
                 /\ g.what = "success" => g.z = Compress /\ mode'[p] = Compress /\ ~Switching(p)'
      BY <3>1, <2>13, <2>15, <1>1, <1>2 DEF PipeFormat
    <3>6. /\ f.z => Told(p)'
          /\ ~f.z => ~cmode'[p]
          /\ f.what = "compression" => ~f.z
      <4>1. cmode[p] => Told(p)
        BY DEF Told
      <4> QED
        BY <4>1, <3>2, <3>3, <2>14, <2>15, <1>2, <1>3
    <3>7. /\ f.what \in {"compression", "success"} => Hushed(p)'
          /\ f.what = "success" => f.z = Compress /\ mode'[p] = Compress /\ ~Switching(p)'
      <4>1. f.what \in {"compression", "success"} => Hushed(p)'
        BY <2>8, <2>13, <1>3 DEF Switches
      <4>2. h.what = "success" => mode[p] = Compress
        BY <2>8, <2>13, <1>1, <1>5 DEF Switches
      <4> QED
        BY <4>1, <4>2, <2>13, <1>1, <1>3
    <3>8. \/ mode'[p] <=> Told(p)'
          \/ ~mode'[p] /\ Told(p)' /\ Has(p, "EnableCompression")'
      BY <3>2, <3>3, <2>14, <2>15, <1>1, <1>5
    <3> QED
      BY <3>4, <3>5, <3>6, <3>7, <3>8, <2>4 DEF PipeFormat
\* The keepalives.
  <2>18. Alive(p)'
    <3> SUFFICES ASSUME state[p] = "Play" PROVE Alive(p)'
      BY <1>2 DEF Alive
    <3>1. Alone(p)
      BY <2>8 DEF Alive
    <3>2. /\ InUp(p)' <=> InUp(p)
          /\ InInbox(p)' <=> InInbox(p)
      BY <1>7 DEF InUp, InInbox
    <3>3. h.what = "keepalive" => InOutbox(p) /\ ~InOutbox(p)'
      <4> SUFFICES ASSUME h.what = "keepalive" PROVE InOutbox(p) /\ ~InOutbox(p)'
        OBVIOUS
      <4>1. InOutbox(p)
        BY <1>5 DEF InOutbox, Has
      <4>2. ASSUME InOutbox(p)' PROVE FALSE
        <5>1. <<h, Msg(p, "keepalive")>> \in Once(OutMsg, KeepAlives(p))
          BY <3>1, <4>2, <1>2 DEF Alone, InOutbox
        <5> QED
          BY <5>1, <1>2 DEF Once, KeepAlives
      <4> QED
        BY <4>1, <4>2
    <3>4. h.what # "keepalive" => (InOutbox(p)' <=> InOutbox(p))
      BY <1>2 DEF InOutbox, Has
    <3>5. phase[p] # "left" => (InPipe(p)' <=> InPipe(p) \/ h.what = "keepalive")
      BY <2>4, <1>3 DEF InPipe
    <3>6. phase[p] = "left" => ~InPipe(p)'
      BY <2>3, RangeEmpty DEF InPipe
    <3>7. Ordered(Pipe(p)', Once(Down, Asking))
      <4>1. CASE phase[p] = "left"
        BY <4>1, <2>3, OrderedEmpty
      <4>2. CASE phase[p] # "left"
        <5>1. ASSUME NEW a \in Range(Pipe(p)) PROVE <<a, f>> \in Once(Down, Asking)
          <6>1. h.what = "keepalive" => a.what # "keepalive"
            BY <3>1, <3>3 DEF Alone, InPipe
          <6> QED
            BY <6>1, <2>5, <1>3 DEF Once, Asking
        <5> QED
          BY <4>2, <5>1, <3>1, <2>4 DEF Alone
      <4> QED
        BY <4>1, <4>2
    <3>8. Alone(p)'
      <4>1. Ordered(Outbox', Once(OutMsg, KeepAlives(p)))
        BY <3>1, <1>2 DEF Alone
      <4> QED
        BY <4>1, <3>1, <3>2, <3>3, <3>4, <3>5, <3>6, <3>7, <1>7 DEF Alone, KeepAlives, Answers, Msg
    <3> QED
      BY <3>2, <3>3, <3>4, <3>5, <3>6, <3>8, <2>6, <2>8, <1>1, <1>2 DEF Alive
  <2>19. Session(p)'
    BY <2>10, <2>11, <2>12, <2>16, <2>17, <2>18 DEF Session
  <2> QED
    BY <2>7, <2>19, <1>0, <1>2, <1>7 DEF Flow
<1> QED
  BY <1>1, <1>6, <1>7

-------------------------------------------------------------------------------
(* The invariant, and what follows from it.                                    *)

LEMMA FlowNext == SessionInv /\ [Next]_vars => Flow'
<1> SUFFICES ASSUME SessionInv, [Next]_vars PROVE Flow'
  OBVIOUS
<1>1. CASE NetThread
  <2>1. CASE Poll \/ EventsEnd \/ QueueEnd \/ Leave \/ Over
    BY <2>1, QuietStepsFlow
  <2>2. ASSUME NEW p \in Conns, ReadEof(p) \/ Write(p) PROVE Flow'
    BY <2>2, ReadEofFlow, WriteActionFlow
  <2>3. ASSUME NEW p \in Conns, NEW n \in 1..Len(up[p]), Read(p, n) \/ ReadCorrupt(p, n)
        PROVE  Flow'
    BY <2>3, ReadFlow, ReadCorruptFlow
  <2>4. ASSUME NEW p \in Conns,
               \/ CloseLeft(p) \/ PopStale(p) \/ PopSend(p) \/ PopEnableCompression(p)
               \/ PopClose(p)
        PROVE  Flow'
    BY <2>4, CloseLeftFlow, PopStaleFlow, PopSendFlow, PopEnableCompressionFlow, PopCloseFlow
  <2> QED
    BY <1>1, <2>1, <2>2, <2>3, <2>4 DEF NetThread
<1>2. CASE TickThread
  <2>1. CASE Push \/ DrainEnd \/ NextTick \/ Stop \/ Join
    BY <2>1, QuietStepsFlow
  <2>2. CASE Free
    BY <2>2, FreeFlow
  <2>3. ASSUME NEW p \in Conns, AddPlayer(p) \/ RemovePlayer(p) \/ Timer(p) PROVE Flow'
    BY <2>3, AddPlayerFlow, RemovePlayerFlow, TimerFlow
  <2>4. ASSUME NEW p \in Conns, NEW what \in Requests,
               \/ Ignore(p, what) \/ HandleHandshake(p, what)
               \/ HandleLogin(p, what) \/ HandlePlay(p, what)
        PROVE  Flow'
    BY <2>4, IgnoreFlow, HandleHandshakeFlow, HandleLoginFlow, HandlePlayFlow
  <2> QED
    BY <1>2, <2>1, <2>2, <2>3, <2>4 DEF TickThread
<1>3. ASSUME NEW p \in Conns, Client(p) PROVE Flow'
  BY <1>3, AcceptFlow, SayFlow, HearFlow, HangUpFlow DEF Client
<1>4. CASE UNCHANGED vars
  BY <1>4, QuietStepsFlow
<1> QED
  BY <1>1, <1>2, <1>3, <1>4 DEF Next

LEMMA SessionNext == SessionInv /\ [Next]_vars => SessionInv'
BY TypeNext, UniqueNext, ShutdownNext, TimerNext, FlowNext DEF SessionInv

LEMMA SessionInit == Init => SessionInv
<1> SUFFICES ASSUME Init PROVE SessionInv
  OBVIOUS
<1>1. TypeOK
  BY TypeInit
<1>2. UniqueNames /\ TimerLoop /\ Shutdown
  BY DEF Init, UniqueNames, TimerLoop, Shutdown, Ticking
<1>3. inq = <<>> /\ Outbox = <<>>
  BY DEF Init, Outbox
<1>4. Range(inq) = {} /\ Range(Outbox) = {} /\ \A R : Ordered(inq, R) /\ Ordered(Outbox, R)
  BY <1>3, RangeEmpty, OrderedEmpty
<1>5. ASSUME NEW p \in Conns PROVE Session(p)
  <2>1. /\ chan[p] = "none" /\ mode[p] = FALSE /\ cmode[p] = FALSE /\ tx[p] = <<>>
        /\ sock[p] = <<>> /\ up[p] = <<>> /\ state[p] = "none" /\ pending[p] = FALSE
        /\ phase[p] = "new"
    BY DEF Init
  <2>2. Range(up[p]) = {} /\ \A R : Ordered(up[p], R)
    BY <2>1, RangeEmpty, OrderedEmpty
  <2>3. Pipe(p) = <<>>
    BY <2>1 DEF Pipe
  <2>4. Range(Pipe(p)) = {} /\ Ordered(Pipe(p), DownOrder)
    BY <2>3, RangeEmpty, OrderedEmpty
  <2>5. Ends(p) /\ News(p)
    BY <2>1, <1>4 DEF Ends, News
  <2>6. Words(p)
    BY <2>1, <2>2, <1>4 DEF Words, Fresh, LastWordIn, LastWordUp
  <2>7. \A w : ~Has(p, w)
    BY <1>4 DEF Has
  <2>8. Switches(p) /\ PipeFormat(p) /\ Alive(p)
    BY <2>1, <2>2, <2>4, <2>7 DEF Switches, Switching, PipeFormat, Told, Alive
  <2> QED
    BY <2>5, <2>6, <2>8 DEF Session
<1>6. Flow
  BY <1>4, <1>5 DEF Flow
<1> QED
  BY <1>1, <1>2, <1>6 DEF SessionInv

\* What the tick thread, the net thread and the clients know of each other, and
\* the order in which they learn it, hold in every reachable state.
THEOREM SessionInvariant == Spec => []SessionInv
BY SessionInit, SessionNext, PTL DEF Spec

\* No two players in the game have one name, whoever logs in while whose
\* connection is being closed (HandleLogin looks at players_ before it takes the
\* name, and only the tick thread writes players_).
THEOREM NamesUnique == Spec => []UniqueNames
<1>1. SessionInv => UniqueNames
  BY DEF SessionInv
<1> QED
  BY <1>1, SessionInvariant, PTL

\* A connection is waited for before the queues are freed, and they are freed to
\* the last message, wherever the net thread was when the signal came.
THEOREM ShutdownClean == Spec => []NothingLeft
<1>1. SessionInv => NothingLeft
  BY DEF SessionInv, Shutdown, NothingLeft, Ticking
<1> QED
  BY <1>1, SessionInvariant, PTL

\* A message of a queue, by its place or by itself.
LEMMA WaitsRange ==
  ASSUME NEW q, NEW p, NEW what, Msg(p, what) \in Range(q)
  PROVE  Waits(q, p, {what})
BY DEF Waits, Range, Msg

\* The Player of a closed connection is gone, or Disconnected waits in tick_q:
\* CloseConn's message is neither overtaken nor dropped while there are ticks.
THEOREM OrphansRemoved == Spec => []NoOrphans
<1>1. SessionInv => NoOrphans
  BY WaitsRange DEF SessionInv, Flow, Session, News, NoOrphans
<1> QED
  BY <1>1, SessionInvariant, PTL

\* A connection without a Player is about to get one, or a Close is on its way
\* to the net thread: Kick and Erase leave nobody talking to no one.
THEOREM SocketsHeard == Spec => []NoDeafSockets
<1>1. SessionInv => NoDeafSockets
  BY WaitsRange DEF SessionInv, Flow, Session, News, NoDeafSockets, Outbox
<1> QED
  BY <1>1, SessionInvariant, PTL

\* Both ends switch to compression between the same two frames: the first frame
\* in flight in either direction is in the format its reader expects.
THEOREM FormatsAgree == Spec => []SameFormat
<1>1. ASSUME SessionInv, NEW p \in Conns, up[p] # <<>> PROVE Head(up[p]).z = mode[p]
  <2>1. up[p] \in Seq(Upward) /\ Switches(p)
    BY <1>1, Types DEF SessionInv, Flow, Session
  <2>2. Head(up[p]) \in Range(up[p])
    BY <2>1, <1>1, RangeTail
  <2> QED
    BY <2>1, <2>2 DEF Switches
<1>2. ASSUME SessionInv, NEW p \in Conns, sock[p] # <<>> PROVE Head(sock[p]).z = cmode[p]
  <2> DEFINE h == Head(sock[p])
  <2>1. /\ sock[p] \in Seq(Down) /\ tx[p] \in Seq(Down) /\ phase[p] # "left" /\ PipeFormat(p)
        /\ cmode[p] \in BOOLEAN
    BY <1>2, Types, Domains DEF SessionInv, Flow, Session, Ends
  <2>2. /\ h \in Down /\ Range(Pipe(p)) = {h} \cup Range(Tail(sock[p]) \o tx[p])
        /\ \A R : Ordered(Pipe(p), R) => \A b \in Range(Tail(sock[p]) \o tx[p]) : <<h, b>> \in R
    BY <2>1, <1>2, PopFront DEF Pipe
  <2> HIDE DEF h
  <2>3. CASE h.z
    <3>1. Told(p) /\ h.what # "compression"
      BY <2>1, <2>2, <2>3 DEF PipeFormat
    <3>2. ASSUME NEW g \in Range(Tail(sock[p]) \o tx[p]), g.what = "compression" PROVE FALSE
      <4>1. <<h, g>> \in DownOrder
        BY <2>1, <2>2 DEF PipeFormat
      <4> QED
        BY <2>3, <3>2, <4>1 DEF DownOrder
    <3>3. cmode[p]
      BY <3>1, <3>2, <2>2 DEF Told
    <3> QED
      BY <2>1, <2>2, <2>3, <3>3 DEF Down, h
  <2>4. CASE ~h.z
    <3>1. ~cmode[p]
      BY <2>1, <2>2, <2>4 DEF PipeFormat
    <3> QED
      BY <2>1, <2>2, <2>4, <3>1 DEF Down, h
  <2> QED
    BY <2>3, <2>4
<1>3. SessionInv => SameFormat
  BY <1>1, <1>2 DEF SameFormat
<1> QED
  BY <1>3, SessionInvariant, PTL

\* Once in a sequence in order.
LEMMA OnceInOrder ==
  ASSUME NEW q, DOMAIN q \subseteq Int, NEW T, NEW S, Ordered(q, Once(T, S)),
         NEW i \in DOMAIN q, NEW j \in DOMAIN q, q[i] \in S, q[j] \in S
  PROVE  i = j
<1>1. ASSUME i < j PROVE FALSE
  <2>1. <<q[i], q[j]>> \in Once(T, S)
    BY <1>1 DEF Ordered
  <2> QED
    BY <2>1 DEF Once
<1>2. ASSUME j < i PROVE FALSE
  <2>1. <<q[j], q[i]>> \in Once(T, S)
    BY <1>2 DEF Ordered
  <2> QED
    BY <2>1 DEF Once
<1> QED
  BY <1>1, <1>2

\* One keepalive or its answer is on its way to a player in the game, and only
\* while keepalive_pending is set; and it is set for nothing only when the
\* client is gone or has dropped the keepalive.
THEOREM KeepAliveAlone == Spec => []OneKeepAlive
<1>1. ASSUME SessionInv, NEW p \in Conns, state[p] = "Play"
      PROVE  /\ (\A s, t \in Tokens(p) : s = t) /\ (Tokens(p) # {} => pending[p])
             /\ Live(p) /\ phase[p] # "left" /\ ~ignored[p] /\ pending[p] => Tokens(p) # {}
  <2>1. /\ Alone(p) /\ (InOutbox(p) \/ InPipe(p) \/ InUp(p) \/ InInbox(p) => pending[p])
        /\ Live(p) /\ phase[p] # "left" /\ ~ignored[p] /\ pending[p] =>
             InOutbox(p) \/ InPipe(p) \/ InUp(p) \/ InInbox(p)
    BY <1>1 DEF SessionInv, Flow, Session, Alive
  <2>2. /\ Outbox \in Seq(OutMsg) /\ Pipe(p) \in Seq(Down) /\ up[p] \in Seq(Upward)
        /\ inq \in Seq(InMsg)
    BY <1>1, Types DEF SessionInv
  <2>3. /\ DOMAIN Outbox \subseteq Int /\ DOMAIN Pipe(p) \subseteq Int
        /\ DOMAIN up[p] \subseteq Int /\ DOMAIN inq \subseteq Int
    <3>1. \A S : \A q \in Seq(S) : DOMAIN q \subseteq Int
      <4> TAKE S
      <4> TAKE q \in Seq(S)
      <4>1. DOMAIN q = 1..Len(q) /\ Len(q) \in Nat
        BY LenProperties
      <4> QED
        BY <4>1
    <3> QED
      BY <2>2, <3>1
  <2> DEFINE O == {i \in DOMAIN Outbox : Outbox[i] = Msg(p, "keepalive")}
             P == {i \in DOMAIN Pipe(p) : Pipe(p)[i].what = "keepalive"}
             U == {i \in DOMAIN up[p] : up[p][i].what = "alive"}
             I == {i \in DOMAIN inq : inq[i] = Msg(p, "alive")}
  <2>4. Tokens(p) = ({"out"} \X O) \cup ({"down"} \X P) \cup ({"up"} \X U) \cup ({"in"} \X I)
    BY DEF Tokens, Outbox, Pipe
  <2>5. /\ O # {} <=> InOutbox(p)
        /\ P # {} <=> InPipe(p)
        /\ U # {} <=> InUp(p)
        /\ I # {} <=> InInbox(p)
    BY DEF Range, InOutbox, InPipe, InUp, InInbox
  <2>6. \A i, j \in O : i = j
    <3> TAKE i, j \in O
    <3>1. Outbox[i] \in KeepAlives(p) /\ Outbox[j] \in KeepAlives(p)
      BY DEF KeepAlives
    <3> QED
      BY <3>1, <2>1, <2>3, OnceInOrder DEF Alone
  <2>7. \A i, j \in P : i = j
    <3> TAKE i, j \in P
    <3>1. Pipe(p)[i] \in Asking /\ Pipe(p)[j] \in Asking
      <4>1. \A k \in DOMAIN Pipe(p) : Pipe(p)[k] \in Down
        BY <2>2, ElementOfSeq, LenProperties
      <4> QED
        BY <4>1 DEF Asking
    <3> QED
      BY <3>1, <2>1, <2>3, OnceInOrder DEF Alone
  <2>8. \A i, j \in U : i = j
    <3> TAKE i, j \in U
    <3>1. up[p][i] \in Answering /\ up[p][j] \in Answering
      <4>1. \A k \in DOMAIN up[p] : up[p][k] \in Upward
        BY <2>2, ElementOfSeq, LenProperties
      <4> QED
        BY <4>1 DEF Answering
    <3> QED
      BY <3>1, <2>1, <2>3, OnceInOrder DEF Alone
  <2>9. \A i, j \in I : i = j
    <3> TAKE i, j \in I
    <3>1. inq[i] \in Answers(p) /\ inq[j] \in Answers(p)
      BY DEF Answers
    <3> QED
      BY <3>1, <2>1, <2>3, OnceInOrder DEF Alone
  <2>10. /\ O # {} => P = {} /\ U = {} /\ I = {}
         /\ P # {} => U = {} /\ I = {}
         /\ U # {} => I = {}
    BY <2>1, <2>5 DEF Alone
  <2> HIDE DEF O, P, U, I
  <2>11. \A s, t \in Tokens(p) : s = t
    BY <2>4, <2>6, <2>7, <2>8, <2>9, <2>10
  <2>12. Tokens(p) # {} <=> InOutbox(p) \/ InPipe(p) \/ InUp(p) \/ InInbox(p)
    <3>1. Tokens(p) = {} <=> {"out"} \X O = {} /\ {"down"} \X P = {} /\ {"up"} \X U = {} /\ {"in"} \X I = {}
      BY <2>4
    <3>2. ASSUME NEW S, NEW e PROVE {e} \X S = {} <=> S = {}
      <4>1. ASSUME NEW x \in S PROVE <<e, x>> \in {e} \X S
        OBVIOUS
      <4>2. ASSUME NEW y \in {e} \X S PROVE y[2] \in S
        OBVIOUS
      <4> QED
        BY <4>1, <4>2
    <3>3. Tokens(p) = {} <=> O = {} /\ P = {} /\ U = {} /\ I = {}
      BY <3>1, <3>2
    <3> QED
      BY <3>3, <2>5
  <2> QED
    BY <2>1, <2>11, <2>12
<1>2. SessionInv => OneKeepAlive
  BY <1>1 DEF OneKeepAlive
<1> QED
  BY <1>2, SessionInvariant, PTL

===============================================================================
