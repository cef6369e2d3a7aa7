----------------------------- MODULE StreamProofs -----------------------------
(* What every behaviour of Stream does, whatever is sent in it and however the *)
(* network cuts it up.  ChannelProofs proves that Channel implements Stream,   *)
(* and takes from here what then holds of the channels of net.c.               *)
EXTENDS Stream, FiniteSetTheorems, TLAPS

TypeOK ==
  /\ ends \in Seq(Nat) /\ {written, got, taken} \subseteq Nat
  /\ open \in {"yes", "closed", "lost"}
  /\ phase \in {"poll", "drain", "last", "gone"}

(* Each frame ends behind the one before it. *)
Rising == \A i, j \in 1..Len(ends) : i < j => ends[i] < ends[j]

(* The receiver's account is behind the socket's, and that behind the sender's.*)
Behind == written <= End /\ NothingMadeUp

(* Who waits or has gone left no whole frame. *)
Rested == phase \in {"poll", "gone"} => ~Whole

(* What the end of the stream says: the receiver has all the socket took, and  *)
(* on a channel that was closed that is all there is.                          *)
Ended ==
  /\ open = "closed" => written = End
  /\ phase \in {"last", "gone"} => open # "yes" /\ got = written

IInv == TypeOK /\ Rising /\ Behind /\ Rested /\ Ended

\* Where frames end is a number.
LEMMA EndOfType ==
  ASSUME NEW e \in Seq(Nat), NEW n \in 0..Len(e)
  PROVE  EndOf(e, n) \in Nat
BY DEF EndOf

\* Before a frame's end there is the end of each frame before it.
LEMMA EndOfRises ==
  ASSUME TypeOK, Rising, NEW n \in 0..Len(ends), NEW m \in 0..Len(ends), n <= m
  PROVE  EndOf(ends, n) <= EndOf(ends, m)
<1>1. \A i \in 1..Len(ends) : ends[i] \in Nat
  BY DEF TypeOK
<1>2. CASE n = 0
  BY <1>1, <1>2 DEF EndOf
<1>3. CASE n # 0 /\ n = m
  BY <1>1, <1>3 DEF EndOf
<1>4. CASE n # 0 /\ n < m
  BY <1>1, <1>4 DEF EndOf, Rising, TypeOK
<1> QED
  BY <1>2, <1>3, <1>4 DEF TypeOK

LEMMA InitInv == Init => IInv
BY DEF Init, IInv, TypeOK, Rising, Behind, NothingMadeUp, Rested, Ended, Whole, End, EndOf

\* A frame sent ends behind all that came before, and so is not whole yet.
LEMMA SendInv ==
  ASSUME IInv, Send
  PROVE  IInv'
<1> DEFINE end == EndOf(ends', Len(ends'))
<1>1. /\ ends \in Seq(Nat) /\ written \in Nat /\ got \in Nat /\ taken \in Nat
      /\ open = "yes" /\ phase \in {"poll", "drain", "last", "gone"}
  BY DEF IInv, TypeOK, Send
<1>2. PICK e \in Nat : e = end
  BY DEF Send
<1>3. /\ ends' = Append(ends, e) /\ e > End /\ written' \in written..e
      /\ got' = got /\ taken' = taken /\ open' = open /\ phase' = phase
  BY <1>2 DEF Send
<1>4. /\ ends' \in Seq(Nat) /\ Len(ends') = Len(ends) + 1 /\ ends'[Len(ends) + 1] = e
      /\ \A i \in 1..Len(ends) : ends'[i] = ends[i]
  BY <1>1, <1>3
<1>5. End' = e
  BY <1>1, <1>4 DEF End, EndOf
<1>6. \A i \in 1..Len(ends) : ends[i] \in Nat /\ ends[i] <= End
  <2> TAKE i \in 1..Len(ends)
  <2>1. EndOf(ends, i) <= EndOf(ends, Len(ends))
    BY <1>1, EndOfRises DEF IInv
  <2> QED
    BY <1>1, <2>1 DEF EndOf, End
<1>7. End \in Nat
  BY <1>1, EndOfType DEF End
<1>8. TypeOK'
  BY <1>1, <1>3, <1>4 DEF TypeOK
<1>9. Rising'
  <2> SUFFICES ASSUME NEW i \in 1..Len(ends) + 1, NEW j \in 1..Len(ends) + 1, i < j
               PROVE  ends'[i] < ends'[j]
    BY <1>4 DEF Rising
  <2>1. CASE j = Len(ends) + 1
    BY <1>1, <1>3, <1>4, <1>6, <1>7, <2>1
  <2>2. CASE j # Len(ends) + 1
    <3>1. i \in 1..Len(ends) /\ j \in 1..Len(ends)
      BY <1>1, <2>2
    <3>2. ends[i] < ends[j]
      BY <3>1 DEF IInv, Rising
    <3> QED
      BY <1>4, <3>1, <3>2
  <2> QED
    BY <2>1, <2>2
<1>10. Behind'
  <2>1. taken <= Len(ends) /\ EndOf(ends, taken) <= got /\ got <= written
    BY DEF IInv, Behind, NothingMadeUp
  <2>2. EndOf(ends', taken) = EndOf(ends, taken)
    BY <1>1, <1>4, <2>1 DEF EndOf
  <2> QED
    BY <1>1, <1>3, <1>4, <1>5, <2>1, <2>2 DEF Behind, NothingMadeUp
<1>11. Rested'
  <2>1. got <= End /\ taken <= Len(ends)
    BY <1>1, <1>7 DEF IInv, Behind, NothingMadeUp
  <2>2. Whole' => Whole
    BY <1>1, <1>3, <1>4, <1>7, <2>1 DEF Whole
  <2> QED
    BY <1>3, <2>2 DEF IInv, Rested
<1>12. Ended'
  BY <1>1, <1>3 DEF IInv, Ended
<1> QED
  BY <1>8, <1>9, <1>10, <1>11, <1>12 DEF IInv

\* The socket takes no more than there is, and all of it before a close.
LEMMA SocketInv ==
  ASSUME IInv, Flush \/ Lose
  PROVE  IInv'
<1>1. /\ ends' = ends /\ got' = got /\ taken' = taken /\ phase' = phase
      /\ open = "yes" /\ open' \in {"yes", "closed", "lost"}
      /\ written' \in written..End /\ (open' = "closed" => written' = End)
  <2>1. End \in Nat /\ written \in Nat /\ written <= End
    BY EndOfType DEF IInv, TypeOK, Behind, End
  <2> QED
    BY <2>1 DEF Flush, Lose
<1>2. End' = End /\ (Whole' <=> Whole)
  BY <1>1 DEF End, Whole
<1>3. End \in Nat /\ written \in Nat /\ got \in Nat
  BY EndOfType DEF IInv, TypeOK, End
<1>4. TypeOK' /\ Rising'
  BY <1>1, <1>3 DEF IInv, TypeOK, Rising
<1>5. Behind'
  BY <1>1, <1>2, <1>3 DEF IInv, Behind, NothingMadeUp
<1>6. Rested' /\ Ended'
  BY <1>1, <1>2 DEF IInv, Rested, Ended
<1> QED
  BY <1>4, <1>5, <1>6 DEF IInv

\* The receiver reads what the socket took, and knows the end when it has it.
LEMMA ReadInv ==
  ASSUME IInv, Read
  PROVE  IInv'
<1>1. /\ ends' = ends /\ written' = written /\ taken' = taken /\ open' = open
      /\ got' \in got..written /\ phase' \in {"drain", "last"}
      /\ phase' = "last" => open # "yes" /\ got' = written
  BY DEF Read
<1>2. /\ ends \in Seq(Nat) /\ written \in Nat /\ got \in Nat /\ taken \in 0..Len(ends)
      /\ EndOf(ends, taken) \in Nat
  BY EndOfType DEF IInv, TypeOK, Behind, NothingMadeUp
<1>3. End' = End
  BY <1>1 DEF End
<1>4. TypeOK' /\ Rising'
  BY <1>1, <1>2 DEF IInv, TypeOK, Rising
<1>5. Behind'
  BY <1>1, <1>2, <1>3 DEF IInv, Behind, NothingMadeUp
<1>6. Rested' /\ Ended'
  BY <1>1, <1>3 DEF IInv, Rested, Ended
<1> QED
  BY <1>4, <1>5, <1>6 DEF IInv

\* A frame taken was whole; a receiver rests when none is.
LEMMA DrainInv ==
  ASSUME IInv, Take \/ Rest
  PROVE  IInv'
<1>1. /\ ends \in Seq(Nat) /\ written \in Nat /\ got \in Nat /\ taken \in 0..Len(ends)
      /\ phase \in {"drain", "last"}
  BY DEF IInv, TypeOK, Behind, NothingMadeUp, Take, Rest
<1>2. /\ ends' = ends /\ written' = written /\ got' = got /\ open' = open
      /\ End' = End
  BY DEF Take, Rest, End
<1>3. Rising'
  BY <1>2 DEF IInv, Rising
<1>4. CASE Take
  <2>1. Whole /\ taken' = taken + 1 /\ phase' = phase
    BY <1>4 DEF Take
  <2>2. taken' \in 1..Len(ends) /\ ends[taken'] <= got
    BY <1>1, <2>1 DEF Whole
  <2>3. TypeOK'
    BY <1>1, <1>2, <2>1, <2>2 DEF IInv, TypeOK
  <2>4. Behind'
    BY <1>1, <1>2, <2>2 DEF IInv, Behind, NothingMadeUp, EndOf
  <2>5. Rested' /\ Ended'
    BY <1>1, <1>2, <2>1 DEF IInv, Rested, Ended
  <2> QED
    BY <1>3, <2>3, <2>4, <2>5 DEF IInv
<1>5. CASE Rest
  <2>1. /\ ~Whole /\ taken' = taken
        /\ phase' = IF phase = "last" THEN "gone" ELSE "poll"
    BY <1>5 DEF Rest
  <2>2. TypeOK' /\ Behind'
    BY <1>1, <1>2, <2>1 DEF IInv, TypeOK, Behind, NothingMadeUp
  <2>3. Rested'
    BY <1>2, <2>1 DEF Rested, Whole
  <2>4. Ended'
    BY <1>1, <1>2, <2>1 DEF IInv, Ended
  <2> QED
    BY <1>3, <2>2, <2>3, <2>4 DEF IInv
<1> QED
  BY <1>4, <1>5

\* The invariant of a channel, for any frames and any portions: net.h's buffers
\* and the two event loops of net_thread.cpp as Stream has them.
THEOREM StreamInvariant == Spec => []IInv
<1>1. Init => IInv
  BY InitInv
<1>2. IInv /\ [Next]_vars => IInv'
  <2> SUFFICES ASSUME IInv, [Next]_vars PROVE IInv'
    OBVIOUS
  <2>1. CASE UNCHANGED vars
    BY <2>1 DEF IInv, TypeOK, Rising, Behind, NothingMadeUp, Rested, Ended, Whole, End, vars
  <2> QED
    BY <2>1, SendInv, SocketInv, ReadInv, DrainInv DEF Next
<1> QED
  BY <1>1, <1>2, PTL DEF Spec

\* The frames that end within n bytes are the first ones.
LEMMA FirstOnesAre ==
  ASSUME IInv, ~Whole
  PROVE  taken \in Nat /\ {i \in DOMAIN ends : ends[i] <= got} = 1..taken
<1>1. /\ ends \in Seq(Nat) /\ got \in Nat /\ taken \in 0..Len(ends)
      /\ EndOf(ends, taken) <= got
  BY DEF IInv, TypeOK, Behind, NothingMadeUp
<1>2. \A i \in 1..Len(ends) : ends[i] \in Nat
  BY <1>1
<1>3. ASSUME NEW i \in 1..Len(ends), i <= taken PROVE ends[i] <= got
  <2>1. EndOf(ends, i) <= EndOf(ends, taken)
    BY <1>1, <1>3, EndOfRises DEF IInv
  <2>2. ends[i] <= ends[taken]
    BY <1>1, <1>3, <2>1 DEF EndOf
  <2> QED
    BY <1>1, <1>2, <1>3, <2>2 DEF EndOf
<1>4. ASSUME NEW i \in 1..Len(ends), i > taken PROVE ~(ends[i] <= got)
  <2>1. taken + 1 \in 1..Len(ends) /\ ends[taken + 1] > got
    BY <1>1, <1>2, <1>4 DEF Whole
  <2>2. ends[taken + 1] <= ends[i]
    BY <1>1, <1>2, <1>4, <2>1 DEF IInv, Rising
  <2> QED
    BY <1>1, <1>2, <2>1, <2>2
<1> QED
  BY <1>1, <1>3, <1>4

LEMMA FirstOnes ==
  ASSUME IInv, ~Whole
  PROVE  taken = Cardinality({i \in DOMAIN ends : ends[i] <= got})
<1>1. taken \in Nat /\ {i \in DOMAIN ends : ends[i] <= got} = 1..taken
  BY FirstOnesAre
<1>2. Cardinality(1..taken) = IF 1 > taken THEN 0 ELSE taken - 1 + 1
  BY <1>1, FS_Interval
<1>3. Cardinality(1..taken) = taken
  BY <1>1, <1>2
<1> QED
  BY <1>1, <1>3, Zenon

\* No frame that has come in waits for later bytes, and none is thrown away
\* with the end of the stream (minecpp_chan_next in the loop of net_thread.cpp).
THEOREM NoFrameWaits == Spec => []NoneWaits
<1>1. IInv => NoneWaits
  BY FirstOnes DEF IInv, Rested, NoneWaits
<1> QED
  BY <1>1, StreamInvariant, PTL

\* A close that flushes first (minecpp_chan_close behind net_q) delivers every
\* frame to a receiver that stays to the end of the stream.
THEOREM CloseDelivers == Spec => []AllDelivered
<1>1. ASSUME IInv, open = "closed", phase = "gone" PROVE taken = Len(ends)
  <2>1. ~Whole /\ got = End
    BY <1>1 DEF IInv, Rested, Ended
  <2>2. ends \in Seq(Nat) /\ got \in Nat /\ taken \in 0..Len(ends)
    BY <1>1 DEF IInv, TypeOK, Behind, NothingMadeUp
  <2>3. CASE taken < Len(ends)
    <3>1. EndOf(ends, taken + 1) <= EndOf(ends, Len(ends))
      BY <1>1, <2>2, <2>3, EndOfRises DEF IInv
    <3>2. ends[taken + 1] <= got
      BY <2>1, <2>2, <2>3, <3>1 DEF EndOf, End
    <3> QED
      BY <2>1, <2>3, <3>2 DEF Whole
  <2> QED
    BY <2>2, <2>3
<1>2. IInv => AllDelivered
  BY <1>1 DEF AllDelivered
<1> QED
  BY <1>2, StreamInvariant, PTL

\* What the receiver is given was sent and has arrived.
THEOREM Received == Spec => []NothingMadeUp
<1>1. IInv => NothingMadeUp
  BY DEF IInv, Behind
<1> QED
  BY <1>1, StreamInvariant, PTL
================================================================================
