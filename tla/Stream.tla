-------------------------------- MODULE Stream --------------------------------
(* What the event loops of the two ends rely on when they use the channels of  *)
(* minecpp/core/net.h: a channel takes frames, the socket takes their bytes     *)
(* when it likes and in what portions it likes, and the receiver gets, in      *)
(* order, every frame whose last byte has arrived, by the time it waits again  *)
(* or goes.  A channel that is closed has sent everything first; one that is   *)
(* lost has not.  Nothing here knows what is in a frame.  Channel implements    *)
(* this specification.                                                         *)
EXTENDS Naturals, Sequences, FiniteSets

VARIABLES ends,      \* where each frame sent ends in the stream of bytes
          written,   \* bytes the socket has taken
          got,       \* bytes the receiver has read
          taken,     \* frames the receiver has been given
          open,      \* the sender: "yes", "closed", "lost"
          phase      \* the receiver: "poll", "drain", "last" (after EOF), "gone"

vars == <<ends, written, got, taken, open, phase>>

(* Where the first n frames end. *)
EndOf(e, n) == IF n = 0 THEN 0 ELSE e[n]
End == EndOf(ends, Len(ends))

(* The frame after those taken is there whole. *)
Whole == taken < Len(ends) /\ ends[taken + 1] <= got

Init ==
  /\ ends = <<>> /\ written = 0 /\ got = 0 /\ taken = 0
  /\ open = "yes" /\ phase = "poll"

(* A frame of at least one byte, and what the socket takes at once.  The new   *)
(* end is read off the next state: nobody bounds the size of a frame here.     *)
Send ==
  LET end == EndOf(ends', Len(ends')) IN
  /\ open = "yes"
  /\ ends' = Append(ends, end)
  /\ end \in Nat /\ end > End
  /\ written' \in written..end
  /\ UNCHANGED <<got, taken, open, phase>>

(* The socket takes bytes; the last ones may be those a close waits for. *)
Flush ==
  /\ open = "yes"
  /\ written' \in written..End
  /\ open' \in {"yes", "closed"}
  /\ open' = "closed" => written' = End
  /\ UNCHANGED <<ends, got, taken, phase>>

Lose ==
  /\ open = "yes" /\ open' = "lost"
  /\ UNCHANGED <<ends, written, got, taken, phase>>

(* The receiver reads what is there; it sees the end of the stream only when *)
(* it has everything the socket took.                                        *)
Read ==
  /\ phase = "poll"
  /\ got' \in got..written
  /\ phase' \in {"drain", "last"}
  /\ phase' = "last" => open # "yes" /\ got' = written
  /\ UNCHANGED <<ends, written, taken, open>>

Take ==
  /\ phase \in {"drain", "last"}
  /\ Whole
  /\ taken' = taken + 1
  /\ UNCHANGED <<ends, written, got, open, phase>>

(* It goes back to waiting, or leaves, with no frame left. *)
Rest ==
  /\ phase \in {"drain", "last"}
  /\ ~Whole
  /\ phase' = IF phase = "last" THEN "gone" ELSE "poll"
  /\ UNCHANGED <<ends, written, got, taken, open>>

Next == Send \/ Flush \/ Lose \/ Read \/ Take \/ Rest

Spec == Init /\ [][Next]_vars

----------------------------------------------------------------------------
(* A receiver that waits, or has gone, was given every frame whose last byte   *)
(* came in: the NoneWaits of Channel, for any stream of frames.                *)
NoneWaits ==
  phase \in {"poll", "gone"} =>
    taken = Cardinality({i \in DOMAIN ends : ends[i] <= got})

(* When the receiver of a channel that was closed has gone, it was given every *)
(* frame that was sent: this is what Delivered of Channel rests on.            *)
AllDelivered == open = "closed" /\ phase = "gone" => taken = Len(ends)

(* A frame that was given to the receiver was sent, and its bytes arrived      *)
(* after the socket took them: nothing is made up.                             *)
NothingMadeUp == taken <= Len(ends) /\ EndOf(ends, taken) <= got /\ got <= written
================================================================================
