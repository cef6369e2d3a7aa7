------------------------------- MODULE Sessions --------------------------------
(* Connections of versions/v1_8 from accept to close.  The net thread owns the *)
(* sockets and turns bytes into packets; the tick thread owns the players and  *)
(* their state machines; they share nothing but two FIFO queues, tick_q (in)   *)
(* and net_q (out), so each acts on what the other knew some messages ago.     *)
(* A frame is its kind and whether it was sent in the compressed format.       *)
(* Frames that change nothing at the other end are left out.                   *)
EXTENDS Integers, Sequences

CONSTANTS Conns,     \* connection ids; next_id never comes back to one
          Names,     \* player names
          Compress,  \* compression_threshold >= 0
          KeepAlive, \* ticks without a keepalive after which one is sent (200)
          TimeOut,   \* ticks without an answer after which a player goes (600)
          SockCap,   \* frames the sockets and the network hold
          TxCap      \* frames in chan.tx before chan_send refuses (BUF_CAP)

\* What clients send ("corrupt" is no frame at all, a name is a LoginStart) and
\* what they are sent.
Requests == {"status", "login", "unknown", "badname", "alive", "badpos", "corrupt"} \cup Names
Replies  == {"compression", "success", "keepalive", "disconnect"}

\* A name is what a LoginStart carries, never the kind of another packet.
ASSUME SessionConstants ==
  /\ Compress \in BOOLEAN
  /\ KeepAlive \in Nat /\ TimeOut \in Nat /\ KeepAlive <= TimeOut
  /\ SockCap \in Nat \ {0} /\ TxCap \in Nat \ {0}
  /\ \A n \in Names : n \notin {"status", "login", "unknown", "badname", "alive", "badpos",
                               "corrupt", "Connected", "Disconnected"}

VARIABLES
  chan,      \* conns: "none", "open", "closing" or "closed"
  mode,      \* chan.compression >= 0
  tx,        \* chan.tx, frames not yet written to the socket
  net,       \* where Run is: "poll", "events", "queue", "exit" or "over"
  ready,     \* events of the poll not handled yet, <<connection, "r" or "w">>
  inq, outq, \* tick_q and net_q
  state,     \* players_: "none" or the Player's state
  name,      \* Player::name, "none" before login
  pending,   \* keepalive_pending
  age,       \* ticks since keepalive_tick, up to TimeOut + 1
  at,        \* where the main thread is: in OnTick at "drain" or "timers", or
             \* behind its loop at "join", "free in", "free out" or "done"
  due,       \* players the timer loop has still to visit
  emit,      \* messages the current handler has still to push
  sock, up,  \* frames on the way to the client and from it
  phase,     \* what the client is doing
  cmode,     \* the format the client reads and writes
  ignored    \* whether the client dropped a keepalive

channels == <<chan, mode, tx>>
run      == <<net, ready>>
queues   == <<inq, outq>>
players  == <<state, name, pending, age>>
onTick   == <<at, due, emit>>
peers    == <<phase, cmode, ignored>>
wires    == <<sock, up>>
vars == <<channels, run, queues, players, onTick, peers, wires>>

Live(p) == chan[p] \in {"open", "closing"}
Msg(p, what) == [conn |-> p, what |-> what]

Init ==
  /\ chan = [p \in Conns |-> "none"] /\ mode = [p \in Conns |-> FALSE]
  /\ tx = [p \in Conns |-> <<>>]
  /\ net = "poll" /\ ready = {}
  /\ inq = <<>> /\ outq = <<>>
  /\ state = [p \in Conns |-> "none"] /\ name = [p \in Conns |-> "none"]
  /\ pending = [p \in Conns |-> FALSE] /\ age = [p \in Conns |-> 0]
  /\ at = "drain" /\ due = {} /\ emit = <<>>
  /\ sock = [p \in Conns |-> <<>>] /\ up = [p \in Conns |-> <<>>]
  /\ phase = [p \in Conns |-> "new"] /\ cmode = [p \in Conns |-> FALSE]
  /\ ignored = [p \in Conns |-> FALSE]

-------------------------------------------------------------------------------
(* The net thread: NetThread::Run.                                             *)

Readable(p) == Live(p) /\ (up[p] # <<>> \/ phase[p] = "left")
\* Mutant of Writable: the poller is never asked for writability.
WritableNever(p) == FALSE /\ Live(p)

Writable(p) == Live(p) /\ tx[p] # <<>> /\ (Len(sock[p]) < SockCap \/ phase[p] = "left")

\* Mutant of Stopped: connections are waited for.
StoppedWhenAlone == at = "join" /\ \A p \in Conns : ~Live(p)

\* stop_, which NetThread::Stop sets and Run looks at before it polls.
Stopped == at = "join"

\* minecpp_net_poll: sockets are asked for writability while something pends.
Poll ==
  /\ net = "poll" /\ ~Stopped /\ net' = "events"
  /\ ready' = {<<p, "r">> : p \in {q \in Conns : Readable(q)}} \cup
              {<<p, "w">> : p \in {q \in Conns : Writable(q)}}
  /\ UNCHANGED <<channels, queues, players, onTick, peers, wires>>

\* A client connects and is accepted.
Accept(p) ==
  /\ net = "events" /\ chan[p] = "none"
  /\ chan' = [chan EXCEPT ![p] = "open"]
  /\ phase' = [phase EXCEPT ![p] = "hello"]
  /\ inq' = Append(inq, Msg(p, "Connected"))
  /\ UNCHANGED <<mode, tx, run, outq, players, onTick, cmode, ignored, wires>>

\* Mutant of CloseConn: the tick is not told.
CloseConnQuietly(p, packets) ==
  /\ chan' = [chan EXCEPT ![p] = "closed"]
  /\ tx' = [tx EXCEPT ![p] = <<>>] /\ up' = [up EXCEPT ![p] = <<>>]
  /\ inq' = inq \o packets
  /\ ready' = {e \in ready : e[1] # p}

\* CloseConn, after the packets of this event.
CloseConn(p, packets) ==
  /\ chan' = [chan EXCEPT ![p] = "closed"]
  /\ tx' = [tx EXCEPT ![p] = <<>>] /\ up' = [up EXCEPT ![p] = <<>>]
  /\ inq' = inq \o packets \o <<Msg(p, "Disconnected")>>
  /\ ready' = {e \in ready : e[1] # p}

\* chan_next on the first n frames of the buffer: all decode.
Decodes(p, n) == \A i \in 1..n : up[p][i].what # "corrupt" /\ up[p][i].z = mode[p]
Packets(p, n) == [i \in 1..n |-> Msg(p, up[p][i].what)]

\* The readable branch; recv may return any part of what was sent.
Read(p, n) ==
  /\ net = "events" /\ <<p, "r">> \in ready /\ n \in 1..Len(up[p]) /\ Decodes(p, n)
  /\ inq' = inq \o Packets(p, n)
  /\ up' = [up EXCEPT ![p] = SubSeq(@, n + 1, Len(@))]
  /\ ready' = ready \ {<<p, "r">>}
  /\ UNCHANGED <<channels, net, outq, players, onTick, peers, sock>>

\* A frame that does not decode, after some that do, closes the connection.
ReadCorrupt(p, n) ==
  /\ net = "events" /\ <<p, "r">> \in ready /\ n \in 1..Len(up[p])
  /\ Decodes(p, n - 1) /\ ~Decodes(p, n)
  /\ CloseConn(p, Packets(p, n - 1))
  /\ UNCHANGED <<mode, net, outq, players, onTick, peers, sock>>

\* EOF: the frames left in the buffer are drained first.
ReadEof(p) ==
  /\ net = "events" /\ <<p, "r">> \in ready /\ phase[p] = "left" /\ Decodes(p, Len(up[p]))
  /\ CloseConn(p, Packets(p, Len(up[p])))
  /\ UNCHANGED <<mode, net, outq, players, onTick, peers, sock>>

\* chan_flush of buf: as much as the socket takes; nobody hears what is written
\* to a client who left.
Written(p, buf) == IF phase[p] = "left" THEN Len(buf)
                   ELSE IF Len(buf) < SockCap - Len(sock[p]) THEN Len(buf)
                   ELSE SockCap - Len(sock[p])
Flush(p, buf) ==
  sock' = [sock EXCEPT ![p] = IF phase[p] = "left" THEN @
                              ELSE @ \o SubSeq(buf, 1, Written(p, buf))]
Flushed(p, buf) == Written(p, buf) = Len(buf)
Rest(p, buf)    == SubSeq(buf, Written(p, buf) + 1, Len(buf))

\* Writing to a client who left may also fail.
FlushFails(p, packets) == phase[p] = "left" /\ CloseConn(p, packets) /\ UNCHANGED sock

\* The writable branch; the same event's readable branch comes first.
Write(p) ==
  /\ net = "events" /\ <<p, "w">> \in ready /\ <<p, "r">> \notin ready
  /\ \/ /\ Flush(p, tx[p])
        /\ IF Flushed(p, tx[p]) /\ chan[p] = "closing"
           THEN CloseConn(p, <<>>)
           ELSE /\ tx' = [tx EXCEPT ![p] = Rest(p, @)]
                /\ ready' = ready \ {<<p, "w">>}
                /\ UNCHANGED <<chan, inq, up>>
     \/ FlushFails(p, <<>>)
  /\ UNCHANGED <<mode, net, outq, players, onTick, peers>>

EventsEnd ==
  /\ net = "events" /\ ready = {} /\ net' = "queue"
  /\ UNCHANGED <<channels, ready, queues, players, onTick, peers, wires>>

\* net_q is drained until it is seen empty.
PopOut(p, kinds) ==
  /\ net = "queue" /\ outq # <<>>
  /\ Head(outq).conn = p /\ Head(outq).what \in kinds
  /\ outq' = Tail(outq)
  /\ UNCHANGED <<net, players, onTick, peers>>

PopStale(p) ==
  /\ ~Live(p) /\ PopOut(p, Replies \cup {"EnableCompression", "Close"})
  /\ UNCHANGED <<channels, ready, inq, wires>>

PopSend(p) ==
  LET buf == Append(tx[p], [what |-> Head(outq).what, z |-> mode[p]]) IN
  /\ Live(p) /\ PopOut(p, Replies)
  /\ \/ /\ Len(tx[p]) >= TxCap
        /\ CloseConn(p, <<>>) /\ UNCHANGED sock
     \/ /\ Len(tx[p]) < TxCap
        /\ Flush(p, buf) /\ tx' = [tx EXCEPT ![p] = Rest(p, buf)]
        /\ UNCHANGED <<chan, ready, inq, up>>
     \/ Len(tx[p]) < TxCap /\ FlushFails(p, <<>>)
  /\ UNCHANGED mode

PopEnableCompression(p) ==
  /\ Live(p) /\ PopOut(p, {"EnableCompression"})
  /\ mode' = [mode EXCEPT ![p] = TRUE]
  /\ UNCHANGED <<chan, tx, ready, inq, wires>>

\* Close waits for what pends; a flush that fails here leaves it to the next
\* event.
PopClose(p) ==
  /\ Live(p) /\ PopOut(p, {"Close"})
  /\ \/ /\ Flush(p, tx[p])
        /\ IF Flushed(p, tx[p])
           THEN CloseConn(p, <<>>)
           ELSE /\ chan' = [chan EXCEPT ![p] = "closing"]
                /\ tx' = [tx EXCEPT ![p] = Rest(p, @)]
                /\ UNCHANGED <<ready, inq, up>>
     \/ /\ phase[p] = "left" /\ tx[p] # <<>>
        /\ chan' = [chan EXCEPT ![p] = "closing"]
        /\ UNCHANGED <<tx, ready, inq, wires>>
  /\ UNCHANGED mode

QueueEnd ==
  /\ net = "queue" /\ outq = <<>> /\ net' = "poll"
  /\ UNCHANGED <<channels, ready, queues, players, onTick, peers, wires>>

\* Run ends: connection after connection is closed, whatever pends.
Leave ==
  /\ net = "poll" /\ Stopped /\ net' = "exit"
  /\ UNCHANGED <<channels, ready, queues, players, onTick, peers, wires>>

CloseLeft(p) ==
  /\ net = "exit" /\ Live(p)
  /\ CloseConn(p, <<>>)
  /\ UNCHANGED <<mode, net, outq, players, onTick, peers, sock>>

Over ==
  /\ net = "exit" /\ (\A p \in Conns : ~Live(p)) /\ net' = "over"
  /\ UNCHANGED <<channels, ready, queues, players, onTick, peers, wires>>

NetThread ==
  \/ Poll \/ EventsEnd \/ QueueEnd \/ Leave \/ Over
  \/ \E p \in Conns :
       \/ ReadEof(p) \/ Write(p)
       \/ \E n \in 1..Len(up[p]) : Read(p, n) \/ ReadCorrupt(p, n)
       \/ CloseLeft(p) \/ PopStale(p) \/ PopSend(p) \/ PopEnableCompression(p) \/ PopClose(p)

-------------------------------------------------------------------------------
(* The tick thread: OnTick and its handlers.  A handler pushes what it has to  *)
(* say one message at a time, so the net thread may see the queue empty in     *)
(* between; the next message is popped when it is done.                        *)

Push ==
  /\ emit # <<>>
  /\ outq' = Append(outq, Head(emit)) /\ emit' = Tail(emit)
  /\ UNCHANGED <<channels, run, inq, players, at, due, peers, wires>>

\* OnTick pops a message and dispatches it.
PopIn(p, what) ==
  /\ at = "drain" /\ emit = <<>> /\ inq # <<>> /\ Head(inq) = Msg(p, what)
  /\ inq' = Tail(inq)
  /\ UNCHANGED <<channels, run, outq, at, due, peers, wires>>

\* players_.erase: with the Player go its fields.
Erase(p) ==
  /\ state' = [state EXCEPT ![p] = "none"] /\ name' = [name EXCEPT ![p] = "none"]
  /\ pending' = [pending EXCEPT ![p] = FALSE] /\ age' = [age EXCEPT ![p] = 0]

\* Mutant of Kick: the client is told and not closed.
KickOnlyTells(p) ==
  Erase(p) /\ emit' = <<Msg(p, "disconnect")>>

Kick(p) ==
  Erase(p) /\ emit' = <<Msg(p, "disconnect"), Msg(p, "Close")>>

AddPlayer(p) ==
  /\ PopIn(p, "Connected")
  /\ state' = [state EXCEPT ![p] = "Handshake"]
  /\ UNCHANGED <<name, pending, age, emit>>

RemovePlayer(p) ==
  PopIn(p, "Disconnected") /\ Erase(p) /\ UNCHANGED emit

\* OnPacket for nobody, or a packet that the state has no use for.  Answers to
\* status requests change nothing and are left out.
Ignore(p, what) ==
  /\ PopIn(p, what)
  /\ CASE state[p] = "Handshake" -> what \notin {"status", "login", "unknown"}
       [] state[p] = "Login"     -> what \notin Names \cup {"badname"}
       [] state[p] = "Play"      -> what \notin {"alive", "badpos"}
       [] OTHER                  -> TRUE
  /\ UNCHANGED <<players, emit>>

HandleHandshake(p, what) ==
  /\ state[p] = "Handshake" /\ PopIn(p, what)
  /\ \/ /\ what \in {"status", "login"}
        /\ state' = [state EXCEPT ![p] = IF what = "status" THEN "Status" ELSE "Login"]
        /\ UNCHANGED <<name, pending, age, emit>>
     \/ /\ what = "unknown"
        /\ Erase(p) /\ emit' = <<Msg(p, "Close")>>

\* Mutant of Taken: players who are still logging in are looked at.
TakenAtLogin(n) == \E q \in Conns : state[q] = "Login" /\ name[q] = n

Taken(n) == \E q \in Conns : state[q] = "Play" /\ name[q] = n

\* Mutant of Welcome: the switch comes after LoginSuccess.
WelcomeThenSwitch(p) ==
  <<Msg(p, "compression"), Msg(p, "success"), Msg(p, "EnableCompression")>>

\* The order of the three messages is what both ends' formats hang on.
Welcome(p) ==
  (IF Compress THEN <<Msg(p, "compression"), Msg(p, "EnableCompression")>> ELSE <<>>)
  \o <<Msg(p, "success")>>

HandleLogin(p, what) ==
  /\ state[p] = "Login" /\ PopIn(p, what)
  /\ \/ /\ what = "badname" \/ (what \in Names /\ Taken(what))
        /\ Kick(p)
     \/ /\ what \in Names /\ ~Taken(what)
        /\ name' = [name EXCEPT ![p] = what]
        /\ state' = [state EXCEPT ![p] = "Play"]
        /\ age' = [age EXCEPT ![p] = 0]
        /\ emit' = Welcome(p)
        /\ UNCHANGED pending

HandlePlay(p, what) ==
  /\ state[p] = "Play" /\ PopIn(p, what)
  /\ \/ /\ what = "alive"
        /\ pending' = [pending EXCEPT ![p] = FALSE]
        /\ UNCHANGED <<state, name, age, emit>>
     \/ what = "badpos" /\ Kick(p)

DrainEnd ==
  /\ at = "drain" /\ emit = <<>> /\ inq = <<>>
  /\ at' = "timers" /\ due' = {p \in Conns : state[p] = "Play"}
  /\ UNCHANGED <<channels, run, queues, players, emit, peers, wires>>

\* Mutant of KeepAliveDue: one is sent whether the last was answered or not.
KeepAliveAgain(p) == age[p] >= KeepAlive

\* The keepalive loop, which skips who is not in Play.
KeepAliveDue(p) == ~pending[p] /\ age[p] >= KeepAlive
TimedOut(p)     == pending[p] /\ age[p] > TimeOut

Timer(p) ==
  /\ at = "timers" /\ emit = <<>> /\ p \in due
  /\ due' = due \ {p}
  /\ \/ /\ KeepAliveDue(p)
        /\ pending' = [pending EXCEPT ![p] = TRUE] /\ age' = [age EXCEPT ![p] = 0]
        /\ emit' = <<Msg(p, "keepalive")>>
        /\ UNCHANGED <<state, name>>
     \/ TimedOut(p) /\ Kick(p)
     \/ ~KeepAliveDue(p) /\ ~TimedOut(p) /\ UNCHANGED <<players, emit>>
  /\ UNCHANGED <<channels, run, queues, at, peers, wires>>

NextTick ==
  /\ at = "timers" /\ emit = <<>> /\ due = {} /\ at' = "drain"
  /\ age' = [p \in Conns |-> IF state[p] = "Play" /\ age[p] <= TimeOut
                             THEN age[p] + 1 ELSE age[p]]
  /\ UNCHANGED <<channels, run, queues, state, name, pending, due, emit, peers, wires>>

\* SIGINT or SIGTERM came: main leaves its loop after this tick and stops the
\* net thread.
Stop ==
  /\ at = "timers" /\ emit = <<>> /\ due = {} /\ at' = "join"
  /\ UNCHANGED <<channels, run, queues, players, due, emit, peers, wires>>

\* Mutant of Join: the net thread is told and not waited for.
JoinNobody ==
  /\ at = "join" /\ at' = "free in"
  /\ UNCHANGED <<channels, run, queues, players, due, emit, peers, wires>>

Join ==
  /\ at = "join" /\ net = "over" /\ at' = "free in"
  /\ UNCHANGED <<channels, run, queues, players, due, emit, peers, wires>>

\* What is left in the queues is freed, tick_q first.
Free ==
  /\ \/ /\ at = "free in"
        /\ IF inq = <<>> THEN at' = "free out" /\ UNCHANGED inq
           ELSE inq' = Tail(inq) /\ UNCHANGED at
        /\ UNCHANGED outq
     \/ /\ at = "free out"
        /\ IF outq = <<>> THEN at' = "done" /\ UNCHANGED outq
           ELSE outq' = Tail(outq) /\ UNCHANGED at
        /\ UNCHANGED inq
  /\ UNCHANGED <<channels, run, players, due, emit, peers, wires>>

TickThread ==
  \/ Push \/ DrainEnd \/ NextTick \/ Stop \/ Join \/ Free
  \/ \E p \in Conns :
       \/ AddPlayer(p) \/ RemovePlayer(p) \/ Timer(p)
       \/ \E what \in Requests : \/ Ignore(p, what) \/ HandleHandshake(p, what)
                                 \/ HandleLogin(p, what) \/ HandlePlay(p, what)

-------------------------------------------------------------------------------
(* The clients.  A client says what its phase calls for, waits for the answer  *)
(* to its LoginStart, and takes to the compressed format when it is told to.   *)

Says == [hello  |-> [status |-> "silent", login |-> "login",
                     unknown |-> "silent", corrupt |-> "silent"],
         login  |-> [what \in Names \cup {"badname"} |->
                       IF what \in Names THEN "waiting" ELSE "silent"],
         play   |-> [badpos |-> "silent", corrupt |-> "silent"]]

\* A frame of kind what is sent and the client goes on to the phase next.
Say(p) ==
  /\ phase[p] \in DOMAIN Says
  /\ \E what \in DOMAIN Says[phase[p]] :
       /\ phase' = [phase EXCEPT ![p] = Says[phase[p]][what]]
       /\ up' = [up EXCEPT ![p] = IF Live(p)
                                  THEN Append(@, [what |-> what, z |-> cmode[p]]) ELSE @]
  /\ UNCHANGED <<channels, run, queues, players, onTick, cmode, ignored, sock>>

\* The client reads a frame; in the game it answers keepalives.
Hear(p) ==
  /\ phase[p] # "left" /\ sock[p] # <<>>
  /\ LET what == Head(sock[p]).what
         plays == phase[p] = "play"
     IN
     /\ sock' = [sock EXCEPT ![p] = Tail(@)]
     /\ cmode' = [cmode EXCEPT ![p] = @ \/ what = "compression"]
     /\ phase' = [phase EXCEPT ![p] = IF @ = "waiting" /\ what = "success" THEN "play" ELSE @]
     /\ up' = [up EXCEPT ![p] = IF what = "keepalive" /\ plays /\ Live(p)
                                THEN Append(@, [what |-> "alive", z |-> cmode[p]]) ELSE @]
     /\ ignored' = [ignored EXCEPT ![p] = @ \/ (what = "keepalive" /\ ~plays)]
  /\ UNCHANGED <<channels, run, queues, players, onTick>>

\* The client stops talking, though it may go on reading.
GoSilent(p) ==
  /\ phase[p] \notin {"new", "silent", "left"}
  /\ phase' = [phase EXCEPT ![p] = "silent"]
  /\ UNCHANGED <<channels, run, queues, players, onTick, cmode, ignored, wires>>

\* The client hangs up; what it sent last may be lost with it.
HangUp(p) ==
  /\ phase[p] \notin {"new", "left"}
  /\ phase' = [phase EXCEPT ![p] = "left"]
  /\ sock' = [sock EXCEPT ![p] = <<>>]
  /\ up' = up \/ up' = [up EXCEPT ![p] = <<>>]
  /\ UNCHANGED <<channels, run, queues, players, onTick, cmode, ignored>>

Client(p) == Accept(p) \/ Say(p) \/ Hear(p) \/ GoSilent(p) \/ HangUp(p)

Next == NetThread \/ TickThread \/ \E p \in Conns : Client(p)

Spec == Init /\ [][Next]_vars

\* Both threads run; clients may be slow, but they read or hang up.
FairSpec ==
  /\ Spec
  /\ WF_vars(NetThread) /\ WF_vars(TickThread)
  /\ \A p \in Conns : WF_vars(Hear(p))

-------------------------------------------------------------------------------
Frames(kinds) == Seq([what : kinds, z : BOOLEAN])

TypeOK ==
  /\ chan \in [Conns -> {"none", "open", "closing", "closed"}]
  /\ mode \in [Conns -> BOOLEAN] /\ cmode \in [Conns -> BOOLEAN]
  /\ tx \in [Conns -> Frames(Replies)] /\ sock \in [Conns -> Frames(Replies)]
  /\ \A p \in Conns : Len(tx[p]) <= TxCap /\ Len(sock[p]) <= SockCap
  /\ up \in [Conns -> Frames(Requests)]
  /\ net \in {"poll", "events", "queue", "exit", "over"}
  /\ ready \subseteq {p \in Conns : Live(p)} \X {"r", "w"}
  /\ inq \in Seq([conn : Conns, what : Requests \cup {"Connected", "Disconnected"}])
  /\ \A s \in {outq, emit} :
       s \in Seq([conn : Conns, what : Replies \cup {"EnableCompression", "Close"}])
  /\ state \in [Conns -> {"none", "Handshake", "Status", "Login", "Play"}]
  /\ name \in [Conns -> Names \cup {"none"}]
  /\ pending \in [Conns -> BOOLEAN] /\ age \in [Conns -> 0..TimeOut + 1]
  /\ at \in {"drain", "timers", "join", "free in", "free out", "done"} /\ due \subseteq Conns
  /\ phase \in [Conns -> {"new", "hello", "login", "waiting", "play", "silent", "left"}]
  /\ ignored \in [Conns -> BOOLEAN]

\* The next frame either end reads is in the format that end expects: the switch
\* to compression happens between the same two frames on both sides, though the
\* tick decides it, the net thread applies it and frames are in flight.
SameFormat ==
  \A p \in Conns :
    /\ Live(p) /\ up[p] # <<>> => Head(up[p]).z = mode[p]
    /\ sock[p] # <<>> => Head(sock[p]).z = cmode[p]

\* Messages of a connection that wait in a queue.
Waits(q, p, kinds) == \E i \in DOMAIN q : q[i].conn = p /\ q[i].what \in kinds

\* When a connection is closed its Player is gone, or the tick is about to hear
\* of it: no Player stays behind without a socket, as long as there are ticks.
Ticking == at \in {"drain", "timers"}
NoOrphans ==
  \A p \in Conns :
    Ticking /\ chan[p] = "closed" /\ state[p] # "none" => Waits(inq, p, {"Disconnected"})

\* When a Player is gone its connection is closed, or a Close or the news that
\* it was closed is on its way: nobody is left talking to no one.
NoDeafSockets ==
  \A p \in Conns :
    chan[p] = "open" /\ state[p] = "none" =>
      Waits(inq, p, {"Connected"}) \/ Waits(outq \o emit, p, {"Close"})

\* No two players in the game have one name, whoever logs in while whose
\* connection is being closed.
UniqueNames ==
  \A p, q \in Conns :
    state[p] = "Play" /\ state[q] = "Play" /\ name[p] = name[q] => p = q

\* Where the keepalives of p are, and their answers, between the timer that
\* sends one and the handler that hears the answer.
Tokens(p) ==
  LET messages(q, kind) == {i \in DOMAIN q : q[i] = Msg(p, kind)}
      frames(q, kind)   == {i \in DOMAIN q : q[i].what = kind}
  IN ({"out"} \X messages(outq \o emit, "keepalive")) \cup
     ({"down"} \X frames(sock[p] \o tx[p], "keepalive")) \cup
     ({"up"} \X frames(up[p], "alive")) \cup ({"in"} \X messages(inq, "alive"))

\* A keepalive is sent only after the last one was answered, so an answer is
\* never one to an earlier keepalive, and whoever answers all is not pending
\* without a keepalive or an answer on its way.
OneKeepAlive ==
  \A p \in Conns :
    state[p] = "Play" =>
      /\ (\A s, t \in Tokens(p) : s = t) /\ (Tokens(p) # {} => pending[p])
      /\ Live(p) /\ phase[p] # "left" /\ ~ignored[p] /\ pending[p] => Tokens(p) # {}

\* When the queues are destroyed nobody has them any more, no connection is open
\* and no message is left in them ("join: nenhum push da net apos aqui",
\* main.cpp:134), wherever the net thread was when the signal came.
NothingLeft ==
  at = "done" =>
    /\ net = "over" /\ \A p \in Conns : ~Live(p)
    /\ inq = <<>> /\ outq = <<>> /\ emit = <<>>

\* The signal stops the server, whatever its clients do or leave undone.
StopReturns == at = "join" ~> at = "done"

\* A connection without a Player is closed in the end, when the client reads or
\* hangs up.
KickedAreClosed ==
  \A p \in Conns :
    chan[p] \in {"open", "closing"} /\ state[p] = "none" /\ ~Waits(inq, p, {"Connected"})
      ~> chan[p] = "closed"

\* "KeepAlive 10s; timeout 30s" (server.cpp:3005): a player who falls silent in
\* the game is removed, unless the server stops.
SilentDropped ==
  \A p \in Conns :
    state[p] = "Play" /\ phase[p] = "silent" ~> state[p] = "none" \/ ~Ticking

===============================================================================
