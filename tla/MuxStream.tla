----------------------------- MODULE MuxStream -----------------------------
(***************************************************************************)
(* The stream multiplexer (src/include/wawo/net/peer/mux_cargo.hpp and     *)
(* message/mux_cargo.hpp, src/src/net/peer/message/mux_cargo.cpp): the two *)
(* mux_cargo peers of one connection and one stream that A opens to B.     *)
(*                                                                         *)
(* At each end three threads meet: the application (it holds the locks of  *)
(* the stream only), the ticker that flushes the stream (it holds m_mutex  *)
(* of the peer all along, so nobody looks up a stream meanwhile), and the  *)
(* task that handles the socket's events, one at a time (trigger holds the *)
(* dispatcher's mutex).                                                    *)
(*                                                                         *)
(* Grain.  A critical section of a stream lock is one step.  stream::_flush*)
(* reads the flags and the length of the write buffer without a lock, so   *)
(* it is a step for each of those reads, and flag |= BUFFER_DETERMINED,    *)
(* which no lock guards, is a read and a write.                            *)
(*                                                                         *)
(* The socket below is external: send_packet accepts a packet, says        *)
(* E_SOCKET_SEND_BLOCK, or fails once the connection is down; what it      *)
(* accepts arrives in order.                                               *)
(***************************************************************************)
EXTENDS Integers, Sequences, SequencesExt

CONSTANTS
    A, B,
    Wnd,        \* MUX_STREAM_WND_SIZE
    TrySize,    \* snd_size - 1024 of the socket's buffer configuration
    ChanCap,    \* bound: packets the connection holds in one direction
    MaxBytes,   \* bound: bytes A writes, an end counting as one of them
    MaxCall,    \* bound: bytes in one write
    MaxEnds     \* bound: calls of close and failures of the connection

ASSUME MuxAssumption ==
    /\ A # B
    /\ {Wnd, TrySize, ChanCap, MaxCall} \subseteq Nat \ {0}
    /\ {MaxBytes, MaxEnds} \subseteq Nat

Ends == {A, B}
Other(e) == IF e = A THEN B ELSE A
Least(m, n) == IF m < n THEN m ELSE n
Bytes(m) == IF m.type = "DATA" THEN m.data ELSE <<>>

VARIABLES
    mux,      \* m_mux_state
    conn,     \* the socket is connected
    inmap,    \* m_stream_map has the stream
    str,      \* the stream object
    outps,    \* m_outps: RSTs the socket would not take, by number
    chan,     \* the packets on their way to each end
    tick,     \* what the ticker is doing, and the flags it read
    task,     \* what the event task is doing, and its packet
    closing,  \* mux_cargo::close is waiting for the streams to go
    told,     \* T_CLOSED was scheduled for the stream
    sent,     \* bytes A has written
    got,      \* history: the bytes B has read
    writing,  \* bytes of the write that A is in, 0 when in none
    ends,     \* calls of close and failures so far
    due       \* history: bytes written when A called close_write

vars == <<mux, conn, inmap, str, outps, chan, tick, task, closing, told, sent, got, writing, ends, due>>

Idle == "idle"
NoMsg == [type |-> "none"]
Flags == {"READ_SHUTDOWN_CALLED", "READ_SHUTDOWN", "WRITE_SHUTDOWN_CALLED",
          "WRITE_SHUTDOWN", "PLAN_FIN", "PLAN_SYN", "BUFFER_DETERMINED"}
BothShut == {"READ_SHUTDOWN", "WRITE_SHUTDOWN"}

(* stream::stream and init. *)
NewStream == [st |-> "CLOSED", flag |-> {}, rb |-> <<>>, incre |-> 0, wb |-> <<>>,
              cap |-> Wnd, wnd |-> Wnd, blocked |-> FALSE]

MuxInit ==
    /\ mux = [e \in Ends |-> "ATTACHED"]
    /\ conn = [e \in Ends |-> TRUE]
    /\ inmap = [e \in Ends |-> FALSE]
    /\ str = [e \in Ends |-> NewStream]
    /\ outps = [e \in Ends |-> 0]
    /\ chan = [e \in Ends |-> <<>>]
    /\ tick = [e \in Ends |-> [pc |-> Idle, seen |-> {}]]
    /\ task = [e \in Ends |-> [pc |-> Idle, msg |-> NoMsg]]
    /\ closing = [e \in Ends |-> FALSE]
    /\ told = [e \in Ends |-> FALSE]
    /\ sent = 0
    /\ got = <<>>
    /\ writing = 0 /\ ends = 0 /\ due = 0

MutexFree(e) == tick[e].pc = Idle     \* nobody holds m_mutex
HasStream(e) == str[e].st # "CLOSED" \/ str[e].flag # {}   \* the application got a reference

----------------------------------------------------------------------------
(* socket::send_packet, as the peer sees it. *)
Sendable(e) == conn[e] /\ Len(chan[Other(e)]) < ChanCap
Result(e) == IF ~conn[e] THEN "error" ELSE IF Sendable(e) THEN "OK" ELSE "SEND_BLOCK"
SendTo(e, m) == chan' = [chan EXCEPT ![Other(e)] = Append(@, m)]

(* stream::_force_close. *)
ForceClose(s) ==
    [s EXCEPT !.st = "CLOSED", !.flag = @ \cup BothShut \cup
                                  {"READ_SHUTDOWN_CALLED", "WRITE_SHUTDOWN_CALLED"}]

(* mux_cargo::_stream_snd_rst: a packet the socket would not take waits in m_outps. *)
(* Its WAWO_ASSERT on m_mux_state is empty in a release build, and the step goes on. *)
SendRst(e) ==
    CASE Result(e) = "OK" -> SendTo(e, [type |-> "RST"]) /\ UNCHANGED outps
      [] Result(e) = "SEND_BLOCK" -> outps' = [outps EXCEPT ![e] = @ + 1] /\ UNCHANGED chan
      [] OTHER -> UNCHANGED <<chan, outps>>

----------------------------------------------------------------------------
(* The application. *)

(* mux_cargo::stream_open and stream::open. *)
Open ==
    /\ mux[A] = "ATTACHED" /\ MutexFree(A) /\ ~inmap[A]
    /\ ~HasStream(A)                               \* bound: one stream
    /\ inmap' = [inmap EXCEPT ![A] = TRUE]
    /\ str' = [str EXCEPT ![A] = [NewStream EXCEPT !.st = "ESTABLISHED", !.flag = {"PLAN_SYN"}]]
    /\ UNCHANGED <<mux, conn, outps, chan, tick, task, closing, told, sent, got, writing, ends, due>>

(* stream::write checks the flags before it takes wb_mutex; then all of    *)
(* the packet goes in, or nothing.                                         *)
WriteBegin ==
    /\ HasStream(A) /\ writing = 0
    /\ str[A].flag \cap {"WRITE_SHUTDOWN_CALLED", "WRITE_SHUTDOWN"} = {}
    /\ \E n \in 1..Least(MaxCall, MaxBytes - sent - ends) : writing' = n
    /\ UNCHANGED <<mux, conn, inmap, str, outps, chan, tick, task, closing, told, sent, got, ends, due>>

Write ==
    /\ writing > 0
    /\ writing' = 0
    /\ IF str[A].cap - Len(str[A].wb) < writing
       THEN str' = [str EXCEPT ![A].blocked = TRUE] /\ UNCHANGED sent
       ELSE /\ str' = [str EXCEPT ![A].wb = @ \o [i \in 1..writing |-> sent + i]]
            /\ sent' = sent + writing
    /\ UNCHANGED <<mux, conn, inmap, outps, chan, tick, task, closing, told, got, ends, due>>

MReadKeepsWindow ==   \* mutant: the window is not given back
    /\ \E n \in 1..Len(str[B].rb) :
         /\ str' = [str EXCEPT ![B].rb = SubSeq(@, n + 1, Len(@))]
         /\ got' = got \o SubSeq(str[B].rb, 1, n)
    /\ UNCHANGED <<mux, conn, inmap, outps, chan, tick, task, closing, told, sent, writing, ends, due>>

(* stream::read, with and without a maximum. *)
Read ==
    /\ \E n \in 1..Len(str[B].rb) :
         /\ str' = [str EXCEPT ![B].rb = SubSeq(@, n + 1, Len(@)), ![B].incre = @ + n]
         /\ got' = got \o SubSeq(str[B].rb, 1, n)
    /\ UNCHANGED <<mux, conn, inmap, outps, chan, tick, task, closing, told, sent, writing, ends, due>>

(* stream::close_read, close_write and close, which does what is left of the two. *)
CloseReadOf(s) ==
    IF "READ_SHUTDOWN_CALLED" \in s.flag THEN s
    ELSE [s EXCEPT !.flag = @ \cup {"READ_SHUTDOWN_CALLED", "READ_SHUTDOWN"},
                   !.incre = @ + Len(s.rb)]
(* close_write; the assertions of _snd_fin are those of a debug build. *)
CloseWriteOf(s) ==
    IF "WRITE_SHUTDOWN_CALLED" \in s.flag THEN s
    ELSE [s EXCEPT !.flag = @ \cup {"PLAN_FIN", "WRITE_SHUTDOWN_CALLED"}]
CloseOf(s) == CloseWriteOf(CloseReadOf(s))

Ending == ends < MaxEnds /\ sent + writing + ends < MaxBytes /\ ends' = ends + 1
CloseWriteCalled ==
    due' = IF "WRITE_SHUTDOWN_CALLED" \in str'[A].flag \ str[A].flag THEN sent ELSE due

Close(e) ==
    /\ HasStream(e) /\ Ending
    /\ \E s \in {CloseReadOf(str[e]), CloseWriteOf(str[e]), CloseOf(str[e])} :
         s # str[e] /\ str' = [str EXCEPT ![e] = s]
    /\ CloseWriteCalled
    /\ UNCHANGED <<mux, conn, inmap, outps, chan, tick, task, closing, told, sent, got, writing>>

(* mux_cargo::close: the streams are closed, then the thread ticks until   *)
(* they are gone, then it closes the socket.                               *)
PeerClose(e) ==
    /\ ~closing[e] /\ MutexFree(e) /\ mux[e] = "ATTACHED" /\ Ending
    /\ mux' = [mux EXCEPT ![e] = "CLOSED"]
    /\ str' = [str EXCEPT ![e] = IF inmap[e] THEN CloseOf(@) ELSE @]
    /\ closing' = [closing EXCEPT ![e] = TRUE]
    /\ CloseWriteCalled
    /\ UNCHANGED <<conn, inmap, outps, chan, tick, task, told, sent, got, writing>>

PeerCloseEnds(e) ==
    /\ closing[e] /\ MutexFree(e) /\ ~inmap[e]
    /\ closing' = [closing EXCEPT ![e] = FALSE]
    /\ conn' = [conn EXCEPT ![e] = FALSE]
    /\ chan' = [chan EXCEPT ![e] = <<>>]
    /\ UNCHANGED <<mux, inmap, str, outps, tick, task, told, sent, got, writing, ends, due>>

----------------------------------------------------------------------------
(* The connection below (external): it fails, or the other end's close is  *)
(* noticed once everything it sent has arrived.                            *)
Disconnect ==
    /\ conn[A] /\ conn[B] /\ Ending
    /\ conn' = [e \in Ends |-> FALSE]
    /\ chan' = [e \in Ends |-> <<>>]
    /\ UNCHANGED <<mux, inmap, str, outps, tick, task, closing, told, sent, got, writing, due>>

RemoteClosed(e) ==
    /\ conn[e] /\ ~conn[Other(e)] /\ chan[e] = <<>>
    /\ conn' = [conn EXCEPT ![e] = FALSE]
    /\ UNCHANGED <<mux, inmap, str, outps, chan, tick, task, closing, told, sent, got, writing, ends, due>>

----------------------------------------------------------------------------
(* The ticker: mux_cargo::_do_tick, stream::update and stream::_flush. *)

At(e, pc) == tick[e].pc = pc
Goto(e, pc) == tick' = [tick EXCEPT ![e].pc = pc]

(* The waiting RSTs first: if the socket takes them all, the stream next.  *)
(* A stream whose socket is gone is force-closed; a closed one leaves the  *)
(* map with a T_CLOSED event.                                              *)
TickBegin(e) ==
    LET room == IF conn[e] THEN ChanCap - Len(chan[Other(e)]) ELSE outps[e]
        n == Least(outps[e], room)
        s == IF conn[e] THEN str[e] ELSE ForceClose(str[e])
    IN /\ MutexFree(e) /\ (inmap[e] \/ outps[e] > 0)
       /\ outps' = [outps EXCEPT ![e] = @ - n]
       /\ chan' = IF conn[e] THEN [chan EXCEPT ![Other(e)] = @ \o [i \in 1..n |-> [type |-> "RST"]]]
                  ELSE chan
       /\ \/ (n < outps[e] \/ ~inmap[e]) /\ UNCHANGED <<inmap, str, tick, told>>
          \/ /\ n = outps[e] /\ inmap[e] /\ s.st = "ESTABLISHED"
             /\ Goto(e, "wnd") /\ UNCHANGED <<inmap, str, told>>
          \/ /\ n = outps[e] /\ inmap[e] /\ s.st = "CLOSED"
             /\ IF BothShut \subseteq s.flag
                THEN /\ str' = [str EXCEPT ![e] = [s EXCEPT !.st = "RECYCLE"]]
                     /\ inmap' = [inmap EXCEPT ![e] = FALSE]
                     /\ told' = [told EXCEPT ![e] = TRUE]
                ELSE str' = [str EXCEPT ![e] = s] /\ UNCHANGED <<inmap, told>>
             /\ UNCHANGED tick
       /\ UNCHANGED <<mux, conn, task, closing, sent, got, writing, ends, due>>

(* A send that blocks ends the flush until the next tick; one that fails   *)
(* closes the socket and the stream.                                       *)
SendFailed(e) ==
    /\ Result(e) # "OK"
    /\ str' = IF Result(e) = "error" THEN [str EXCEPT ![e] = ForceClose(@)] ELSE str
    /\ Goto(e, Idle)
    /\ UNCHANGED chan

(* The window update, under rb_mutex. *)
TickWnd(e) ==
    /\ At(e, "wnd")
    /\ \/ str[e].incre = 0 /\ Goto(e, "chk") /\ UNCHANGED <<str, chan>>
       \/ /\ str[e].incre > 0 /\ Result(e) = "OK"
          /\ SendTo(e, [type |-> "UWND", n |-> str[e].incre])
          /\ str' = [str EXCEPT ![e].incre = 0]
          /\ Goto(e, "chk")
       \/ str[e].incre > 0 /\ SendFailed(e)
    /\ UNCHANGED <<mux, conn, inmap, outps, task, closing, told, sent, got, writing, ends, due>>

(* Both directions done: SS_CLOSED.  Otherwise the length of the write     *)
(* buffer decides, read without a lock.                                    *)
TickCheck(e) ==
    /\ At(e, "chk")
    /\ IF str[e].incre = 0 /\ BothShut \subseteq str[e].flag
       THEN str' = [str EXCEPT ![e].st = "CLOSED"] /\ Goto(e, Idle)
       ELSE /\ Goto(e, IF "WRITE_SHUTDOWN" \in str[e].flag THEN Idle
                       ELSE IF str[e].wb = <<>> THEN "fin" ELSE "det")
            /\ UNCHANGED str
    /\ UNCHANGED <<mux, conn, inmap, outps, chan, task, closing, told, sent, got, writing, ends, due>>

(* Nothing was left to write: the FIN, if one is planned by now. *)
TickFin(e) ==
    /\ At(e, "fin")
    /\ \/ "PLAN_FIN" \notin str[e].flag /\ Goto(e, Idle) /\ UNCHANGED <<str, chan>>
       \/ /\ "PLAN_FIN" \in str[e].flag /\ Result(e) = "OK"
          /\ SendTo(e, [type |-> "FIN"])
          /\ str' = [str EXCEPT ![e].flag = (@ \ {"PLAN_FIN"}) \cup {"WRITE_SHUTDOWN"}]
          /\ Goto(e, Idle)
       \/ "PLAN_FIN" \in str[e].flag /\ SendFailed(e)
    /\ UNCHANGED <<mux, conn, inmap, outps, task, closing, told, sent, got, writing, ends, due>>

(* flag |= STREAM_BUFFER_DETERMINED: read here, written in the next step. *)
TickDetermine(e) ==
    /\ At(e, "det")
    /\ tick' = [tick EXCEPT ![e] =
         IF "BUFFER_DETERMINED" \in str[e].flag THEN [@ EXCEPT !.pc = "syn"]
         ELSE [pc |-> "resize", seen |-> str[e].flag]]
    /\ UNCHANGED <<mux, conn, inmap, str, outps, chan, task, closing, told, sent, got, writing, ends, due>>

MResizeEmpties(e) ==   \* mutant: the new buffer starts empty
    /\ At(e, "resize")
    /\ str' = [str EXCEPT ![e].flag = tick[e].seen \cup {"BUFFER_DETERMINED"}, ![e].wb = <<>>]
    /\ tick' = [tick EXCEPT ![e] = [pc |-> "syn", seen |-> {}]]
    /\ UNCHANGED <<mux, conn, inmap, outps, chan, task, closing, told, sent, got, writing, ends, due>>

(* The write buffer shrinks to what the socket sends at once; what it      *)
(* cannot hold is dropped (bytes_ringbuffer::write takes what fits).       *)
TickResize(e) ==
    LET size == Least(TrySize, str[e].cap)
    IN /\ At(e, "resize")
       /\ str' = [str EXCEPT ![e].flag = tick[e].seen \cup {"BUFFER_DETERMINED"},
                             ![e].cap = size,
                             ![e].wb = SubSeq(@, 1, Least(size, Len(@)))]
       /\ tick' = [tick EXCEPT ![e] = [pc |-> "syn", seen |-> {}]]
       /\ UNCHANGED <<mux, conn, inmap, outps, chan, task, closing, told, sent, got, writing, ends, due>>

TickSyn(e) ==
    /\ At(e, "syn")
    /\ \/ "PLAN_SYN" \notin str[e].flag /\ Goto(e, "data") /\ UNCHANGED <<str, chan>>
       \/ /\ "PLAN_SYN" \in str[e].flag /\ Result(e) = "OK"
          /\ SendTo(e, [type |-> "SYN"])
          /\ str' = [str EXCEPT ![e].flag = @ \ {"PLAN_SYN"}]
          /\ Goto(e, "data")
       \/ "PLAN_SYN" \in str[e].flag /\ SendFailed(e)
    /\ UNCHANGED <<mux, conn, inmap, outps, task, closing, told, sent, got, writing, ends, due>>

MFlushedNoWindow(s) == Least(Len(s.wb), Wnd)   \* mutant: wb_wnd is not consulted

(* As much as the window and the buffer allow goes out in one packet (the  *)
(* loop ends after one success: the buffer or the window is then empty).   *)
Flushed(s) == Least(Least(Len(s.wb), s.wnd), Wnd)

TickData(e) ==
    LET n == Flushed(str[e])
    IN /\ At(e, "data")
       /\ \/ n = 0 /\ Goto(e, Idle) /\ UNCHANGED <<str, chan>>
          \/ /\ n > 0 /\ Result(e) = "OK"
             /\ SendTo(e, [type |-> "DATA", data |-> SubSeq(str[e].wb, 1, n)])
             /\ str' = [str EXCEPT ![e].wb = SubSeq(@, n + 1, Len(@)),
                                   ![e].wnd = @ - n,
                                   ![e].blocked = FALSE]   \* T_WRITE_UNBLOCK
             /\ Goto(e, Idle)
          \/ n > 0 /\ SendFailed(e)
       /\ UNCHANGED <<mux, conn, inmap, outps, task, closing, told, sent, got, writing, ends, due>>

Tick(e) == \/ TickBegin(e) \/ TickWnd(e) \/ TickCheck(e) \/ TickFin(e)
           \/ TickDetermine(e) \/ TickResize(e) \/ TickSyn(e) \/ TickData(e)

----------------------------------------------------------------------------
(* The event task: mux_cargo::on_event. *)

(* E_PACKET_ARRIVE: a peer that is not attached drops the packet. *)
Arrive(e) ==
    /\ task[e].pc = Idle /\ conn[e] /\ chan[e] # <<>> /\ MutexFree(e)
    /\ chan' = [chan EXCEPT ![e] = Tail(@)]
    /\ task' = IF mux[e] = "ATTACHED"
               THEN [task EXCEPT ![e] = [pc |-> "lookup", msg |-> Head(chan[e])]]
               ELSE task
    /\ UNCHANGED <<mux, conn, inmap, str, outps, tick, closing, told, sent, got, writing, ends, due>>

TaskDone(e) == task' = [task EXCEPT ![e] = [pc |-> Idle, msg |-> NoMsg]]

(* The stream is looked up, or made by a SYN, under m_mutex; the packet is *)
(* applied after the mutex is released.                                    *)
Lookup(e) ==
    LET m == task[e].msg
    IN /\ task[e].pc = "lookup" /\ MutexFree(e)
       /\ \/ /\ m.type = "SYN" /\ ~inmap[e]
             /\ str' = [str EXCEPT ![e] = [NewStream EXCEPT !.st = "ESTABLISHED"]]
             /\ inmap' = [inmap EXCEPT ![e] = TRUE]
             /\ TaskDone(e) /\ UNCHANGED <<outps, chan>>
          \/ /\ (m.type = "SYN") = inmap[e] /\ m.type # "RST"
             /\ SendRst(e) /\ TaskDone(e) /\ UNCHANGED <<str, inmap>>
          \/ /\ m.type = "RST" /\ ~inmap[e]
             /\ TaskDone(e) /\ UNCHANGED <<str, inmap, outps, chan>>
          \/ /\ m.type # "SYN" /\ inmap[e]
             /\ task' = [task EXCEPT ![e].pc = "apply"]
             /\ UNCHANGED <<str, inmap, outps, chan>>
       /\ UNCHANGED <<mux, conn, tick, closing, told, sent, got, writing, ends, due>>

(* What the packet does to the stream, unless it is data that comes after  *)
(* close_read.                                                             *)
MNeverRefused(m, s) == FALSE                   \* mutant: no check under rb_mutex
Refused(m, s) == m.type = "DATA" /\ "READ_SHUTDOWN" \in s.flag
Applied(m, s) ==
    CASE m.type = "DATA" -> [s EXCEPT !.rb = @ \o m.data]
      [] m.type = "UWND" -> [s EXCEPT !.wnd = Least(Wnd, @ + m.n)]
      [] m.type = "RST" -> ForceClose(s)
      [] m.type = "FIN" -> s                                  \* T_FIN to the listener
Apply(e) ==
    LET m == task[e].msg
    IN /\ task[e].pc = "apply"
       /\ IF Refused(m, str[e]) THEN SendRst(e) /\ UNCHANGED str
          ELSE str' = [str EXCEPT ![e] = Applied(m, @)] /\ UNCHANGED <<outps, chan>>
       /\ TaskDone(e)
       /\ UNCHANGED <<mux, conn, inmap, tick, closing, told, sent, got, writing, ends, due>>

(* E_CLOSE of the socket: the streams are closed, and the task ticks until *)
(* they are gone.                                                          *)
SocketClosed(e) ==
    /\ ~conn[e] /\ task[e].pc = Idle /\ MutexFree(e) /\ (inmap[e] \/ mux[e] = "ATTACHED")
    /\ mux' = [mux EXCEPT ![e] = "CLOSED"]
    /\ str' = [str EXCEPT ![e] = IF inmap[e] THEN CloseOf(@) ELSE @]
    /\ task' = [task EXCEPT ![e].pc = "drain"]
    /\ UNCHANGED <<conn, inmap, outps, chan, tick, closing, told, sent, got, writing, ends, due>>

Drained(e) ==
    /\ task[e].pc = "drain" /\ MutexFree(e) /\ ~inmap[e]
    /\ TaskDone(e)
    /\ UNCHANGED <<mux, conn, inmap, str, outps, chan, tick, closing, told, sent, got, writing, ends, due>>

EventTask(e) == Arrive(e) \/ Lookup(e) \/ Apply(e) \/ SocketClosed(e) \/ Drained(e)

Next ==
    \/ Open \/ WriteBegin \/ Write \/ Read \/ Disconnect
    \/ \E e \in Ends : \/ Close(e) \/ PeerClose(e) \/ PeerCloseEnds(e) \/ RemoteClosed(e)
                       \/ Tick(e) \/ EventTask(e)

Spec == MuxInit /\ [][Next]_vars

(***************************************************************************)
(* Fairness: the ticker thread ticks each peer, and the reading            *)
(* application reads when told.  A task needs m_mutex, which each tick     *)
(* takes and releases: it gets it in the end, since ticks are half a       *)
(* second apart.                                                           *)
(***************************************************************************)
FairSpec ==
    /\ Spec /\ WF_vars(Read)
    /\ \A e \in Ends : WF_vars(Tick(e)) /\ SF_vars(EventTask(e))
----------------------------------------------------------------------------
TypeOK ==
    /\ mux \in [Ends -> {"ATTACHED", "CLOSED"}]
    /\ conn \in [Ends -> BOOLEAN] /\ inmap \in [Ends -> BOOLEAN]
    /\ closing \in [Ends -> BOOLEAN] /\ told \in [Ends -> BOOLEAN]
    /\ \A e \in Ends :
         /\ str[e].st \in {"CLOSED", "ESTABLISHED", "RECYCLE"}
         /\ str[e].flag \subseteq Flags
         /\ {Len(str[e].rb), Len(str[e].wb), str[e].wnd} \subseteq 0..Wnd
         /\ str[e].incre \in Nat /\ str[e].cap \in 1..Wnd
         /\ Len(chan[e]) \in 0..ChanCap
         /\ outps[e] \in Nat
         /\ task[e].pc \in {Idle, "lookup", "apply", "drain"}
         /\ tick[e].pc \in {Idle, "wnd", "chk", "fin", "det", "resize", "syn", "data"}
    /\ sent \in 0..MaxBytes /\ Len(got) \in 0..sent /\ writing \in 0..MaxCall /\ ends \in 0..MaxEnds
    /\ due \in 0..sent

InFlight(e) == FlattenSeq([i \in 1..Len(chan[e]) |-> Bytes(chan[e][i])])

(* A window never lets more bytes out than the reader has room for,        *)
(* whatever the delay of the updates: the assertion of on_event on         *)
(* left_capacity of the receive buffer cannot fail.                        *)
DataFits ==
    \A e \in Ends : (inmap[e] /\ "READ_SHUTDOWN" \notin str[e].flag) =>
        Len(str[e].rb) + Len(Bytes(task[e].msg)) + Len(InFlight(e)) <= Wnd

(* The event task will apply the packet it holds; the receiver takes those *)
(* on the way; the sender still sends what it holds.                       *)
Applying == "READ_SHUTDOWN" \notin str[B].flag /\ (task[B].pc = "lookup" => inmap[B])
Accepting == conn[B] /\ mux[B] = "ATTACHED" /\ ~told[B] /\ "READ_SHUTDOWN" \notin str[B].flag
Sending == /\ conn[A] /\ "WRITE_SHUTDOWN" \notin str[A].flag
           /\ ~HasStream(A) \/ str[A].st = "ESTABLISHED"

(* What the two applications see is a byte pipe: in order, nothing twice,  *)
(* whatever the interleaving of writers, tickers, tasks and closes.  What  *)
(* is left in the write buffer when the FIN goes out is cut off (FinIsLast *)
(* says when that is wrong), and the first flush may drop what was written *)
(* beyond the send buffer of the socket: 95K of the 256K by default.       *)
Pipe == INSTANCE MuxPipe WITH
    pipe <- str[B].rb \o (IF Applying THEN Bytes(task[B].msg) ELSE <<>>)
                     \o (IF Accepting THEN InFlight(B) ELSE <<>>)
                     \o (IF Accepting /\ Sending THEN str[A].wb ELSE <<>>),
    cut <- ~(Accepting /\ Sending),
    Room <- TrySize,
    shrunk <- "BUFFER_DETERMINED" \in str[A].flag

(* The stream implements the pipe: MuxPipe under that mapping. *)
ImplementsPipe == Pipe!PSpec

(* No byte is added to the receive buffer of a stream after its T_CLOSED   *)
(* was scheduled, even when the packet was looked up before.               *)
NoDataAfterClosed ==
    [][\A e \in Ends : Len(str'[e].rb) > Len(str[e].rb) => ~told[e]]_vars

(* A writer told that its stream is full hears T_WRITE_UNBLOCK, unless the *)
(* stream ends, the writer closed it, or the reader's mux is closing: a SYN *)
(* whose state check precedes that close adds a stream nobody closes, and  *)
(* its packets are dropped without a RST.  Nor does it hear anything while *)
(* its buffer is empty: a packet larger than the buffer is refused with the*)
(* same code, and nothing is there whose flush would unblock it.           *)
BlockedWriterResumes ==
    (str[A].blocked /\ str[A].wb # <<>>) ~>
       \/ ~str[A].blocked \/ str[A].st # "ESTABLISHED"
       \/ "WRITE_SHUTDOWN_CALLED" \in str[A].flag \/ mux[B] = "CLOSED"

(* What close_write promises (mux_cargo.hpp, above close): the bytes that  *)
(* were written before are sent before the FIN.                            *)
FinIsLast ==
    ("WRITE_SHUTDOWN" \in str[A].flag /\ str[A].st = "ESTABLISHED") => sent - Len(str[A].wb) >= due

(* Both ends keep to the window: the fields of a stream stay in their       *)
(* ranges, and what is under way fits the reader's buffer.                  *)
WindowSound == TypeOK /\ DataFits
=============================================================================
