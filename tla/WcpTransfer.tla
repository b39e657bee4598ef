---------------------------- MODULE WcpTransfer ----------------------------
(***************************************************************************)
(* The data path of a WCP connection (src/src/net/wcp.cpp): two            *)
(* established control blocks (WCB) that exchange DAT, SACK, WND and       *)
(* keepalive packs over UDP.                                               *)
(*                                                                         *)
(* Each WCB is driven by the pass of the ticker thread, WCB::update, which *)
(* runs check_recv (here: its head, the rounds of its delivery loop, and   *)
(* the swap of the two receive buffers), check_flights and check_send in   *)
(* that order; "phase" says which is next.  The application's threads call *)
(* wcp::send and wcp::recv between any two of these steps.                 *)
(*                                                                         *)
(* Abstractions.  A DAT pack always carries one full chunk of MDU bytes;   *)
(* chunks are numbered in the order in which the application writes them.  *)
(* Timers (RTO, keepalive, window probe) expire at any time.  The          *)
(* congestion window lets check_send stop after any pack.  UDP may lose,   *)
(* repeat and reorder; net[e] holds the packs on their way to e, those     *)
(* that pump_packs has already put into received_vec_standby included.     *)
(***************************************************************************)
EXTENDS Integers, Sequences, FiniteSets

CONSTANTS
    A, B,        \* the WCB that connected, the WCB that was accepted
    MDU,         \* payload bytes of a DAT pack (WCP_MDU)
    HeaderLen,   \* bytes of a header (WCP_HeaderLen)
    SndCap,      \* capacity of sb, in chunks
    RcvCap,      \* capacity of rb and of rb_standby, in bytes
    Probes,      \* keepalive_vals.probes
    MaxCall,     \* bound: chunks in one call of send or recv
    Environments \* what a run looks at: records with the fields below

(***************************************************************************)
(* An environment says what the applications and the UDP sockets may do,   *)
(* and bounds it: "write", the chunks each application writes; "idle", the *)
(* connection may be idle for keepalive_vals.idle; "faults", the sockets   *)
(* may report errors; "net", the packs in transit in one direction; "ctl", *)
(* the packs a blocked socket leaves in s_sending_ignore_seq_space.        *)
(***************************************************************************)
End == {A, B}
Peer(e) == IF e = A THEN B ELSE A
MTU == MDU + HeaderLen

ASSUME EndsAssumption == A # B
ASSUME SizeAssumption ==
    /\ MDU \in Nat \ {0} /\ HeaderLen \in Nat \ {0}
    /\ SndCap \in Nat \ {0, 1}
    /\ RcvCap \in Nat /\ RcvCap > MDU + MTU    \* it is at least 2 * WCP_RCV_BUFFER_MIN
ASSUME ProbesAssumption == Probes \in Nat \ {0}
ASSUME BoundAssumption ==
    /\ MaxCall \in Nat
    /\ Environments \subseteq [write : [End -> Nat], idle : BOOLEAN, faults : BOOLEAN, net : Nat, ctl : Nat]

VARIABLES
    wrote,     \* chunks wcp::send has accepted
    read,      \* the chunks wcp::recv has returned, in order
    phase,     \* the handler the ticker's pass runs next
    status,    \* "up"; "rcverr" or "snderr": wcb_errno is set, with READ_RECV_ERROR or
               \* WRITE_SEND_ERROR; "assert": a WAWO_ASSERT threw
    sb,        \* sb: chunks not yet put into packs
    dsn,       \* snd_info.dsn: the next sequence number to give out
    next,      \* snd_info.next: the next sequence number to send
    una,       \* snd_info.una
    unaUpd,    \* SND_UNA_UPDATE of wcb_flag
    rwnd,      \* snd_info.rwnd
    sending,   \* snd_sending
    flights,   \* snd_flights
    ctl,       \* s_sending_ignore_seq_space
    rcvNext,   \* rcv_info.next
    rcvWnd,    \* rcv_info.wnd
    rcvd,      \* rcv_received: sequence numbers with their chunks
    rb,        \* rb: chunks the application may read
    standby,   \* rb_standby
    rflag,     \* READ_RWND_LESS_THAN_MTU, READ_RWND_MORE_THAN_MTU of r_flag
    probes,    \* keepalive_probes_sent
    net,       \* packs on their way to each end
    env        \* the environment, chosen once

appVars == <<wrote, read>>
sndVars == <<sb, dsn, next, sending>>
ackVars == <<una, unaUpd, rwnd>>
rcvVars == <<rcvNext, rcvd, rcvWnd, rb, standby, rflag>>
vars == <<appVars, phase, status, sndVars, ackVars, flights, ctl, rcvVars, probes, net, env>>

NoChunk == 0

(* The client's SYN and ACK took the numbers 0 and 1, the server's SYN|ACK *)
(* took 0; both ends have acknowledged them.                               *)
FirstSeq(e) == IF e = A THEN 2 ELSE 1

-----------------------------------------------------------------------------
(* Packs.  A queued pack gets its ack and wnd when it is sent (send_pack).  *)

Dat(s, c) == [kind |-> "DAT", seq |-> s, upd |-> FALSE, chunk |-> c, sacks |-> {}]
Control(k, s, S) == [kind |-> k, seq |-> s, upd |-> k = "WND", chunk |-> NoChunk, sacks |-> S]

SendPack(e, p) ==
    [kind |-> p.kind, seq |-> p.seq, upd |-> p.upd, chunk |-> p.chunk,
     sacks |-> p.sacks, ack |-> rcvNext[e], wnd |-> rcvWnd[e]]

Inject(e, packs) == net' = [net EXCEPT ![Peer(e)] = @ \cup {SendPack(e, p) : p \in packs}]

Elements(q) == {q[i] : i \in 1..Len(q)}

(* The packs that check_recv files under their sequence number: those it   *)
(* does not leave with a "continue".  A WND pack is one of them.           *)
InSeqSpace(m) == m.kind \in {"DAT", "WND"}

-----------------------------------------------------------------------------
(* The application's calls.                                                *)

(* wcp::send of n chunks. *)
Send(e, n) ==
    LET left == SndCap - Len(sb[e])
        take == IF left > n THEN n ELSE left
    IN /\ status[e] # "snderr"
       /\ ~(left < n /\ left < 2)
       /\ wrote[e] + take <= env.write[e]
       /\ sb' = [sb EXCEPT ![e] = @ \o [i \in 1..take |-> wrote[e] + i]]
       /\ wrote' = [wrote EXCEPT ![e] = @ + take]
       /\ UNCHANGED <<read, phase, status, dsn, next, sending, ackVars, flights, ctl, rcvVars,
                      probes, net>>

(* wcp::recv of at most n chunks. *)
Recv(e, n) ==
    LET take == IF Len(rb[e]) > n THEN n ELSE Len(rb[e])
    IN /\ rb[e] # <<>>
       /\ read' = [read EXCEPT ![e] = @ \o SubSeq(rb[e], 1, take)]
       /\ rb' = [rb EXCEPT ![e] = SubSeq(@, take + 1, Len(@))]
       /\ UNCHANGED <<wrote, phase, status, sndVars, ackVars, flights, ctl, rcvNext, rcvd, rcvWnd,
                      standby, rflag, probes, net>>

-----------------------------------------------------------------------------
(* WCB::check_recv.                                                        *)

(* WCB::update looks at wcb_errno once, before check_recv: an error found  *)
(* in the middle of a pass does not end it, except that check_send does    *)
(* nothing after a send error.                                             *)
InPass(e) == status[e] \in {"up", "rcverr"}

(* The flights that are left once "sacked" was selectively acknowledged;   *)
(* what una covers is left to check_flights.                               *)
Unsacked(e, top, sacked) == {p \in flights[e] : p.seq < top \/ p.seq \notin sacked}

(* Cumulative ack, window and selective acks of a batch.  The last pack    *)
(* that raised una, or that carries the WND flag, decides the window.      *)
HandleAcks(e, batch) ==
    \E top \in {una[e]} \cup {m.ack : m \in batch} :
        LET sacked == UNION {m.sacks : m \in batch}
            src == {m \in batch : m.upd \/ (top > una[e] /\ m.ack = top)}
        IN /\ una[e] <= top
           /\ \A m \in batch : m.ack <= top
           /\ una' = [una EXCEPT ![e] = top]
           /\ unaUpd' = [unaUpd EXCEPT ![e] = @ \/ top > una[e]]
           /\ \E w \in (IF src = {} THEN {rwnd[e]} ELSE {m.wnd : m \in src}) :
                rwnd' = [rwnd EXCEPT ![e] = w]
           /\ flights' = [flights EXCEPT ![e] = Unsacked(e, top, sacked)]

Seqs(packs) == {p.seq : p \in packs}

(* The packs of a batch that are neither old nor already in rcv_received.  *)
FreshOrOld(e, batch) ==
    {[seq |-> m.seq, chunk |-> m.chunk] :
        m \in {b \in batch : InSeqSpace(b) /\ b.seq \notin Seqs(rcvd[e])}}
FreshNext(e, batch) ==
    {[seq |-> m.seq, chunk |-> m.chunk] :
        m \in {b \in batch : InSeqSpace(b) /\ b.seq = rcvNext[e] /\ b.seq \notin Seqs(rcvd[e])}}
Fresh(e, batch) ==
    {[seq |-> m.seq, chunk |-> m.chunk] :
        m \in {b \in batch : /\ InSeqSpace(b) /\ b.seq >= rcvNext[e]
                             /\ b.seq \notin Seqs(rcvd[e])}}

(* Of several packs with one number the first to come is inserted.         *)
Insert(e, batch) ==
    \E new \in SUBSET Fresh(e, batch) :
        /\ Seqs(new) = Seqs(Fresh(e, batch))
        /\ \A p, q \in new : p.seq = q.seq => p = q
        /\ rcvd' = [rcvd EXCEPT ![e] = @ \cup new]

(* SACK of every pack in sequence space, duplicates included, and one      *)
(* reply for each keepalive.  The copies SACK() queues are the network's   *)
(* to make.                                                                *)
Replies(e, batch) ==
    LET acked == Seqs({b \in batch : InSeqSpace(b)})
    IN (IF \E m \in batch : m.kind = "KEEP_ALIVE" THEN <<Control("KEEP_ALIVE_REPLY", dsn[e], {})>> ELSE <<>>)
       \o (IF acked # {} THEN <<Control("SACK", dsn[e], acked)>> ELSE <<>>)

(* The head of check_recv, with the packs "batch" in received_vec; "again"  *)
(* are those the network will deliver once more.                           *)
CheckRecv(e, batch, again) ==
    /\ phase[e] = "recv" /\ status[e] = "up"
    /\ batch # {}
    /\ HandleAcks(e, batch)
    /\ ctl' = [ctl EXCEPT ![e] = @ \o Replies(e, batch)]
    /\ Insert(e, batch)
    /\ probes' = [probes EXCEPT ![e] = 0]
    /\ net' = [net EXCEPT ![e] = (@ \ batch) \cup again]
    /\ phase' = [phase EXCEPT ![e] = "deliver"]
    /\ UNCHANGED <<appVars, status, sndVars, rcvNext, rcvWnd, rb, standby, rflag>>

GaveUpLate(e) == probes[e] > Probes
GaveUp(e) == probes[e] >= Probes

(* check_recv with nothing received: the keepalive timer.  Once the last   *)
(* probe is out, the next idle pass gives the peer up.                     *)
CheckRecvIdle(e) ==
    /\ phase[e] = "recv" /\ status[e] = "up"
    /\ \/ /\ GaveUp(e)
          /\ status' = [status EXCEPT ![e] = "rcverr"]
          /\ UNCHANGED <<ctl, probes>>
       \/ /\ ~GaveUp(e) /\ env.idle
          /\ ctl' = [ctl EXCEPT ![e] = Append(@, Control("KEEP_ALIVE", dsn[e], {}))]
          /\ probes' = [probes EXCEPT ![e] = @ + 1]
          /\ UNCHANGED status
       \/ /\ ~GaveUp(e)
          /\ UNCHANGED <<ctl, probes, status>>
    /\ phase' = [phase EXCEPT ![e] = "swap"]
    /\ UNCHANGED <<appVars, sndVars, ackVars, flights, rcvVars, net>>

(* rb_standby->left_capacity() *)
Left(e) == RcvCap - MDU * Len(standby[e])

InTurn(e, p) == p.seq = rcvNext[e]

(* One round of the loop over rcv_received, for the pack p at its front.   *)
(* Only the peer sends to an end: the RST for another address is left out. *)
DeliverPack(e, p) ==
    /\ phase[e] = "deliver" /\ InPass(e)
    /\ InTurn(e, p)
    /\ rcvNext' = [rcvNext EXCEPT ![e] = @ + 1]
    /\ rcvd' = [rcvd EXCEPT ![e] = @ \ {p}]
    /\ IF p.chunk = NoChunk
       THEN UNCHANGED <<standby, rcvWnd, rflag>>
       ELSE /\ Left(e) >= MDU
            /\ standby' = [standby EXCEPT ![e] = Append(@, p.chunk)]
            /\ rcvWnd' = [rcvWnd EXCEPT ![e] = Left(e) - MDU]
            /\ rflag' = [rflag EXCEPT ![e] = IF Left(e) - MDU <= MTU THEN @ \cup {"LESS"} ELSE {}]
    /\ UNCHANGED <<appVars, phase, status, sndVars, ackVars, flights, ctl, rb, probes, net>>

(* The loop ends at a gap, or at a pack that does not fit in rb_standby.    *)
DeliverEnd(e) ==
    /\ phase[e] = "deliver" /\ InPass(e)
    /\ \/ /\ rcvNext[e] \notin Seqs(rcvd[e])
          /\ UNCHANGED rflag
       \/ /\ \E p \in rcvd[e] : p.seq = rcvNext[e] /\ p.chunk # NoChunk /\ Left(e) < MDU
          /\ rflag' = [rflag EXCEPT ![e] = @ \cup {"LESS"}]
    /\ phase' = [phase EXCEPT ![e] = "swap"]
    /\ UNCHANGED <<appVars, status, sndVars, ackVars, flights, ctl, rcvNext, rcvd, rcvWnd, rb,
                   standby, probes, net>>

MaySwapUnread(e) == standby[e] # <<>>
MaySwap(e) == rb[e] = <<>> /\ standby[e] # <<>>

(* A window that had shrunk below a pack is announced once it is open.     *)
SwappedUntold(e) == rflag[e]
Swapped(e) == IF "LESS" \in rflag[e] THEN rflag[e] \cup {"MORE"} ELSE rflag[e]

(* The tail of check_recv: rb and rb_standby trade places when rb is empty. *)
Swap(e) ==
    /\ phase[e] = "swap" /\ InPass(e)
    /\ IF MaySwap(e)
       THEN /\ rb' = [rb EXCEPT ![e] = standby[e]]
            /\ standby' = [standby EXCEPT ![e] = rb[e]]
            /\ rflag' = [rflag EXCEPT ![e] = Swapped(e)]
            /\ rcvWnd' = [rcvWnd EXCEPT ![e] = IF "LESS" \in rflag[e] THEN RcvCap ELSE @]
       ELSE UNCHANGED <<rb, standby, rflag, rcvWnd>>
    /\ phase' = [phase EXCEPT ![e] = "flights"]
    /\ UNCHANGED <<appVars, status, sndVars, ackVars, flights, ctl, rcvNext, rcvd, probes, net>>

-----------------------------------------------------------------------------
KeptAboveUna(e) == IF unaUpd[e] THEN {p \in flights[e] : p.seq > una[e]} ELSE flights[e]
Kept(e) == IF unaUpd[e] THEN {p \in flights[e] : p.seq >= una[e]} ELSE flights[e]

(* WCB::check_flights: what una covers leaves the flights; any of the rest  *)
(* may be due (skipped by a SACK, fast recovery or RTO) and is sent again.  *)
CheckFlights(e) ==
    /\ phase[e] = "flights" /\ InPass(e)
    /\ \E due \in SUBSET Kept(e) : Inject(e, due)
    /\ flights' = [flights EXCEPT ![e] = Kept(e)]
    /\ unaUpd' = [unaUpd EXCEPT ![e] = FALSE]
    /\ phase' = [phase EXCEPT ![e] = "send"]
    /\ UNCHANGED <<appVars, status, sndVars, una, rwnd, ctl, rcvVars, probes>>

-----------------------------------------------------------------------------
(* WCB::check_send.                                                        *)

WithWnd(p) == [kind |-> p.kind, seq |-> p.seq, upd |-> TRUE, chunk |-> p.chunk, sacks |-> p.sacks]

(* The forced window update: a WND pack of its own, or a flag on the pack  *)
(* at the front.                                                           *)
CtlQueue(e, probe) ==
    IF ~probe THEN ctl[e]
    ELSE IF ctl[e] = <<>> THEN <<Control("WND", dsn[e], {})>>
    ELSE [ctl[e] EXCEPT ![1] = WithWnd(@)]

(* snd_sending after n chunks of sb were put into packs. *)
PacketisedLate(e, n) == sending[e] \o [i \in 1..n |-> Dat(dsn[e] + i, sb[e][i])]
Packetised(e, n) == sending[e] \o [i \in 1..n |-> Dat(dsn[e] + i - 1, sb[e][i])]

(* The pack is not held back by the peer's window. *)
InWindow(e, i) == MTU * (Cardinality(flights[e]) + i) < rwnd[e]

(* The two assertions check_send makes of the i-th pack it sends. *)
SendAsserts(e, q, i) == q[i].seq = next[e] + i - 1 /\ q[i].seq >= una[e]

(* j chunks are put into packs and i packs go out; the loop then stops at   *)
(* the window or at a blocked socket, or the next pack fails an assertion.  *)
SendData(e, q, i, j) ==
    /\ \A x \in 1..i : SendAsserts(e, q, x)
    /\ sending' = [sending EXCEPT ![e] = SubSeq(q, i + 1, Len(q))]
    /\ sb' = [sb EXCEPT ![e] = SubSeq(@, j + 1, Len(@))]
    /\ dsn' = [dsn EXCEPT ![e] = @ + j]
    /\ next' = [next EXCEPT ![e] = @ + i]
    /\ flights' = [flights EXCEPT ![e] = @ \cup {q[x] : x \in 1..i}]
    /\ \/ status' = status
       \/ /\ i < Len(q) /\ InWindow(e, i + 1) /\ ~SendAsserts(e, q, i + 1)
          /\ status' = [status EXCEPT ![e] = "assert"]

CheckSend(e) ==
    /\ phase[e] = "send" /\ InPass(e)
    /\ \E probe \in (IF "MORE" \in rflag[e] THEN BOOLEAN ELSE {FALSE}) :
         LET q0 == CtlQueue(e, probe)
         IN \/ \E k \in 0..(Len(q0) - 1) :        \* the UDP socket blocks
                 /\ Len(q0) - k <= env.ctl
                 /\ ctl' = [ctl EXCEPT ![e] = SubSeq(q0, k + 1, Len(q0))]
                 /\ Inject(e, Elements(SubSeq(q0, 1, k)))
                 /\ UNCHANGED <<sndVars, flights, status>>
            \/ \E j \in 0..Len(sb[e]) : \E i \in 0..(Len(sending[e]) + j) :
                 LET q == Packetised(e, j)
                 IN /\ j > 0 => i >= Len(sending[e])
                    /\ i > 0 => InWindow(e, i)
                    /\ ctl' = [ctl EXCEPT ![e] = <<>>]
                    /\ Inject(e, Elements(q0) \cup {q[x] : x \in 1..i})
                    /\ SendData(e, q, i, j)
    /\ phase' = [phase EXCEPT ![e] = "recv"]
    /\ UNCHANGED <<appVars, ackVars, rcvVars, probes>>

(* sendto or recvfrom on the UDP socket fails with more than "would block": *)
(* wcb_errno is set and the next pass closes the WCB.                       *)
SocketError(e) ==
    /\ env.faults /\ status[e] = "up"
    /\ \E err \in {"rcverr", "snderr"} : status' = [status EXCEPT ![e] = err]
    /\ UNCHANGED <<appVars, phase, sndVars, ackVars, flights, ctl, rcvVars, probes, net>>

(* UDP loses a pack. *)
Lose(e) ==
    /\ \E m \in net[e] : net' = [net EXCEPT ![e] = @ \ {m}]
    /\ UNCHANGED <<appVars, phase, status, sndVars, ackVars, flights, ctl, rcvVars, probes>>

-----------------------------------------------------------------------------
Init ==
    /\ wrote = [e \in End |-> 0]
    /\ read = [e \in End |-> <<>>]
    /\ phase = [e \in End |-> "recv"]
    /\ status = [e \in End |-> "up"]
    /\ sb = [e \in End |-> <<>>]
    /\ dsn = [e \in End |-> FirstSeq(e)]
    /\ next = [e \in End |-> FirstSeq(e)]
    /\ una = [e \in End |-> FirstSeq(e)]
    /\ unaUpd = [e \in End |-> FALSE]
    /\ rwnd = [e \in End |-> RcvCap]
    /\ sending = [e \in End |-> <<>>]
    /\ flights = [e \in End |-> {}]
    /\ ctl = [e \in End |-> <<>>]
    /\ rcvNext = [e \in End |-> FirstSeq(Peer(e))]
    /\ rcvWnd = [e \in End |-> RcvCap]
    /\ rcvd = [e \in End |-> {}]
    /\ rb = [e \in End |-> <<>>]
    /\ standby = [e \in End |-> <<>>]
    /\ rflag = [e \in End |-> {}]
    /\ probes = [e \in End |-> 0]
    /\ net = [e \in End |-> {}]
    /\ env \in Environments

(* One step of the ticker, of an application or of the network. *)
Step ==
    \E e \in End :
        \/ \E n \in 1..MaxCall : Send(e, n)
        \/ \E n \in 1..MaxCall : Recv(e, n)
        \/ \E batch \in SUBSET net[e] : \E again \in SUBSET batch : CheckRecv(e, batch, again)
        \/ CheckRecvIdle(e)
        \/ \E p \in rcvd[e] : DeliverPack(e, p)
        \/ DeliverEnd(e)
        \/ Swap(e)
        \/ CheckFlights(e)
        \/ CheckSend(e)
        \/ SocketError(e)
        \/ Lose(e)

Next ==
    /\ Step
    /\ \A e \in End : Cardinality(net'[e]) <= env.net
    /\ UNCHANGED env

Spec == Init /\ [][Next]_vars

-----------------------------------------------------------------------------
Kinds == {"DAT", "SACK", "WND", "KEEP_ALIVE", "KEEP_ALIVE_REPLY"}
DatPacks == [kind : {"DAT"}, seq : Nat, upd : {FALSE}, chunk : Nat, sacks : {{}}]
CtlPacks == [kind : Kinds, seq : Nat, upd : BOOLEAN, chunk : Nat, sacks : SUBSET Nat]
NetPacks == [kind : Kinds, seq : Nat, upd : BOOLEAN, chunk : Nat, sacks : SUBSET Nat,
             ack : Nat, wnd : Nat]

(* Every variable keeps its type; in particular the window check_recv      *)
(* advertises never goes below zero, so rb_standby is never overfilled.    *)
TypeOK ==
    /\ wrote \in [End -> Nat]
    /\ read \in [End -> Seq(Nat)]
    /\ phase \in [End -> {"recv", "deliver", "swap", "flights", "send"}]
    /\ status \in [End -> {"up", "rcverr", "snderr", "assert"}]
    /\ sb \in [End -> Seq(Nat)]
    /\ dsn \in [End -> Nat] /\ next \in [End -> Nat] /\ una \in [End -> Nat]
    /\ unaUpd \in [End -> BOOLEAN]
    /\ rwnd \in [End -> Nat]
    /\ sending \in [End -> Seq(DatPacks)]
    /\ flights \in [End -> SUBSET DatPacks]
    /\ ctl \in [End -> Seq(CtlPacks)]
    /\ rcvNext \in [End -> Nat] /\ rcvWnd \in [End -> Nat]
    /\ rcvd \in [End -> SUBSET [seq : Nat, chunk : Nat]]
    /\ rb \in [End -> Seq(Nat)] /\ standby \in [End -> Seq(Nat)]
    /\ rflag \in [End -> SUBSET {"LESS", "MORE"}]
    /\ probes \in [End -> 0..Probes]
    /\ net \in [End -> SUBSET NetPacks]

(* What the peer of e has: delivered, or kept in rcv_received.             *)
Got(e, s) == s < rcvNext[Peer(e)] \/ s \in Seqs(rcvd[Peer(e)])

(* No acknowledgement, queued, on its way or already applied, speaks of a   *)
(* pack that its sender does not have: neither the cumulative ack of a     *)
(* late pack nor a SACK retires what is still missing.                     *)
AckSound ==
    \A e \in End :
        /\ una[e] <= rcvNext[Peer(e)]
        /\ \A m \in net[e] : m.ack <= rcvNext[Peer(e)] /\ \A s \in m.sacks : Got(e, s)
        /\ \A i \in 1..Len(ctl[Peer(e)]) : \A s \in ctl[Peer(e)][i].sacks : Got(e, s)

(* No sequence number is forgotten: whatever check_send has sent is still  *)
(* in snd_flights, where check_flights sends it again, or the peer has it. *)
(* Acks that are lost, repeated, late or out of order never make           *)
(* check_recv or check_flights retire a pack too early.                    *)
Reliable ==
    \A e \in End : \A s \in FirstSeq(e)..(next[e] - 1) :
        (\E p \in flights[e] : p.seq = s) \/ Got(e, s)

(* The queue check_send empties holds consecutive numbers from             *)
(* snd_info.next up to snd_info.dsn: the assertion of wcp.cpp:780 holds    *)
(* whatever part of the queue a pass leaves behind.                        *)
Consecutive ==
    \A e \in End :
        /\ dsn[e] = next[e] + Len(sending[e])
        /\ \A i \in 1..Len(sending[e]) : sending[e][i].seq = next[e] + i - 1

Delivered(e) == read[e] \o rb[e] \o standby[e]

(* rcv_received holds each number once and none that was delivered: the    *)
(* assertion of wcp.cpp:394.                                               *)
ReceivedAhead ==
    \A e \in End : \A p \in rcvd[e] :
        p.seq >= rcvNext[e] /\ \A q \in rcvd[e] : q.seq = p.seq => q = p

(* An end that writes never has to announce that its own window is open    *)
(* again: whatever its peer may write leaves more than a pack of it.       *)
StaysOpen(v) ==
    \A e \in End : v.write[e] = 0 \/ RcvCap - MDU * v.write[Peer(e)] > MTU
WindowsStayOpen == \A v \in Environments : StaysOpen(v)

(* The stream has no gaps: what is delivered is exactly the chunks the     *)
(* peer wrote, from the first.                                             *)
NoGap ==
    \A e \in End : \A i \in 1..Len(Delivered(e)) : Delivered(e)[i] = i
=============================================================================
