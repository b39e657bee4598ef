--------------------------- MODULE WcpConnection ---------------------------
(***************************************************************************)
(* The life of WCP connections (src/src/net/wcp.cpp): connecting, the      *)
(* listener with its backlog and four-tuple map, accept, shutdown, close,  *)
(* resets and recycling.  Every client is a process with one WCB; the      *)
(* server is a process with a listener and the WCBs it accepts ("slots").  *)
(*                                                                         *)
(* One ticker thread per process runs the passes of its WCBs one after     *)
(* the other; "tick" holds the WCB it is at and the step of WCB::update    *)
(* that comes next.  Between any two steps the application's threads call  *)
(* connect, accept, send, recv, shutdown and close.  A WAWO_ASSERT that    *)
(* fails throws out of its thread and ends the process.                    *)
(*                                                                         *)
(* Abstractions.  Windows, selective acks, keepalive and retransmission    *)
(* timers are WcpTransfer's: here check_send may stop after any pack and   *)
(* check_flights sends again what una does not cover, whenever it likes.   *)
(* Data is counted in chunks of one pack.  UDP keeps a pack for as long as *)
(* it likes, delivers it any number of times, or loses it.                 *)
(***************************************************************************)
EXTENDS Integers, Sequences, FiniteSets

CONSTANTS
    Clients,     \* the clients, each with an address of its own
    Slots,       \* bound: the WCBs the listener creates
    Server,      \* the server's process
    None,        \* no WCB
    MaxWrite,    \* bound: chunks each application writes
    Environments \* what a run looks at: records with the fields below

(***************************************************************************)
(* An environment says what the applications and the UDP sockets may do,   *)
(* and bounds it: "clients", how many of the clients connect; "slots", how *)
(* many WCBs the listener creates; "backlog", its backlog_size;            *)
(* "nonblock", the clients connect with WCP_O_NONBLOCK; "calls", the calls *)
(* the applications of "callers" make besides connect, accept and recv;    *)
(* "faults", the processes whose sockets may report errors; "queue", the   *)
(* packs in the listener's received_vec_standby; "net", the packs in       *)
(* transit.                                                                *)
(***************************************************************************)
Wcbs == Clients \cup Slots
Procs == Clients \cup {Server}
Proc(w) == IF w \in Clients THEN w ELSE Server

ASSUME NamesAssumption ==
    Clients \cap Slots = {} /\ Server \notin Wcbs /\ None \notin Wcbs
ASSUME SizesAssumption ==
    /\ MaxWrite \in Nat
    /\ Environments \subseteq
         [clients : Nat, slots : Nat, backlog : Nat \ {0}, nonblock : BOOLEAN, faults : SUBSET Procs, queue : Nat,
          net : Nat, callers : SUBSET Procs, calls : SUBSET {"send", "shutdown", "close", "closeListener"}]

VARIABLES
    crash,     \* per process: "no", or the WAWO_ASSERT that ended it
    tick,      \* per process: the WCB in its pass and the next step of it
    state,     \* state
    errno,     \* wcb_errno
    flags,     \* WCB_FLAG_CLOSED_CALLED and the flags of r_flag and s_flag
    sb,        \* chunks in sb
    dsn,       \* snd_info.dsn
    next,      \* snd_info.next
    una,       \* snd_info.una
    queued,    \* s_sending_standby
    sending,   \* snd_sending
    flights,   \* snd_flights
    rcvNext,   \* rcv_info.next
    rcvd,      \* rcv_received
    rb,        \* chunks in rb
    standby,   \* chunks in rb_standby
    up, down,  \* per client: packs on their way to the server, to the client
    lstate,    \* state of the listener
    inbox,     \* received_vec_standby of the listener
    pending,   \* backloglist_pending
    backlogq,  \* backlogq
    peer,      \* per slot: remote_addr
    tuples,    \* m_wcb_four_tuple_map
    accepted,  \* slots that accept has returned
    conn,      \* per client: "no"; "wait" on cond in a blocking connect, "woken" there; "done", "failed"
    wrote,     \* chunks the application has written
    met,       \* history: clients that have got the SYN|ACK
    env        \* the environment, chosen once

procVars == <<crash, tick>>
sndVars == <<sb, dsn, next, una, queued, sending, flights>>
rcvVars == <<rcvNext, rcvd, rb, standby>>
netVars == <<up, down>>
lisVars == <<lstate, inbox, pending, backlogq, peer, tuples>>
appVars == <<accepted, conn, wrote, met>>
vars == <<procVars, state, errno, flags, sndVars, rcvVars, netVars, lisVars, appVars, env>>

States == {"FREE", "CLOSED", "SYNING", "SYN_SENT", "SYN_RECEIVED", "FIN_WAIT_1", "CLOSING",
           "FIN_WAIT_2", "ESTABLISHED", "CLOSE_WAIT", "TIME_WAIT", "LAST_ACK", "RECYCLE"}
Open(w) == state[w] \notin {"FREE", "RECYCLE"}

IdleTick == [wcb |-> None, step |-> "idle"]
At(w, s) == tick[Proc(w)] = [wcb |-> w, step |-> s] /\ crash[Proc(w)] = "no"
TickIdle(p) == tick[p] = IdleTick /\ crash[p] = "no"
GoTo(w, s) == tick' = [tick EXCEPT ![Proc(w)] = [wcb |-> w, step |-> s]]
EndPass(w) == tick' = [tick EXCEPT ![Proc(w)] = IdleTick]
Fail(w, what) == crash' = [crash EXCEPT ![Proc(w)] = what]

-----------------------------------------------------------------------------
(* Packs. *)

WithAck(w, p) == [type |-> p.type, seq |-> p.seq, ack |-> rcvNext[w]]
Rst(p) == [type |-> "RST", seq |-> p.ack, ack |-> 0]

(* w puts packs on the wire. *)
Inject(w, packs) ==
    IF w \in Clients
    THEN up' = [up EXCEPT ![w] = @ \cup packs] /\ UNCHANGED down
    ELSE down' = [down EXCEPT ![peer[w]] = @ \cup packs] /\ UNCHANGED up

OnTheWay(w) == IF w \in Clients THEN down[w] ELSE up[peer[w]]

(* SYN(), SYNACK(), SYNSYNACK(), FIN(), FINACK(): a pack with the next      *)
(* number is put into s_sending_standby.                                    *)
Queue(w, type) ==
    /\ queued' = [queued EXCEPT ![w] = Append(@, [type |-> type, seq |-> dsn[w]])]
    /\ dsn' = [dsn EXCEPT ![w] = @ + 1]
QueueNone == UNCHANGED <<queued, dsn>>

NotifyNobody(w) == UNCHANGED conn

(* cond.notify_all: nothing else ends the wait of a blocking connect.       *)
Notify(w) == conn' = [c \in Clients |-> IF c = w /\ conn[c] = "wait" THEN "woken" ELSE conn[c]]
NotifyIf(w, cond) == IF cond THEN Notify(w) ELSE UNCHANGED conn

-----------------------------------------------------------------------------
(* The head of WCB::update.                                                *)

Carrying == {"SYN_RECEIVED", "ESTABLISHED", "CLOSE_WAIT"}
Finishing == {"FIN_WAIT_1", "CLOSING", "FIN_WAIT_2"}

BeginPass(w) ==
    /\ TickIdle(Proc(w))
    /\ \/ state[w] = "SYNING" /\ GoTo(w, "flights")
       \/ state[w] \in {"SYN_SENT", "LAST_ACK"} /\ GoTo(w, "recv")
       \/ state[w] \in Carrying \cup Finishing /\ errno[w] = "ok" /\ GoTo(w, "recv")
    /\ UNCHANGED <<crash, state, errno, flags, sndVars, rcvVars, netVars, lisVars, appVars>>

(* Only an unanswered SYN is an error of its own. *)
ExpiredErrno(w) == IF state[w] = "SYN_SENT" THEN "timeout" ELSE errno[w]

(* A timer of the state ran out, or an error is known. *)
Expire(w) ==
    /\ TickIdle(Proc(w))
    /\ \/ state[w] \in {"SYN_SENT", "LAST_ACK", "TIME_WAIT"} \cup Finishing
       \/ state[w] \in Carrying /\ errno[w] # "ok"
    /\ state' = [state EXCEPT ![w] = "CLOSED"]
    /\ errno' = [errno EXCEPT ![w] = ExpiredErrno(w)]
    /\ NotifyIf(w, state[w] = "SYN_SENT")
    /\ UNCHANGED <<procVars, flags, sndVars, rcvVars, netVars, lisVars, accepted, wrote, met>>

(* A closed WCB goes once close was called; wcp::_update then closes its   *)
(* socket and takes an accepted one out of the four-tuple map.  The code   *)
(* does so at the end of the pass; only this thread looks at the map.      *)
MayRecycle(w) == {"CLOSED_CALLED", "READ_SHUT", "WRITE_SHUT"} \subseteq flags[w]

Recycle(w) ==
    /\ TickIdle(Proc(w))
    /\ state[w] = "CLOSED" /\ MayRecycle(w)
    /\ state' = [state EXCEPT ![w] = "RECYCLE"]
    /\ tuples' = tuples \ {w}
    /\ UNCHANGED <<procVars, errno, flags, sndVars, rcvVars, netVars, lstate, inbox, pending,
                   backlogq, peer, appVars>>

-----------------------------------------------------------------------------
(* WCB::check_recv.                                                        *)

(* The packs of a batch are filed under their numbers.  The SYN that made  *)
(* a slot waits in rcvd for the slot's first pass (SYN_RCVD).              *)
CheckRecv(w, batch) ==
    LET new == {p \in batch : p.seq >= rcvNext[w] /\ \A q \in rcvd[w] : q.seq # p.seq}
    IN /\ At(w, "recv")
       /\ \A p, q \in new : p.seq = q.seq => p = q
       /\ \E top \in {una[w]} \cup {p.ack : p \in batch} :
            /\ una[w] <= top /\ \A p \in batch : p.ack <= top
            /\ una' = [una EXCEPT ![w] = top]
       /\ rcvd' = [rcvd EXCEPT ![w] = @ \cup new]
       /\ IF batch # {} \/ rcvNext[w] = 0 THEN GoTo(w, "deliver") ELSE GoTo(w, "swap")
       /\ UNCHANGED <<crash, state, errno, flags, sb, dsn, next, queued, sending, flights, rcvNext,
                      rb, standby, netVars, lisVars, appVars>>

(* A RST in its turn ends the loop; it stays in rcv_received. *)
DeliverRst(w, p) ==
    /\ At(w, "deliver") /\ p.seq = rcvNext[w] /\ p.type = "RST"
    /\ rcvNext' = [rcvNext EXCEPT ![w] = @ + 1]
    /\ errno' = [errno EXCEPT ![w] = "reset"]
    /\ state' = [state EXCEPT ![w] = "CLOSED"]
    /\ Notify(w)
    /\ GoTo(w, "swap")
    /\ UNCHANGED <<crash, flags, sndVars, rcvd, rb, standby, netVars, lisVars, accepted, wrote, met>>

(* A SYN in a state that does not expect it is answered with a RST. *)
DeliverSynRefused(w, p) ==
    /\ At(w, "deliver") /\ p.seq = rcvNext[w] /\ p.type \in {"SYN", "SYNACK"}
    /\ state[w] \notin {"SYN_RECEIVED", "SYN_SENT"}
    /\ rcvNext' = [rcvNext EXCEPT ![w] = @ + 1]
    /\ rcvd' = [rcvd EXCEPT ![w] = @ \ {p}]
    /\ errno' = [errno EXCEPT ![w] = "aborted"]
    /\ state' = [state EXCEPT ![w] = "CLOSED"]
    /\ Inject(w, {Rst(p)})
    /\ Notify(w)
    /\ GoTo(w, "swap")
    /\ UNCHANGED <<crash, flags, sndVars, rb, standby, lisVars, accepted, wrote, met>>

(* The SYN that made a slot. *)
DeliverSyn(w, p) ==
    /\ At(w, "deliver") /\ p.seq = rcvNext[w] /\ p.type = "SYN" /\ state[w] = "SYN_RECEIVED"
    /\ rcvNext' = [rcvNext EXCEPT ![w] = @ + 1]
    /\ rcvd' = [rcvd EXCEPT ![w] = @ \ {p}]
    /\ Queue(w, "SYNACK")
    /\ UNCHANGED <<procVars, state, errno, flags, sb, next, una, sending, flights, rb, standby,
                   netVars, lisVars, appVars>>

OnAckAnyState == [s \in States |-> "ESTABLISHED"]

(* What a pack with the ACK flag makes of a state; any other state fails    *)
(* the assertion "wcp state logic issue" (wcp.cpp:528).                     *)
OnAck ==
    [SYN_SENT |-> "ESTABLISHED", SYN_RECEIVED |-> "ESTABLISHED", FIN_WAIT_1 |-> "FIN_WAIT_2",
     LAST_ACK |-> "CLOSED", CLOSING |-> "TIME_WAIT", ESTABLISHED |-> "ESTABLISHED",
     FIN_WAIT_2 |-> "FIN_WAIT_2", CLOSE_WAIT |-> "CLOSE_WAIT", TIME_WAIT |-> "TIME_WAIT"]

(* SYN|ACK, ACK and DAT.  The client answers SYN|ACK with an ACK and binds  *)
(* its socket to the server, which may fail.  The flags SYN and ACK of one  *)
(* pack are handled in one step.                                            *)
DeliverAck(w, p) ==
    /\ At(w, "deliver") /\ p.seq = rcvNext[w]
    /\ \/ p.type \in {"ACK", "DAT"} /\ QueueNone /\ UNCHANGED met
       \/ p.type = "SYNACK" /\ state[w] = "SYN_SENT" /\ Queue(w, "ACK") /\ met' = met \cup {w}
    /\ rcvNext' = [rcvNext EXCEPT ![w] = @ + 1]
    /\ standby' = [standby EXCEPT ![w] = IF p.type = "DAT" THEN @ + 1 ELSE @]
    /\ \/ /\ state[w] \in DOMAIN OnAck
          /\ rcvd' = [rcvd EXCEPT ![w] = @ \ {p}]
          /\ \/ /\ state' = [state EXCEPT ![w] = OnAck[@]]
                /\ UNCHANGED errno
             \/ /\ w \in env.faults /\ state[w] = "SYN_SENT"
                /\ state' = [state EXCEPT ![w] = "CLOSED"]
                /\ errno' = [errno EXCEPT ![w] = "socket"]
          /\ UNCHANGED crash
       \/ /\ state[w] \notin DOMAIN OnAck
          /\ Fail(w, "ack")
          /\ UNCHANGED <<state, errno, rcvd>>
    /\ NotifyIf(w, state[w] = "SYN_SENT")
    /\ UNCHANGED <<tick, flags, sb, next, una, sending, flights, rb, netVars, lisVars, accepted, wrote>>

OnFin == [ESTABLISHED |-> "CLOSE_WAIT", FIN_WAIT_1 |-> "CLOSING", FIN_WAIT_2 |-> "TIME_WAIT"]

(* Only ESTABLISHED tells the reader of the FIN; a state that does not      *)
(* expect one is closed, with a RST.                                        *)
DeliverFin(w, p) ==
    /\ At(w, "deliver") /\ p.seq = rcvNext[w] /\ p.type = "FIN"
    /\ rcvNext' = [rcvNext EXCEPT ![w] = @ + 1]
    /\ rcvd' = [rcvd EXCEPT ![w] = @ \ {p}]
    /\ Queue(w, "ACK")
    /\ \/ /\ state[w] \in DOMAIN OnFin
          /\ state' = [state EXCEPT ![w] = OnFin[@]]
          /\ flags' = [flags EXCEPT ![w] = IF state[w] = "ESTABLISHED"
                                           THEN (@ \cup {"FIN_RECEIVED"}) \ {"FIN_READ"} ELSE @]
          /\ UNCHANGED <<errno, netVars>>
       \/ /\ state[w] \notin DOMAIN OnFin
          /\ state' = [state EXCEPT ![w] = "CLOSED"]
          /\ errno' = [errno EXCEPT ![w] = "aborted"]
          /\ Inject(w, {Rst(p)})
          /\ UNCHANGED flags
    /\ NotifyIf(w, state[w] = "ESTABLISHED")
    /\ UNCHANGED <<procVars, sb, next, una, sending, flights, rb, standby, lisVars, accepted, wrote, met>>

DeliverEnd(w) ==
    /\ At(w, "deliver") /\ \A p \in rcvd[w] : p.seq # rcvNext[w]
    /\ GoTo(w, "swap")
    /\ UNCHANGED <<crash, state, errno, flags, sndVars, rcvVars, netVars, lisVars, appVars>>

(* The tail of check_recv. *)
Swap(w) ==
    /\ At(w, "swap")
    /\ IF rb[w] = 0
       THEN rb' = [rb EXCEPT ![w] = standby[w]] /\ standby' = [standby EXCEPT ![w] = 0]
       ELSE UNCHANGED <<rb, standby>>
    /\ NotifyIf(w, flags[w] \cap {"RECV_ERROR", "READ_SHUT"} # {})
    /\ GoTo(w, "flights")
    /\ UNCHANGED <<crash, state, errno, flags, sndVars, rcvNext, rcvd, netVars, lisVars, accepted, wrote,
                   met>>

(* WCB::check_flights. *)
CheckFlights(w) ==
    /\ At(w, "flights")
    /\ flights' = [flights EXCEPT ![w] = {p \in @ : p.seq >= una[w]}]
    /\ \E due \in SUBSET flights'[w] : Inject(w, {WithAck(w, p) : p \in due})
    /\ GoTo(w, "send")
    /\ UNCHANGED <<crash, state, errno, flags, sb, dsn, next, una, queued, sending, rcvVars, lisVars,
                   appVars>>

-----------------------------------------------------------------------------
(* WCB::check_send.                                                        *)

(* The window is closed, the socket blocks, or an earlier send failed. *)
SendStops(w) ==
    /\ At(w, "send") /\ (sending[w] # <<>> \/ "SEND_ERROR" \in flags[w])
    /\ EndPass(w)
    /\ UNCHANGED <<crash, state, errno, flags, sndVars, rcvVars, netVars, lisVars, appVars>>

OnFinSent == [ESTABLISHED |-> "FIN_WAIT_1", CLOSE_WAIT |-> "LAST_ACK"]

(* A pack leaves snd_sending at the end of its round; the round of a FIN   *)
(* ends early.                                                             *)
PopsSent(p) == p.type # "FIN"

(* One round of the loop over snd_sending. *)
SendPack(w) ==
    LET p == Head(sending[w])
    IN /\ At(w, "send") /\ sending[w] # <<>> /\ "SEND_ERROR" \notin flags[w]
       /\ p.seq = next[w] /\ p.seq >= una[w]
       /\ next' = [next EXCEPT ![w] = @ + 1]
       /\ flights' = [flights EXCEPT ![w] = @ \cup {p}]
       /\ Inject(w, {WithAck(w, p)})
       /\ IF PopsSent(p) THEN sending' = [sending EXCEPT ![w] = Tail(@)] /\ UNCHANGED tick
                         ELSE GoTo(w, "move") /\ UNCHANGED sending
       /\ \/ /\ p.type \in {"ACK", "DAT"}
             /\ UNCHANGED <<crash, state, flags>>
          \/ /\ p.type \in {"SYN", "SYNACK"} /\ state[w] \in {"SYNING", "SYN_RECEIVED"}
             /\ state' = [state EXCEPT ![w] = IF @ = "SYNING" THEN "SYN_SENT" ELSE @]
             /\ UNCHANGED <<crash, flags>>
          \/ /\ p.type = "FIN" /\ state[w] \in DOMAIN OnFinSent
             /\ state' = [state EXCEPT ![w] = OnFinSent[@]]
             /\ flags' = [flags EXCEPT ![w] = IF state[w] = "ESTABLISHED" THEN @ \cup {"FIN_SENT"} ELSE @]
             /\ UNCHANGED crash
          \/ /\ p.type \in {"SYN", "SYNACK"} /\ state[w] \notin {"SYNING", "SYN_RECEIVED"}
             /\ Fail(w, "syn") /\ UNCHANGED <<state, flags>>
          \/ /\ p.type = "FIN" /\ state[w] \notin DOMAIN OnFinSent
             /\ Fail(w, "fin") /\ UNCHANGED <<state, flags>>
       /\ UNCHANGED <<errno, sb, dsn, una, queued, rcvVars, lisVars, appVars>>

(* The pack at the front is not the next one to send, or is acked already  *)
(* (wcp.cpp:780 and 781).                                                  *)
SendOutOfTurn(w) ==
    /\ At(w, "send") /\ sending[w] # <<>> /\ "SEND_ERROR" \notin flags[w]
    /\ Head(sending[w]).seq # next[w] \/ Head(sending[w]).seq < una[w]
    /\ Fail(w, "seq")
    /\ UNCHANGED <<tick, state, errno, flags, sndVars, rcvVars, netVars, lisVars, appVars>>

(* s_sending_standby is emptied into snd_sending. *)
MoveQueued(w) ==
    /\ \/ At(w, "send") /\ sending[w] = <<>> /\ "SEND_ERROR" \notin flags[w]
       \/ At(w, "move")
    /\ sending' = [sending EXCEPT ![w] = @ \o queued[w]]
    /\ queued' = [queued EXCEPT ![w] = <<>>]
    /\ GoTo(w, "pack")
    /\ UNCHANGED <<crash, state, errno, flags, sb, dsn, next, una, flights, rcvVars, netVars, lisVars,
                   appVars>>

Packable(w) == IF "FIN_SENT" \in flags[w] THEN 0 ELSE sb[w]

(* Chunks of sb are put into packs, as many as the congestion window lets   *)
(* through, and the loop begins again if there is anything to send.         *)
Packetise(w) ==
    /\ At(w, "pack")
    /\ \E j \in 0..Packable(w) :
         /\ sending' = [sending EXCEPT ![w] = @ \o [i \in 1..j |-> [type |-> "DAT", seq |-> dsn[w] + i - 1]]]
         /\ dsn' = [dsn EXCEPT ![w] = @ + j]
         /\ sb' = [sb EXCEPT ![w] = @ - j]
    /\ IF sending'[w] = <<>> THEN EndPass(w) ELSE GoTo(w, "send")
    /\ UNCHANGED <<crash, state, errno, flags, next, una, queued, flights, rcvVars, netVars, lisVars,
                   appVars>>

-----------------------------------------------------------------------------
(* The listener.                                                           *)

(* pump_packs: a pack from a client without an open slot reaches the       *)
(* listener's socket, every other one that of the slot.                    *)
Arrive(c) ==
    /\ crash[Server] = "no" /\ lstate = "LISTEN" /\ Len(inbox) < env.queue
    /\ \A s \in Slots : ~(Open(s) /\ peer[s] = c)
    /\ \E p \in up[c] : inbox' = Append(inbox, [from |-> c, pack |-> p])
    /\ UNCHANGED <<procVars, state, errno, flags, sndVars, rcvVars, netVars, lstate, pending,
                   backlogq, peer, tuples, appVars>>

FullQueue == Len(backlogq) = env.backlog
Full == Cardinality(pending) + Len(backlogq) = env.backlog

KnownPending(c) == \E s \in pending : peer[s] = c
Known(c) == \E s \in tuples : peer[s] = c

NewState == "SYN_RECEIVED"

(* A new slot for a client that has none; the SYN waits for its first pass. *)
Admit(c, p) ==
    LET free == {t \in Slots : state[t] = "FREE"}
        s == CHOOSE t \in free : TRUE
    IN /\ Cardinality(Slots \ free) < env.slots /\ free # {}
       /\ state' = [state EXCEPT ![s] = NewState]
       /\ peer' = [peer EXCEPT ![s] = c]
       /\ rcvd' = [rcvd EXCEPT ![s] = {p}]
       /\ tuples' = tuples \cup {s}
       /\ pending' = pending \cup {s}
       /\ UNCHANGED netVars

(* One round of listen_handle_syn. *)
ListenHandleSyn ==
    LET c == Head(inbox).from
        p == Head(inbox).pack
        refuse == /\ down' = [down EXCEPT ![c] = @ \cup {Rst(p)}]
                  /\ UNCHANGED <<up, state, peer, rcvd, tuples, pending>>
    IN /\ TickIdle(Server) /\ lstate = "LISTEN" /\ inbox # <<>>
       /\ inbox' = Tail(inbox)
       /\ \/ Full /\ refuse
          \/ ~Full /\ p.type = "RST" /\ UNCHANGED <<netVars, state, peer, rcvd, tuples, pending>>
          \/ ~Full /\ p.type \notin {"RST", "SYN"} /\ refuse
          \/ ~Full /\ p.type = "SYN" /\ Known(c) /\ refuse
          \/ ~Full /\ p.type = "SYN" /\ Server \in env.faults /\ refuse      \* a call on the new socket fails
          \/ ~Full /\ p.type = "SYN" /\ ~Known(c) /\ Admit(c, p)
       /\ UNCHANGED <<procVars, errno, flags, sndVars, rcvNext, rb, standby, lstate, backlogq, appVars>>

(* What WCB::close does to a WCB. *)
ClosedErrno(w) == IF errno[w] = "ok" THEN "aborted" ELSE errno[w]
ClosedFlagsOnly(w) == flags[w] \cup {"CLOSED_CALLED"}
ClosedFlags(w) == flags[w] \cup {"CLOSED_CALLED", "READ_SHUT", "WRITE_SHUT"}
CloseWcb(w) ==
    /\ flags' = [flags EXCEPT ![w] = ClosedFlags(w)]
    /\ state' = [state EXCEPT ![w] = "CLOSED"]
    /\ errno' = [errno EXCEPT ![w] = ClosedErrno(w)]

(* One round of the loop over backloglist_pending, after the child's pass. *)
ScanPending(s) ==
    /\ TickIdle(Server) /\ lstate = "LISTEN" /\ s \in pending
    /\ \/ /\ state[s] = "ESTABLISHED"
          /\ backlogq' = Append(backlogq, s)
          /\ UNCHANGED <<state, errno, flags>>
       \/ /\ state[s] \in {"CLOSE_WAIT", "CLOSED"}
          /\ CloseWcb(s)
          /\ UNCHANGED backlogq
    /\ pending' = pending \ {s}
    /\ UNCHANGED <<procVars, sndVars, rcvVars, netVars, lstate, inbox, peer, tuples, appVars>>

(* The listener is closed, and recycled in a later pass. *)
CloseListener ==
    /\ "closeListener" \in env.calls /\ crash[Server] = "no"
    /\ \/ lstate = "LISTEN" /\ lstate' = "CLOSED"
       \/ TickIdle(Server) /\ lstate = "CLOSED" /\ lstate' = "RECYCLE"
    /\ UNCHANGED <<procVars, state, errno, flags, sndVars, rcvVars, netVars, inbox, pending, backlogq,
                   peer, tuples, appVars>>

-----------------------------------------------------------------------------
(* The application's calls.                                                *)

(* wcp::connect; the blocking form waits for ESTABLISHED or an error. *)
Connect(c) ==
    /\ crash[c] = "no" /\ conn[c] = "no" /\ Cardinality({d \in Clients : conn[d] # "no"}) < env.clients
    /\ Queue(c, "SYN")
    /\ state' = [state EXCEPT ![c] = "SYNING"]
    /\ conn' = [conn EXCEPT ![c] = IF env.nonblock THEN "done" ELSE "wait"]
    /\ UNCHANGED <<procVars, errno, flags, sb, next, una, sending, flights, rcvVars, netVars, lisVars,
                   accepted, wrote, met>>

(* The blocked connect is woken, or wakes unasked, and tests its condition *)
(* again; it asserts that an ESTABLISHED connection has no error           *)
(* (wcp.cpp:1092).                                                         *)
ConnectReturns(c) ==
    /\ crash[c] = "no" /\ conn[c] \in {"wait", "woken"}
    /\ conn' = [conn EXCEPT ![c] = IF errno[c] # "ok" THEN "failed"
                                   ELSE IF state[c] = "ESTABLISHED" THEN "done" ELSE "wait"]
    /\ IF state[c] = "ESTABLISHED" /\ errno[c] # "ok" THEN Fail(c, "connect") ELSE UNCHANGED crash
    /\ UNCHANGED <<tick, state, errno, flags, sndVars, rcvVars, netVars, lisVars, accepted, wrote, met>>

Accept ==
    /\ crash[Server] = "no" /\ lstate = "LISTEN" /\ backlogq # <<>>
    /\ accepted' = accepted \cup {Head(backlogq)}
    /\ backlogq' = Tail(backlogq)
    /\ UNCHANGED <<procVars, state, errno, flags, sndVars, rcvVars, netVars, lstate, inbox, pending,
                   peer, tuples, conn, wrote, met>>

(* The application has a descriptor that is in m_wcb_map.  A connect that  *)
(* failed leaves it nothing but close.                                     *)
Callable(w) ==
    /\ crash[Proc(w)] = "no" /\ state[w] # "RECYCLE"
    /\ w \in accepted \/ (w \in Clients /\ conn[w] = "done")
Calls(w, call) == call \in env.calls /\ Proc(w) \in env.callers
Closable(w) == Callable(w) \/ (w \in Clients /\ crash[w] = "no" /\ state[w] # "RECYCLE" /\ conn[w] = "failed")

Send(w) ==
    /\ Calls(w, "send") /\ Callable(w) /\ wrote[w] < MaxWrite
    /\ flags[w] \cap {"SEND_ERROR", "WRITE_SHUT"} = {}
    /\ sb' = [sb EXCEPT ![w] = @ + 1]
    /\ wrote' = [wrote EXCEPT ![w] = @ + 1]
    /\ UNCHANGED <<procVars, state, errno, flags, dsn, next, una, queued, sending, flights, rcvVars,
                   netVars, lisVars, accepted, conn, met>>

(* wcp::recv: data, the end of the stream, an error; or it would block,     *)
(* which asserts that there is no error (wcp.cpp:1602).                     *)
Recv(w) ==
    /\ Callable(w) /\ "READ_SHUT" \notin flags[w]
    /\ \/ rb[w] > 0 /\ rb' = [rb EXCEPT ![w] = 0] /\ UNCHANGED <<flags, crash>>
       \/ /\ rb[w] = 0 /\ "FIN_RECEIVED" \in flags[w]
          /\ flags' = [flags EXCEPT ![w] = @ \cup {"FIN_READ"}]
          /\ UNCHANGED <<rb, crash>>
       \/ /\ rb[w] = 0 /\ flags[w] \cap {"FIN_RECEIVED", "RECV_ERROR"} = {} /\ errno[w] # "ok"
          /\ Fail(w, "recv")
          /\ UNCHANGED <<rb, flags>>
    /\ UNCHANGED <<tick, state, errno, sndVars, rcvNext, rcvd, standby, netVars, lisVars, appVars>>

(* wcp::shutdown of the writing side, of the reading side, or of both. *)
Shutdown(w, sides) ==
    /\ Calls(w, "shutdown") /\ Callable(w) /\ sides \subseteq {"READ_SHUT", "WRITE_SHUT"}
    /\ flags' = [flags EXCEPT ![w] = @ \cup sides]
    /\ IF "WRITE_SHUT" \in sides \ flags[w] THEN Queue(w, "FIN") ELSE QueueNone
    /\ UNCHANGED <<procVars, state, errno, sb, next, una, sending, flights, rcvVars, netVars, lisVars,
                   appVars>>

(* wcp::close.  The test of wcp.cpp:1146 holds in every state. *)
Close(w) ==
    /\ Calls(w, "close") /\ Closable(w) /\ "CLOSED_CALLED" \notin flags[w]
    /\ CloseWcb(w)
    /\ UNCHANGED <<procVars, sndVars, rcvVars, netVars, lisVars, appVars>>

(* recvfrom or sendto fails, or the last keepalive probe got no answer. *)
SocketError(w) ==
    /\ Proc(w) \in env.faults /\ crash[Proc(w)] = "no" /\ Open(w) /\ errno[w] = "ok" /\ state[w] # "CLOSED"
    /\ \E err \in {"RECV_ERROR", "SEND_ERROR"} : flags' = [flags EXCEPT ![w] = @ \cup {err}]
    /\ errno' = [errno EXCEPT ![w] = "socket"]
    /\ UNCHANGED <<procVars, state, sndVars, rcvVars, netVars, lisVars, appVars>>

Lose(c) ==
    /\ \/ \E p \in up[c] : up' = [up EXCEPT ![c] = @ \ {p}] /\ UNCHANGED down
       \/ \E p \in down[c] : down' = [down EXCEPT ![c] = @ \ {p}] /\ UNCHANGED up
    /\ UNCHANGED <<procVars, state, errno, flags, sndVars, rcvVars, lisVars, appVars>>

-----------------------------------------------------------------------------
Init ==
    /\ crash = [p \in Procs |-> "no"]
    /\ tick = [p \in Procs |-> IdleTick]
    /\ state = [w \in Wcbs |-> IF w \in Clients THEN "CLOSED" ELSE "FREE"]
    /\ errno = [w \in Wcbs |-> "ok"]
    /\ flags = [w \in Wcbs |-> {}]
    /\ sb = [w \in Wcbs |-> 0]
    /\ dsn = [w \in Wcbs |-> 0]
    /\ next = [w \in Wcbs |-> 0]
    /\ una = [w \in Wcbs |-> 0]
    /\ queued = [w \in Wcbs |-> <<>>]
    /\ sending = [w \in Wcbs |-> <<>>]
    /\ flights = [w \in Wcbs |-> {}]
    /\ rcvNext = [w \in Wcbs |-> 0]
    /\ rcvd = [w \in Wcbs |-> {}]
    /\ rb = [w \in Wcbs |-> 0]
    /\ standby = [w \in Wcbs |-> 0]
    /\ up = [c \in Clients |-> {}]
    /\ down = [c \in Clients |-> {}]
    /\ lstate = "LISTEN"
    /\ inbox = <<>>
    /\ pending = {}
    /\ backlogq = <<>>
    /\ peer = [s \in Slots |-> None]
    /\ tuples = {}
    /\ accepted = {}
    /\ conn = [c \in Clients |-> "no"]
    /\ wrote = [w \in Wcbs |-> 0]
    /\ met = {}
    /\ env \in Environments

(* One step of the pass of a WCB. *)
Pass(w) ==
    \/ BeginPass(w)
    \/ Expire(w)
    \/ Recycle(w)
    \/ state[w] # "FREE" /\ \E batch \in SUBSET OnTheWay(w) : CheckRecv(w, batch)
    \/ \E p \in rcvd[w] :
         \/ DeliverRst(w, p)
         \/ DeliverSynRefused(w, p)
         \/ DeliverSyn(w, p)
         \/ DeliverAck(w, p)
         \/ DeliverFin(w, p)
    \/ DeliverEnd(w)
    \/ Swap(w)
    \/ CheckFlights(w)
    \/ SendStops(w)
    \/ SendPack(w)
    \/ SendOutOfTurn(w)
    \/ MoveQueued(w)
    \/ Packetise(w)

Call(w) ==
    \/ Send(w)
    \/ Recv(w)
    \/ \E sides \in {{"READ_SHUT"}, {"WRITE_SHUT"}, {"READ_SHUT", "WRITE_SHUT"}} : Shutdown(w, sides)
    \/ Close(w)

Step ==
    \/ \E w \in Wcbs : Pass(w) \/ Call(w) \/ SocketError(w)
    \/ \E c \in Clients : Arrive(c) \/ Connect(c) \/ ConnectReturns(c) \/ Lose(c)
    \/ ListenHandleSyn
    \/ \E s \in Slots : ScanPending(s)
    \/ CloseListener
    \/ Accept

InTransit == UNION {{<<c, "up", p>> : p \in up[c]} \cup {<<c, "down", p>> : p \in down[c]} : c \in Clients}
Bounded == Cardinality(InTransit') <= env.net
Next == Step /\ Bounded /\ UNCHANGED env

Spec == Init /\ [][Next]_vars

-----------------------------------------------------------------------------
Types == {"SYN", "SYNACK", "ACK", "DAT", "FIN", "RST"}
SndPacks == [type : Types, seq : Nat]
Packs == [type : Types, seq : Nat, ack : Nat]
Elements(q) == {q[i] : i \in 1..Len(q)}

(* Every variable keeps its type. *)
TypeOK ==
    /\ crash \in [Procs -> {"no", "ack", "syn", "fin", "seq", "connect", "recv"}]
    /\ tick \in [Procs -> [wcb : Wcbs \cup {None},
                           step : {"idle", "recv", "deliver", "swap", "flights", "send", "move", "pack"}]]
    /\ state \in [Wcbs -> States]
    /\ errno \in [Wcbs -> {"ok", "timeout", "reset", "aborted", "socket"}]
    /\ flags \in [Wcbs -> SUBSET {"CLOSED_CALLED", "READ_SHUT", "WRITE_SHUT", "FIN_RECEIVED", "FIN_READ",
                                  "FIN_SENT", "RECV_ERROR", "SEND_ERROR"}]
    /\ sb \in [Wcbs -> Nat]
    /\ dsn \in [Wcbs -> Nat] /\ next \in [Wcbs -> Nat] /\ una \in [Wcbs -> Nat]
    /\ queued \in [Wcbs -> Seq(SndPacks)] /\ sending \in [Wcbs -> Seq(SndPacks)]
    /\ flights \in [Wcbs -> SUBSET SndPacks]
    /\ rcvNext \in [Wcbs -> Nat] /\ rcvd \in [Wcbs -> SUBSET Packs]
    /\ rb \in [Wcbs -> Nat] /\ standby \in [Wcbs -> Nat]
    /\ up \in [Clients -> SUBSET Packs] /\ down \in [Clients -> SUBSET Packs]
    /\ lstate \in {"LISTEN", "CLOSED", "RECYCLE"}
    /\ inbox \in Seq([from : Clients, pack : Packs])
    /\ pending \subseteq Slots /\ backlogq \in Seq(Slots)
    /\ peer \in [Slots -> Clients \cup {None}]
    /\ tuples \subseteq Slots /\ accepted \subseteq Slots
    /\ conn \in [Clients -> {"no", "wait", "woken", "done", "failed"}]
    /\ wrote \in [Wcbs -> 0..MaxWrite]
    /\ met \subseteq Clients

(* One connection per client: however often its SYN is repeated, a client  *)
(* has at most one slot that is not recycled, and the four-tuple map holds *)
(* exactly these slots, so that no client is locked out by a dead one.     *)
OnePerClient ==
    /\ tuples = {s \in Slots : Open(s)}
    /\ \A s, t \in tuples : peer[s] = peer[t] => s = t

(* The listener never holds more connections than its backlog (the         *)
(* assertion of wcp.cpp:142), and no slot is queued twice.                 *)
BacklogBounded ==
    /\ Cardinality(pending) + Len(backlogq) <= env.backlog
    /\ \A i \in 1..Len(backlogq) : backlogq[i] \notin pending \cup accepted
    /\ \A i, j \in 1..Len(backlogq) : backlogq[i] = backlogq[j] => i = j

(* A slot that waits for its handshake is in a state the listener expects: *)
(* the "wcp logic issue" of wcp.cpp:156 is never thrown.                   *)
PendingState == \A s \in pending : state[s] \in {"SYN_RECEIVED", "ESTABLISHED", "CLOSE_WAIT", "CLOSED"}

(* No connection is leaked while the listener is open, nor when it was     *)
(* closed with nothing in its two lists: each open slot belongs to the     *)
(* application, was closed and may be recycled, or waits for its handshake *)
(* or for accept with a listener that goes on scanning its lists.  (Slots  *)
(* still in the lists when close is called are leaked: WCB::close does not *)
(* look at them, no pass scans them any more, and nobody else has their    *)
(* descriptors.)                                                           *)
NoLeak ==
    lstate = "LISTEN" \/ (pending = {} /\ backlogq = <<>>) =>
        \A s \in Slots :
            Open(s) => \/ s \in accepted
                       \/ state[s] = "CLOSED" /\ MayRecycle(s)
                       \/ lstate = "LISTEN" /\ s \in pending \cup Elements(backlogq)

(* Only a client that has itself got the SYN|ACK is given to the server's  *)
(* application: no repeated, late or reordered SYN makes a connection of   *)
(* its own.  (The exception is a client that writes before a non-blocking  *)
(* connect is done: its DAT packs carry the ACK flag.)                     *)
Handshake ==
    \A s \in Slots :
        state[s] \in {"ESTABLISHED", "CLOSE_WAIT"} \/ s \in accepted
        => peer[s] \in met \/ wrote[peer[s]] > 0

(* A WCB is never brought back by the ticker once the application closed   *)
(* it, wherever in the pass close came, and a recycled one stays so.       *)
NoRevival ==
    [][\A w \in Wcbs :
        /\ "CLOSED_CALLED" \in flags[w] => state'[w] \in {"CLOSED", "RECYCLE"}
        /\ state[w] = "RECYCLE" => state'[w] = "RECYCLE"]_vars

(* The assertions of wcp.cpp:780 (check_send sends the packs of snd_sending *)
(* in turn) and wcp.cpp:528 (check_recv finds a state that may get an ACK).  *)
(* The code does not keep them: ShutdownEnvironments and CloseEnvironments   *)
(* of MCWcpConnection violate one each.                                      *)
SentInTurn == \A p \in Procs : crash[p] # "seq"
AckExpected == \A p \in Procs : crash[p] # "ack"

(* Whatever is lost, repeated, late or closed in between, the listener's    *)
(* connections are those of clients that took part in the handshake, one    *)
(* for each.                                                                *)
ConnectionsSound == TypeOK /\ OnePerClient /\ Handshake

(* The two lists of the listener together keep to the backlog, and what     *)
(* waits in them is in a state that the scan of WCB::update handles.        *)
BacklogSound == BacklogBounded /\ PendingState
=============================================================================
