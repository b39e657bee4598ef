-------------------------- MODULE WcpTransferLive --------------------------
(***************************************************************************)
(* WcpTransfer over a network that behaves badly for a while and then      *)
(* calms down: from then on nothing is lost or repeated and each pass of   *)
(* the ticker finds everything that was sent.  The ticker thread visits    *)
(* every WCB again and again (wcp::_update), the application reads what it *)
(* is given, and every timer that stays armed runs out.                    *)
(***************************************************************************)
EXTENDS WcpTransfer

VARIABLE calm     \* the network has calmed down

lvars == <<vars, calm>>

CalmDown == ~calm /\ calm' = TRUE /\ UNCHANGED vars

Rough == ~calm /\ Next /\ UNCHANGED calm

(* One handler of the pass over e. *)
Pass(e) ==
    /\ calm
    /\ \/ CheckRecv(e, net[e], {})
       \/ net[e] = {} /\ CheckRecvIdle(e)
       \/ \E p \in rcvd[e] : DeliverPack(e, p)
       \/ DeliverEnd(e)
       \/ Swap(e)
       \/ CheckFlights(e)
       \/ CheckSend(e)
    /\ UNCHANGED <<calm, env>>

Calls(e) == calm /\ (\E n \in 1..MaxCall : Send(e, n) \/ Recv(e, n)) /\ UNCHANGED <<calm, env>>

(* The retransmission timer of everything in snd_flights ran out. *)
Retransmits(e) ==
    /\ calm /\ CheckFlights(e) /\ UNCHANGED <<calm, env>>
    /\ \A p \in flights'[e] : SendPack(e, p) \in net'[Peer(e)]

(* The socket does not block, the window probe is due and the congestion   *)
(* window is open: check_send ends at the peer's window.                   *)
SendsAll(e) ==
    /\ calm /\ CheckSend(e) /\ UNCHANGED <<calm, env>>
    /\ ctl'[e] = <<>>
    /\ (sb'[e] = <<>> /\ sending'[e] = <<>>) \/ MTU * (Cardinality(flights'[e]) + 1) >= rwnd[e]
    /\ "MORE" \in rflag[e] => \E m \in net'[Peer(e)] : m.upd

LInit == Init /\ calm = FALSE
LNext == CalmDown \/ Rough \/ \E e \in End : Pass(e) \/ Calls(e)

Fairness ==
    /\ WF_lvars(CalmDown)
    /\ \A e \in End :
         /\ WF_lvars(Pass(e))
         /\ WF_lvars(calm /\ Recv(e, 1) /\ UNCHANGED <<calm, env>>)
         /\ SF_lvars(Retransmits(e))
         /\ SF_lvars(SendsAll(e))

LSpec == LInit /\ [][LNext]_lvars /\ Fairness

(* Whatever an application has written, the other one reads (env.write     *)
(* bounds what is written, so each reader catches up): acks,               *)
(* retransmission, the window probes and the swap of rb and rb_standby     *)
(* never leave the two ends waiting for each other.                        *)
EveryChunkArrives == []<>(\A e \in End : Len(read[e]) = wrote[Peer(e)])

Stream == INSTANCE WcpStream
(* The data path implements the stream of WcpStream.  Writes and reads map *)
(* to the abstract ones, every other step to a stutter.                    *)
ImplementsStream == Stream!SSpec
=============================================================================
