------------------------- MODULE WcpConnectionLive -------------------------
(***************************************************************************)
(* WcpConnection with the fairness of its ticker threads.  wcp::_update    *)
(* visits every WCB of the process in each of its passes, a pass that was  *)
(* begun comes to its end, and the timer of a state runs out.  A client's  *)
(* socket does not block for ever, and no pack is in transit for ever.     *)
(***************************************************************************)
EXTENDS WcpConnection

(* The steps of a pass that was begun. *)
Proceed(w) ==
    /\ tick[Proc(w)].wcb = w
    /\ Pass(w) /\ Bounded
    /\ UNCHANGED <<lisVars, env>>

Fairness ==
    /\ \A w \in Wcbs :
         /\ WF_vars(Proceed(w))
         /\ SF_vars(BeginPass(w) /\ UNCHANGED env)
         /\ SF_vars(Expire(w) /\ UNCHANGED env)
         /\ SF_vars(Recycle(w) /\ UNCHANGED env)
    /\ \A c \in Clients :
         /\ SF_vars(SendPack(c) /\ Bounded /\ UNCHANGED env)
         /\ WF_vars(ConnectReturns(c) /\ conn[c] = "woken" /\ UNCHANGED env)
         /\ WF_vars(Lose(c) /\ up' # up /\ UNCHANGED env)
         /\ WF_vars(Lose(c) /\ down' # down /\ UNCHANGED env)

FSpec == Init /\ [][Next]_vars /\ Fairness

Alive(w) == crash[Proc(w)] = "no"

(* A closed WCB is recycled, and with it its entry in the four-tuple map:  *)
(* whenever in the life of the connection, and in the pass, close comes,   *)
(* the ticker finds the three flags and the state that let it go.          *)
ClosedIsRecycled ==
    \A w \in Wcbs : "CLOSED_CALLED" \in flags[w] /\ Alive(w) ~> state[w] = "RECYCLE" \/ ~Alive(w)

(* What no cond.notify_all ends: the SYN could not be sent (check_send sets *)
(* wcb_errno and returns, and does so in every later pass), or the peer's   *)
(* FIN came before the woken caller tested for ESTABLISHED.                 *)
Stranded(c) ==
    \/ state[c] = "SYNING" /\ "SEND_ERROR" \in flags[c]
    \/ state[c] \notin {"SYNING", "SYN_SENT", "ESTABLISHED"} /\ errno[c] = "ok"

(* A blocking connect returns: whether the SYN is answered, refused or      *)
(* timed out, or the socket fails, a notification reaches the caller and    *)
(* finds its condition true.  The exceptions are the two of Stranded.       *)
ConnectReturnsAtLast ==
    \A c \in Clients :
        conn[c] = "wait" ~> conn[c] \in {"done", "failed"} \/ ~Alive(c) \/ Stranded(c)
=============================================================================
