----------------------------- MODULE MCSocketIO -----------------------------
(* SocketIO with every poller, and what the users and the remote side do    *)
(* bounded one mixture at a time: their product is out of reach.            *)
EXTENDS SocketIO

Mix(o, i, c, e, p) == [out |-> o, in |-> i, calls |-> c, end |-> e, posted |-> p]
MCLimits == {Mix(2, 1, 0, "none", 1), Mix(2, 0, 1, "none", 0),
             Mix(0, 2, 1, "none", 1), Mix(2, 0, 0, "rst", 0),
             Mix(0, 2, 0, "eof", 0),  Mix(0, 0, 1, "eof", 0)}
=============================================================================
