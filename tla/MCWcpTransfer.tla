--------------------------- MODULE MCWcpTransfer ---------------------------
(***************************************************************************)
(* Instances of WcpTransfer for TLC.                                       *)
(***************************************************************************)
EXTENDS WcpTransfer, TLC

Writes(a, b) == (A :> a) @@ (B :> b)

(* One writer; packs overtake each other and the socket blocks. *)
Reordering == [write |-> Writes(2, 0), idle |-> FALSE, faults |-> FALSE, net |-> 2, ctl |-> 1]
(* Both write; the connection may be idle. *)
Keepalive == [write |-> Writes(1, 1), idle |-> TRUE, faults |-> FALSE, net |-> 1, ctl |-> 0]
(* Both write; the sockets fail. *)
Failing == [write |-> Writes(1, 1), idle |-> FALSE, faults |-> TRUE, net |-> 1, ctl |-> 0]
(* Both write, one of them more than the window of the other holds: with a *)
(* receive buffer of 6 the code does not keep NoGap.                        *)
Closing == [write |-> Writes(3, 2), idle |-> FALSE, faults |-> FALSE, net |-> 1, ctl |-> 0]

SafetyEnvironments == {Reordering, Keepalive, Failing}
(* The hypothesis of NoGapHolds (WcpTransferProofs); Closing does not meet it. *)
ASSUME OpenAssumption == \A v \in SafetyEnvironments : StaysOpen(v)
ClosingEnvironments == {Closing}
=============================================================================
