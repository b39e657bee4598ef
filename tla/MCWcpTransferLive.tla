------------------------- MODULE MCWcpTransferLive -------------------------
(***************************************************************************)
(* An instance of WcpTransferLive for TLC.                                 *)
(***************************************************************************)
EXTENDS WcpTransferLive, TLC

(* One application writes more than the window of the other holds. *)
OneWriter == {[write |-> (A :> 4) @@ (B :> 0), idle |-> FALSE, faults |-> FALSE, net |-> 1, ctl |-> 0]}
(* The hypothesis of StreamImplemented (WcpTransferProofs). *)
ASSUME OpenAssumption == WindowsStayOpen
=============================================================================
