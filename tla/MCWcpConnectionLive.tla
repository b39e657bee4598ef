------------------------ MODULE MCWcpConnectionLive ------------------------
(* An instance of WcpConnectionLive for TLC. *)
EXTENDS WcpConnectionLive

Env(net, faults, callers, calls) ==
    [clients |-> 1, slots |-> 1, backlog |-> 1, queue |-> 1, net |-> net, nonblock |-> FALSE,
     faults |-> faults, callers |-> callers, calls |-> calls]

(* Packs that cross each other and close, a client whose socket fails, and  *)
(* a server that shuts the connection down at once.                         *)
OneClient ==
    {Env(3, {}, Procs, {"close"}), Env(1, Clients, {}, {}), Env(1, {}, {Server}, {"shutdown"})}
=============================================================================
