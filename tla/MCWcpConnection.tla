-------------------------- MODULE MCWcpConnection --------------------------
(* Instances of WcpConnection for TLC. *)
EXTENDS WcpConnection, TLC

Env(clients, slots, queue, net, nonblock, faults, calls) ==
    [clients |-> clients, slots |-> slots, backlog |-> queue, queue |-> queue, net |-> net,
     nonblock |-> nonblock, faults |-> faults, callers |-> Procs, calls |-> calls]

SafetyEnvironments ==
    {Env(1, 2, 2, 2, FALSE, {}, {"close"}),         \* a SYN is repeated
     Env(1, 1, 1, 2, TRUE, {}, {"close"}),          \* close before the handshake is over
     Env(2, 2, 1, 1, TRUE, {}, {}),                 \* two clients compete for the backlog
     Env(1, 1, 1, 2, FALSE, {}, {"send", "close"}), \* close in the middle of a transfer
     Env(1, 1, 1, 1, TRUE, {}, {"send", "close"}),  \* writes before the handshake is over
     Env(1, 1, 1, 1, TRUE, {}, {"shutdown"}),       \* both sides shut down, in every order
     Env(1, 1, 1, 2, FALSE, {}, {"close", "closeListener"}), \* the listener goes
     Env(1, 1, 1, 1, FALSE, Procs, {})}                 \* sockets fail

ShutdownEnvironments == {Env(1, 1, 1, 2, FALSE, {}, {"shutdown"})}
CloseEnvironments == {Env(1, 1, 1, 2, FALSE, {}, {"send", "close"})}

ClientSymmetry == Permutations(Clients)
=============================================================================
