----------------------------- MODULE MCWcpTable -----------------------------
(* WcpTable for TLC: the scripts of two threads, by environment.           *)
EXTENDS WcpTable

MCUsers == {"u", "v"}
MCActive == {"A", "B", "C"}
MCPassive == {"P"}

Env(u, v, protoB, fateA, fateB, fateP, fails, fdmax) ==
  [prog  |-> [t \in MCUsers |-> IF t = "u" THEN u ELSE v],
   proto |-> [s \in MCActive \cup MCPassive |-> IF s = "B" THEN protoB ELSE "WCP"],
   fate  |-> [s \in MCActive \cup MCPassive |-> CASE s = "A" -> fateA [] s = "B" -> fateB [] s = "C" -> "dead" [] OTHER -> fateP],
   fails |-> fails, fdmax |-> fdmax, syn |-> {"P"}]

\* A calls one after another on socket s.
On(s, calls) == [i \in DOMAIN calls |-> <<calls[i], s>>]
Client == <<"open", "on", "connect", "watchW", "watchR", "close">>
Blocking == <<"open", "connect", "close">>
Server == <<"open", "reuse", "on", "bind", "listen", "watchR", "accept", "close">>

MCEnvs ==
  { \* two clients: one's peer resets or sends, the other's is there or not
    Env(On("A", Client), On("B", Blocking), "WCP", "resets", "dead", "up", {"socket"}, 3),
    Env(On("A", Client), On("B", Blocking), "WCP", "sends", "up", "up", {}, 3),
    \* one socket, two threads: buffer sizes, name, shutdown and close while it connects
    Env(On("A", Client), On("A", <<"bufsize", "name", "shutdown", "close">>), "WCP", "dead", "up", "up", {}, 2),
    Env(On("A", Client), On("A", <<"bufsize", "shutdown">>), "WCP", "sends", "up", "up", {}, 2),
    \* a listener and what it accepts
    Env(On("A", Server), On("P", <<"on", "watchR", "close">>), "WCP", "up", "up", "sends", {"bind"}, 2),
    Env(On("A", Server), On("P", <<"on", "watchR", "close">>) \o On("A", <<"close">>), "WCP", "up", "up", "resets", {}, 2),
    \* two connections ready at once, then a blocking connect
    Env(On("A", <<"open", "on", "connect", "watchW">>),
        On("C", <<"open", "on", "connect", "watchW", "close">>) \o On("B", <<"open", "connect">>),
        "WCP", "up", "up", "up", {}, 4),
    \* a SYN that cannot be sent, a peer that closes at once
    Env(On("A", Client), On("B", Blocking), "WCP", "unsent", "closes", "up", {}, 3),
    Env(On("A", Client), On("B", Blocking), "WCP", "closes", "unsent", "up", {}, 3),
    \* options set by two threads at once, while the WCB moves
    Env(On("A", <<"open", "reuse", "connect", "close">>), On("A", <<"on">>), "WCP", "up", "up", "up", {}, 2),
    Env(On("A", <<"open", "off", "connect", "close">>), On("A", <<"reuse">>), "WCP", "up", "up", "up", {}, 2),
    Env(On("B", <<"open", "on", "off", "on", "close">>), On("B", <<"reuse">>), "TCP", "up", "up", "up", {}, 2),
    \* the options next to TCP's; numbers that wrap, and that meet a socket still about
    Env(On("A", <<"open", "on", "off", "bufsize", "close">>), On("B", <<"open", "nodelay", "on", "off", "close">>),
        "TCP", "up", "up", "up", {"socket"}, 2),
    Env(On("A", <<"open", "on", "close">>) \o On("C", <<"open", "close">>), On("B", <<"open", "off", "close">>),
        "WCP", "up", "up", "up", {}, 2),
    Env(On("A", Blocking), On("B", <<"open", "close">>) \o On("C", Blocking),
        "WCP", "up", "up", "up", {}, 2)
  }
=============================================================================
