--------------------------- MODULE MCSocketConnect ---------------------------
(* SocketConnect in environments that vary one thing at a time.              *)
EXTENDS SocketConnect

D(n) == Frame("DATA", n)
Env(poll, tlp) ==
  [poll |-> poll, tlp |-> tlp, cipher |-> "XXTEA", mode |-> "async", split |-> FALSE, once |-> FALSE,
   fails |-> {}, closes |-> {}, data |-> [C |-> <<>>, S |-> <<>>], more |-> 0, posted |-> 2]
Polls == {"epoll", "select"}
Tlps == {"hlen", "dh"}
Both == {Env(p, t) : p \in Polls, t \in Tlps}

MCEnvs ==
  {[e EXCEPT !.data = [C |-> <<D(1)>>, S |-> <<D(1), D(2)>>]] : e \in Both \ {Env("epoll", "dh")}}
  \cup {[Env("epoll", "dh") EXCEPT !.data = [C |-> <<D(1)>>, S |-> <<D(1)>>]]}
  \cup {[e EXCEPT !.closes = {c}, !.posted = 1] : e \in Both, c \in {"S", "proxy"}}
  \cup {[e EXCEPT !.fails = {"listen", "accept", "connect", "accepted"}, !.closes = {"listener"}] : e \in Both}
  \cup {[Env("select", "dh") EXCEPT !.fails = {"reset"}]}
  \cup {[Env(p, "hlen") EXCEPT !.more = 2] : p \in Polls}
  \cup {[Env(p, "hlen") EXCEPT !.fails = {"reset"}, !.posted = 1, !.data = [C |-> <<>>, S |-> <<D(1)>>]] : p \in Polls}
  \cup {[Env(p, "hlen") EXCEPT !.split = TRUE, !.data = [C |-> <<>>, S |-> <<D(1)>>]] : p \in Polls}
  \cup {[Env("select", "dh") EXCEPT !.split = TRUE]}
  \cup {[Env("epoll", "hlen") EXCEPT !.split = TRUE, !.closes = {"C"}, !.data = [C |-> <<D(1), D(2)>>, S |-> <<>>]]}
  \cup {[e EXCEPT !.mode = "sync"] : e \in Both}
  \cup {[Env("epoll", t) EXCEPT !.once = TRUE] : t \in Tlps}
  \cup {[Env("select", "dh") EXCEPT !.cipher = "NONE"],
        [Env("select", "dh") EXCEPT !.data = [C |-> <<D(1), Frame("LONG", 0)>>, S |-> <<>>]]}
==============================================================================
