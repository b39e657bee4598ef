------------------------------ MODULE MuxPipe ------------------------------
(***************************************************************************)
(* What one direction of a mux stream does for its two applications: the   *)
(* bytes come out in the order they went in and none comes twice, until    *)
(* the stream is cut (closed, reset, or its connection lost).  A cut drops *)
(* bytes from the end only.  Bytes are missing in one place at most: once, *)
(* before the first byte comes out, the pipe may shrink to Room bytes and  *)
(* lose what it held beyond them.  Bytes are numbered by the writer.       *)
(***************************************************************************)
EXTENDS Integers, Sequences

CONSTANTS MaxCall, \* bound: bytes in one call
          Room     \* what the pipe keeps when it shrinks
VARIABLES sent,    \* how many bytes the writer has handed over
          pipe,    \* the bytes on their way
          got,     \* the bytes the reader has read
          cut,
          shrunk

pvars == <<sent, pipe, got, cut, shrunk>>

PInit == sent = 0 /\ pipe = <<>> /\ got = <<>> /\ cut = FALSE /\ shrunk = FALSE

Put ==
    \E n \in 1..MaxCall :
      /\ sent' = sent + n
      /\ pipe' = IF cut THEN pipe ELSE pipe \o [i \in 1..n |-> sent + i]
      /\ UNCHANGED <<got, cut, shrunk>>

Take ==
    \E n \in 1..Len(pipe) :
      /\ got' = got \o SubSeq(pipe, 1, n)
      /\ pipe' = SubSeq(pipe, n + 1, Len(pipe))
      /\ UNCHANGED <<sent, cut, shrunk>>

Cut ==
    /\ cut' = TRUE
    /\ \E k \in 0..Len(pipe) : pipe' = SubSeq(pipe, 1, k)
    /\ UNCHANGED <<sent, got, shrunk>>

Shrink ==
    /\ got = <<>> /\ shrunk = FALSE /\ shrunk' = TRUE
    /\ pipe' = SubSeq(pipe, 1, IF Room < Len(pipe) THEN Room ELSE Len(pipe))
    /\ UNCHANGED <<sent, got, cut>>

PSpec == PInit /\ [][Put \/ Take \/ Cut \/ Shrink]_pvars
=============================================================================
