----------------------------- MODULE WcpStream -----------------------------
(***************************************************************************)
(* What WCP promises the two applications (the wcp socket calls send and   *)
(* recv): in each direction a first-in-first-out stream of chunks.         *)
(* Chunks are numbered by the writer.                                      *)
(***************************************************************************)
EXTENDS Integers, Sequences

CONSTANTS A, B,
          MaxCall    \* bound: chunks in one call
VARIABLES wrote, read

svars == <<wrote, read>>

Ends == {A, B}
Other(e) == IF e = A THEN B ELSE A

SInit == wrote = [e \in Ends |-> 0] /\ read = [e \in Ends |-> <<>>]

Write(e) ==
    /\ \E n \in 1..MaxCall : wrote' = [wrote EXCEPT ![e] = @ + n]
    /\ UNCHANGED read

(* The reader gets the oldest chunks it has not read. *)
Read(e) ==
    /\ \E n \in 1..MaxCall :
         /\ Len(read[e]) + n <= wrote[Other(e)]
         /\ read' = [read EXCEPT ![e] = @ \o [i \in 1..n |-> Len(read[e]) + i]]
    /\ UNCHANGED wrote

SNext == \E e \in Ends : Write(e) \/ Read(e)

SSpec == SInit /\ [][SNext]_svars
=============================================================================
