-------------------------------- MODULE Pipe --------------------------------
(***************************************************************************)
(* What a client and a backend may expect of the connection that autotunnel *)
(* makes between them: one TCP connection.  What one end has got is always  *)
(* the beginning of what the other has sent, and it is told of the end of   *)
(* the stream when it has got all of it.  A connection may break, and only  *)
(* then may a stream end early.                                             *)
(***************************************************************************)
EXTENDS Naturals, Sequences

CONSTANTS Dirs, Byte

VARIABLES
    sent,      \* sent[d]: what was sent in direction d
    got,       \* got[d]: what has arrived of it
    fin,       \* the directions whose sender has closed its stream
    eof,       \* the directions whose receiver knows of the end
    broken     \* the connection is broken

vars == <<sent, got, fin, eof, broken>>

Init ==
    /\ sent = [d \in Dirs |-> <<>>] /\ got = [d \in Dirs |-> <<>>]
    /\ fin = {} /\ eof = {} /\ broken = FALSE

Send(d) ==
    /\ d \notin fin
    /\ \E b \in Byte : sent' = [sent EXCEPT ![d] = Append(@, b)]
    /\ UNCHANGED <<got, fin, eof, broken>>

Finish(d) ==
    /\ fin' = fin \cup {d}
    /\ UNCHANGED <<sent, got, eof, broken>>

Deliver(d) ==
    /\ d \notin eof
    /\ \E n \in Len(got[d]) .. Len(sent[d]) :
          got' = [got EXCEPT ![d] = SubSeq(sent[d], 1, n)]
    /\ UNCHANGED <<sent, fin, eof, broken>>

\* The receivers of the directions D are told that the stream has ended.
End(D) ==
    /\ \A d \in D \ eof : d \in fin /\ got[d] = sent[d]
    /\ eof' = eof \cup D
    /\ UNCHANGED <<sent, got, fin, broken>>

Break(D) ==
    /\ broken' = TRUE
    /\ eof' = eof \cup D
    /\ UNCHANGED <<sent, got, fin>>

Next ==
    \/ \E d \in Dirs : Send(d) \/ Finish(d) \/ Deliver(d)
    \/ \E D \in SUBSET Dirs : Break(D) \/ End(D)

Spec == Init /\ [][Next]_vars
=============================================================================
