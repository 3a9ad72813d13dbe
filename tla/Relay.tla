-------------------------------- MODULE Relay -------------------------------
(***************************************************************************)
(* The bytes of one connection, between a client and what answers it: the  *)
(* backend, net/http, or the TLS error page.  A connection to the HTTP     *)
(* server is peeked at (mux_listener.go); of a TLS connection, one Read is *)
(* kept as the ClientHello, which is written to the backend first          *)
(* (tls_passthrough.go), or read again by the error page                   *)
(* (tls_error_handler.go).  Then, or at once for a TCP route,              *)
(* netutil.BidirectionalCopy copies in both directions; for a jump route   *)
(* the exec stream does (tcpserver/jump_handler.go).                       *)
(*                                                                         *)
(* The n-th byte of a direction is the number n.  Stages of the handler:   *)
(*   "peek"    waits for the first byte                                    *)
(*   "http"    net/http reads through the peekConn                         *)
(*   "hello"   handleTLSConnection, before its Read                        *)
(*   "route"   has the ClientHello and no backend yet                      *)
(*   "replay"  has a backend, and writes the ClientHello to it             *)
(*   "page"    sendTLSErrorPage                                            *)
(*   "dial"    a TCP or jump connection without its backend                *)
(*   "copy"    the copies, or the exec stream                              *)
(***************************************************************************)
EXTENDS Naturals, Sequences

CONSTANTS
    Kinds,        \* of connections: some of "mux", "tcp" and "jump"
    MaxBytes,     \* bound on what each end sends
    PeekSize,     \* of the bufio.Reader (4096)
    HelloSize     \* of buf in handleTLSConnection (16384)

ASSUME KindsAssumption == Kinds \subseteq {"mux", "tcp", "jump"}
ASSUME SizesAssumption ==
    /\ {MaxBytes, PeekSize, HelloSize} \subseteq Nat \ {0}
    /\ PeekSize <= HelloSize

VARIABLES
    kind,       \* of the connection
    sent,       \* sent[d]: how many bytes were sent in direction d
    fin,        \* the directions whose sender has closed its stream
    reset,      \* the ends that have reset their connection
    inq,        \* inq[d]: what waits to be read from the sender of d
    peeked,     \* what the bufio.Reader of peekConn holds
    hello,      \* buf[:n], as far as it has not been written or replayed
    at,         \* where the handler is
    copying,    \* the directions whose goroutine of BidirectionalCopy runs
    hand,       \* hand[d]: what that goroutine has read and not written yet
    got,        \* got[d]: what the receiver of d has got
    eof,        \* the directions whose receiver was told of the end
    cut         \* the handler has ended the connection by itself

ends == <<sent, fin, reset>>
vars == <<kind, sent, fin, reset, inq, peeked, hello, at, copying, hand, got, eof, cut>>

Dirs == {"up", "down"}
Ends == {"client", "backend"}

From(d) == IF d = "up" THEN "client" ELSE "backend"
To(d) == IF d = "up" THEN "backend" ELSE "client"

Init ==
    /\ kind \in Kinds
    /\ sent = [d \in Dirs |-> 0] /\ fin = {} /\ reset = {}
    /\ inq = [d \in Dirs |-> <<>>] /\ peeked = <<>> /\ hello = <<>>
    /\ at = IF kind = "mux" THEN "peek" ELSE "dial"
    /\ copying = {} /\ hand = [d \in Dirs |-> <<>>]
    /\ got = [d \in Dirs |-> <<>>] /\ eof = {} /\ cut = FALSE

First(s, n) == SubSeq(s, 1, n)
Rest(s, n) == SubSeq(s, n + 1, Len(s))

-----------------------------------------------------------------------------
\* The client and the backend (external).
Connected(d) == at # "over" /\ (d = "down" => at \in {"replay", "copy"})

Send(d) ==
    /\ Connected(d) /\ d \notin fin /\ From(d) \notin reset
    /\ sent[d] < MaxBytes
    /\ sent' = [sent EXCEPT ![d] = @ + 1]
    /\ inq' = [inq EXCEPT ![d] = Append(@, sent[d] + 1)]
    /\ UNCHANGED <<kind, fin, reset, peeked, hello, at, copying, hand, got, eof, cut>>

Finish(d) ==
    /\ Connected(d) /\ From(d) \notin reset
    /\ fin' = fin \cup {d}
    /\ UNCHANGED <<kind, sent, reset, inq, peeked, hello, at, copying, hand, got, eof, cut>>

\* What has arrived may still be read, or may not.
Reset(d) ==
    /\ Connected(d)
    /\ reset' = reset \cup {From(d)}
    /\ UNCHANGED <<kind, sent, fin, inq, peeked, hello, at, copying, hand, got, eof, cut>>

-----------------------------------------------------------------------------
\* The handler returns, and the connections are closed; "early" if it is not
\* because both streams have ended.
Over(early) ==
    /\ at' = "over" /\ copying' = {}
    /\ eof' = Dirs
    /\ cut' = (cut \/ early)
    /\ UNCHANGED <<kind, ends, inq, peeked, hello, hand, got>>

\* Mutant: the reader's buffer has no bound.
PeekAll ==
    /\ at = "peek" /\ inq["up"] # <<>>
    /\ peeked' = inq["up"] /\ inq' = [inq EXCEPT !["up"] = <<>>]
    /\ at' \in {"hello", "http"}
    /\ UNCHANGED <<kind, ends, hello, copying, hand, got, eof, cut>>

\* isTLS: one Read fills the reader as far as data has arrived.  The first
\* byte says where the connection goes.
Peek ==
    /\ at = "peek"
    /\ \E n \in 1 .. PeekSize :
          /\ n <= Len(inq["up"])
          /\ peeked' = First(inq["up"], n)
          /\ inq' = [inq EXCEPT !["up"] = Rest(@, n)]
    /\ at' \in {"hello", "http"}
    /\ UNCHANGED <<kind, ends, hello, copying, hand, got, eof, cut>>

\* An error of Peek counts as HTTP.
PeekFails ==
    /\ at = "peek"
    /\ \/ "up" \in fin /\ inq["up"] = <<>>
       \/ "client" \in reset
    /\ at' = "http"
    /\ UNCHANGED <<kind, ends, inq, peeked, hello, copying, hand, got, eof, cut>>

\* Mutant: the Read asks for less than the reader may hold.
ReadHelloPart ==
    /\ at = "hello"
    /\ hello' = First(peeked, 1) /\ peeked' = Rest(peeked, 1)
    /\ at' = "route"
    /\ UNCHANGED <<kind, ends, inq, copying, hand, got, eof, cut>>

\* Reads from the reader's buffer, which is not empty.
ReadHello ==
    LET n == IF Len(peeked) < HelloSize THEN Len(peeked) ELSE HelloSize IN
    /\ at = "hello"
    /\ hello' = First(peeked, n) /\ peeked' = Rest(peeked, n)
    /\ at' = "route"
    /\ UNCHANGED <<kind, ends, inq, copying, hand, got, eof, cut>>

Dialed ==
    /\ \/ at = "route" /\ at' = "replay" /\ UNCHANGED copying
       \/ at = "dial" /\ at' = "copy" /\ copying' = Dirs
    /\ UNCHANGED <<kind, ends, inq, peeked, hello, hand, got, eof, cut>>

Replay ==
    /\ at = "replay" /\ "backend" \notin reset
    /\ got' = [got EXCEPT !["up"] = hello] /\ hello' = <<>>
    /\ at' = "copy" /\ copying' = Dirs
    /\ UNCHANGED <<kind, ends, inq, peeked, hand, eof, cut>>

\* No server name, no route, no tunnel, no backend, or the write failed.
Refuse ==
    /\ \/ at = "route"
       \/ at = "replay" /\ "backend" \in reset
    /\ at' = "page" /\ cut' = TRUE
    /\ UNCHANGED <<kind, ends, inq, peeked, hello, copying, hand, got, eof>>

DialFails == at = "dial" /\ Over(TRUE)

-----------------------------------------------------------------------------
\* net/http and the server of the error page read what they ask for: first
\* what was read before, then from the connection.
ReadOn(before, after) ==
    \E n \in 1 .. MaxBytes :
        IF before # <<>>
        THEN /\ n <= Len(before)
             /\ got' = [got EXCEPT !["up"] = @ \o First(before, n)]
             /\ after = Rest(before, n) /\ UNCHANGED inq
        ELSE /\ n <= Len(inq["up"])
             /\ got' = [got EXCEPT !["up"] = @ \o First(inq["up"], n)]
             /\ inq' = [inq EXCEPT !["up"] = Rest(@, n)]
             /\ after = before

\* peekConn.Read
ReadHTTP ==
    /\ at = "http"
    /\ ReadOn(peeked, peeked')
    /\ UNCHANGED <<kind, ends, hello, at, copying, hand, eof, cut>>

\* replayConn.Read
ReadPage ==
    /\ at = "page"
    /\ ReadOn(hello, hello')
    /\ UNCHANGED <<kind, ends, peeked, at, copying, hand, eof, cut>>

\* Both have deadlines.
Answered == at \in {"http", "page"} /\ Over(TRUE)

-----------------------------------------------------------------------------
\* io.Copy in one direction.
CopyRead(d) ==
    /\ d \in copying /\ hand[d] = <<>>
    /\ \E n \in 1 .. MaxBytes :
          /\ n <= Len(inq[d])
          /\ hand' = [hand EXCEPT ![d] = First(inq[d], n)]
          /\ inq' = [inq EXCEPT ![d] = Rest(@, n)]
    /\ UNCHANGED <<kind, ends, peeked, hello, at, copying, got, eof, cut>>

CopyWrite(d) ==
    /\ d \in copying /\ hand[d] # <<>> /\ To(d) \notin reset
    /\ got' = [got EXCEPT ![d] = @ \o hand[d]]
    /\ hand' = [hand EXCEPT ![d] = <<>>]
    /\ UNCHANGED <<kind, ends, inq, peeked, hello, at, copying, eof, cut>>

\* Read returns io.EOF or an error, or Write returns an error.
CopyStops(d) ==
    IF hand[d] = <<>>
    THEN (d \in fin /\ inq[d] = <<>>) \/ From(d) \in reset
    ELSE To(d) \in reset

\* Mutant: no CloseWrite.
CopyEndsSilently(d) ==
    /\ kind # "jump" /\ d \in copying
    /\ CopyStops(d)
    /\ copying' = copying \ {d}
    /\ UNCHANGED <<kind, ends, inq, peeked, hello, at, hand, got, eof, cut>>

\* Mutant: an error of Read is taken for a slow sender.
CopyEndsAtEOF(d) ==
    /\ kind # "jump" /\ d \in copying
    /\ CopyStops(d) /\ d \in fin
    /\ copying' = copying \ {d} /\ eof' = eof \cup {d}
    /\ UNCHANGED <<kind, ends, inq, peeked, hello, at, hand, got, cut>>

\* The goroutine ends with CloseWrite: the receiver cannot tell an error from
\* the end of the stream.
CopyEnds(d) ==
    /\ kind # "jump" /\ d \in copying
    /\ CopyStops(d)
    /\ copying' = copying \ {d} /\ eof' = eof \cup {d}
    /\ UNCHANGED <<kind, ends, inq, peeked, hello, at, hand, got, cut>>

\* wg.Wait
Return == at = "copy" /\ copying = {} /\ Over(FALSE)

\* The exec stream ends as a whole: connReadWriter cancels it when the client
\* has no more to send, and it returns when the other end has.
StreamEnds ==
    /\ kind = "jump" /\ at = "copy"
    /\ \E d \in Dirs : CopyStops(d)
    /\ Over(TRUE)

-----------------------------------------------------------------------------
Environment == \E d \in Dirs : Send(d) \/ Finish(d) \/ Reset(d)

Handler ==
    \/ Peek \/ PeekFails \/ ReadHello \/ Dialed \/ Replay \/ Refuse \/ DialFails
    \/ Answered \/ Return \/ StreamEnds

Copy(d) == CopyRead(d) \/ CopyWrite(d) \/ CopyEnds(d)

Next == Environment \/ Handler \/ ReadHTTP \/ ReadPage \/ \E d \in Dirs : Copy(d)

Spec == Init /\ [][Next]_vars

\* The goroutines go on; an end that is written to reads, or resets.
Fairness ==
    /\ WF_vars(Handler)
    /\ \A d \in Dirs : WF_vars(Copy(d))

FairSpec == Spec /\ Fairness

-----------------------------------------------------------------------------
(* Properties.                                                             *)

Bytes == 1 .. MaxBytes

\* The types, and no buffer holds more than it has room for.
RelayTypeOK ==
    /\ kind \in Kinds
    /\ sent \in [Dirs -> 0 .. MaxBytes]
    /\ fin \subseteq Dirs /\ reset \subseteq Ends
    /\ {inq, hand, got} \subseteq [Dirs -> Seq(Bytes)]
    /\ peeked \in Seq(Bytes) /\ Len(peeked) <= PeekSize
    /\ hello \in Seq(Bytes) /\ Len(hello) <= HelloSize
    /\ at \in {"peek", "http", "hello", "route", "replay", "page", "dial", "copy", "over"}
    /\ copying \subseteq Dirs /\ eof \subseteq Dirs /\ cut \in BOOLEAN

Broken == reset # {} \/ cut

Stream(n) == [i \in 1 .. n |-> i]

P == INSTANCE Pipe WITH
        Byte <- Bytes,
        sent <- [d \in Dirs |-> Stream(sent[d])],
        broken <- Broken

\* Through the reader of the first byte, the ClientHello that is replayed and
\* the copies, client and backend have a connection as Pipe describes it: no
\* byte is lost, doubled or out of its place, and no stream ends early, unless
\* an end resets or the handler gives up.
PipeSpec == P!Spec

\* A copy delivers all that was sent and passes the end of a stream on, also
\* in one direction when the other has ended long ago.
Delivers ==
    []<>(Broken \/ \A d \in Dirs :
            /\ at = "copy" => Len(got[d]) = sent[d]
            /\ at = "copy" /\ d \in fin => d \in eof)

\* A handler is left behind only by a client that never sends, or by an end
\* that neither closes nor resets its stream.
RelayEnds ==
    []<>(\/ at = "over"
         \/ at = "peek" /\ sent["up"] = 0
         \/ at = "copy" /\ \E d \in Dirs : d \notin fin /\ From(d) \notin reset)
=============================================================================
