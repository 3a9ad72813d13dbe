--------------------------------- MODULE Mux --------------------------------
(***************************************************************************)
(* The HTTP server (internal/httpserver server.go, mux_listener.go): one   *)
(* listener for HTTP and TLS.  The accept loop starts a goroutine for each *)
(* connection, which looks at the first byte and either handles a TLS      *)
(* connection itself or puts it into a queue, from which net/http accepts. *)
(* Stages of a connection:                                                 *)
(*   "peek"     waits for the first byte, without a deadline               *)
(*   "tls"      handleTLSConnection                                        *)
(*   "enqueue"  in the select that sends it to httpConns                   *)
(*   "queued"   in httpConns                                               *)
(*   "taken"    returned by httpOnlyListener.Accept, unknown to net/http's *)
(*              table of connections yet                                   *)
(*   "serving"  in that table                                              *)
(***************************************************************************)
EXTENDS Sockets, Naturals, Sequences

CONSTANT QueueCap    \* capacity of httpConns (256 in the code)

ASSUME QueueAssumption == QueueCap \in Nat \ {0}

VARIABLES
    http,        \* where Server.Start is
    serve,       \* where the goroutine of http.Server.Serve is
    queue,       \* httpConns
    done,        \* s.done is closed
    muxDone,     \* the done channel of the listener is closed
    srvClosed    \* http.Server.Close has been called

muxVars == <<http, serve, queue, done, muxDone, srvClosed>>

\* "bound": net.Listen has returned, s.listener is nil; "set": s.listener is
\* assigned, s.server is nil; "accept": both are, and the loop runs.
StartStages == {"off", "listen", "bound", "set", "accept", "returned", "failed"}
HTTPStages == {"peek", "tls", "enqueue", "queued", "taken", "serving"}

MuxInit ==
    /\ http = "off" /\ serve = "off" /\ queue = <<>>
    /\ done = FALSE /\ muxDone = FALSE /\ srvClosed = FALSE

HasListener == http \in {"set", "accept", "returned"}
HasServer == http \in {"accept", "returned"}

-----------------------------------------------------------------------------
\* Server.Start on port l.
NewMuxListener(l) ==
    /\ http = "listen"
    /\ Listen(l)
    /\ http' = "bound"
    /\ UNCHANGED <<serve, queue, done, muxDone, srvClosed>>

\* The address is in use: by this process (l is open) or by another one.
NewMuxListenerFails ==
    /\ http = "listen"
    /\ http' = "failed"
    /\ UNCHANGED <<sockets, serve, queue, done, muxDone, srvClosed>>

SetListener ==
    /\ http = "bound"
    /\ http' = "set"
    /\ UNCHANGED <<sockets, serve, queue, done, muxDone, srvClosed>>

SetServer ==
    /\ http = "set"
    /\ http' = "accept" /\ serve' = "start"
    /\ UNCHANGED <<sockets, queue, done, muxDone, srvClosed>>

AcceptHTTP(c, l) ==
    /\ http = "accept"
    /\ Accept(c, l, "peek")
    /\ UNCHANGED muxVars

\* An error of Accept ends the loop only if s.done is closed; else it goes on.
AcceptFails(l) ==
    /\ http = "accept" /\ l \notin open /\ done
    /\ http' = "returned"
    /\ UNCHANGED <<sockets, serve, queue, done, muxDone, srvClosed>>

-----------------------------------------------------------------------------
\* handleConnection.  The first byte is the client's choice; an error of Peek
\* counts as HTTP.
Peek(c) ==
    /\ \E to \in {"tls", "enqueue"} : Move(c, "peek", to)
    /\ UNCHANGED muxVars

\* Mutant: handleConnection closes the connection after the select.
EnqueueThenClose(c) ==
    /\ Len(queue) < QueueCap
    /\ Return(c, {"enqueue"})
    /\ queue' = Append(queue, c)
    /\ UNCHANGED <<http, serve, done, muxDone, srvClosed>>

Enqueue(c) ==
    /\ Len(queue) < QueueCap
    /\ Move(c, "enqueue", "queued")
    /\ queue' = Append(queue, c)
    /\ UNCHANGED <<http, serve, done, muxDone, srvClosed>>

\* Mutant: the select has no case for s.done.
EnqueueBlocks(c) ==
    /\ done /\ Len(queue) < QueueCap
    /\ Return(c, {"enqueue"})
    /\ UNCHANGED muxVars

EnqueueAbandoned(c) ==
    /\ done
    /\ Return(c, {"enqueue"})
    /\ UNCHANGED muxVars

\* Mutant: handleConnection goes on to the queue after handleTLSConnection.
HandlerFallsThrough(c) ==
    /\ Move(c, "tls", "enqueue") \/ Return(c, {"serving"})
    /\ UNCHANGED muxVars

HandlerEnds(c) ==
    /\ Return(c, {"tls", "serving"})
    /\ UNCHANGED muxVars

-----------------------------------------------------------------------------
\* net/http's Serve (external) on httpOnlyListener: it refuses a closed
\* server, then accepts, tracks and serves one connection after the other.
ServeStarts ==
    /\ serve = "start"
    /\ serve' = IF srvClosed THEN "ended" ELSE "loop"
    /\ UNCHANGED <<sockets, http, queue, done, muxDone, srvClosed>>

\* The select of Accept chooses freely if the listener is closed as well.
ServeAccepts ==
    /\ serve = "loop" /\ queue # <<>>
    /\ \A c \in Conns : conn[c] # "taken"
    /\ Move(Head(queue), "queued", "taken")
    /\ queue' = Tail(queue)
    /\ UNCHANGED <<http, serve, done, muxDone, srvClosed>>

ServeEnds ==
    /\ serve = "loop" /\ muxDone
    /\ \A c \in Conns : conn[c] # "taken"
    /\ serve' = "ended"
    /\ UNCHANGED <<sockets, http, queue, done, muxDone, srvClosed>>

\* Nothing asks here whether the server has been closed in the meantime.
Track(c) ==
    /\ Move(c, "taken", "serving")
    /\ UNCHANGED muxVars

-----------------------------------------------------------------------------
\* Server.Shutdown, in its three parts.
CloseDone ==
    /\ done' = TRUE
    /\ UNCHANGED <<sockets, http, serve, queue, muxDone, srvClosed>>

CloseMux(l) ==
    IF HasListener
    THEN /\ muxDone' = TRUE
         /\ CloseListener(l)
         /\ UNCHANGED <<http, serve, queue, done, srvClosed>>
    ELSE UNCHANGED <<sockets, muxVars>>

\* http.Server.Close closes the connections that it tracks.
CloseServer ==
    IF HasServer
    THEN /\ srvClosed' = TRUE
         /\ End({c \in Conns : conn[c] = "serving"})
         /\ UNCHANGED <<open, http, serve, queue, done, muxDone>>
    ELSE UNCHANGED <<sockets, muxVars>>

-----------------------------------------------------------------------------
StartStep(l) ==
    \/ NewMuxListener(l) \/ NewMuxListenerFails \/ SetListener \/ SetServer
    \/ AcceptFails(l)

ServeStep == ServeStarts \/ ServeAccepts \/ ServeEnds

MuxStep(l) ==
    \/ StartStep(l) \/ ServeStep
    \/ \E c \in Conns :
          \/ AcceptHTTP(c, l) \/ Peek(c) \/ Enqueue(c) \/ EnqueueAbandoned(c)
          \/ Track(c) \/ HandlerEnds(c)
=============================================================================
