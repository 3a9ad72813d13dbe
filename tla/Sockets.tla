------------------------------- MODULE Sockets ------------------------------
(***************************************************************************)
(* The kernel's side of the servers (external): ports that are listened    *)
(* on, and connections.  A connection waits in the backlog of its port     *)
(* until it is accepted; closing the port resets the ones that wait.       *)
(*                                                                         *)
(* conn[c] is also how far the servers have come with c: the stages after  *)
(* "backlog" belong to Mux and TCPServer.                                  *)
(***************************************************************************)
CONSTANTS
    Conns,    \* connections that clients make
    Ports,    \* local ports
    None

ASSUME NoneAssumption == None \notin Conns \cup Ports

VARIABLES open, at, conn

sockets == <<open, at, conn>>

Listen(l) ==
    /\ l \in Ports \ open
    /\ open' = open \cup {l}
    /\ UNCHANGED <<at, conn>>

\* The connections of S are closed.
End(S) ==
    /\ conn' = [c \in Conns |-> IF c \in S THEN "over" ELSE conn[c]]
    /\ at' = [c \in Conns |-> IF c \in S THEN None ELSE at[c]]

CloseListener(l) ==
    /\ open' = open \ {l}
    /\ End({c \in Conns : conn[c] = "backlog" /\ at[c] = l})

Connect(c, l) ==
    /\ conn[c] = "away" /\ l \in open
    /\ at' = [at EXCEPT ![c] = l]
    /\ conn' = [conn EXCEPT ![c] = "backlog"]
    /\ UNCHANGED open

\* Connection c goes from one stage to another.
Move(c, from, to) ==
    /\ conn[c] = from
    /\ conn' = [conn EXCEPT ![c] = to]
    /\ UNCHANGED <<open, at>>

\* The handler of c returns from one of the stages S, which closes c.
Return(c, S) ==
    /\ conn[c] \in S
    /\ End({c})
    /\ UNCHANGED open

\* Accept returns c, which waits at l, to a caller that takes it to "stage".
Accept(c, l, stage) ==
    /\ at[c] = l /\ l \in open
    /\ Move(c, "backlog", stage)
=============================================================================
