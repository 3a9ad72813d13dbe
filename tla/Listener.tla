------------------------------ MODULE Listener ------------------------------
(***************************************************************************)
(* What the two servers of autotunnel promise about their connections,     *)
(* without how they do it: a connection waits at an open port, is accepted *)
(* once, is given to one handler, and is closed once.  A port that closes  *)
(* takes with it the connections that still wait there, and no others.     *)
(***************************************************************************)
CONSTANTS Conns, Ports, None

VARIABLES
    open,     \* the ports with an open listener
    at,       \* at[c]: the port that c is connected to
    life      \* life[c]: how far c has come

vars == <<open, at, life>>

Lives == {"away", "waiting", "accepted", "handled", "over"}

Init ==
    /\ open = {}
    /\ at = [c \in Conns |-> None]
    /\ life = [c \in Conns |-> "away"]

Over(S) ==
    /\ life' = [c \in Conns |-> IF c \in S THEN "over" ELSE life[c]]
    /\ at' = [c \in Conns |-> IF c \in S THEN None ELSE at[c]]

Open(l) ==
    /\ l \notin open
    /\ open' = open \cup {l}
    /\ UNCHANGED <<at, life>>

Close(l) ==
    /\ l \in open
    /\ open' = open \ {l}
    /\ Over({c \in Conns : life[c] = "waiting" /\ at[c] = l})

Connect(c, l) ==
    /\ life[c] = "away" /\ l \in open
    /\ at' = [at EXCEPT ![c] = l]
    /\ life' = [life EXCEPT ![c] = "waiting"]
    /\ UNCHANGED open

Accept(c) ==
    /\ life[c] = "waiting" /\ at[c] \in open
    /\ \E next \in {"accepted", "handled"} : life' = [life EXCEPT ![c] = next]
    /\ UNCHANGED <<open, at>>

Handle(c) ==
    /\ life[c] = "accepted"
    /\ life' = [life EXCEPT ![c] = "handled"]
    /\ UNCHANGED <<open, at>>

End(S) ==
    /\ \A c \in S : life[c] \in {"accepted", "handled"}
    /\ Over(S)
    /\ UNCHANGED open

\* The process ends.
Exit ==
    /\ open' = {}
    /\ Over(Conns)

Next ==
    \/ \E l \in Ports : Open(l) \/ Close(l)
    \/ \E c \in Conns, l \in Ports : Connect(c, l)
    \/ \E c \in Conns : Accept(c) \/ Handle(c)
    \/ \E S \in SUBSET Conns : End(S)
    \/ Exit

Spec == Init /\ [][Next]_vars
=============================================================================
