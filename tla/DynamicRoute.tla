----------------------------- MODULE DynamicRoute ---------------------------
(***************************************************************************)
(* Routes that a hostname spells out (internal/tunnelmgr/dynamic_route.go): *)
(*   {name}-{port}.{svc|pod}.{namespace}.ns.{context}.cx.{dynamic_host}    *)
(* A hostname is the sequence of its labels, so that ".ns." is a label     *)
(* that has a label before it and one after it.  A label is its text up to *)
(* the last dash and the number behind it: NoDash if there is no dash, 0   *)
(* if what follows it is not a positive number.                            *)
(***************************************************************************)
EXTENDS Config, Sequences

NoDash == -1

Plain(text) == [head |-> text, port |-> NoDash]

\* The text of s is empty.
IsBlank(s) == s = <<Plain("")>>

\* Where the label ".text." is found in s.
Markers(s, text) == {i \in 2 .. Len(s) - 1 : s[i] = Plain(text)}

\* Mutant: strings.Index.
FirstIndex(s, text) ==
    CHOOSE i \in Markers(s, text) : \A j \in Markers(s, text) : j >= i

\* strings.LastIndex, for a marker that is there.
LastIndex(s, text) ==
    CHOOSE i \in Markers(s, text) : \A j \in Markers(s, text) : j <= i

Before(s, i) == SubSeq(s, 1, i - 1)
After(s, i) == SubSeq(s, i + 1, Len(s))

NoRoute == [kind |-> "none"]

\* HasSuffix(hostname, ".cx." + dynamicHost).
HasSuffix(h, dynamicHost) ==
    LET n == Len(h) - Len(dynamicHost)
    IN  n >= 2 /\ h[n] = Plain("cx") /\ After(h, n) = dynamicHost

\* Mutant: empty parts are accepted.
MakeRouteOfAny(kind, target, namespace, context) ==
    LET last == target[Len(target)]
    IN  IF ~ValidPort(last.port)
        THEN NoRoute
        ELSE [kind |-> kind, port |-> last.port,
              name |-> Append(Before(target, Len(target)), Plain(last.head)),
              namespace |-> namespace, context |-> context]

\* name-port, context and namespace of a service or a pod make a route.
MakeRoute(kind, target, namespace, context) ==
    LET last == target[Len(target)]
        name == Append(Before(target, Len(target)), Plain(last.head))
    IN  IF \/ IsBlank(context) \/ IsBlank(namespace) \/ IsBlank(name)
           \/ ~ValidPort(last.port)
        THEN NoRoute
        ELSE [kind |-> kind, name |-> name, port |-> last.port,
              namespace |-> namespace, context |-> context]

\* Services are looked for first.
ParseTarget(core, context) ==
    LET kind == IF Markers(core, "svc") # {} THEN "svc" ELSE "pod"
        i == LastIndex(core, kind)
    IN  IF Markers(core, kind) = {}
        THEN NoRoute
        ELSE MakeRoute(kind, Before(core, i), After(core, i), context)

ParseDynamicHostname(h, dynamicHost) ==
    LET core == Before(h, Len(h) - Len(dynamicHost))
        i == LastIndex(core, "ns")
    IN  IF \/ dynamicHost = <<>> \/ ~HasSuffix(h, dynamicHost)
           \/ Markers(core, "ns") = {}
        THEN NoRoute
        ELSE ParseTarget(Before(core, i), After(core, i))

-----------------------------------------------------------------------------
\* The hostname that the documented format gives route r.
Format(r, dynamicHost) ==
    LET k == Len(r.name)
    IN  Before(r.name, k) \o <<[head |-> r.name[k].head, port |-> r.port]>>
        \o <<Plain(r.kind)>> \o r.namespace
        \o <<Plain("ns")>> \o r.context \o <<Plain("cx")>> \o dynamicHost

\* Names of services and namespaces are one label; the dots of a pod's name
\* and of a context must not spell a marker.
Unambiguous(r) ==
    /\ Len(r.namespace) = 1
    /\ r.kind = "pod" => Markers(r.name, "svc") = {}
    /\ \A i \in 1 .. Len(r.context) - 1 : r.context[i] # Plain("ns")
=============================================================================
