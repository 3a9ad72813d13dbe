------------------------------- MODULE MCHello ------------------------------
(***************************************************************************)
(* Messages of about thirty bytes: hellos with and without a server name   *)
(* and with every field empty or not, each also with another record behind *)
(* it; one hello in which each byte is replaced in turn, and one split     *)
(* over two records.  A server name is one byte, the number of a hostname. *)
(***************************************************************************)
EXTENDS Hello, SequencesExt

Length1(s) == <<Len(s)>> \o s
Length2(s) == <<Len(s) \div 256, Len(s) % 256>> \o s

Record(s) == <<22, 3, 1>> \o Length2(s)

ServerName(n) == <<0, 0>> \o Length2(Length2(<<0>> \o Length2(n)))
Padding == <<0, 21>> \o Length2(<<>>)
Protocol == <<0, 16>> \o Length2(<<0, 0>>)

Fields(session, ciphers, compression) ==
    <<1>> \o [i \in 1 .. HeaderLen - 1 |-> 0]
    \o Length1(session) \o Length2(ciphers) \o Length1(compression)

\* A hello with these fields and extensions, and what may come behind it.
Meant(fields, extensions, n, behind) ==
    LET record == Record(fields \o Length2(FlattenSeq(extensions)))
    IN  [bytes |-> record \o behind, meant |-> TRUE, whole |-> Len(record), name |-> n,
         starts |-> {Len(fields \o <<0, 0>> \o FlattenSeq(SubSeq(extensions, 1, i - 1))) :
                        i \in 1 .. Len(extensions)}]

Unmeant(bytes) == [bytes |-> bytes, meant |-> FALSE]

Plainest == Fields(<<>>, <<>>, <<0>>)
Small == Fields(<<>>, <<0, 1>>, <<0>>) \o Length2(ServerName(<<1>>))

Named ==
    {Meant(Fields(s, <<0, 1>>, c), e[1] \o <<ServerName(n)>> \o e[2], n, <<>>) :
        s \in {<<>>, <<22>>}, c \in {<<>>, <<0>>}, n \in {<<>>, <<1>>},
        e \in {<<<<Protocol>>, <<>>>>, <<<<Padding, Protocol>>, <<Padding>>>>}}

EveryHost == {Meant(Fields(<<>>, <<>>, <<>>), <<ServerName(<<n>>)>>, <<n>>, <<>>) : n \in 1 .. 12}

Nameless ==
    {Meant(Plainest, e, <<>>, b) :
        e \in {<<>>, <<Protocol>>, <<Padding, Padding>>},
        b \in {<<>>, Record(ServerName(<<1>>))}}

Blockless ==
    {[bytes |-> Record(Plainest), meant |-> TRUE, whole |-> Len(Record(Plainest)),
      name |-> <<>>, starts |-> {}],
     Unmeant(Record(Plainest) \o Record(ServerName(<<1>>)))}

Damaged == {Unmeant([Record(Small) EXCEPT ![i] = b]) :
               i \in 1 .. Len(Record(Small)), b \in {0, 255}}

Split == {Unmeant(Record(SubSeq(Small, 1, i)) \o Record(SubSeq(Small, i + 1, Len(Small)))) :
             i \in 1 .. Len(Small)}

MCMessages == Named \cup EveryHost \cup Nameless \cup Blockless \cup Damaged \cup Split

-----------------------------------------------------------------------------
MCDynamicHost == <<Plain("k8s"), Plain("localhost")>>

Target(kind, names, namespace, contexts) ==
    [kind |-> kind, name |-> names, port |-> 443,
     namespace |-> <<Plain(namespace)>>, context |-> contexts]

\* Names that look like markers, and names with dots.
Web == Target("svc", <<Plain("web")>>, "ns", <<Plain("prod"), Plain("eu")>>)
Svc == Target("svc", <<Plain("svc")>>, "svc", <<Plain("ns")>>)
Pod == Target("pod", <<Plain("svc"), Plain("a")>>, "pod", <<Plain("cx")>>)
Dotted == Target("pod", <<Plain("a"), Plain("pod"), Plain("b")>>, "n", <<Plain("c")>>)
Fixed == Target("svc", <<Plain("fixed")>>, "n", <<Plain("c")>>)
Hidden == Target("pod", <<Plain("a"), Plain("svc"), Plain("b")>>, "n", <<Plain("c")>>)

MCTargets == {Web, Svc, Pod, Dotted, Fixed, Hidden}

Spelled(r) == Format(r, MCDynamicHost)

Web80(port) == [Web EXCEPT !.port = port]
Blank == <<Plain("")>>

MCHosts ==
    LET h == <<Spelled(Web), Spelled(Svc), Spelled(Pod), Spelled(Dotted),
               Spelled(Fixed), Spelled(Hidden),
               Spelled(Web80(0)), Spelled(Web80(65536)),
               Spelled([Web EXCEPT !.name = Blank]),
               Spelled([Web EXCEPT !.namespace = Blank]),
               Spelled([Web EXCEPT !.context = Blank]),
               <<Plain("web"), Plain("localhost")>>>>
    IN  [n \in {<<i>> : i \in 1 .. 12} |-> h[n[1]]]

MCRoutes == Spelled(Fixed) :> Target("svc", <<Plain("other")>>, "n", <<Plain("c")>>)
=============================================================================
