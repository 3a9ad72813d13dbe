-------------------------------- MODULE Hello -------------------------------
(***************************************************************************)
(* How a TLS connection finds its route: handleTLSConnection up to the     *)
(* tunnel (internal/httpserver/tls_passthrough.go) and the choice of the   *)
(* route in GetOrCreateTunnel (internal/tunnelmgr/operations.go).  One     *)
(* Read, whose result may be the beginning of what the client sends, is    *)
(* parsed for the server name; nothing recovers if the parser indexes      *)
(* beyond it, which ends the process ("panic").                            *)
(***************************************************************************)
EXTENDS DynamicRoute

CONSTANTS
    Messages,       \* what clients send
    HeaderLen,      \* handshake header, version and random (38 bytes)
    BufferSize,     \* of the bufio.Reader, which Peek has filled (4096)
    Hosts,          \* the hostnames that names stand for, by name
    Routes,         \* http.k8s.routes: routes, by hostname
    DynamicHost,    \* http.k8s.dynamic_host
    Targets         \* routes that clients spell in hostnames

ASSUME HeaderAssumption == HeaderLen \in Nat \ {0}
ASSUME BufferAssumption == BufferSize \in Nat \ {0}

(***************************************************************************)
(* A message is a record: its bytes and whether it begins with a record    *)
(* that is a hello in order ("meant").  Of such a message are also given   *)
(* the length of that record ("whole"), where in the handshake extensions  *)
(* start ("starts"), and the server name (<<>> if there is none).          *)
(***************************************************************************)
ByteAt(m, i) == m.bytes[i + 6]
NumberAt(m, i) == 256 * ByteAt(m, i) + ByteAt(m, i + 1)

EndOf(m) == m.whole - 5
CiphersAt(m) == HeaderLen + 1 + ByteAt(m, HeaderLen)
CompressionAt(m) == CiphersAt(m) + 2 + NumberAt(m, CiphersAt(m))
BlockAt(m) == CompressionAt(m) + 1 + ByteAt(m, CompressionAt(m))
Following(m, b) == b + 4 + NumberAt(m, b + 2)

RecordInOrder(m) ==
    /\ m.whole \in 9 .. Len(m.bytes)
    /\ m.bytes[1] = 22 /\ m.whole = 5 + 256 * m.bytes[4] + m.bytes[5]
    /\ ByteAt(m, 0) = 1

FieldsInOrder(m) ==
    /\ HeaderLen < EndOf(m) /\ CiphersAt(m) + 1 < EndOf(m)
    /\ CompressionAt(m) < EndOf(m) /\ BlockAt(m) <= EndOf(m)

\* Without extensions: nothing follows (the parser would take it for them).
NoBlock(m) ==
    BlockAt(m) = EndOf(m) /\ m.starts = {} /\ m.whole = Len(m.bytes)

\* With extensions: they fill the record, one behind the other.
BlockInOrder(m) ==
    /\ BlockAt(m) + 1 < EndOf(m)
    /\ EndOf(m) = BlockAt(m) + 2 + NumberAt(m, BlockAt(m))
    /\ m.starts \subseteq BlockAt(m) + 2 .. EndOf(m) - 4
    /\ BlockAt(m) + 2 \in m.starts \cup {EndOf(m)}
    /\ \A b \in m.starts :
          /\ Following(m, b) \in m.starts \cup {EndOf(m)}
          /\ \A c \in m.starts : b < c => Following(m, b) <= c

\* At most one of them is a server name, and that is one name.
NameInOrder(m) ==
    LET names == {b \in m.starts : NumberAt(m, b) = 0}
    IN  \/ names = {} /\ m.name = <<>>
        \/ \E b \in names :
              /\ names = {b}
              /\ 4 < NumberAt(m, b + 2)
              /\ NumberAt(m, b + 2) = 5 + NumberAt(m, b + 7)
              /\ m.name = SubSeq(m.bytes, b + 15, b + 14 + NumberAt(m, b + 7))

InOrder(m) ==
    /\ RecordInOrder(m) /\ FieldsInOrder(m) /\ NameInOrder(m)
    /\ NoBlock(m) \/ BlockInOrder(m)

ASSUME MessagesAssumption ==
    \A m \in Messages :
        m.bytes \in Seq(0 .. 255) /\ (m.meant => InOrder(m))

Labels == [head : STRING, port : Int]

\* A route as Validate sees it: what counts of a text is whether it is empty.
Shape(r) ==
    [context |-> IF IsBlank(r.context) THEN "" ELSE "given",
     namespace |-> IF IsBlank(r.namespace) THEN "" ELSE "given",
     service |-> IF r.kind = "svc" /\ ~IsBlank(r.name) THEN "given" ELSE "",
     pod |-> IF r.kind = "pod" /\ ~IsBlank(r.name) THEN "given" ELSE "",
     port |-> r.port]

\* The configured routes have passed Validate.
ASSUME RoutesAssumption ==
    /\ NoRoute \notin {Routes[h] : h \in DOMAIN Routes}
    /\ \A h \in DOMAIN Routes : ValidRouteBase(Shape(Routes[h]))

\* What clients spell is a service or a pod, each part of labels, the last of
\* the name without a port of its own.
ASSUME TargetsAssumption ==
    /\ DynamicHost \in Seq(Labels)
    /\ \A r \in Targets :
          /\ r = [kind |-> r.kind, name |-> r.name, port |-> r.port,
                  namespace |-> r.namespace, context |-> r.context]
          /\ r.kind \in {"svc", "pod"} /\ DynamicHost # <<>>
          /\ {r.name, r.namespace, r.context} \subseteq Seq(Labels) \ {<<>>}
          /\ r.name[Len(r.name)].port = NoDash
          /\ ValidRouteBase(Shape(r))

VARIABLES
    sent,     \* the message of the client
    data,     \* buf[:n]
    at,       \* where the handler is
    pos,      \* the offset of the parser in the handshake
    end,      \* where the extensions say they end
    name,     \* the server name
    route     \* its route

vars == <<sent, data, at, pos, end, name, route>>

Places == {"read", "validate", "session", "ciphers", "compression",
           "extensions", "scan", "lookup", "routed", "refused", "panic"}

Init ==
    /\ sent \in Messages
    /\ data = <<>> /\ at = "read" /\ pos = 0 /\ end = 0
    /\ name = <<>> /\ route = NoRoute

\* len(handshake): what follows the record header of five bytes.
Size == Len(data) - 5

Byte(i) == data[i + 6]
Number(i) == 256 * Byte(i) + Byte(i + 1)

-----------------------------------------------------------------------------
\* Mutant: only the size of buf bounds what is read.
ReadUpToBuf ==
    /\ at = "read"
    /\ \E n \in 1 .. Len(sent.bytes) : data' = SubSeq(sent.bytes, 1, n)
    /\ at' = "validate"
    /\ UNCHANGED <<sent, pos, end, name, route>>

\* One Read returns what has arrived, and not more than Peek has buffered.
ReadHello ==
    /\ at = "read"
    /\ \E n \in 1 .. Len(sent.bytes) :
          n <= BufferSize /\ data' = SubSeq(sent.bytes, 1, n)
    /\ at' = "validate"
    /\ UNCHANGED <<sent, pos, end, name, route>>

\* Errors lead to the error page.
Refuse ==
    /\ at' = "refused"
    /\ UNCHANGED <<sent, data, pos, end, name, route>>

\* A step that reads n bytes from pos on.
Indexing(n, Step) ==
    IF pos + n <= Size
    THEN Step
    ELSE at' = "panic" /\ UNCHANGED <<sent, data, pos, end, name, route>>

\* Mutant: the length of the record is not compared with what has arrived.
ValidateAnyLength ==
    /\ at = "validate"
    /\ IF Len(data) < 5 \/ data[1] # 22 \/ Size < 4 \/ Byte(0) # 1
       THEN Refuse
       ELSE /\ at' = "session" /\ pos' = HeaderLen
            /\ UNCHANGED <<sent, data, end, name, route>>

ValidateTLSHandshake ==
    /\ at = "validate"
    /\ IF \/ Len(data) < 5 \/ data[1] # 22
          \/ Len(data) < 5 + 256 * data[4] + data[5]
          \/ Size < 4 \/ Byte(0) # 1
       THEN Refuse
       ELSE /\ at' = "session" /\ pos' = HeaderLen
            /\ UNCHANGED <<sent, data, end, name, route>>

\* Mutant: the length of a field is read without a look at what is left.
SkipFieldUnchecked(here, width, next) ==
    /\ at = here
    /\ Indexing(width,
          /\ at' = next
          /\ pos' = pos + width + IF width = 1 THEN Byte(pos) ELSE Number(pos)
          /\ UNCHANGED <<sent, data, end, name, route>>)

\* skipToExtensions, one field at a time: its length takes "width" bytes.
SkipField(here, width, next) ==
    /\ at = here
    /\ IF Size < pos + width
       THEN Refuse
       ELSE Indexing(width,
                /\ at' = next
                /\ pos' = pos + width + IF width = 1 THEN Byte(pos) ELSE Number(pos)
                /\ UNCHANGED <<sent, data, end, name, route>>)

SkipToExtensions ==
    \/ SkipField("session", 1, "ciphers")
    \/ SkipField("ciphers", 2, "compression")
    \/ SkipField("compression", 1, "extensions")

ExtensionsLen ==
    /\ at = "extensions"
    /\ IF Size < pos + 2
       THEN Refuse
       ELSE Indexing(2,
                /\ at' = "scan"
                /\ pos' = pos + 2 /\ end' = pos + 2 + Number(pos)
                /\ UNCHANGED <<sent, data, name, route>>)

\* The extension at pos, of length len, is the server name.
TakeName(len) ==
    IF len < 5 \/ len < 5 + Number(pos + 7)
    THEN Refuse
    ELSE Indexing(9 + Number(pos + 7),
             /\ name' = SubSeq(data, pos + 15, pos + 14 + Number(pos + 7))
             /\ at' = "lookup"
             /\ UNCHANGED <<sent, data, pos, end, route>>)

\* Mutant: the header of the extension is not skipped.
NextExtensionInPlace(len) ==
    /\ pos' = pos + len
    /\ UNCHANGED <<sent, data, at, end, name, route>>

NextExtension(len) ==
    /\ pos' = pos + 4 + len
    /\ UNCHANGED <<sent, data, at, end, name, route>>

\* findSNIInExtensions, one extension at a time.
Scan ==
    /\ at = "scan"
    /\ IF pos + 4 > end \/ pos + 4 > Size
       THEN Refuse
       ELSE Indexing(4,
                LET len == Number(pos + 2)
                IN  \/ pos + 4 + len > Size /\ Refuse
                    \/ pos + 4 + len <= Size /\ Number(pos) = 0 /\ TakeName(len)
                    \/ pos + 4 + len <= Size /\ Number(pos) # 0 /\ NextExtension(len))

-----------------------------------------------------------------------------
Host == IF name \in DOMAIN Hosts THEN Hosts[name] ELSE <<Plain("?")>>

\* GetOrCreateTunnel: routes of the configuration come first.
Resolve(h) ==
    IF h \in DOMAIN Routes THEN Routes[h]
                           ELSE ParseDynamicHostname(h, DynamicHost)

Lookup ==
    /\ at = "lookup"
    /\ route' = Resolve(Host)
    /\ at' = IF Resolve(Host) = NoRoute THEN "refused" ELSE "routed"
    /\ UNCHANGED <<sent, data, pos, end, name>>

Next ==
    \/ ReadHello \/ ValidateTLSHandshake \/ SkipToExtensions \/ ExtensionsLen
    \/ Scan \/ Lookup

Spec == Init /\ [][Next]_vars

\* The handler runs on; a client that has sent a first byte has sent it.
FairSpec == Spec /\ WF_vars(Next)

-----------------------------------------------------------------------------
(* Properties.                                                             *)

\* The types; nothing but a prefix of what the client sent is parsed.
HelloTypeOK ==
    /\ sent \in Messages
    /\ Len(data) <= BufferSize
    /\ data = SubSeq(sent.bytes, 1, Len(data))
    /\ at \in Places
    /\ pos \in Nat /\ end \in Nat
    /\ name \in Seq(0 .. 255)

\* The parser never reads behind what has arrived, whatever that is.  The
\* handler's goroutine recovers from nothing: a panic ends the process.
NeverOutOfRange == at # "panic"

\* The server name is found if the whole hello came with the first Read, and
\* it is the client's; of a hello that was cut no name is taken.
NameIsMeant ==
    sent.meant /\ at \in {"lookup", "routed", "refused"} =>
        name = IF Len(data) >= sent.whole THEN sent.name ELSE <<>>

\* Hostnames in the documented format lead to the route they spell, unless
\* the configuration has a route for them.
SpelledRoutes ==
    name # <<>> /\ at \in {"routed", "refused"} =>
        \A r \in Targets :
            Unambiguous(r) /\ Host = Format(r, DynamicHost) =>
                route = IF Host \in DOMAIN Routes THEN Routes[Host] ELSE r

\* A route is never less than Validate demands of one, although Validate sees
\* the configured ones only.
RouteIsValid == at = "routed" => ValidRouteBase(Shape(route))

\* Every connection is routed or refused: the scan always gets ahead.
ParseEnds == <>(at \in {"routed", "refused"})
=============================================================================
