----------------------------- MODULE HelloProofs ----------------------------
(***************************************************************************)
(* Proofs about Hello, for any messages, buffer, configured routes and     *)
(* dynamic host: the parser stays within the bytes it was given, hostnames *)
(* in the documented format are understood, a route is what Validate would *)
(* accept, and the name of a hello in order is the one that is looked up.  *)
(***************************************************************************)
EXTENDS Hello, SequenceTheorems, TLAPS

\* What the parser knows: data is a prefix of what was sent.
DataOK ==
    /\ sent \in Messages /\ data \in Seq(0 .. 255)
    /\ Len(data) <= BufferSize /\ Len(data) <= Len(sent.bytes)
    /\ data = SubSeq(sent.bytes, 1, Len(data))

ParserOK ==
    /\ at \in Places \ {"panic"}
    /\ pos \in Nat /\ end \in Nat
    /\ name \in Seq(0 .. 255)

HelloInv == DataOK /\ ParserOK

LEMMA InitHello == Init => HelloInv
<1> SUFFICES ASSUME Init PROVE HelloInv
  OBVIOUS
<1>1. DataOK
  <2>1. sent.bytes \in Seq(0 .. 255) /\ Len(data) = 0 /\ data = <<>>
    BY MessagesAssumption DEF Init
  <2>2. SubSeq(sent.bytes, 1, 0) = <<>>
    BY <2>1
  <2> QED
    BY <2>1, <2>2, BufferAssumption DEF Init, DataOK
<1> QED
  BY <1>1 DEF Init, ParserOK, HelloInv, Places

\* A part of a sequence.
LEMMA PrefixType ==
    ASSUME NEW S, NEW s \in Seq(S), NEW n \in Nat, n <= Len(s)
    PROVE  /\ SubSeq(s, 1, n) \in Seq(S) /\ Len(SubSeq(s, 1, n)) = n
           /\ \A i \in 1 .. n : SubSeq(s, 1, n)[i] = s[i]
<1>1. \A i \in 1 .. n : s[i] \in S
  OBVIOUS
<1> QED
  BY <1>1, SubSeqProperties

\* What Read returns is a prefix of the message.
LEMMA ReadData ==
    ASSUME DataOK, ReadHello PROVE DataOK'
<1>1. PICK n \in 1 .. Len(sent.bytes) :
          n <= BufferSize /\ data' = SubSeq(sent.bytes, 1, n)
  BY DEF ReadHello
<1>2. sent.bytes \in Seq(0 .. 255) /\ n \in Nat /\ n <= Len(sent.bytes)
  BY <1>1, MessagesAssumption DEF DataOK
<1>3. Len(data') = n /\ data' \in Seq(0 .. 255)
  BY <1>1, <1>2, PrefixType, ZenonT(30)
<1> QED
  BY <1>1, <1>2, <1>3 DEF ReadHello, DataOK

\* The bytes that the parser may look at are bytes.
LEMMA ByteType ==
    ASSUME DataOK, NEW i \in Nat, i < Size PROVE Byte(i) \in Nat
<1>1. data \in Seq(0 .. 255)
  BY DEF DataOK
<1>2. i + 6 \in 1 .. Len(data)
  BY <1>1 DEF Size
<1>3. data[i + 6] \in 0 .. 255
  BY <1>1, <1>2, ElementOfSeq
<1> QED
  BY <1>3 DEF Byte

LEMMA NumberType ==
    ASSUME DataOK, NEW i \in Nat, i + 1 < Size PROVE Number(i) \in Nat
<1>1. i < Size /\ i + 1 \in Nat
  BY DEF DataOK, Size
<1>2. Byte(i) \in Nat /\ Byte(i + 1) \in Nat
  BY <1>1, ByteType
<1> QED
  BY <1>2 DEF Number

\* Fields are skipped within the handshake.
LEMMA SkipKeeps ==
    ASSUME HelloInv, NEW here, NEW width \in {1, 2}, NEW next \in Places \ {"panic"},
           SkipField(here, width, next)
    PROVE  ParserOK'
<1>1. CASE Size < pos + width
  BY <1>1 DEF SkipField, Refuse, HelloInv, ParserOK, Places
<1>2. CASE ~(Size < pos + width)
  <2>1. Size \in Int /\ pos \in Nat /\ pos + width <= Size
    BY <1>2 DEF HelloInv, DataOK, ParserOK, Size
  <2>2. (IF width = 1 THEN Byte(pos) ELSE Number(pos)) \in Nat
    <3>1. CASE width = 1
      BY <2>1, <3>1, ByteType DEF HelloInv
    <3>2. CASE width = 2
      BY <2>1, <3>2, NumberType DEF HelloInv
    <3> QED
      BY <3>1, <3>2
  <2>3. /\ at' = next
        /\ pos' = pos + width + IF width = 1 THEN Byte(pos) ELSE Number(pos)
        /\ UNCHANGED <<sent, data, end, name, route>>
    BY <1>2, <2>1 DEF SkipField, Indexing
  <2> QED
    BY <2>1, <2>2, <2>3 DEF HelloInv, ParserOK
<1> QED
  BY <1>1, <1>2

\* The scan of the extensions looks at headers and contents that are there.
LEMMA ScanKeeps ==
    ASSUME HelloInv, Scan PROVE ParserOK'
<1>1. CASE pos + 4 > end \/ pos + 4 > Size
  BY <1>1 DEF Scan, Refuse, HelloInv, ParserOK, Places
<1>2. CASE ~(pos + 4 > end \/ pos + 4 > Size)
  <2> DEFINE len == Number(pos + 2)
  <2>1. Size \in Int /\ pos \in Nat /\ pos + 4 <= Size /\ Size = Len(data) - 5
    BY <1>2 DEF HelloInv, DataOK, ParserOK, Size
  <2>2. len \in Nat
    BY <2>1, NumberType DEF HelloInv
  <2>3. \/ Refuse
        \/ pos + 4 + len <= Size /\ TakeName(len)
        \/ NextExtension(len)
    BY <1>2, <2>1 DEF Scan, Indexing
  <2>4. CASE Refuse
    BY <2>4 DEF Refuse, HelloInv, ParserOK, Places
  <2>5. CASE pos + 4 + len <= Size /\ TakeName(len)
    <3>1. CASE len < 5 \/ len < 5 + Number(pos + 7)
      BY <2>5, <3>1 DEF TakeName, Refuse, HelloInv, ParserOK, Places
    <3>2. CASE ~(len < 5 \/ len < 5 + Number(pos + 7))
      <4> DEFINE n == Number(pos + 7)
      <4>1. n \in Nat
        BY <2>1, <2>2, <2>5, <3>2, NumberType DEF HelloInv
      <4>2. pos + 9 + n <= Size
        BY <2>1, <2>2, <2>5, <3>2, <4>1
      <4>3. /\ name' = SubSeq(data, pos + 15, pos + 14 + n)
            /\ at' = "lookup" /\ UNCHANGED <<pos, end>>
        <5>1. pos + (9 + n) <= Size
          BY <2>1, <4>1, <4>2
        <5> QED
          BY <2>5, <3>2, <5>1 DEF TakeName, Indexing
      <4>4. name' \in Seq(0 .. 255)
        <5>1. data \in Seq(0 .. 255) /\ pos + 14 + n <= Len(data)
          BY <2>1, <4>1, <4>2 DEF HelloInv, DataOK
        <5>2. \A i \in pos + 15 .. pos + 14 + n : data[i] \in 0 .. 255
          BY <2>1, <4>1, <5>1
        <5> HIDE DEF n
        <5> QED
          BY <2>1, <4>1, <4>3, <5>2, SubSeqProperties
      <4> QED
        BY <4>3, <4>4 DEF HelloInv, ParserOK, Places
    <3> QED
      BY <3>1, <3>2
  <2>6. CASE NextExtension(len)
    BY <2>1, <2>2, <2>6 DEF NextExtension, HelloInv, ParserOK
  <2> QED
    BY <2>3, <2>4, <2>5, <2>6
<1> QED
  BY <1>1, <1>2

LEMMA StepHello == HelloInv /\ [Next]_vars => HelloInv'
<1> SUFFICES ASSUME HelloInv, [Next]_vars PROVE HelloInv'
  OBVIOUS
<1>1. CASE UNCHANGED vars
  BY <1>1 DEF vars, HelloInv, DataOK, ParserOK
<1>2. CASE ReadHello
  <2>1. DataOK'
    BY <1>2, ReadData DEF HelloInv
  <2> QED
    BY <1>2, <2>1 DEF ReadHello, HelloInv, ParserOK, Places
<1>3. ASSUME ~ReadHello, Next PROVE HelloInv'
  <2>1. DataOK'
    BY <1>3 DEF Next, ValidateTLSHandshake, SkipToExtensions, SkipField, ExtensionsLen,
                Scan, TakeName, NextExtension, Lookup, Refuse, Indexing, HelloInv, DataOK
  <2>2. CASE ValidateTLSHandshake
    BY <2>1, <2>2, HeaderAssumption DEF ValidateTLSHandshake, Refuse, HelloInv, ParserOK, Places
  <2>3. CASE SkipToExtensions
    BY <2>1, <2>3, SkipKeeps DEF SkipToExtensions, HelloInv, Places
  <2>4. CASE ExtensionsLen
    <3>1. CASE Size < pos + 2
      BY <2>1, <2>4, <3>1 DEF ExtensionsLen, Refuse, HelloInv, ParserOK, Places
    <3>2. CASE ~(Size < pos + 2)
      <4>1. Size \in Int /\ pos \in Nat /\ pos + 2 <= Size
        BY <3>2 DEF HelloInv, DataOK, ParserOK, Size
      <4>2. Number(pos) \in Nat
        BY <4>1, NumberType DEF HelloInv
      <4>3. at' = "scan" /\ pos' = pos + 2 /\ end' = pos + 2 + Number(pos) /\ name' = name
        BY <2>4, <3>2, <4>1 DEF ExtensionsLen, Indexing
      <4> QED
        BY <2>1, <4>1, <4>2, <4>3 DEF HelloInv, ParserOK, Places
    <3> QED
      BY <3>1, <3>2
  <2>5. CASE Scan
    BY <2>1, <2>5, ScanKeeps DEF HelloInv
  <2>6. CASE Lookup
    BY <2>1, <2>6 DEF Lookup, HelloInv, ParserOK, Places
  <2> QED
    BY <1>3, <2>1, <2>2, <2>3, <2>4, <2>5, <2>6 DEF Next, HelloInv
<1> QED
  BY <1>1, <1>2, <1>3

LEMMA HelloHolds == Spec => []HelloInv
  BY InitHello, StepHello, PTL DEF Spec

\* The variables keep their types, and data is what the client sent.
THEOREM HelloTypeCorrect == Spec => []HelloTypeOK
<1>1. HelloInv => HelloTypeOK
  BY DEF HelloInv, DataOK, ParserOK, HelloTypeOK
<1> QED
  BY <1>1, HelloHolds, PTL

\* Whatever a client sends, the parser does not index beyond it.
THEOREM ParserStaysInRange == Spec => []NeverOutOfRange
<1>1. HelloInv => NeverOutOfRange
  BY DEF HelloInv, ParserOK, NeverOutOfRange
<1> QED
  BY <1>1, HelloHolds, PTL
-----------------------------------------------------------------------------
(* Hostnames.                                                              *)

\* u is a sequence over S, made of s, the label x and t.
Around(S, u, s, x, t) ==
    /\ u \in Seq(S) /\ Len(u) = Len(s) + 1 + Len(t)
    /\ u[Len(s) + 1] = x
    /\ Before(u, Len(s) + 1) = s /\ After(u, Len(s) + 1) = t
    /\ \A j \in 1 .. Len(s) : u[j] = s[j]
    /\ \A j \in Len(s) + 2 .. Len(s) + 1 + Len(t) : u[j] = t[j - (Len(s) + 1)]

LEMMA JoinedAround ==
    ASSUME NEW S, NEW s \in Seq(S), NEW t \in Seq(S), NEW x \in S
    PROVE  Around(S, s \o <<x>> \o t, s, x, t)
<1> DEFINE v == s \o <<x>>
           u == v \o t
           i == Len(s) + 1
<1>1. /\ v \in Seq(S) /\ Len(v) = i /\ v[i] = x
      /\ \A j \in 1 .. Len(s) : v[j] = s[j]
  BY ConcatProperties
<1> HIDE DEF v
<1>2. /\ u \in Seq(S) /\ Len(u) = i + Len(t)
      /\ \A j \in 1 .. i : u[j] = v[j]
      /\ \A j \in i + 1 .. i + Len(t) : u[j] = t[j - i]
  <2>1. /\ u \in Seq(S) /\ Len(u) = Len(v) + Len(t)
        /\ \A j \in 1 .. Len(v) + Len(t) : u[j] = IF j <= Len(v) THEN v[j] ELSE t[j - Len(v)]
    BY <1>1, ConcatProperties
  <2>2. i \in Nat /\ Len(t) \in Nat
    OBVIOUS
  <2> HIDE DEF i, u
  <2> QED
    BY <1>1, <2>1, <2>2
<1>3. u = s \o <<x>> \o t
  BY DEF v
<1> HIDE DEF u
<1>4. u[i] = x /\ \A j \in 1 .. Len(s) : u[j] = s[j]
  BY <1>1, <1>2
<1>5. Before(u, i) = s
  <2>1. /\ SubSeq(u, 1, i - 1) \in Seq(S) /\ Len(SubSeq(u, 1, i - 1)) = Len(s)
        /\ \A j \in 1 .. Len(s) : SubSeq(u, 1, i - 1)[j] = u[j]
    BY <1>2, SubSeqProperties
  <2> QED
    BY <1>4, <2>1, SeqEqual DEF Before
<1>6. After(u, i) = t
  <2>1. \A j \in i + 1 .. Len(u) : u[j] \in S
    BY <1>2
  <2>2. /\ SubSeq(u, i + 1, Len(u)) \in Seq(S)
        /\ Len(SubSeq(u, i + 1, Len(u))) = Len(t)
        /\ \A j \in 1 .. Len(t) : SubSeq(u, i + 1, Len(u))[j] = u[j + i]
    BY <1>2, <2>1, SubSeqProperties
  <2>3. \A j \in 1 .. Len(t) : u[j + i] = t[j]
    BY <1>2
  <2> QED
    BY <2>2, <2>3, SeqEqual DEF After
<1> QED
  BY <1>2, <1>3, <1>4, <1>5, <1>6 DEF Around

\* The last marker is the one with no other behind it.
LEMMA LastMarker ==
    ASSUME NEW s, NEW text, NEW i \in Markers(s, text), Markers(s, text) \subseteq Int,
           \A j \in Markers(s, text) : j <= i
    PROVE  LastIndex(s, text) = i
<1> DEFINE P(x) == x \in Markers(s, text) /\ \A j \in Markers(s, text) : j <= x
<1>1. P(i)
  OBVIOUS
<1>2. \A x : P(x) => x = i
  OBVIOUS
<1>3. LastIndex(s, text) = CHOOSE x \in Markers(s, text) :
                               \A j \in Markers(s, text) : j <= x
  BY DEF LastIndex
<1> QED
  BY <1>1, <1>2, <1>3

\* t is s, of length k, with x for its last element.
Replaced(S, s, k, x, t) ==
    /\ t \in Seq(S) /\ Len(t) = k /\ t[k] = x
    /\ \A j \in 1 .. k - 1 : t[j] = s[j]
    /\ Append(Before(t, k), s[k]) = s

LEMMA LastReplaced ==
    ASSUME NEW S, NEW s \in Seq(S), NEW k \in Nat \ {0}, Len(s) = k, NEW x \in S,
           NEW t, t = Append(Before(s, k), x)
    PROVE  Replaced(S, s, k, x, t)
<1> DEFINE b == Before(s, k)
<1>1. /\ b \in Seq(S) /\ Len(b) = k - 1
      /\ \A j \in 1 .. k - 1 : b[j] = s[j]
  <2>1. k - 1 \in Nat /\ k - 1 <= Len(s)
    OBVIOUS
  <2> QED
    BY <2>1, PrefixType DEF Before
<1>2. t = Append(b, x)
  OBVIOUS
<1> HIDE DEF b
<1>3. /\ t \in Seq(S) /\ Len(t) = k /\ t[k] = x
      /\ \A j \in 1 .. k - 1 : t[j] = b[j]
  BY <1>1, <1>2, AppendProperties
<1>4. Before(t, k) = b
  <2>1. /\ SubSeq(t, 1, k - 1) \in Seq(S) /\ Len(SubSeq(t, 1, k - 1)) = k - 1
        /\ \A j \in 1 .. k - 1 : SubSeq(t, 1, k - 1)[j] = t[j]
    BY <1>3, PrefixType
  <2> QED
    BY <1>1, <1>3, <2>1, SeqEqual DEF Before
<1>5. Append(b, s[k]) = s
  <2>1. s[k] \in S
    OBVIOUS
  <2>2. /\ Append(b, s[k]) \in Seq(S) /\ Len(Append(b, s[k])) = k
        /\ \A j \in 1 .. k - 1 : Append(b, s[k])[j] = b[j]
        /\ Append(b, s[k])[k] = s[k]
    BY <1>1, <2>1, AppendProperties
  <2>3. \A j \in 1 .. k : Append(b, s[k])[j] = s[j]
    BY <1>1, <2>2
  <2> QED
    BY <2>2, <2>3, SeqEqual
<1> QED
  BY <1>1, <1>3, <1>4, <1>5 DEF Replaced

Hostname(kind, t, namespace, context, d) ==
    t \o <<Plain(kind)>> \o namespace
    \o <<Plain("ns")>> \o context \o <<Plain("cx")>> \o d

\* The markers of a hostname in the documented format are found: the last
\* ".ns.", and before it the last ".svc." or ".pod.".
LEMMA HostnameParses ==
    ASSUME NEW S, NEW t \in Seq(S), NEW namespace \in Seq(S),
           NEW context \in Seq(S), NEW d \in Seq(S), NEW kind \in {"svc", "pod"},
           Plain(kind) \in S, Plain("ns") \in S, Plain("cx") \in S,
           NEW k \in Nat \ {0}, Len(t) = k, Len(namespace) = 1,
           NEW n \in Nat \ {0}, Len(context) = n, d # <<>>,
           \A j \in 1 .. n - 1 : context[j] # Plain("ns"),
           kind = "pod" => \A j \in 2 .. k : t[j] # Plain("svc")
    PROVE  ParseDynamicHostname(Hostname(kind, t, namespace, context, d), d)
           = MakeRoute(kind, t, namespace, context)
<1> DEFINE x == Plain(kind)
           y == Plain("ns")
           z == Plain("cx")
           A == t \o <<x>> \o namespace
           B == A \o <<y>> \o context
           h == B \o <<z>> \o d
<1>a. x \in S /\ y \in S /\ z \in S /\ x = Plain(kind) /\ y = Plain("ns") /\ z = Plain("cx")
  OBVIOUS
<1>b. /\ A = t \o <<x>> \o namespace /\ B = A \o <<y>> \o context
      /\ h = B \o <<z>> \o d
  OBVIOUS
<1>c. h = Hostname(kind, t, namespace, context, d)
  BY DEF Hostname
<1> HIDE DEF x, y, z, A, B, h
<1>1. /\ A \in Seq(S) /\ Len(A) = k + 2 /\ A[k + 1] = Plain(kind)
      /\ Before(A, k + 1) = t /\ After(A, k + 1) = namespace
      /\ \A j \in 1 .. k : A[j] = t[j]
  <2>1. Around(S, A, t, x, namespace)
    BY <1>a, <1>b, JoinedAround, Zenon
  <2> QED
    BY <1>a, <2>1 DEF Around
<1>2. /\ B \in Seq(S) /\ Len(B) = k + 3 + n /\ B[k + 3] = Plain("ns")
      /\ Before(B, k + 3) = A /\ After(B, k + 3) = context
      /\ \A j \in k + 4 .. k + 3 + n : B[j] = context[j - (k + 3)]
  <2>1. A \in Seq(S)
    BY <1>1
  <2>2. Around(S, B, A, y, context)
    BY <1>a, <1>b, <2>1, JoinedAround, Zenon
  <2>3. Len(A) + 1 = k + 3 /\ Len(A) + 2 = k + 4
    BY <1>1
  <2>4. /\ B \in Seq(S) /\ Len(B) = k + 3 + n /\ B[k + 3] = y
        /\ Before(B, k + 3) = A /\ After(B, k + 3) = context
        /\ \A j \in k + 4 .. k + 3 + n : B[j] = context[j - (k + 3)]
    BY <2>2, <2>3 DEF Around
  <2> QED
    BY <1>a, <2>4
<1> DEFINE m == Len(B) + 1
<1>3. /\ Len(h) = m + Len(d) /\ h[m] = Plain("cx")
      /\ Before(h, m) = B /\ After(h, m) = d
  <2>1. B \in Seq(S)
    BY <1>2
  <2>2. Around(S, h, B, z, d)
    BY <1>a, <1>b, <2>1, JoinedAround, Zenon
  <2> QED
    BY <1>a, <2>2 DEF Around
<1>4. Len(h) - Len(d) = m /\ m >= 2
  BY <1>2, <1>3
<1> HIDE DEF m
<1>5. HasSuffix(h, d)
  BY <1>3, <1>4 DEF HasSuffix
<1>6. k + 3 \in Markers(B, "ns") /\ LastIndex(B, "ns") = k + 3
  <2>1. k + 3 \in Markers(B, "ns")
    BY <1>2 DEF Markers
  <2>2. ASSUME NEW j \in Markers(B, "ns"), ~(j <= k + 3) PROVE FALSE
    <3>1. j \in k + 4 .. k + 3 + n - 1 /\ B[j] = Plain("ns")
      BY <1>2, <2>2 DEF Markers
    <3>2. j - (k + 3) \in 1 .. n - 1 /\ B[j] = context[j - (k + 3)]
      BY <1>2, <3>1
    <3> QED
      BY <3>1, <3>2
  <2>3. Markers(B, "ns") \subseteq Int
    BY DEF Markers
  <2> QED
    BY <2>1, <2>2, <2>3, LastMarker
<1>7. ParseDynamicHostname(h, d) = ParseTarget(A, context)
  BY <1>2, <1>3, <1>4, <1>5, <1>6 DEF ParseDynamicHostname
<1>8. k + 1 \in Markers(A, kind) /\ LastIndex(A, kind) = k + 1
  <2>1. k + 1 \in Markers(A, kind)
    BY <1>1 DEF Markers
  <2>2. \A j \in Markers(A, kind) : j <= k + 1
    BY <1>1 DEF Markers
  <2>3. Markers(A, kind) \subseteq Int
    BY DEF Markers
  <2> QED
    BY <2>1, <2>2, <2>3, LastMarker
<1>9. kind = "pod" => Markers(A, "svc") = {}
  <2> SUFFICES ASSUME kind = "pod", NEW j \in Markers(A, "svc") PROVE FALSE
    OBVIOUS
  <2>1. j \in 2 .. k + 1 /\ A[j] = Plain("svc")
    BY <1>1 DEF Markers
  <2>2. j # k + 1
    <3>1. Plain("pod").head = "pod" /\ Plain("svc").head = "svc"
      BY DEF Plain
    <3> QED
      BY <1>1, <2>1, <3>1
  <2>3. j \in 2 .. k /\ t[j] = Plain("svc")
    BY <1>1, <2>1, <2>2
  <2> QED
    BY <2>3
<1>10. ParseTarget(A, context) = MakeRoute(kind, t, namespace, context)
  BY <1>1, <1>8, <1>9 DEF ParseTarget
<1> QED
  BY <1>7, <1>10, <1>c

\* What MakeRoute makes of parts that are not empty.
LEMMA RouteMade ==
    ASSUME NEW kind, NEW namespace, NEW context, NEW t,
           ~IsBlank(Append(Before(t, Len(t)), Plain(t[Len(t)].head))),
           ~IsBlank(namespace), ~IsBlank(context), ValidPort(t[Len(t)].port)
    PROVE  MakeRoute(kind, t, namespace, context) =
               [kind |-> kind,
                name |-> Append(Before(t, Len(t)), Plain(t[Len(t)].head)),
                port |-> t[Len(t)].port, namespace |-> namespace, context |-> context]
  BY DEF MakeRoute

LEMMA PlainLabel ==
    ASSUME NEW x \in Labels, x.port = NoDash PROVE Plain(x.head) = x
  BY DEF Labels, Plain

LEMMA PortIsDashed == ASSUME NEW p, ValidPort(p) PROVE p # NoDash /\ p \in Int
  BY SMTT(30) DEF ValidPort, NoDash

LEMMA ShapeIsValid ==
    ASSUME NEW r, ValidRouteBase(Shape(r))
    PROVE  /\ ValidPort(r.port)
           /\ ~IsBlank(r.context) /\ ~IsBlank(r.namespace) /\ ~IsBlank(r.name)
  BY DEF Shape, ValidRouteBase

\* A hostname that is parsed gives a complete route.
LEMMA ParsedIsValid ==
    ASSUME NEW h, NEW d, ParseDynamicHostname(h, d) # NoRoute
    PROVE  ValidRouteBase(Shape(ParseDynamicHostname(h, d)))
<1>1. PICK kind, target, namespace, context :
          /\ kind \in {"svc", "pod"}
          /\ ParseDynamicHostname(h, d) = MakeRoute(kind, target, namespace, context)
  BY DEF ParseDynamicHostname, ParseTarget
<1> QED
  BY <1>1 DEF MakeRoute, ValidRouteBase, Shape

\* What the documented format gives a route leads back to the route.
LEMMA FormatParses ==
    ASSUME NEW r \in Targets, Unambiguous(r)
    PROVE  ParseDynamicHostname(Format(r, DynamicHost), DynamicHost) = r
<1> DEFINE k == Len(r.name)
           n == Len(r.context)
           last == [head |-> r.name[k].head, port |-> r.port]
           t == Append(Before(r.name, k), last)
           S == Labels \cup {Plain(r.kind), Plain("ns"), Plain("cx")}
<1>1. /\ r.kind \in {"svc", "pod"} /\ DynamicHost \in Seq(Labels) /\ DynamicHost # <<>>
      /\ {r.name, r.namespace, r.context} \subseteq Seq(Labels) \ {<<>>}
      /\ r.name[k].port = NoDash /\ ValidRouteBase(Shape(r))
  BY TargetsAssumption, Zenon
<1>2. r = [kind |-> r.kind, name |-> r.name, port |-> r.port,
           namespace |-> r.namespace, context |-> r.context]
  BY TargetsAssumption, Zenon
<1>3. /\ r.name \in Seq(Labels) /\ r.namespace \in Seq(Labels) /\ r.context \in Seq(Labels)
      /\ r.name # <<>> /\ r.context # <<>>
  BY <1>1
<1>4. k \in Nat \ {0} /\ n \in Nat \ {0}
  BY <1>3
<1>5. /\ ValidPort(r.port) /\ r.port # NoDash /\ r.port \in Int
      /\ ~IsBlank(r.context) /\ ~IsBlank(r.namespace) /\ ~IsBlank(r.name)
  <2>1. /\ ValidPort(r.port)
        /\ ~IsBlank(r.context) /\ ~IsBlank(r.namespace) /\ ~IsBlank(r.name)
    BY <1>1, ShapeIsValid
  <2> QED
    BY <2>1, PortIsDashed
<1>6. Plain(r.name[k].head) = r.name[k]
  <2>1. r.name[k] \in Labels
    BY <1>3, <1>4, ElementOfSeq
  <2> QED
    BY <1>1, <2>1, PlainLabel
<1>7. last \in Labels /\ last.head = r.name[k].head /\ last.port = r.port
  <2>1. r.name[k] \in Labels
    BY <1>3, <1>4, ElementOfSeq
  <2>2. r.port \in Int
    BY <1>5
  <2> QED
    BY <2>1, <2>2 DEF Labels
<1> HIDE DEF last
<1>8. /\ t \in Seq(Labels) /\ Len(t) = k /\ t[k] = last
      /\ \A j \in 1 .. k - 1 : t[j] = r.name[j]
      /\ Append(Before(t, k), r.name[k]) = r.name
  <2> DEFINE w == r.name
  <2>1. t = Append(Before(w, k), last) /\ Len(w) = k /\ w \in Seq(Labels)
    BY <1>3
  <2> HIDE DEF t, k, w
  <2>2. Replaced(Labels, w, k, last, t)
    BY <1>4, <1>7, <2>1, LastReplaced, Zenon
  <2> QED
    BY <2>2 DEF w, Replaced
<1>9. Format(r, DynamicHost) = Hostname(r.kind, t, r.namespace, r.context, DynamicHost)
  <2>1. Before(r.name, k) \in Seq(Labels)
    <3>1. k - 1 \in Nat /\ k - 1 <= Len(r.name)
      BY <1>4
    <3> QED
      BY <1>3, <3>1, PrefixType DEF Before
  <2>2. t = Before(r.name, k) \o <<last>>
    BY <1>7, <2>1, AppendIsConcat
  <2> QED
    BY <2>2 DEF Format, Hostname, last
<1> HIDE DEF t
<1>10. MakeRoute(r.kind, t, r.namespace, r.context) = r
  <2>1. Append(Before(t, Len(t)), Plain(t[Len(t)].head)) = r.name
    BY <1>6, <1>7, <1>8
  <2>2. MakeRoute(r.kind, t, r.namespace, r.context) =
            [kind |-> r.kind, name |-> r.name, port |-> t[Len(t)].port,
             namespace |-> r.namespace, context |-> r.context]
    <3>1. ValidPort(t[Len(t)].port)
      BY <1>5, <1>7, <1>8
    <3>2. ~IsBlank(Append(Before(t, Len(t)), Plain(t[Len(t)].head)))
      BY <1>5, <2>1
    <3>3. MakeRoute(r.kind, t, r.namespace, r.context) =
              [kind |-> r.kind,
               name |-> Append(Before(t, Len(t)), Plain(t[Len(t)].head)),
               port |-> t[Len(t)].port, namespace |-> r.namespace, context |-> r.context]
      BY <1>5, <3>1, <3>2, RouteMade, SMTT(30)
    <3> QED
      BY <2>1, <3>3, Zenon
  <2>3. t[Len(t)].port = r.port
    BY <1>7, <1>8
  <2> QED
    BY <1>2, <2>2, <2>3, Zenon
<1>11. r.kind = "pod" => \A j \in 2 .. k : t[j] # Plain("svc")
  <2> SUFFICES ASSUME r.kind = "pod", NEW j \in 2 .. k, t[j] = Plain("svc") PROVE FALSE
    OBVIOUS
  <2>1. last # Plain("svc")
    BY <1>5, <1>7 DEF Plain
  <2>2. Markers(r.name, "svc") = {}
    BY DEF Unambiguous
  <2>3. j # k
    BY <1>8, <2>1
  <2>4. j \in 2 .. k - 1 /\ r.name[j] = Plain("svc")
    BY <1>4, <1>8, <2>3
  <2> QED
    BY <2>2, <2>4 DEF Markers
<1>12. /\ Len(r.namespace) = 1
       /\ \A j \in 1 .. n - 1 : r.context[j] # Plain("ns")
  BY DEF Unambiguous
<1>13. /\ Plain(r.kind) \in S /\ Plain("ns") \in S /\ Plain("cx") \in S
       /\ {t, r.namespace, r.context, DynamicHost} \subseteq Seq(S)
  <2>1. Labels \subseteq S
    OBVIOUS
  <2>2. Seq(Labels) \subseteq Seq(S)
    BY <2>1, SeqMonotonic
  <2> QED
    BY <1>1, <1>3, <1>8, <2>2
<1> HIDE DEF S, k, n
<1>14. Len(r.context) = n
  BY DEF n
<1>15. ParseDynamicHostname(Format(r, DynamicHost), DynamicHost) =
           MakeRoute(r.kind, t, r.namespace, r.context)
  BY <1>1, <1>4, <1>8, <1>9, <1>11, <1>12, <1>13, <1>14, HostnameParses, SMTT(30)
<1> QED
  BY <1>10, <1>15, Zenon

-----------------------------------------------------------------------------
\* What the lookup leaves behind.
LookupOK ==
    /\ at \notin {"lookup", "routed", "refused"} => name = <<>>
    /\ at \in {"routed", "refused"} /\ name # <<>> => route = Resolve(Host)
    /\ at = "routed" => route = Resolve(Host) /\ route # NoRoute

LEMMA StepLookup == HelloInv /\ LookupOK /\ [Next]_vars => LookupOK'
<1> SUFFICES ASSUME HelloInv, LookupOK, [Next]_vars PROVE LookupOK'
  OBVIOUS
<1>1. CASE UNCHANGED vars
  BY <1>1 DEF vars, LookupOK, Resolve, Host
<1>2. CASE Lookup
  BY <1>2 DEF Lookup, LookupOK, Resolve, Host
<1>3. CASE Scan
  BY <1>3 DEF Scan, Indexing, TakeName, NextExtension, Refuse, LookupOK
<1>4. CASE ReadHello \/ ValidateTLSHandshake \/ SkipToExtensions \/ ExtensionsLen
  BY <1>4 DEF ReadHello, ValidateTLSHandshake, SkipToExtensions, SkipField, ExtensionsLen,
              Indexing, Refuse, LookupOK
<1> QED
  BY <1>1, <1>2, <1>3, <1>4 DEF Next

LEMMA LookupHolds == Spec => []LookupOK
<1>1. Init => LookupOK
  BY DEF Init, LookupOK
<1> QED
  BY <1>1, InitHello, StepHello, StepLookup, PTL DEF Spec

\* No route is less than Validate demands of one, whoever spelled it.
THEOREM RoutesAreValid == Spec => []RouteIsValid
<1>1. LookupOK => RouteIsValid
  <2> SUFFICES ASSUME LookupOK, at = "routed" PROVE ValidRouteBase(Shape(route))
    BY DEF RouteIsValid
  <2>1. route = Resolve(Host) /\ route # NoRoute
    BY DEF LookupOK
  <2>2. CASE Host \in DOMAIN Routes
    BY <2>1, <2>2, RoutesAssumption DEF Resolve
  <2>3. CASE Host \notin DOMAIN Routes
    BY <2>1, <2>3, ParsedIsValid DEF Resolve
  <2> QED
    BY <2>2, <2>3
<1> QED
  BY <1>1, LookupHolds, PTL

\* A hostname in the documented format leads to the route that it spells,
\* whatever the names in it are, if they do not spell markers themselves.
THEOREM SpelledRoutesAreFound == Spec => []SpelledRoutes
<1>1. LookupOK => SpelledRoutes
  <2> SUFFICES ASSUME LookupOK, name # <<>>, at \in {"routed", "refused"},
                      NEW r \in Targets, Unambiguous(r), Host = Format(r, DynamicHost)
               PROVE  route = IF Host \in DOMAIN Routes THEN Routes[Host] ELSE r
    BY DEF SpelledRoutes
  <2>1. route = Resolve(Host)
    BY DEF LookupOK
  <2>2. ParseDynamicHostname(Host, DynamicHost) = r
    BY FormatParses
  <2> QED
    BY <2>1, <2>2 DEF Resolve
<1> QED
  BY <1>1, LookupHolds, PTL
-----------------------------------------------------------------------------
(* Hellos in order.                                                        *)

\* All of the hello is there, and what the parser sees of it is what was sent.
WholeRead == Len(data) >= sent.whole

\* The parser is where the hello has the field that it looks for, and in the
\* scan at an extension, with no server name left behind.
PlaceOK ==
    sent.meant =>
    /\ at = "session" => pos = HeaderLen
    /\ at = "ciphers" => pos = CiphersAt(sent)
    /\ at = "compression" => pos = CompressionAt(sent)
    /\ at = "extensions" => pos = BlockAt(sent)
    /\ at = "scan" =>
          /\ BlockInOrder(sent) /\ end = EndOf(sent)
          /\ pos \in sent.starts \cup {end}
          /\ \A b \in sent.starts : NumberAt(sent, b) = 0 => pos <= b
    /\ at \in {"lookup", "routed"} => name = sent.name
    /\ at = "refused" => name = IF WholeRead THEN sent.name ELSE <<>>
    /\ at \in Places \ {"read", "validate", "refused"} => WholeRead

\* Within the data, bytes are those of the message.
LEMMA SameByte ==
    ASSUME DataOK, NEW i \in Nat, i < Size
    PROVE  Byte(i) = ByteAt(sent, i) /\ ByteAt(sent, i) \in 0 .. 255
<1>1. sent.bytes \in Seq(0 .. 255) /\ data \in Seq(0 .. 255)
  BY MessagesAssumption DEF DataOK
<1>2. i + 6 \in 1 .. Len(data)
  BY <1>1 DEF Size
<1>3. data[i + 6] \in 0 .. 255
  BY <1>1, <1>2, ElementOfSeq
<1>4. Len(data) <= Len(sent.bytes)
  BY DEF DataOK
<1>5. data[i + 6] = sent.bytes[i + 6]
  <2>1. SubSeq(sent.bytes, 1, Len(data))[i + 6] = sent.bytes[i + 6]
    BY <1>1, <1>2, <1>4, PrefixType
  <2> QED
    BY <2>1 DEF DataOK
<1> QED
  BY <1>3, <1>5 DEF Byte, ByteAt

LEMMA SameNumber ==
    ASSUME DataOK, NEW i \in Nat, i + 1 < Size
    PROVE  Number(i) = NumberAt(sent, i) /\ NumberAt(sent, i) \in Nat
<1>1. i < Size /\ i + 1 \in Nat
  BY DEF DataOK, Size
<1>2. /\ Byte(i) = ByteAt(sent, i) /\ ByteAt(sent, i) \in 0 .. 255
      /\ Byte(i + 1) = ByteAt(sent, i + 1) /\ ByteAt(sent, i + 1) \in 0 .. 255
  BY <1>1, SameByte
<1>3. ByteAt(sent, i) \in Nat /\ ByteAt(sent, i + 1) \in Nat
  BY <1>2
<1> QED
  BY <1>2, <1>3 DEF Number, NumberAt

LEMMA SamePart ==
    ASSUME DataOK, NEW i \in Nat \ {0}, NEW j \in Nat, j <= Len(data)
    PROVE  SubSeq(data, i, j) = SubSeq(sent.bytes, i, j)
<1>1. sent.bytes \in Seq(0 .. 255) /\ data \in Seq(0 .. 255)
  BY MessagesAssumption DEF DataOK
<1>2. Len(data) <= Len(sent.bytes)
  BY DEF DataOK
<1>3. \A k \in 1 .. Len(data) : data[k] = sent.bytes[k]
  <2>1. \A k \in 1 .. Len(data) : SubSeq(sent.bytes, 1, Len(data))[k] = sent.bytes[k]
    BY <1>1, <1>2, PrefixType
  <2> QED
    BY <2>1 DEF DataOK
<1>4. \A k \in i .. j : data[k] \in 0 .. 255 /\ data[k] = sent.bytes[k]
  <2> SUFFICES ASSUME NEW k \in i .. j
               PROVE  data[k] \in 0 .. 255 /\ data[k] = sent.bytes[k]
    OBVIOUS
  <2>1. k \in 1 .. Len(data)
    BY <1>1
  <2> QED
    BY <1>1, <1>3, <2>1, ElementOfSeq
<1>5. \A k \in i .. j : sent.bytes[k] \in 0 .. 255
  BY <1>4
<1>6. /\ SubSeq(data, i, j) \in Seq(0 .. 255)
      /\ Len(SubSeq(data, i, j)) = IF i <= j THEN j - i + 1 ELSE 0
      /\ \A k \in 1 .. j - i + 1 : SubSeq(data, i, j)[k] = data[i + k - 1]
  BY <1>4, SubSeqProperties
<1>7. /\ SubSeq(sent.bytes, i, j) \in Seq(0 .. 255)
      /\ Len(SubSeq(sent.bytes, i, j)) = IF i <= j THEN j - i + 1 ELSE 0
      /\ \A k \in 1 .. j - i + 1 : SubSeq(sent.bytes, i, j)[k] = sent.bytes[i + k - 1]
  BY <1>5, SubSeqProperties
<1>8. \A k \in 1 .. Len(SubSeq(data, i, j)) :
          SubSeq(data, i, j)[k] = SubSeq(sent.bytes, i, j)[k]
  <2> SUFFICES ASSUME NEW k \in 1 .. Len(SubSeq(data, i, j))
               PROVE  SubSeq(data, i, j)[k] = SubSeq(sent.bytes, i, j)[k]
    OBVIOUS
  <2>1. k \in 1 .. j - i + 1 /\ i + k - 1 \in i .. j
    BY <1>6
  <2> QED
    BY <1>4, <1>6, <1>7, <2>1
<1>9. Len(SubSeq(data, i, j)) = Len(SubSeq(sent.bytes, i, j))
  BY <1>6, <1>7
<1> QED
  BY <1>6, <1>7, <1>8, <1>9, SeqEqual

\* Where the fields of a hello are that is there as a whole.
LEMMA FieldOffsets ==
    ASSUME DataOK, sent.meant, WholeRead
    PROVE  /\ InOrder(sent) /\ EndOf(sent) \in Nat /\ Size \in Nat /\ EndOf(sent) <= Size
           /\ CiphersAt(sent) = HeaderLen + 1 + Byte(HeaderLen)
           /\ CompressionAt(sent) = CiphersAt(sent) + 2 + Number(CiphersAt(sent))
           /\ BlockAt(sent) = CompressionAt(sent) + 1 + Byte(CompressionAt(sent))
           /\ {CiphersAt(sent), CompressionAt(sent), BlockAt(sent)} \subseteq Nat
           /\ HeaderLen + 1 <= Size /\ CiphersAt(sent) + 2 <= Size
           /\ CompressionAt(sent) + 1 <= Size
<1>1. InOrder(sent) /\ data \in Seq(0 .. 255) /\ sent.bytes \in Seq(0 .. 255)
  BY MessagesAssumption DEF DataOK
<1>2. EndOf(sent) \in Nat /\ Size \in Nat /\ EndOf(sent) <= Size
  BY <1>1 DEF InOrder, RecordInOrder, EndOf, WholeRead, Size
<1>3. /\ HeaderLen < EndOf(sent) /\ CiphersAt(sent) + 1 < EndOf(sent)
      /\ CompressionAt(sent) < EndOf(sent) /\ BlockAt(sent) <= EndOf(sent)
  BY <1>1 DEF InOrder, FieldsInOrder
<1>4. HeaderLen < Size /\ HeaderLen \in Nat
  BY <1>2, <1>3, HeaderAssumption
<1>5. /\ CiphersAt(sent) = HeaderLen + 1 + Byte(HeaderLen)
      /\ CiphersAt(sent) \in Nat
  BY <1>4, SameByte DEF CiphersAt
<1>6. CiphersAt(sent) + 1 < Size
  BY <1>2, <1>3, <1>5
<1>7. /\ CompressionAt(sent) = CiphersAt(sent) + 2 + Number(CiphersAt(sent))
      /\ CompressionAt(sent) \in Nat
  BY <1>5, <1>6, SameNumber DEF CompressionAt
<1>8. CompressionAt(sent) < Size
  BY <1>2, <1>3, <1>7
<1>9. /\ BlockAt(sent) = CompressionAt(sent) + 1 + Byte(CompressionAt(sent))
      /\ BlockAt(sent) \in Nat
  BY <1>7, <1>8, SameByte, SMTT(30) DEF BlockAt
<1> QED
  BY <1>1, <1>2, <1>4, <1>5, <1>6, <1>7, <1>8, <1>9

\* A hello that was cut is refused by the length of its record, another is not.
LEMMA ValidatePlace ==
    ASSUME HelloInv, LookupOK, sent.meant, ValidateTLSHandshake
    PROVE  /\ at' = IF WholeRead THEN "session" ELSE "refused"
           /\ WholeRead => pos' = HeaderLen
           /\ UNCHANGED <<sent, data, name>> /\ name = <<>>
<1>1. /\ RecordInOrder(sent) /\ data \in Seq(0 .. 255) /\ sent.bytes \in Seq(0 .. 255)
      /\ DataOK
  BY MessagesAssumption DEF HelloInv, DataOK, InOrder
<1>2. Len(data) <= Len(sent.bytes)
  BY <1>1 DEF HelloInv, DataOK
<1>3. \A i \in 1 .. Len(data) : data[i] = sent.bytes[i]
  <2>1. \A i \in 1 .. Len(data) : SubSeq(sent.bytes, 1, Len(data))[i] = sent.bytes[i]
    BY <1>1, <1>2, PrefixType
  <2> QED
    BY <2>1 DEF HelloInv, DataOK
<1>4. CASE WholeRead
  <2>1. Len(data) >= 9 /\ Len(data) \in Nat
    BY <1>1, <1>4 DEF RecordInOrder, WholeRead
  <2>2. data[1] = 22 /\ data[4] = sent.bytes[4] /\ data[5] = sent.bytes[5]
    BY <1>1, <1>3, <2>1 DEF RecordInOrder
  <2>3. Len(data) >= 5 + 256 * data[4] + data[5]
    BY <1>1, <1>4, <2>2 DEF RecordInOrder, WholeRead
  <2>4. Byte(0) = 1
    <3>1. data[6] = sent.bytes[6]
      BY <1>3, <2>1
    <3> QED
      BY <1>1, <3>1 DEF RecordInOrder, Byte, ByteAt
  <2>5. data[4] \in Nat /\ data[5] \in Nat
    <3>1. 4 \in 1 .. Len(data) /\ 5 \in 1 .. Len(data)
      BY <2>1
    <3>2. data[4] \in 0 .. 255 /\ data[5] \in 0 .. 255
      BY <1>1, <3>1, ElementOfSeq
    <3> QED
      BY <3>2
  <2>6. ~(\/ Len(data) < 5 \/ data[1] # 22
          \/ Len(data) < 5 + 256 * data[4] + data[5]
          \/ Size < 4 \/ Byte(0) # 1)
    BY <2>1, <2>2, <2>3, <2>4, <2>5 DEF Size
  <2> QED
    BY <1>4, <2>6 DEF ValidateTLSHandshake, LookupOK
<1>5. CASE ~WholeRead
  <2>1. \/ Len(data) < 5
        \/ Len(data) < 5 + 256 * data[4] + data[5]
    <3>1. CASE Len(data) >= 5
      <4>1. data[4] = sent.bytes[4] /\ data[5] = sent.bytes[5]
        BY <1>1, <1>3, <3>1
      <4>2. sent.whole = 5 + 256 * data[4] + data[5] /\ sent.whole \in Nat
        BY <1>1, <4>1 DEF RecordInOrder
      <4> QED
        BY <1>1, <1>5, <4>2 DEF WholeRead
    <3> QED
      BY <1>1, <3>1
  <2> QED
    BY <1>5, <2>1 DEF ValidateTLSHandshake, Refuse, LookupOK
<1> QED
  BY <1>4, <1>5

\* From an extension the scan gets to the next one, or finds the name.
LEMMA ScanPlace ==
    ASSUME HelloInv, LookupOK, PlaceOK, sent.meant, Scan
    PROVE  PlaceOK'
<1>1. /\ DataOK /\ WholeRead /\ BlockInOrder(sent) /\ end = EndOf(sent)
      /\ pos \in sent.starts \cup {end}
      /\ \A b \in sent.starts : NumberAt(sent, b) = 0 => pos <= b
      /\ name = <<>> /\ at = "scan"
  BY DEF HelloInv, LookupOK, PlaceOK, Scan, Places
<1>2. /\ EndOf(sent) \in Nat /\ Size \in Nat /\ EndOf(sent) <= Size
      /\ NameInOrder(sent) /\ BlockAt(sent) \in Nat
      /\ end \in Nat /\ end <= Size /\ pos \in Nat
  BY <1>1, FieldOffsets DEF InOrder, HelloInv, ParserOK
<1>3. UNCHANGED <<sent, data, end>>
  BY DEF Scan, Indexing, TakeName, NextExtension, Refuse
<1>4. \A b \in sent.starts : b \in Nat /\ b + 4 <= end
  BY <1>1, <1>2 DEF BlockInOrder
<1>7. \A b \in sent.starts : Following(sent, b) \in sent.starts \cup {end}
  BY <1>1 DEF BlockInOrder
<1>8. \A b, c \in sent.starts : b < c => Following(sent, b) <= c
  BY <1>1 DEF BlockInOrder
<1>5. CASE pos = end
  <2>1. Refuse
    <3>1. pos + 4 > end
      BY <1>2, <1>5
    <3> QED
      BY <3>1 DEF Scan
  <2>2. \A b \in sent.starts : NumberAt(sent, b) # 0
    BY <1>1, <1>2, <1>4, <1>5
  <2>3. sent.name = <<>>
    BY <1>2, <2>2 DEF NameInOrder
  <2> QED
    BY <1>1, <1>3, <2>1, <2>3 DEF Refuse, PlaceOK, WholeRead, Places
<1>6. CASE pos \in sent.starts
  <2> DEFINE len == Number(pos + 2)
  <2>1. pos \in Nat /\ pos + 4 <= end /\ pos + 4 <= Size
    BY <1>2, <1>4, <1>6
  <2>2. /\ len = NumberAt(sent, pos + 2) /\ len \in Nat
        /\ Number(pos) = NumberAt(sent, pos)
    BY <1>1, <1>2, <2>1, SameNumber
  <2>3. Following(sent, pos) = pos + 4 + len
    BY <2>2 DEF Following
  <2>4. Following(sent, pos) <= end
    <3>1. Following(sent, pos) \in sent.starts \cup {end}
      BY <1>6, <1>7
    <3> QED
      BY <1>2, <1>4, <3>1
  <2>5. pos + 4 + len <= Size
    <3> HIDE DEF len
    <3> QED
      BY <1>2, <2>1, <2>2, <2>3, <2>4
  <2>6. \/ Number(pos) = 0 /\ TakeName(len)
        \/ Number(pos) # 0 /\ NextExtension(len)
    BY <1>1, <1>2, <2>1, <2>2, <2>5 DEF Scan, Indexing
  <2>7. CASE Number(pos) = 0 /\ TakeName(len)
    <3>1. /\ 4 < len /\ len = 5 + NumberAt(sent, pos + 7)
          /\ sent.name = SubSeq(sent.bytes, pos + 15, pos + 14 + NumberAt(sent, pos + 7))
      BY <1>2, <1>6, <2>2, <2>7 DEF NameInOrder
    <3>2. Number(pos + 7) = NumberAt(sent, pos + 7) /\ NumberAt(sent, pos + 7) \in Nat
      <4>1. pos + 7 \in Nat /\ pos + 7 + 1 < Size
        <5> HIDE DEF len
        <5> QED
          BY <1>2, <2>1, <2>2, <2>5, <3>1
      <4> QED
        BY <1>1, <4>1, SameNumber
    <3> DEFINE n == Number(pos + 7)
    <3>3. ~(len < 5 \/ len < 5 + n) /\ pos + (9 + n) <= Size
      BY <1>2, <2>1, <2>2, <2>5, <3>1, <3>2, SMTT(30)
    <3>4. /\ name' = SubSeq(data, pos + 15, pos + 14 + n)
          /\ at' = "lookup"
      BY <2>7, <3>3 DEF TakeName, Indexing
    <3>5. SubSeq(data, pos + 15, pos + 14 + n) = SubSeq(sent.bytes, pos + 15, pos + 14 + n)
      <4>1. pos + 14 + n <= Len(data) /\ pos + 14 + n \in Nat /\ pos + 15 \in Nat \ {0}
        BY <2>1, <3>2, <3>3 DEF Size
      <4> HIDE DEF n
      <4> QED
        BY <1>1, <2>1, <4>1, SamePart
    <3> QED
      BY <1>1, <1>3, <3>1, <3>2, <3>4, <3>5 DEF PlaceOK, WholeRead, Places
  <2>8. CASE Number(pos) # 0 /\ NextExtension(len)
    <3>1. /\ pos' = Following(sent, pos)
          /\ UNCHANGED <<sent, data, at, end, name>>
      BY <2>3, <2>8 DEF NextExtension
    <3>2. \A b \in sent.starts : NumberAt(sent, b) = 0 => pos' <= b
      <4> SUFFICES ASSUME NEW b \in sent.starts, NumberAt(sent, b) = 0
                   PROVE  Following(sent, pos) <= b
        BY <3>1
      <4>1. pos <= b /\ pos # b /\ b \in Nat
        BY <1>1, <1>4, <2>2, <2>8
      <4> QED
        BY <1>6, <1>8, <2>1, <4>1
    <3>3. pos' \in sent.starts \cup {end}
      BY <1>6, <1>7, <3>1
    <3> QED
      BY <1>1, <1>3, <3>1, <3>2, <3>3 DEF PlaceOK, WholeRead, Places
  <2> QED
    BY <2>6, <2>7, <2>8
<1> QED
  BY <1>1, <1>5, <1>6

LEMMA StepPlace == HelloInv /\ LookupOK /\ PlaceOK /\ [Next]_vars => PlaceOK'
<1> SUFFICES ASSUME HelloInv, LookupOK, PlaceOK, [Next]_vars, sent'.meant PROVE PlaceOK'
  BY DEF PlaceOK
<1>a. sent' = sent /\ sent.meant
  BY DEF Next, vars, ReadHello, ValidateTLSHandshake, SkipToExtensions, SkipField,
         ExtensionsLen, Scan, TakeName, NextExtension, Lookup, Refuse, Indexing
<1>b. DataOK /\ (at \notin {"lookup", "routed", "refused"} => name = <<>>)
  BY DEF HelloInv, LookupOK
<1>1. CASE UNCHANGED vars
  BY <1>1 DEF vars, PlaceOK, WholeRead
<1>2. CASE ReadHello
  BY <1>2 DEF ReadHello, PlaceOK, Places
<1>3. CASE ValidateTLSHandshake
  BY <1>a, <1>3, ValidatePlace DEF PlaceOK, WholeRead, Places
<1>4. CASE SkipToExtensions
  <2>1. WholeRead /\ name = <<>>
    BY <1>a, <1>b, <1>4 DEF PlaceOK, SkipToExtensions, SkipField, Places
  <2>2. /\ at = "session" => pos = HeaderLen
        /\ at = "ciphers" => pos = CiphersAt(sent)
        /\ at = "compression" => pos = CompressionAt(sent)
    BY <1>a DEF PlaceOK
  <2>3. CASE SkipField("session", 1, "ciphers")
    <3>1. /\ pos = HeaderLen /\ CiphersAt(sent) = pos + 1 + Byte(pos)
          /\ pos + 1 <= Size /\ Size \in Nat /\ pos \in Nat
      BY <1>a, <1>b, <2>1, <2>2, <2>3, FieldOffsets, HeaderAssumption DEF SkipField
    <3>2. at' = "ciphers" /\ pos' = CiphersAt(sent) /\ UNCHANGED <<sent, data, name>>
      BY <2>3, <3>1 DEF SkipField, Indexing
    <3> QED
      BY <1>a, <2>1, <3>2 DEF PlaceOK, WholeRead, Places
  <2>4. CASE SkipField("ciphers", 2, "compression")
    <3>1. at' = "compression" /\ pos' = CompressionAt(sent) /\ UNCHANGED <<sent, data, name>>
      BY <1>a, <1>b, <2>1, <2>2, <2>4, FieldOffsets DEF SkipField, Indexing
    <3> QED
      BY <1>a, <2>1, <3>1 DEF PlaceOK, WholeRead, Places
  <2>5. CASE SkipField("compression", 1, "extensions")
    <3>1. at' = "extensions" /\ pos' = BlockAt(sent) /\ UNCHANGED <<sent, data, name>>
      BY <1>a, <1>b, <2>1, <2>2, <2>5, FieldOffsets DEF SkipField, Indexing
    <3> QED
      BY <1>a, <2>1, <3>1 DEF PlaceOK, WholeRead, Places
  <2> QED
    BY <1>4, <2>3, <2>4, <2>5 DEF SkipToExtensions
<1>5. CASE ExtensionsLen
  <2>1. WholeRead /\ name = <<>> /\ pos = BlockAt(sent) /\ at = "extensions"
    BY <1>a, <1>b, <1>5 DEF PlaceOK, ExtensionsLen, Places
  <2>2. /\ InOrder(sent) /\ EndOf(sent) \in Nat /\ Size \in Nat /\ EndOf(sent) <= Size
        /\ BlockAt(sent) \in Nat
    BY <1>a, <1>b, <2>1, FieldOffsets
  <2>3. CASE NoBlock(sent)
    <3>1. Size = EndOf(sent) /\ pos = EndOf(sent)
      <4>1. Len(data) <= Len(sent.bytes)
        BY <1>b DEF DataOK
      <4>2. sent.whole \in Nat /\ Len(data) \in Nat
        BY <1>b, <2>2 DEF InOrder, RecordInOrder, DataOK
      <4> QED
        BY <2>1, <2>3, <4>1, <4>2 DEF NoBlock, EndOf, Size, WholeRead
    <3>2. Refuse
      <4>1. Size < pos + 2
        BY <2>2, <3>1
      <4> QED
        BY <1>5, <4>1 DEF ExtensionsLen
    <3>3. sent.name = <<>>
      BY <2>2, <2>3 DEF NoBlock, InOrder, NameInOrder
    <3> QED
      BY <1>a, <2>1, <3>2, <3>3 DEF Refuse, PlaceOK, WholeRead, Places
  <2>4. CASE BlockInOrder(sent)
    <3>1. pos + 2 <= Size /\ pos + 1 < Size
      BY <2>1, <2>2, <2>4 DEF BlockInOrder
    <3>2. Number(pos) = NumberAt(sent, pos)
      BY <1>b, <2>1, <2>2, <3>1, SameNumber
    <3>3. /\ at' = "scan" /\ pos' = pos + 2 /\ end' = EndOf(sent)
          /\ UNCHANGED <<sent, data, name>>
      BY <1>5, <2>1, <2>2, <2>4, <3>1, <3>2 DEF ExtensionsLen, Indexing, BlockInOrder
    <3>4. \A b \in sent.starts : pos + 2 <= b
      BY <2>1, <2>2, <2>4 DEF BlockInOrder
    <3> QED
      BY <1>a, <2>1, <2>4, <3>3, <3>4 DEF PlaceOK, WholeRead, Places, BlockInOrder
  <2> QED
    BY <2>2, <2>3, <2>4 DEF InOrder
<1>6. CASE Scan
  BY <1>a, <1>6, ScanPlace
<1>7. CASE Lookup
  BY <1>a, <1>7 DEF Lookup, PlaceOK, WholeRead, Places
<1> QED
  BY <1>1, <1>2, <1>3, <1>4, <1>5, <1>6, <1>7 DEF Next

\* The server name of a hello in order, whatever its fields and extensions, is
\* the one that is looked up, and of a hello that was cut no name is taken.
THEOREM NamesAreMeant == Spec => []NameIsMeant
<1>1. Init => PlaceOK
  BY DEF Init, PlaceOK, Places
<1>2. PlaceOK /\ HelloInv => NameIsMeant
  <2> SUFFICES ASSUME PlaceOK, DataOK, sent.meant, at \in {"lookup", "routed", "refused"}
               PROVE  name = IF Len(data) >= sent.whole THEN sent.name ELSE <<>>
    BY DEF NameIsMeant, HelloInv
  <2> QED
    BY DEF PlaceOK, WholeRead, Places
<1>3. Spec => []PlaceOK
  BY <1>1, HelloHolds, LookupHolds, StepPlace, PTL DEF Spec
<1> QED
  BY <1>2, <1>3, HelloHolds, PTL
-----------------------------------------------------------------------------
(* Progress.                                                               *)

\* How many steps the handler has left at most: one per stage, and one per
\* byte that the scan has before it.
StepsLeft ==
    CASE at = "scan" -> 2 + IF pos <= Size THEN Size - pos ELSE 0
      [] at = "lookup" -> 1
      [] at \in {"routed", "refused", "panic"} -> 0
      [] at = "extensions" -> 3 + Len(sent.bytes)
      [] at = "compression" -> 4 + Len(sent.bytes)
      [] at = "ciphers" -> 5 + Len(sent.bytes)
      [] at = "session" -> 6 + Len(sent.bytes)
      [] at = "validate" -> 7 + Len(sent.bytes)
      [] at = "read" -> 8 + Len(sent.bytes)

LEMMA StepsLeftType ==
    ASSUME HelloInv
    PROVE  /\ StepsLeft \in Nat /\ Size \in Int /\ Len(sent.bytes) \in Nat
           /\ Size < Len(sent.bytes) /\ pos \in Nat
<1>1. Size \in Int /\ Len(sent.bytes) \in Nat /\ Size < Len(sent.bytes)
  BY MessagesAssumption DEF HelloInv, DataOK, Size
<1>2. pos \in Nat /\ at \in Places
  BY DEF HelloInv, ParserOK
<1> QED
  BY <1>1, <1>2 DEF StepsLeft, Places

\* Refused, the handler has no step left.
LEMMA RefuseEnds ==
    ASSUME HelloInv, Refuse, at \notin {"routed", "refused", "panic"}
    PROVE  StepsLeft' < StepsLeft
<1>1. StepsLeft' = 0
  BY DEF Refuse, StepsLeft
<1>2. StepsLeft > 0
  <2>1. /\ Size \in Int /\ Len(sent.bytes) \in Nat /\ pos \in Nat
    BY StepsLeftType
  <2>2. at \in Places
    BY DEF HelloInv, ParserOK
  <2> QED
    BY <2>1, <2>2 DEF StepsLeft, Places
<1> QED
  BY <1>1, <1>2

LEMMA StepsFall == HelloInv /\ HelloInv' /\ Next => StepsLeft' < StepsLeft
<1> SUFFICES ASSUME HelloInv, HelloInv', Next PROVE StepsLeft' < StepsLeft
  OBVIOUS
<1>1. /\ Size \in Int /\ Len(sent.bytes) \in Nat /\ Size < Len(sent.bytes) /\ pos \in Nat
      /\ Size' \in Int /\ pos' \in Nat /\ Size' < Len(sent.bytes)'
  <2>1. Size' \in Int /\ pos' \in Nat /\ Size' < Len(sent.bytes)'
    BY MessagesAssumption DEF HelloInv, DataOK, ParserOK, Size
  <2> QED
    BY <2>1, StepsLeftType
<1>2. at \in Places \ {"panic"} /\ at' \in Places \ {"panic"} /\ sent' = sent
  BY DEF HelloInv, ParserOK, Next, ReadHello, ValidateTLSHandshake, SkipToExtensions,
         SkipField, ExtensionsLen, Scan, TakeName, NextExtension, Lookup, Refuse, Indexing
<1>3. CASE ReadHello
  BY <1>1, <1>3 DEF ReadHello, StepsLeft
<1>4. CASE ValidateTLSHandshake
  <2>1. CASE Refuse
    BY <1>4, <2>1, RefuseEnds DEF ValidateTLSHandshake
  <2>2. CASE ~Refuse
    BY <1>1, <1>2, <1>4, <2>2 DEF ValidateTLSHandshake, StepsLeft
  <2> QED
    BY <2>1, <2>2
<1>5. CASE SkipToExtensions
  <2>1. CASE Refuse
    BY <1>5, <2>1, RefuseEnds DEF SkipToExtensions, SkipField
  <2>2. CASE ~Refuse
    BY <1>1, <1>2, <1>5, <2>2 DEF SkipToExtensions, SkipField, Indexing, StepsLeft
  <2> QED
    BY <2>1, <2>2
<1>6. CASE ExtensionsLen
  <2>1. CASE Refuse
    BY <1>6, <2>1, RefuseEnds DEF ExtensionsLen
  <2>2. CASE ~Refuse
    <3>1. at = "extensions" /\ at' = "scan"
      BY <1>2, <1>6, <2>2 DEF ExtensionsLen, Indexing
    <3> QED
      BY <1>1, <1>2, <3>1 DEF StepsLeft
  <2> QED
    BY <2>1, <2>2
<1>7. CASE Scan
  <2>1. CASE Refuse
    BY <1>7, <2>1, RefuseEnds DEF Scan
  <2>2. CASE ~Refuse
    <3> DEFINE len == Number(pos + 2)
    <3>1. /\ at = "scan" /\ pos + 4 <= Size
          /\ \/ at' = "lookup"
             \/ pos + 4 + len <= Size /\ NextExtension(len)
      BY <1>1, <1>2, <1>7, <2>2 DEF Scan, TakeName, Indexing
    <3>2. CASE at' = "lookup"
      BY <1>1, <3>1, <3>2 DEF StepsLeft
    <3>3. CASE pos + 4 + len <= Size /\ NextExtension(len)
      <4>1. len \in Nat
        BY <1>1, <3>1, NumberType DEF HelloInv
      <4>2. pos' = pos + 4 + len /\ at' = "scan" /\ data' = data
        BY <3>1, <3>3 DEF NextExtension
      <4>3. Size' = Size
        BY <4>2 DEF Size
      <4> HIDE DEF len
      <4>4. pos < pos' /\ pos' <= Size
        BY <1>1, <3>3, <4>1, <4>2
      <4> QED
        BY <1>1, <3>1, <4>2, <4>3, <4>4 DEF StepsLeft
    <3> QED
      BY <3>1, <3>2, <3>3
  <2> QED
    BY <2>1, <2>2
<1>8. CASE Lookup
  BY <1>8 DEF Lookup, StepsLeft
<1> QED
  BY <1>3, <1>4, <1>5, <1>6, <1>7, <1>8 DEF Next

\* Whatever a client sends, no step of the handler comes again: each one takes
\* from a number that the message bounds, so the scan cannot go in circles.
THEOREM ParserAdvances ==
    Spec => [](StepsLeft \in Nat) /\ [][StepsLeft' < StepsLeft]_vars
<1>1. HelloInv => StepsLeft \in Nat
  BY StepsLeftType
<1>2. HelloInv /\ HelloInv' /\ [Next]_vars => [StepsLeft' < StepsLeft]_vars
  BY StepsFall
<1> QED
  BY <1>1, <1>2, HelloHolds, PTL DEF Spec
=============================================================================
