----------------------------- MODULE RelayProofs ----------------------------
(***************************************************************************)
(* Proofs about Relay, for any kinds of connections, any number of bytes   *)
(* and any sizes of the buffers: Relay implements Pipe, an end is told of  *)
(* the other's only when it has all, and what has to go on can.            *)
(***************************************************************************)
EXTENDS Relay, SequenceTheorems, TLAPS

(***************************************************************************)
(* Sequences.                                                              *)
(***************************************************************************)

\* A sequence is its first n elements and the rest.
LEMMA Split ==
    ASSUME NEW S, NEW s \in Seq(S), NEW n \in 0 .. Len(s)
    PROVE  /\ First(s, n) \in Seq(S) /\ Rest(s, n) \in Seq(S)
           /\ Len(First(s, n)) = n /\ Len(Rest(s, n)) = Len(s) - n
           /\ First(s, n) \o Rest(s, n) = s
<1>1. \A i \in 1 .. Len(s) : s[i] \in S
  BY ElementOfSeq
<1>2. First(s, n) \in Seq(S) /\ Len(First(s, n)) = n
  BY <1>1, SubSeqProperties DEF First
<1>3. Rest(s, n) \in Seq(S) /\ Len(Rest(s, n)) = Len(s) - n
  BY <1>1, SubSeqProperties DEF Rest
<1>4. First(s, n) \o Rest(s, n) = s
  <2>1. /\ 1 \in 1 .. Len(s) + 1 /\ n \in 1 - 1 .. Len(s) /\ Len(s) \in n .. Len(s)
    OBVIOUS
  <2>2. SubSeq(s, 1, n) \o SubSeq(s, n + 1, Len(s)) = SubSeq(s, 1, Len(s))
    BY <2>1, ConcatAdjacentSubSeq
  <2> QED
    BY <2>2, SubSeqFull DEF First, Rest
<1> QED
  BY <1>2, <1>3, <1>4

\* What is put in front of a sequence is its beginning.
LEMMA PrefixOf ==
    ASSUME NEW S, NEW s \in Seq(S), NEW t \in Seq(S)
    PROVE  Len(s) <= Len(s \o t) /\ s = SubSeq(s \o t, 1, Len(s))
<1>1. CASE s = <<>>
  BY <1>1, ConcatProperties, SubSeqEmpty
<1>2. CASE s # <<>>
  <2>1. Len(s) \in Nat \ {0}
    BY <1>2, EmptySeq
  <2>2. SubSeq(s \o t, 1, Len(s)) = SubSeq(s, 1, Len(s))
    BY <2>1, SubSeqOfConcat1
  <2> QED
    BY <2>1, <2>2, SubSeqFull, ConcatProperties
<1> QED
  BY <1>1, <1>2

\* The stream of a direction.
LEMMA StreamFacts ==
    ASSUME NEW n \in 0 .. MaxBytes
    PROVE  /\ Stream(n) \in Seq(Bytes) /\ Len(Stream(n)) = n
           /\ n < MaxBytes => /\ n + 1 \in Bytes
                              /\ Append(Stream(n), n + 1) = Stream(n + 1)
BY SizesAssumption DEF Stream, Bytes

\* Concatenation, with its laws alone.
Cat(s, t) == s \o t

LEMMA CatLaws ==
    /\ <<>> \in Seq(Bytes)
    /\ \A s, t \in Seq(Bytes) : Cat(s, t) \in Seq(Bytes)
    /\ \A s \in Seq(Bytes) : Cat(<<>>, s) = s /\ Cat(s, <<>>) = s
    /\ \A s, t, u \in Seq(Bytes) : Cat(s, Cat(t, u)) = Cat(Cat(s, t), u)
<1>1. \A s, t \in Seq(Bytes) : Cat(s, t) \in Seq(Bytes)
  BY ConcatProperties DEF Cat
<1>2. \A s \in Seq(Bytes) : Cat(<<>>, s) = s /\ Cat(s, <<>>) = s
  BY ConcatEmptySeq DEF Cat
<1>3. \A s, t, u \in Seq(Bytes) : Cat(s, Cat(t, u)) = Cat(Cat(s, t), u)
  BY ConcatAssociative DEF Cat
<1> QED
  BY <1>1, <1>2, <1>3

LEMMA LenCat ==
    \A s, t \in Seq(Bytes) :
        Len(s) \in Nat /\ Len(t) \in Nat /\ Len(Cat(s, t)) = Len(s) + Len(t)
BY ConcatProperties DEF Cat

\* What is held on the way of a stream, the foremost first.
Chain(a, k, h, p, q) == Cat(a, Cat(k, Cat(h, Cat(p, q))))

\* A chain with nothing under way.
LEMMA ChainEnd ==
    \A a \in Seq(Bytes) : Chain(a, <<>>, <<>>, <<>>, <<>>) = a
BY CatLaws DEF Chain

\* What enters at the end enters the chain.
LEMMA EntersLaw ==
    \A a, k, h, p, q, e \in Seq(Bytes) :
        Chain(a, k, h, p, Cat(q, e)) = Cat(Chain(a, k, h, p, q), e)
BY CatLaws DEF Chain

\* Peek, with an empty reader.
LEMMA PeekLaw ==
    \A a, k, h, f, r \in Seq(Bytes) :
        Chain(a, k, h, <<>>, Cat(f, r)) = Chain(a, k, h, f, r)
BY CatLaws DEF Chain

\* ReadHello, with nothing else under way.
LEMMA HelloLaw ==
    \A a, p, q \in Seq(Bytes) :
        Chain(a, <<>>, <<>>, p, q) = Chain(a, p, <<>>, <<>>, q)
BY CatLaws DEF Chain

\* Replay, with nothing written before.
LEMMA ReplayLaw ==
    \A k, h, p, q \in Seq(Bytes) :
        Chain(<<>>, k, h, p, q) = Chain(k, <<>>, h, p, q)
BY CatLaws DEF Chain

\* ReadPage, from the ClientHello.
LEMMA PageLaw ==
    \A a, q, f, r \in Seq(Bytes) :
        Chain(a, Cat(f, r), <<>>, <<>>, q) = Chain(Cat(a, f), r, <<>>, <<>>, q)
BY CatLaws DEF Chain

\* ReadHTTP, from the reader.
LEMMA HTTPLaw ==
    \A a, q, f, r \in Seq(Bytes) :
        Chain(a, <<>>, <<>>, Cat(f, r), q) = Chain(Cat(a, f), <<>>, <<>>, r, q)
BY CatLaws DEF Chain

\* ReadHTTP and ReadPage, from the connection.
LEMMA TakeLaw ==
    \A a, f, r \in Seq(Bytes) :
        Chain(a, <<>>, <<>>, <<>>, Cat(f, r)) = Chain(Cat(a, f), <<>>, <<>>, <<>>, r)
BY CatLaws DEF Chain

\* CopyRead.
LEMMA ReadLaw ==
    \A a, f, r \in Seq(Bytes) :
        Chain(a, <<>>, <<>>, <<>>, Cat(f, r)) = Chain(a, <<>>, f, <<>>, r)
BY CatLaws DEF Chain

\* CopyWrite.
LEMMA WriteLaw ==
    \A a, h, p, q \in Seq(Bytes) :
        Chain(a, <<>>, h, p, q) = Chain(Cat(a, h), <<>>, <<>>, p, q)
BY CatLaws DEF Chain

-----------------------------------------------------------------------------
(***************************************************************************)
(* The inductive invariant.                                                *)
(***************************************************************************)

Kept(d) == IF d = "up" THEN hello ELSE <<>>
Seen(d) == IF d = "up" THEN peeked ELSE <<>>

\* What the receiver of d has got and what is under way to it, in this order.
Held(d) == Chain(got[d], Kept(d), hand[d], Seen(d), inq[d])

\* That is all that was sent.
Flow == \A d \in Dirs : Held(d) = Stream(sent[d])

\* Where the handler is says which of the places may hold anything.
Stages ==
    /\ peeked # <<>> => at \in {"hello", "http", "over"}
    /\ hello # <<>> => at \in {"route", "replay", "page", "over"}
    /\ \A d \in Dirs : hand[d] # <<>> => at \in {"copy", "over"}
    /\ \A d \in Dirs : got[d] # <<>> => at \in {"http", "page", "copy", "over"}
    /\ copying # {} => at = "copy"
    /\ eof # {} => at \in {"copy", "over"}
    /\ copying \cap eof = {}
    /\ at = "copy" => copying \cup eof = Dirs

RelayInv == RelayTypeOK /\ Flow /\ Stages

\* Of a state of the right type.
LEMMA HeldTypes ==
    ASSUME RelayTypeOK, NEW d \in Dirs
    PROVE  /\ got[d] \in Seq(Bytes) /\ hand[d] \in Seq(Bytes) /\ inq[d] \in Seq(Bytes)
           /\ Kept(d) \in Seq(Bytes) /\ Seen(d) \in Seq(Bytes)
           /\ sent[d] \in 0 .. MaxBytes
BY DEF RelayTypeOK, Kept, Seen

LEMMA InitInv == Init => RelayInv
<1> SUFFICES ASSUME Init PROVE RelayInv
  OBVIOUS
<1>1. <<>> \in Seq(Bytes) /\ Len(<<>>) = 0 /\ 0 \in 0 .. MaxBytes
  BY SizesAssumption
<1>2. RelayTypeOK
  <2>1. 0 <= PeekSize /\ 0 <= HelloSize
    BY SizesAssumption
  <2>2. sent \in [Dirs -> 0 .. MaxBytes]
    BY <1>1 DEF Init
  <2>3. {inq, hand, got} \subseteq [Dirs -> Seq(Bytes)]
    BY <1>1 DEF Init
  <2>4. kind \in Kinds /\ at \in {"peek", "dial"}
    BY DEF Init
  <2> QED
    BY <1>1, <2>1, <2>2, <2>3, <2>4 DEF Init, RelayTypeOK
<1>3. Stages
  BY DEF Init, Stages
<1>4. Flow
  <2>1. Stream(0) = <<>>
    BY <1>1, StreamFacts, EmptySeq
  <2>2. Chain(<<>>, <<>>, <<>>, <<>>, <<>>) = <<>>
    BY <1>1, ChainEnd
  <2> QED
    BY <2>1, <2>2 DEF Init, Flow, Held, Kept, Seen, Dirs
<1> QED
  BY <1>2, <1>3, <1>4 DEF RelayInv

\* What Flow asks of a step: nothing, where nothing moves.
LEMMA StillFlows ==
    ASSUME RelayInv, NEW d \in Dirs,
           UNCHANGED <<sent[d], got[d], Kept(d), hand[d], Seen(d), inq[d]>>
    PROVE  Held(d)' = Stream(sent[d])'
BY DEF RelayInv, Flow, Held

LEMMA SendInv ==
    ASSUME RelayInv, NEW c \in Dirs, Send(c)
    PROVE  RelayInv'
<1> DEFINE x == sent[c] + 1
           e == <<x>>
<1> USE DEF RelayInv
<1>1. x \in Bytes /\ sent[c] \in 0 .. MaxBytes /\ sent[c] < MaxBytes
  BY SizesAssumption DEF Send, RelayTypeOK, Bytes
<1>2. /\ sent'[c] = x /\ inq'[c] = Append(inq[c], x)
      /\ \A d \in Dirs \ {c} : sent'[d] = sent[d] /\ inq'[d] = inq[d]
  BY DEF Send, RelayTypeOK
<1>3. RelayTypeOK'
  <2>1. sent' \in [Dirs -> 0 .. MaxBytes]
    BY <1>1, SizesAssumption DEF Send, RelayTypeOK
  <2>2. inq' \in [Dirs -> Seq(Bytes)]
    BY <1>1 DEF Send, RelayTypeOK
  <2> QED
    BY <2>1, <2>2 DEF Send, RelayTypeOK
<1>4. Stages'
  BY DEF Send, Stages
<1>5. ASSUME NEW d \in Dirs PROVE Held(d)' = Stream(sent[d])'
  <2>1. CASE d # c
    BY <2>1, <1>2, StillFlows DEF Send, Kept, Seen
  <2>2. CASE d = c
    <3>1. e \in Seq(Bytes) /\ inq'[c] = Cat(inq[c], e)
      BY <1>1, <1>2, HeldTypes, AppendIsConcat DEF Cat
    <3>2. Cat(Stream(sent[c]), e) = Stream(x)
      BY <1>1, StreamFacts, AppendIsConcat DEF Cat
    <3> HIDE DEF e
    <3>3. Held(c)' = Chain(got[c], Kept(c), hand[c], Seen(c), Cat(inq[c], e))
      BY <3>1 DEF Held, Send, Kept, Seen
    <3>4. @ = Cat(Held(c), e)
      <4>1. /\ got[c] \in Seq(Bytes) /\ Kept(c) \in Seq(Bytes) /\ hand[c] \in Seq(Bytes)
            /\ Seen(c) \in Seq(Bytes) /\ inq[c] \in Seq(Bytes)
        BY HeldTypes
      <4>2. \A a, k, h, p, q \in Seq(Bytes) :
               Chain(a, k, h, p, Cat(q, e)) = Cat(Chain(a, k, h, p, q), e)
        BY <3>1, EntersLaw
      <4> QED
        BY <4>1, <4>2 DEF Held
    <3>5. @ = Stream(x)
      BY <3>2 DEF Flow
    <3> QED
      BY <2>2, <3>3, <3>4, <3>5, <1>2
  <2> QED
    BY <2>1, <2>2
<1> QED
  BY <1>3, <1>4, <1>5 DEF Flow

\* Steps that move no byte.
LEMMA StillInv ==
    ASSUME RelayInv,
           \/ \E d \in Dirs : Finish(d) \/ Reset(d) \/ CopyEnds(d)
           \/ PeekFails \/ Dialed \/ Refuse \/ DialFails \/ Answered \/ Return \/ StreamEnds
           \/ UNCHANGED vars
    PROVE  RelayInv'
<1> USE DEF RelayInv
<1> DEFINE Still == UNCHANGED <<sent, got, hello, hand, peeked, inq>>
<1>1. Still /\ RelayTypeOK' /\ Stages'
  <2>1. ASSUME NEW d \in Dirs, Finish(d) PROVE Still /\ RelayTypeOK' /\ Stages'
    BY <2>1 DEF Finish, RelayTypeOK, Stages
  <2>2. ASSUME NEW d \in Dirs, Reset(d) PROVE Still /\ RelayTypeOK' /\ Stages'
    BY <2>2 DEF Reset, RelayTypeOK, Stages, From, Ends
  <2>3. ASSUME NEW d \in Dirs, CopyEnds(d) PROVE Still /\ RelayTypeOK' /\ Stages'
    BY <2>3 DEF CopyEnds, RelayTypeOK, Stages, ends
  <2>4. CASE PeekFails
    BY <2>4 DEF PeekFails, RelayTypeOK, Stages, ends
  <2>5. CASE Dialed
    BY <2>5 DEF Dialed, RelayTypeOK, Stages, ends
  <2>6. CASE Refuse
    BY <2>6 DEF Refuse, RelayTypeOK, Stages, ends
  <2>7. CASE DialFails
    BY <2>7 DEF DialFails, Over, RelayTypeOK, Stages, ends
  <2>8. CASE Answered
    BY <2>8 DEF Answered, Over, RelayTypeOK, Stages, ends
  <2>9. CASE Return
    BY <2>9 DEF Return, Over, RelayTypeOK, Stages, ends
  <2>10. CASE StreamEnds
    BY <2>10 DEF StreamEnds, Over, RelayTypeOK, Stages, ends
  <2>11. CASE UNCHANGED vars
    BY <2>11 DEF vars, RelayTypeOK, Stages, ends
  <2> QED
    BY <2>1, <2>2, <2>3, <2>4, <2>5, <2>6, <2>7, <2>8, <2>9, <2>10, <2>11
<1>2. ASSUME NEW d \in Dirs PROVE Held(d)' = Stream(sent[d])'
  BY <1>1, StillFlows DEF Kept, Seen
<1> QED
  BY <1>1, <1>2 DEF Flow

\* A queue gives its first n bytes, which take their place as Cat has it.
LEMMA Taken ==
    ASSUME NEW s \in Seq(Bytes), NEW n \in 0 .. Len(s)
    PROVE  /\ First(s, n) \in Seq(Bytes) /\ Rest(s, n) \in Seq(Bytes)
           /\ Len(First(s, n)) = n /\ Len(Rest(s, n)) = Len(s) - n
           /\ Cat(First(s, n), Rest(s, n)) = s
BY Split DEF Cat

LEMMA PeekInv ==
    ASSUME RelayInv, Peek
    PROVE  RelayInv'
<1> USE DEF RelayInv
<1>1. PICK n \in 1 .. PeekSize :
          /\ n <= Len(inq["up"])
          /\ peeked' = First(inq["up"], n)
          /\ inq' = [inq EXCEPT !["up"] = Rest(@, n)]
  BY DEF Peek
<1> DEFINE u == "up"
<1>2. u \in Dirs /\ n \in 0 .. Len(inq[u])
  BY <1>1, HeldTypes, SizesAssumption DEF Dirs
<1>3. /\ peeked' \in Seq(Bytes) /\ Len(peeked') = n /\ n <= PeekSize
      /\ inq'[u] \in Seq(Bytes) /\ Cat(peeked', inq'[u]) = inq[u]
      /\ inq' \in [Dirs -> Seq(Bytes)]
      /\ \A d \in Dirs \ {u} : inq'[d] = inq[d]
  BY <1>1, <1>2, HeldTypes, Taken, SizesAssumption DEF RelayTypeOK
<1>4. RelayTypeOK'
  BY <1>3 DEF Peek, RelayTypeOK, ends
<1>5. Stages'
  BY DEF Peek, Stages, ends
<1>6. ASSUME NEW d \in Dirs PROVE Held(d)' = Stream(sent[d])'
  <2>1. CASE d # u
    BY <2>1, <1>3, StillFlows DEF Peek, Kept, Seen, ends
  <2>2. CASE d = u
    <3>1. Seen(u) = <<>>
      BY DEF Peek, Seen, Stages
    <3>2. Held(u) = Chain(got[u], Kept(u), hand[u], <<>>, Cat(peeked', inq'[u]))
      BY <1>3, <3>1 DEF Held
    <3>3. @ = Chain(got[u], Kept(u), hand[u], peeked', inq'[u])
      <4>1. /\ got[u] \in Seq(Bytes) /\ Kept(u) \in Seq(Bytes) /\ hand[u] \in Seq(Bytes)
            /\ Seen(u) \in Seq(Bytes) /\ inq[u] \in Seq(Bytes)
        BY <1>2, HeldTypes
      <4>2. peeked' \in Seq(Bytes) /\ inq'[u] \in Seq(Bytes)
        BY <1>3
      <4> QED
        BY <4>1, <4>2, PeekLaw, SMTT(30)
    <3>4. @ = Held(u)'
      BY DEF Held, Peek, Kept, Seen
    <3> QED
      BY <2>2, <3>2, <3>3, <3>4 DEF Flow, Peek, ends
  <2> QED
    BY <2>1, <2>2
<1> QED
  BY <1>4, <1>5, <1>6 DEF Flow

\* The Read of the ClientHello takes all that the reader of the first byte has
\* read, since HelloSize is not smaller than PeekSize.
LEMMA HelloIsAll ==
    ASSUME RelayTypeOK, ReadHello
    PROVE  hello' = peeked /\ peeked' = <<>>
<1>1. /\ peeked \in Seq(Bytes) /\ Len(peeked) <= PeekSize /\ PeekSize <= HelloSize
      /\ Len(peeked) \in Nat
  BY SizesAssumption DEF RelayTypeOK
<1>2. hello' = First(peeked, Len(peeked)) /\ peeked' = Rest(peeked, Len(peeked))
  BY <1>1, SizesAssumption DEF ReadHello
<1>3. First(peeked, Len(peeked)) = peeked
  BY <1>1, SubSeqFull DEF First
<1>4. Rest(peeked, Len(peeked)) = <<>>
  BY <1>1, Split, EmptySeq
<1> QED
  BY <1>2, <1>3, <1>4

LEMMA ReadHelloInv ==
    ASSUME RelayInv, ReadHello
    PROVE  RelayInv'
<1> USE DEF RelayInv
<1> DEFINE u == "up"
<1>1. /\ peeked \in Seq(Bytes) /\ Len(peeked) <= PeekSize /\ PeekSize <= HelloSize
      /\ Len(peeked) \in Nat
  BY SizesAssumption DEF RelayTypeOK
<1>2. hello' = peeked /\ peeked' = <<>>
  BY HelloIsAll
<1>4. RelayTypeOK'
  <2>1. hello' \in Seq(Bytes) /\ Len(hello') <= HelloSize
    BY <1>1, <1>2, SizesAssumption
  <2>2. peeked' \in Seq(Bytes) /\ Len(peeked') <= PeekSize
    BY <1>2, SizesAssumption
  <2> QED
    BY <2>1, <2>2 DEF ReadHello, RelayTypeOK, ends
<1>5. Stages'
  BY <1>2 DEF ReadHello, Stages, ends
<1>6. ASSUME NEW d \in Dirs PROVE Held(d)' = Stream(sent[d])'
  <2>1. CASE d # u
    BY <2>1, StillFlows DEF ReadHello, Kept, Seen, ends
  <2>2. CASE d = u
    <3>1. hello = <<>> /\ hand[u] = <<>> /\ u \in Dirs
      BY DEF ReadHello, Stages, Dirs
    <3>2. Held(u) = Chain(got[u], <<>>, <<>>, peeked, inq[u])
      BY <3>1 DEF Held, Kept, Seen
    <3>3. @ = Chain(got[u], peeked, <<>>, <<>>, inq[u])
      <4>1. /\ got[u] \in Seq(Bytes) /\ Kept(u) \in Seq(Bytes) /\ hand[u] \in Seq(Bytes)
            /\ Seen(u) \in Seq(Bytes) /\ inq[u] \in Seq(Bytes)
        BY <3>1, HeldTypes
      <4> QED
        BY <4>1, <1>1, HelloLaw
    <3>4. @ = Held(u)'
      BY <1>2, <3>1 DEF Held, ReadHello, Kept, Seen, ends
    <3> QED
      BY <2>2, <3>2, <3>3, <3>4 DEF Flow, ReadHello, ends
  <2> QED
    BY <2>1, <2>2
<1> QED
  BY <1>4, <1>5, <1>6 DEF Flow

LEMMA ReplayInv ==
    ASSUME RelayInv, Replay
    PROVE  RelayInv'
<1> USE DEF RelayInv
<1> DEFINE u == "up"
<1>1. /\ u \in Dirs /\ got[u] = <<>> /\ got'[u] = hello /\ hello' = <<>>
      /\ \A d \in Dirs \ {u} : got'[d] = got[d]
      /\ hello \in Seq(Bytes) /\ got' \in [Dirs -> Seq(Bytes)]
  BY DEF Replay, Stages, Dirs, RelayTypeOK
<1>2. RelayTypeOK'
  <2>1. hello' \in Seq(Bytes) /\ Len(hello') <= HelloSize
    BY <1>1, SizesAssumption
  <2> QED
    BY <2>1, <1>1 DEF Replay, RelayTypeOK, ends
<1>3. Stages'
  BY <1>1 DEF Replay, Stages, ends
<1>4. ASSUME NEW d \in Dirs PROVE Held(d)' = Stream(sent[d])'
  <2>1. CASE d # u
    BY <2>1, <1>1, StillFlows DEF Replay, Kept, Seen, ends
  <2>2. CASE d = u
    <3>1. Held(u) = Chain(<<>>, hello, hand[u], Seen(u), inq[u])
      BY <1>1 DEF Held, Kept
    <3>2. @ = Chain(hello, <<>>, hand[u], Seen(u), inq[u])
      <4>1. /\ got[u] \in Seq(Bytes) /\ Kept(u) \in Seq(Bytes) /\ hand[u] \in Seq(Bytes)
            /\ Seen(u) \in Seq(Bytes) /\ inq[u] \in Seq(Bytes)
        BY <1>1, HeldTypes
      <4> QED
        BY <4>1, <1>1, ReplayLaw
    <3>3. @ = Held(u)'
      BY <1>1 DEF Held, Replay, Kept, Seen, ends
    <3> QED
      BY <2>2, <3>1, <3>2, <3>3 DEF Flow, Replay, ends
  <2> QED
    BY <2>1, <2>2
<1> QED
  BY <1>2, <1>3, <1>4 DEF Flow

\* What a reader takes: f, from b, of which c is left, or from the connection.
Takes(b, c) ==
    \/ \E f \in Seq(Bytes) :
          /\ c \in Seq(Bytes) /\ Len(c) <= Len(b) /\ Cat(f, c) = b /\ b # <<>>
          /\ got' = [got EXCEPT !["up"] = Cat(@, f)] /\ inq' = inq
    \/ \E f, r \in Seq(Bytes) :
          /\ b = <<>> /\ c = b
          /\ inq["up"] = Cat(f, r) /\ inq' = [inq EXCEPT !["up"] = r]
          /\ got' = [got EXCEPT !["up"] = Cat(@, f)]

LEMMA ReadOnTakes ==
    ASSUME RelayInv, NEW b \in Seq(Bytes), NEW c, ReadOn(b, c)
    PROVE  Takes(b, c)
<1> USE DEF RelayInv
<1>1. PICK n \in 1 .. MaxBytes :
        IF b # <<>>
        THEN /\ n <= Len(b)
             /\ got' = [got EXCEPT !["up"] = @ \o First(b, n)]
             /\ c = Rest(b, n) /\ UNCHANGED inq
        ELSE /\ n <= Len(inq["up"])
             /\ got' = [got EXCEPT !["up"] = @ \o First(inq["up"], n)]
             /\ inq' = [inq EXCEPT !["up"] = Rest(@, n)]
             /\ c = b
  BY DEF ReadOn
<1>2. n \in Nat /\ inq["up"] \in Seq(Bytes)
  BY <1>1, SizesAssumption, HeldTypes DEF Dirs
<1>3. CASE b # <<>>
  <2>1. n \in 0 .. Len(b)
    BY <1>1, <1>2, <1>3
  <2>2. /\ First(b, n) \in Seq(Bytes) /\ c \in Seq(Bytes)
        /\ Cat(First(b, n), c) = b /\ Len(c) <= Len(b)
    BY <1>1, <1>3, <2>1, Taken
  <2> QED
    BY <1>1, <1>3, <2>2 DEF Cat, Takes
<1>4. CASE b = <<>>
  <2>1. n \in 0 .. Len(inq["up"])
    BY <1>1, <1>2, <1>4
  <2> DEFINE f == First(inq["up"], n)
             r == Rest(inq["up"], n)
  <2>2. f \in Seq(Bytes) /\ r \in Seq(Bytes) /\ inq["up"] = Cat(f, r)
    BY <1>2, <2>1, Taken
  <2>3. /\ got' = [got EXCEPT !["up"] = Cat(@, f)]
        /\ inq' = [inq EXCEPT !["up"] = r] /\ c = b
    BY <1>1, <1>4 DEF Cat
  <2> HIDE DEF f, r
  <2> QED
    BY <1>4, <2>2, <2>3 DEF Takes
<1> QED
  BY <1>3, <1>4

LEMMA ReadHTTPInv ==
    ASSUME RelayInv, ReadHTTP
    PROVE  RelayInv'
<1> USE DEF RelayInv
<1> DEFINE u == "up"
<1>1. /\ got[u] \in Seq(Bytes) /\ inq[u] \in Seq(Bytes) /\ peeked \in Seq(Bytes)
      /\ Len(peeked) <= PeekSize /\ u \in Dirs
      /\ got \in [Dirs -> Seq(Bytes)] /\ inq \in [Dirs -> Seq(Bytes)]
  BY DEF RelayTypeOK, Dirs
<1>2. hello = <<>> /\ hand[u] = <<>> /\ ReadOn(peeked, peeked')
  BY <1>1 DEF ReadHTTP, Stages
<1>3. ASSUME NEW f \in Seq(Bytes),
             peeked' \in Seq(Bytes), Len(peeked') <= Len(peeked),
             Cat(f, peeked') = peeked, got' = [got EXCEPT ![u] = Cat(@, f)], inq' = inq
      PROVE  RelayInv'
  <2>1. Cat(got[u], f) \in Seq(Bytes) /\ Len(peeked') <= PeekSize
    BY <1>1, <1>3, CatLaws, SizesAssumption
  <2>2. RelayTypeOK'
    BY <2>1, <1>1, <1>3 DEF ReadHTTP, RelayTypeOK, ends
  <2>3. Stages'
    BY DEF ReadHTTP, Stages, ends
  <2>4. ASSUME NEW d \in Dirs PROVE Held(d)' = Stream(sent[d])'
    <3>1. CASE d # u
      BY <3>1, <1>1, <1>3, StillFlows DEF ReadHTTP, Kept, Seen, ends
    <3>2. CASE d = u
      <4>1. Held(u) = Chain(got[u], <<>>, <<>>, Cat(f, peeked'), inq[u])
        BY <1>2, <1>3 DEF Held, Kept, Seen
      <4>2. @ = Chain(Cat(got[u], f), <<>>, <<>>, peeked', inq[u])
        BY <1>1, <1>3, HTTPLaw
      <4>3. @ = Held(u)'
        BY <1>1, <1>2, <1>3 DEF Held, ReadHTTP, Kept, Seen, ends
      <4> QED
        BY <3>2, <4>1, <4>2, <4>3 DEF Flow, ReadHTTP, ends
    <3> QED
      BY <3>1, <3>2
  <2> QED
    BY <2>2, <2>3, <2>4 DEF Flow
<1>4. ASSUME NEW f \in Seq(Bytes), NEW r \in Seq(Bytes),
             peeked = <<>>, peeked' = peeked, inq[u] = Cat(f, r),
             inq' = [inq EXCEPT ![u] = r], got' = [got EXCEPT ![u] = Cat(@, f)]
      PROVE  RelayInv'
  <2>1. Cat(got[u], f) \in Seq(Bytes)
    BY <1>1, <1>4, CatLaws
  <2>2. RelayTypeOK'
    BY <2>1, <1>1, <1>4 DEF ReadHTTP, RelayTypeOK, ends
  <2>3. Stages'
    BY <1>4 DEF ReadHTTP, Stages, ends
  <2>4. ASSUME NEW d \in Dirs PROVE Held(d)' = Stream(sent[d])'
    <3>1. CASE d # u
      BY <3>1, <1>1, <1>4, StillFlows DEF ReadHTTP, Kept, Seen, ends
    <3>2. CASE d = u
      <4>1. Held(u) = Chain(got[u], <<>>, <<>>, <<>>, Cat(f, r))
        BY <1>2, <1>4 DEF Held, Kept, Seen
      <4>2. @ = Chain(Cat(got[u], f), <<>>, <<>>, <<>>, r)
        BY <1>1, <1>4, TakeLaw
      <4>3. @ = Held(u)'
        BY <1>1, <1>2, <1>4 DEF Held, ReadHTTP, Kept, Seen, ends
      <4> QED
        BY <3>2, <4>1, <4>2, <4>3 DEF Flow, ReadHTTP, ends
    <3> QED
      BY <3>1, <3>2
  <2> QED
    BY <2>2, <2>3, <2>4 DEF Flow
<1>5. Takes(peeked, peeked')
  BY <1>1, <1>2, ReadOnTakes
<1> QED
  BY <1>3, <1>4, <1>5 DEF Takes

LEMMA ReadPageInv ==
    ASSUME RelayInv, ReadPage
    PROVE  RelayInv'
<1> USE DEF RelayInv
<1> DEFINE u == "up"
<1>1. /\ got[u] \in Seq(Bytes) /\ inq[u] \in Seq(Bytes) /\ hello \in Seq(Bytes)
      /\ Len(hello) <= HelloSize /\ u \in Dirs
      /\ got \in [Dirs -> Seq(Bytes)] /\ inq \in [Dirs -> Seq(Bytes)]
  BY DEF RelayTypeOK, Dirs
<1>2. peeked = <<>> /\ hand[u] = <<>> /\ ReadOn(hello, hello')
  BY <1>1 DEF ReadPage, Stages
<1>3. ASSUME NEW f \in Seq(Bytes),
             hello' \in Seq(Bytes), Len(hello') <= Len(hello),
             Cat(f, hello') = hello, got' = [got EXCEPT ![u] = Cat(@, f)], inq' = inq
      PROVE  RelayInv'
  <2>1. Cat(got[u], f) \in Seq(Bytes) /\ Len(hello') <= HelloSize
    BY <1>1, <1>3, CatLaws, SizesAssumption
  <2>2. RelayTypeOK'
    BY <2>1, <1>1, <1>3 DEF ReadPage, RelayTypeOK, ends
  <2>3. Stages'
    BY DEF ReadPage, Stages, ends
  <2>4. ASSUME NEW d \in Dirs PROVE Held(d)' = Stream(sent[d])'
    <3>1. CASE d # u
      BY <3>1, <1>1, <1>3, StillFlows DEF ReadPage, Kept, Seen, ends
    <3>2. CASE d = u
      <4>1. Held(u) = Chain(got[u], Cat(f, hello'), <<>>, <<>>, inq[u])
        BY <1>2, <1>3 DEF Held, Kept, Seen
      <4>2. @ = Chain(Cat(got[u], f), hello', <<>>, <<>>, inq[u])
        BY <1>1, <1>3, PageLaw
      <4>3. @ = Held(u)'
        BY <1>1, <1>2, <1>3 DEF Held, ReadPage, Kept, Seen, ends
      <4> QED
        BY <3>2, <4>1, <4>2, <4>3 DEF Flow, ReadPage, ends
    <3> QED
      BY <3>1, <3>2
  <2> QED
    BY <2>2, <2>3, <2>4 DEF Flow
<1>4. ASSUME NEW f \in Seq(Bytes), NEW r \in Seq(Bytes),
             hello = <<>>, hello' = hello, inq[u] = Cat(f, r),
             inq' = [inq EXCEPT ![u] = r], got' = [got EXCEPT ![u] = Cat(@, f)]
      PROVE  RelayInv'
  <2>1. Cat(got[u], f) \in Seq(Bytes)
    BY <1>1, <1>4, CatLaws
  <2>2. RelayTypeOK'
    BY <2>1, <1>1, <1>4 DEF ReadPage, RelayTypeOK, ends
  <2>3. Stages'
    BY <1>4 DEF ReadPage, Stages, ends
  <2>4. ASSUME NEW d \in Dirs PROVE Held(d)' = Stream(sent[d])'
    <3>1. CASE d # u
      BY <3>1, <1>1, <1>4, StillFlows DEF ReadPage, Kept, Seen, ends
    <3>2. CASE d = u
      <4>1. Held(u) = Chain(got[u], <<>>, <<>>, <<>>, Cat(f, r))
        BY <1>2, <1>4 DEF Held, Kept, Seen
      <4>2. @ = Chain(Cat(got[u], f), <<>>, <<>>, <<>>, r)
        BY <1>1, <1>4, TakeLaw
      <4>3. @ = Held(u)'
        BY <1>1, <1>2, <1>4 DEF Held, ReadPage, Kept, Seen, ends
      <4> QED
        BY <3>2, <4>1, <4>2, <4>3 DEF Flow, ReadPage, ends
    <3> QED
      BY <3>1, <3>2
  <2> QED
    BY <2>2, <2>3, <2>4 DEF Flow
<1>5. Takes(hello, hello')
  BY <1>1, <1>2, ReadOnTakes
<1> QED
  BY <1>3, <1>4, <1>5 DEF Takes

LEMMA CopyReadInv ==
    ASSUME RelayInv, NEW c \in Dirs, CopyRead(c)
    PROVE  RelayInv'
<1> USE DEF RelayInv
<1>1. PICK n \in 1 .. MaxBytes :
          /\ n <= Len(inq[c])
          /\ hand' = [hand EXCEPT ![c] = First(inq[c], n)]
          /\ inq' = [inq EXCEPT ![c] = Rest(@, n)]
  BY DEF CopyRead
<1>2. /\ n \in 0 .. Len(inq[c]) /\ got[c] \in Seq(Bytes) /\ inq[c] \in Seq(Bytes)
      /\ hand \in [Dirs -> Seq(Bytes)] /\ inq \in [Dirs -> Seq(Bytes)]
  BY <1>1, SizesAssumption DEF RelayTypeOK
<1>3. /\ hand[c] = <<>> /\ Kept(c) = <<>> /\ Seen(c) = <<>>
      /\ at \in {"copy", "over"}
  BY DEF CopyRead, Stages, Kept, Seen
<1> DEFINE f == First(inq[c], n)
           r == Rest(inq[c], n)
<1>4. f \in Seq(Bytes) /\ r \in Seq(Bytes) /\ Cat(f, r) = inq[c]
  BY <1>2, Taken
<1>5. hand' = [hand EXCEPT ![c] = f] /\ inq' = [inq EXCEPT ![c] = r]
  BY <1>1
<1> HIDE DEF f, r
<1>6. RelayTypeOK'
  BY <1>2, <1>4, <1>5 DEF CopyRead, RelayTypeOK, ends
<1>7. Stages'
  BY <1>3, <1>5 DEF CopyRead, Stages, ends
<1>8. ASSUME NEW d \in Dirs PROVE Held(d)' = Stream(sent[d])'
  <2>1. CASE d # c
    BY <2>1, <1>2, <1>5, StillFlows DEF CopyRead, Kept, Seen, ends
  <2>2. CASE d = c
    <3>1. Held(c) = Chain(got[c], <<>>, <<>>, <<>>, Cat(f, r))
      BY <1>3, <1>4 DEF Held
    <3>2. @ = Chain(got[c], <<>>, f, <<>>, r)
      BY <1>2, <1>4, ReadLaw
    <3>3. @ = Held(c)'
      BY <1>2, <1>3, <1>5 DEF Held, CopyRead, Kept, Seen, ends
    <3> QED
      BY <2>2, <3>1, <3>2, <3>3 DEF Flow, CopyRead, ends
  <2> QED
    BY <2>1, <2>2
<1> QED
  BY <1>6, <1>7, <1>8 DEF Flow

LEMMA CopyWriteInv ==
    ASSUME RelayInv, NEW c \in Dirs, CopyWrite(c)
    PROVE  RelayInv'
<1> USE DEF RelayInv
<1>1. /\ got[c] \in Seq(Bytes) /\ hand[c] \in Seq(Bytes) /\ inq[c] \in Seq(Bytes)
      /\ Seen(c) \in Seq(Bytes) /\ Kept(c) = <<>> /\ at \in {"copy", "over"}
      /\ hand \in [Dirs -> Seq(Bytes)] /\ got \in [Dirs -> Seq(Bytes)]
  BY DEF CopyWrite, Stages, Kept, Seen, RelayTypeOK
<1>2. /\ got' = [got EXCEPT ![c] = Cat(@, hand[c])] /\ hand' = [hand EXCEPT ![c] = <<>>]
      /\ Cat(got[c], hand[c]) \in Seq(Bytes)
  BY <1>1, CatLaws DEF CopyWrite, Cat
<1>3. RelayTypeOK'
  <2>1. got' \in [Dirs -> Seq(Bytes)] /\ hand' \in [Dirs -> Seq(Bytes)]
    BY <1>1, <1>2, CatLaws
  <2> QED
    BY <2>1 DEF CopyWrite, RelayTypeOK, ends
<1>4. Stages'
  BY <1>1, <1>2 DEF CopyWrite, Stages, ends
<1>5. ASSUME NEW d \in Dirs PROVE Held(d)' = Stream(sent[d])'
  <2>1. CASE d # c
    BY <2>1, <1>1, <1>2, StillFlows DEF CopyWrite, Kept, Seen, ends
  <2>2. CASE d = c
    <3>1. Held(c) = Chain(got[c], <<>>, hand[c], Seen(c), inq[c])
      BY <1>1 DEF Held
    <3>2. @ = Chain(Cat(got[c], hand[c]), <<>>, <<>>, Seen(c), inq[c])
      BY <1>1, WriteLaw
    <3>3. @ = Held(c)'
      BY <1>1, <1>2 DEF Held, CopyWrite, Kept, Seen, ends
    <3> QED
      BY <2>2, <3>1, <3>2, <3>3 DEF Flow, CopyWrite, ends
  <2> QED
    BY <2>1, <2>2
<1> QED
  BY <1>3, <1>4, <1>5 DEF Flow

LEMMA NextInv == RelayInv /\ [Next]_vars => RelayInv'
<1> SUFFICES ASSUME RelayInv, [Next]_vars PROVE RelayInv'
  OBVIOUS
<1>1. CASE Environment
  BY <1>1, SendInv, StillInv DEF Environment
<1>2. CASE Handler
  BY <1>2, PeekInv, ReadHelloInv, ReplayInv, StillInv DEF Handler
<1>3. CASE ReadHTTP \/ ReadPage
  BY <1>3, ReadHTTPInv, ReadPageInv
<1>4. ASSUME NEW d \in Dirs, Copy(d) PROVE RelayInv'
  BY <1>4, CopyReadInv, CopyWriteInv, StillInv DEF Copy
<1>5. CASE UNCHANGED vars
  BY <1>5, StillInv
<1> QED
  BY <1>1, <1>2, <1>3, <1>4, <1>5 DEF Next

LEMMA RelayInvariant == Spec => []RelayInv
BY InitInv, NextInv, PTL DEF Spec

\* No buffer of a relay holds more than it has room for: the reader of the
\* first byte PeekSize, the ClientHello HelloSize.
THEOREM RelayTypeCorrect == Spec => []RelayTypeOK
<1>1. RelayInv => RelayTypeOK
  BY DEF RelayInv
<1> QED
  BY <1>1, RelayInvariant, PTL

-----------------------------------------------------------------------------
(***************************************************************************)
(* Relay implements Pipe.                                                  *)
(***************************************************************************)

\* The abstract connection of a state.
Sent == [d \in Dirs |-> Stream(sent[d])]

LEMMA PipeUnchanged ==
    ASSUME UNCHANGED <<sent, got, fin, eof, Broken>>
    PROVE  UNCHANGED P!vars
BY DEF P!vars

Begins(a, s) == Len(a) \in 0 .. Len(s) /\ a = SubSeq(s, 1, Len(a))

\* The foremost of a chain is its beginning.
LEMMA ChainBegins ==
    \A a, k, h, p, q \in Seq(Bytes) : Begins(a, Chain(a, k, h, p, q))
<1> TAKE a, k, h, p, q \in Seq(Bytes)
<1> DEFINE t == Cat(k, Cat(h, Cat(p, q)))
<1>1. t \in Seq(Bytes)
  BY CatLaws
<1> HIDE DEF t
<1>2. Len(a) <= Len(Cat(a, t)) /\ a = SubSeq(Cat(a, t), 1, Len(a))
  BY <1>1, PrefixOf DEF Cat
<1>3. Len(a) \in Nat /\ Cat(a, t) \in Seq(Bytes)
  BY <1>1, CatLaws, Zenon, LenCat
<1>4. Len(Cat(a, t)) \in Nat
  BY <1>3, LenCat
<1> QED
  BY <1>2, <1>3, <1>4 DEF t, Chain, Begins

\* A step in which a receiver gets t.
LEMMA GetsIsDeliver ==
    ASSUME RelayInv, RelayInv', NEW d \in Dirs,
           NEW t \in Seq(Bytes), got' = [got EXCEPT ![d] = Cat(@, t)],
           d \notin eof, UNCHANGED <<sent, fin, eof, Broken>>
    PROVE  P!Deliver(d)
<1>1. got[d] \in Seq(Bytes) /\ got'[d] = Cat(got[d], t)
  BY DEF RelayInv, RelayTypeOK
<1>2. Len(got'[d]) = Len(got[d]) + Len(t) /\ Len(t) \in Nat /\ Len(got[d]) \in Nat
  BY <1>1, LenCat
<1>3. /\ got'[d] \in Seq(Bytes) /\ Kept(d)' \in Seq(Bytes) /\ hand'[d] \in Seq(Bytes)
      /\ Seen(d)' \in Seq(Bytes) /\ inq'[d] \in Seq(Bytes)
  BY DEF RelayInv, RelayTypeOK, Kept, Seen
<1>4. Stream(sent[d]) = Chain(got'[d], Kept(d)', hand'[d], Seen(d)', inq'[d])
  BY DEF RelayInv, Flow, Held
<1>5. Begins(got'[d], Stream(sent[d]))
  BY <1>3, <1>4, ChainBegins
<1> DEFINE n == Len(got'[d])
<1>6. n \in Len(got[d]) .. Len(Sent[d])
  BY <1>2, <1>5 DEF Sent, Begins
<1>7. got' = [got EXCEPT ![d] = SubSeq(Sent[d], 1, n)]
  BY <1>1, <1>5 DEF Sent, Begins
<1> QED
  BY <1>6, <1>7 DEF P!Deliver, Sent

LEMMA InitPipe == Init => P!Init
<1> SUFFICES ASSUME Init PROVE P!Init
  OBVIOUS
<1>1. Stream(0) = <<>>
  BY SizesAssumption, StreamFacts, EmptySeq
<1> QED
  BY <1>1 DEF Init, P!Init, Broken

\* The last step of a direction's copy, and of the handler.
LEMMA EndsIsEnd ==
    ASSUME RelayInv, NEW d \in Dirs, CopyEnds(d)
    PROVE  \E D \in SUBSET Dirs : P!Break(D) \/ P!End(D)
<1>1. /\ UNCHANGED <<sent, got, fin, reset, cut>> /\ eof' = eof \cup {d}
      /\ at = "copy" /\ Kept(d) = <<>> /\ Seen(d) = <<>> /\ CopyStops(d)
      /\ got[d] \in Seq(Bytes)
  BY DEF CopyEnds, RelayInv, RelayTypeOK, Stages, Kept, Seen, ends
<1>2. CASE reset # {}
  BY <1>1, <1>2 DEF P!Break, Broken
<1>3. CASE reset = {}
  <2>1. hand[d] = <<>> /\ d \in fin /\ inq[d] = <<>>
    BY <1>1, <1>3 DEF CopyStops
  <2>2. Chain(got[d], <<>>, <<>>, <<>>, <<>>) = Stream(sent[d])
    BY <1>1, <2>1 DEF RelayInv, Flow, Held
  <2>3. got[d] = Stream(sent[d])
    BY <1>1, <2>2, ChainEnd
  <2>4. P!End({d})
    BY <1>1, <2>1, <2>3 DEF P!End, Broken
  <2> QED
    BY <2>4
<1> QED
  BY <1>2, <1>3

LEMMA NextPipe == RelayInv /\ RelayInv' /\ [Next]_vars => [P!Next]_P!vars
<1> SUFFICES ASSUME RelayInv, RelayInv', [Next]_vars PROVE [P!Next]_P!vars
  OBVIOUS
<1> DEFINE Goal == [P!Next]_P!vars
<1>1. ASSUME NEW d \in Dirs, Send(d) PROVE Goal
  <2>1. sent[d] \in 0 .. MaxBytes /\ sent[d] < MaxBytes /\ d \notin fin
    BY <1>1 DEF Send, RelayInv, RelayTypeOK
  <2>2. sent[d] + 1 \in Bytes /\ Stream(sent[d] + 1) = Append(Stream(sent[d]), sent[d] + 1)
    BY <2>1, StreamFacts
  <2>3. Sent' = [Sent EXCEPT ![d] = Append(@, sent[d] + 1)]
    BY <1>1, <2>2 DEF Send, Sent, RelayInv, RelayTypeOK
  <2>4. P!Send(d)
    BY <1>1, <2>1, <2>2, <2>3 DEF P!Send, Send, Sent, Broken
  <2> QED
    BY <2>4 DEF P!Next
<1>2. ASSUME NEW d \in Dirs, Finish(d) PROVE Goal
  <2>1. P!Finish(d)
    BY <1>2 DEF Finish, P!Finish, Broken
  <2> QED
    BY <2>1 DEF P!Next
<1>3. ASSUME NEW d \in Dirs, Reset(d) PROVE Goal
  <2>1. P!Break({})
    BY <1>3 DEF Reset, P!Break, Broken
  <2> QED
    BY <2>1 DEF P!Next
<1>4. CASE Peek \/ PeekFails \/ ReadHello \/ Dialed
  BY <1>4, PipeUnchanged DEF Peek, PeekFails, ReadHello, Dialed, Broken, ends
<1>5. CASE Replay
  <2>1. /\ "up" \in Dirs /\ "up" \notin eof /\ hello \in Seq(Bytes)
        /\ got["up"] = <<>> /\ got' = [got EXCEPT !["up"] = hello]
        /\ UNCHANGED <<sent, fin, eof, Broken>>
    BY <1>5 DEF Replay, RelayInv, RelayTypeOK, Stages, Dirs, Broken, ends
  <2>2. got' = [got EXCEPT !["up"] = Cat(@, hello)]
    BY <2>1, CatLaws
  <2>3. P!Deliver("up")
    BY <2>1, <2>2, GetsIsDeliver
  <2> QED
    BY <2>1, <2>3 DEF P!Next
<1>6. CASE ReadHTTP \/ ReadPage
  <2>1. /\ "up" \in Dirs /\ "up" \notin eof /\ UNCHANGED <<sent, fin, eof, Broken>>
    BY <1>6 DEF ReadHTTP, ReadPage, RelayInv, Stages, Dirs, Broken, ends
  <2>2. Takes(peeked, peeked') \/ Takes(hello, hello')
    BY <1>6, ReadOnTakes DEF ReadHTTP, ReadPage, RelayInv, RelayTypeOK
  <2>3. PICK f \in Seq(Bytes) : got' = [got EXCEPT !["up"] = Cat(@, f)]
    BY <2>2 DEF Takes
  <2>4. P!Deliver("up")
    BY <2>1, <2>3, GetsIsDeliver
  <2> QED
    BY <2>1, <2>4 DEF P!Next
<1>7. CASE Refuse
  <2>1. P!Break({})
    BY <1>7 DEF Refuse, P!Break, Broken, ends
  <2> QED
    BY <2>1 DEF P!Next
<1>8. CASE DialFails \/ Answered \/ StreamEnds
  <2>1. P!Break(Dirs)
    BY <1>8 DEF DialFails, Answered, StreamEnds, Over, P!Break, Broken, RelayInv, RelayTypeOK, ends
  <2> QED
    BY <2>1 DEF P!Next
<1>9. CASE Return
  <2>1. eof = Dirs
    BY <1>9 DEF Return, RelayInv, RelayTypeOK, Stages
  <2> QED
    BY <1>9, <2>1, PipeUnchanged DEF Return, Over, Broken, RelayInv, RelayTypeOK, ends
<1>10. ASSUME NEW d \in Dirs, CopyRead(d) PROVE Goal
  BY <1>10, PipeUnchanged DEF CopyRead, Broken, ends
<1>11. ASSUME NEW d \in Dirs, CopyWrite(d) PROVE Goal
  <2>1. /\ d \notin eof /\ hand[d] \in Seq(Bytes)
        /\ got' = [got EXCEPT ![d] = Cat(@, hand[d])]
        /\ UNCHANGED <<sent, fin, eof, Broken>>
    BY <1>11 DEF CopyWrite, RelayInv, RelayTypeOK, Stages, Broken, ends, Cat
  <2>2. P!Deliver(d)
    BY <2>1, GetsIsDeliver
  <2> QED
    BY <2>2 DEF P!Next
<1>12. ASSUME NEW d \in Dirs, CopyEnds(d) PROVE Goal
  BY <1>12, EndsIsEnd DEF P!Next
<1>13. CASE UNCHANGED vars
  BY <1>13, PipeUnchanged DEF vars, Broken
<1> QED
  BY <1>1, <1>2, <1>3, <1>4, <1>5, <1>6, <1>7, <1>8, <1>9, <1>10, <1>11, <1>12, <1>13
  DEF Next, Environment, Handler, Copy

\* Whatever is read ahead, kept and replayed, the client and its backend have
\* a connection as Pipe describes it.
THEOREM RelayIsAPipe == Spec => PipeSpec
BY InitPipe, NextPipe, RelayInvariant, PTL DEF Spec, PipeSpec, P!Spec

-----------------------------------------------------------------------------
(***************************************************************************)
(* What Pipe's clients have of it, and why the copies get there.           *)
(***************************************************************************)

\* Whoever was told of the end of a stream has all of it.
WholeAtEnd == ~Broken => \A d \in eof : d \in fin /\ got[d] = Stream(sent[d])

\* No step of a pipe makes it false.
LEMMA PipeKeepsWhole ==
    RelayTypeOK /\ RelayTypeOK' /\ WholeAtEnd /\ [P!Next]_P!vars => WholeAtEnd'
<1> SUFFICES ASSUME RelayTypeOK, RelayTypeOK', WholeAtEnd, [P!Next]_P!vars PROVE WholeAtEnd'
  OBVIOUS
<1> DEFINE Whole == ~Broken => \A d \in eof : d \in fin /\ got[d] = Sent[d]
<1>1. Whole /\ eof \subseteq Dirs
  BY DEF WholeAtEnd, Sent, RelayTypeOK
<1>2. DOMAIN got = Dirs /\ DOMAIN Sent = Dirs
  BY DEF RelayTypeOK, Sent
<1>3. ASSUME NEW d \in Dirs, P!Send(d) \/ P!Finish(d) \/ P!Deliver(d) PROVE Whole'
  BY <1>1, <1>2, <1>3 DEF P!Send, P!Finish, P!Deliver, Sent
<1>4. ASSUME NEW D \in SUBSET Dirs, P!Break(D) \/ P!End(D) PROVE Whole'
  BY <1>1, <1>4 DEF P!Break, P!End, Sent
<1>5. ASSUME UNCHANGED P!vars PROVE Whole'
  <2>1. UNCHANGED <<got, fin, eof, Broken, Sent>>
    BY <1>5 DEF P!vars, Sent
  <2> QED
    BY <1>1, <2>1
<1>6. Whole' => WholeAtEnd'
  BY DEF WholeAtEnd, Sent, RelayTypeOK
<1> HIDE DEF Whole
<1>7. CASE P!Next
  BY <1>3, <1>4, <1>6, <1>7 DEF P!Next
<1>8. CASE UNCHANGED P!vars
  BY <1>5, <1>6, <1>8
<1> QED
  BY <1>7, <1>8

\* An end that is told of the end of the other's stream has got all that was
\* sent, unless an end has reset its connection or the handler has given up: what
\* a relay passes on is never a truncated stream that looks like a whole one.
THEOREM EndsAreWhole == Spec => []WholeAtEnd
<1>1. Init => WholeAtEnd
  BY DEF Init, WholeAtEnd
<1>2. RelayInv /\ RelayInv' /\ WholeAtEnd /\ [Next]_vars => WholeAtEnd'
  <2>1. RelayInv /\ RelayInv' => RelayTypeOK /\ RelayTypeOK'
    BY DEF RelayInv
  <2> QED
    BY <2>1, NextPipe, PipeKeepsWhole
<1> QED
  BY <1>1, <1>2, RelayInvariant, PTL DEF Spec

\* The goroutine of a direction has something to do.
CanGo(d) == d \in copying /\ (hand[d] # <<>> \/ inq[d] # <<>> \/ CopyStops(d))

NothingIsHeldBack ==
    ~Broken /\ at = "copy" =>
        \A d \in Dirs : got[d] # Stream(sent[d]) \/ d \in fin \ eof => CanGo(d)

\* While the copies run, a byte that has not arrived and an end that has not
\* been passed on are in the hands of a goroutine that still runs, whatever has
\* become of the other direction.  This is the safety half of Delivers.
THEOREM CopyHoldsNothingBack == Spec => []NothingIsHeldBack
<1>1. RelayInv /\ WholeAtEnd => NothingIsHeldBack
  <2> SUFFICES ASSUME RelayInv, WholeAtEnd, ~Broken, at = "copy", NEW d \in Dirs,
                      got[d] # Stream(sent[d]) \/ d \in fin \ eof
               PROVE  CanGo(d)
    BY DEF NothingIsHeldBack
  <2>1. d \in copying
    BY DEF WholeAtEnd, RelayInv, Stages
  <2>2. Kept(d) = <<>> /\ Seen(d) = <<>> /\ got[d] \in Seq(Bytes)
    BY DEF RelayInv, RelayTypeOK, Stages, Kept, Seen
  <2>3. CASE hand[d] = <<>> /\ inq[d] = <<>>
    <3>1. Chain(got[d], <<>>, <<>>, <<>>, <<>>) = Stream(sent[d])
      BY <2>2, <2>3 DEF RelayInv, Flow, Held
    <3>2. got[d] = Stream(sent[d])
      BY <3>1, <2>2, ChainEnd
    <3> QED
      BY <2>1, <2>3, <3>2 DEF CanGo, CopyStops
  <2> QED
    BY <2>1, <2>3 DEF CanGo
<1> QED
  BY <1>1, RelayInvariant, EndsAreWhole, PTL

\* A connection that is peeked at has all that the client has sent before it,
\* handleTLSConnection reads what is there already, and what it has read is not
\* empty.
WaitsForSenders ==
    /\ at = "peek" => Len(inq["up"]) = sent["up"]
    /\ at = "hello" => peeked # <<>>
    /\ at \in {"route", "replay"} => hello # <<>>
    /\ at = "copy" =>
          \/ copying = {}
          \/ \E d \in copying : CanGo(d) \/ (d \notin fin /\ From(d) \notin reset)

\* A handler waits only for a client that has not sent a byte yet, or for an end
\* that neither closes nor resets its stream.  This is the safety half of
\* RelayEnds.
THEOREM HandlersWaitForSenders == Spec => []WaitsForSenders
<1> DEFINE There == /\ at = "hello" => peeked # <<>>
                    /\ at \in {"route", "replay"} => hello # <<>>
<1>1. Init => There
  BY DEF Init
<1>2. RelayInv /\ There /\ [Next]_vars => There'
  <2> SUFFICES ASSUME RelayInv, There, [Next]_vars PROVE There'
    OBVIOUS
  <2>1. CASE Peek
    <3>1. PICK n \in 1 .. PeekSize : n <= Len(inq["up"]) /\ peeked' = First(inq["up"], n)
      BY <2>1 DEF Peek
    <3>2. inq["up"] \in Seq(Bytes) /\ n \in 0 .. Len(inq["up"])
      BY <3>1, SizesAssumption DEF RelayInv, RelayTypeOK, Dirs
    <3>3. Len(peeked') = n /\ n # 0
      BY <3>1, <3>2, Taken, SizesAssumption
    <3>4. peeked' # <<>>
      BY <3>3, EmptySeq
    <3> QED
      BY <2>1, <3>4 DEF Peek
  <2>2. CASE ReadHello
    <3>1. hello' = peeked
      BY <2>2, HelloIsAll DEF RelayInv
    <3> QED
      BY <2>2, <3>1 DEF ReadHello
  <2>3. CASE PeekFails \/ Dialed \/ Replay \/ Refuse \/ DialFails \/ Answered \/ Return \/ StreamEnds
    BY <2>3 DEF PeekFails, Dialed, Replay, Refuse, DialFails, Answered, Return, StreamEnds, Over
  <2>4. CASE Environment
    BY <2>4 DEF Environment, Send, Finish, Reset
  <2>5. CASE ReadHTTP \/ ReadPage
    BY <2>5 DEF ReadHTTP, ReadPage
  <2>6. ASSUME NEW d \in Dirs, Copy(d) PROVE There'
    BY <2>6 DEF Copy, CopyRead, CopyWrite, CopyEnds
  <2>7. CASE UNCHANGED vars
    BY <2>7 DEF vars
  <2> QED
    BY <2>1, <2>2, <2>3, <2>4, <2>5, <2>6, <2>7 DEF Next, Handler
<1>3. RelayInv /\ There => WaitsForSenders
  <2> SUFFICES ASSUME RelayInv, There PROVE WaitsForSenders
    OBVIOUS
  <2> DEFINE u == "up"
  <2>1. ASSUME at = "peek" PROVE Len(inq[u]) = sent[u]
    <3>1. /\ u \in Dirs /\ inq[u] \in Seq(Bytes) /\ sent[u] \in 0 .. MaxBytes
          /\ got[u] = <<>> /\ Kept(u) = <<>> /\ hand[u] = <<>> /\ Seen(u) = <<>>
      BY <2>1 DEF RelayInv, RelayTypeOK, Stages, Kept, Seen, Dirs
    <3>2. Chain(<<>>, <<>>, <<>>, <<>>, inq[u]) = Stream(sent[u])
      BY <3>1 DEF RelayInv, Flow, Held
    <3>3. inq[u] = Stream(sent[u])
      BY <3>1, <3>2, CatLaws DEF Chain
    <3> QED
      BY <3>1, <3>3, StreamFacts
  <2>2. ASSUME NEW d \in copying PROVE CanGo(d) \/ (d \notin fin /\ From(d) \notin reset)
    BY DEF CanGo, CopyStops
  <2> QED
    BY <2>1, <2>2 DEF WaitsForSenders
<1> QED
  BY <1>1, <1>2, <1>3, RelayInvariant, PTL DEF Spec
=============================================================================
