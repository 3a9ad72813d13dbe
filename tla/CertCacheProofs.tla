-------------------------- MODULE CertCacheProofs --------------------------
(***************************************************************************)
(* Proofs about CertCache, for any size, any hostnames and any number of   *)
(* connections.                                                            *)
(***************************************************************************)
EXTENDS CertCache, SequenceTheorems, TLAPS

Distinct(s) == \A i, j \in 1..Len(s) : s[i] = s[j] => i = j

\* KeepsRecent is inductive only of an order in which a hostname occurs once.
CertInv == CertTypeOK /\ CacheCoherent /\ CacheBounded /\ KeepsRecent /\ Distinct(recent)

\* m is s with its element x, at position i, moved to the front.
IsMoved(m, s, x, i) ==
    /\ s[i] = x
    /\ \A j \in 1..Len(s) :
            m[j] = IF j = 1 THEN x ELSE IF j <= i THEN s[j - 1] ELSE s[j]

\* MoveToFront moves one position and no other element.
LEMMA MoveToFrontMoves ==
    ASSUME NEW S, NEW s \in Seq(S), NEW x, Occurs(s, x)
    PROVE  /\ MoveToFront(s, x) \in Seq(S)
           /\ Len(MoveToFront(s, x)) = Len(s)
           /\ \E i \in 1..Len(s) : IsMoved(MoveToFront(s, x), s, x, i)
<1> DEFINE i == CHOOSE j \in 1..Len(s) : s[j] = x
           m == MoveToFront(s, x)
<1>1. i \in 1..Len(s) /\ s[i] = x
  BY DEF Occurs
<1>2. m = [j \in 1..Len(s) |-> IF j = 1 THEN x ELSE IF j <= i THEN s[j - 1] ELSE s[j]]
  BY DEF MoveToFront
<1> HIDE DEF i, m
<1>3. \A j \in 1..Len(s) : m[j] \in S
  BY <1>1, <1>2
<1>4. m \in Seq(S) /\ Len(m) = Len(s)
  BY <1>2, <1>3, IsASeq
<1>5. IsMoved(m, s, x, i)
  BY <1>1, <1>2 DEF IsMoved
<1> QED
  BY <1>1, <1>4, <1>5 DEF m

\* So the elements stay the same and distinct.
LEMMA MovedElements ==
    ASSUME NEW S, NEW s \in Seq(S), NEW m \in Seq(S), Len(m) = Len(s), NEW x,
           NEW i \in 1..Len(s), IsMoved(m, s, x, i)
    PROVE  /\ \A y : Occurs(m, y) <=> Occurs(s, y)
           /\ Distinct(s) => Distinct(m)
<1> USE DEF IsMoved
<1>1. \A y : Occurs(m, y) => Occurs(s, y)
  BY DEF Occurs
<1>2. ASSUME NEW j \in 1..Len(s) PROVE \E k \in 1..Len(m) : m[k] = s[j]
  <2>1. CASE j = i
    BY <2>1
  <2>2. CASE j < i
    <3>1. j + 1 \in 1..Len(m) /\ m[j + 1] = s[j]
      BY <2>2
    <3> QED
      BY <3>1
  <2>3. CASE j > i
    BY <2>3
  <2> QED
    BY <2>1, <2>2, <2>3
<1>3. Distinct(s) => Distinct(m)
  BY SMTT(30) DEF Distinct
<1> QED
  BY <1>1, <1>2, <1>3, ZenonT(30) DEF Occurs

\* PushFront makes room for one element more.
LEMMA PushFrontShifts ==
    ASSUME NEW S, NEW s \in Seq(S), NEW x \in S
    PROVE  /\ PushFront(s, x) \in Seq(S)
           /\ Len(PushFront(s, x)) = Len(s) + 1
           /\ PushFront(s, x)[1] = x
           /\ \A j \in 2..Len(s) + 1 : PushFront(s, x)[j] = s[j - 1]
BY DEF PushFront

\* The order of last use stays a sequence of distinct hostnames, and is the
\* one before but for h.
LEMMA UsedFacts ==
    ASSUME NEW h \in Hosts, recent \in Seq(Hosts), Distinct(recent)
    PROVE  Used(h) \in Seq(Hosts) /\ Distinct(Used(h))
<1>1. CASE Occurs(recent, h)
  <2> DEFINE m == MoveToFront(recent, h)
  <2>1. PICK i \in 1..Len(recent) :
            m \in Seq(Hosts) /\ Len(m) = Len(recent) /\ IsMoved(m, recent, h, i)
    BY <1>1, MoveToFrontMoves
  <2>2. Distinct(m)
    BY <2>1, MovedElements
  <2> QED
    BY <1>1, <2>1, <2>2 DEF Used
<1>2. CASE ~Occurs(recent, h)
  <2> DEFINE m == PushFront(recent, h)
  <2>1. /\ m \in Seq(Hosts) /\ Len(m) = Len(recent) + 1 /\ m[1] = h
        /\ \A j \in 2..Len(recent) + 1 : m[j] = recent[j - 1]
    BY PushFrontShifts
  <2>2. Used(h) = m
    BY <1>2 DEF Used
  <2> HIDE DEF m
  <2>3. \A j \in 2..Len(m) : j - 1 \in 1..Len(recent) /\ m[j] = recent[j - 1] /\ m[j] # h
    BY <1>2, <2>1 DEF Occurs
  <2>4. ASSUME NEW j \in 1..Len(m), NEW k \in 1..Len(m), m[j] = m[k] PROVE j = k
    <3>1. CASE j = 1 \/ k = 1
      BY <2>1, <2>3, <2>4, <3>1
    <3>2. CASE j # 1 /\ k # 1
      BY <2>1, <2>3, <2>4, <3>2, SMTT(30) DEF Distinct
    <3> QED
      BY <3>1, <3>2
  <2> QED
    BY <2>1, <2>2, <2>4 DEF Distinct
<1> QED
  BY <1>1, <1>2

\* An empty cache.
LEMMA InitCert == Init => CertInv
BY CacheAssumption DEF Init, CertInv, CertTypeOK, CacheCoherent, CacheBounded, KeepsRecent,
   Distinct, Occurs

\* A hit at position i of the list is one at position i of the hostnames.
LEMMA HitKeepsCache ==
    ASSUME CertInv, NEW g \in Conns, NEW h \in Hosts, Hit(g, h)
    PROVE  /\ lruList' \in Seq(Entries)
           /\ CacheCoherent' /\ CacheBounded' /\ KeepsRecent'
<1> USE DEF CertInv, CertTypeOK, CacheCoherent, CacheBounded, KeepsRecent
<1> DEFINE e == certCache[h]
<1>1. e.hostname = h /\ Occurs(lruList, e)
  BY DEF Hit
<1>2. PICK i \in 1..Len(lruList) :
          lruList' \in Seq(Entries) /\ Len(lruList') = Len(lruList) /\ IsMoved(lruList', lruList, e, i)
  BY <1>1, MoveToFrontMoves DEF Hit
<1>3. recent[i] = h /\ i \in 1..Len(recent)
  BY <1>1, <1>2 DEF IsMoved
<1>4. PICK k \in 1..Len(recent) :
          recent' \in Seq(Hosts) /\ Len(recent') = Len(recent) /\ IsMoved(recent', recent, h, k)
  <2>1. Occurs(recent, h)
    BY <1>3 DEF Occurs
  <2> QED
    BY <2>1, MoveToFrontMoves DEF Hit, Used
<1>5. k = i
  BY <1>3, <1>4 DEF IsMoved, Distinct
<1>6. /\ \A y : Occurs(lruList', y) <=> Occurs(lruList, y)
      /\ Distinct(lruList')
  <2>1. Distinct(lruList)
    BY DEF Distinct
  <2> QED
    BY <1>2, <2>1, MovedElements
<1>7. CacheCoherent'
  <2>1. ASSUME NEW j \in 1..Len(lruList')
        PROVE  certCache[lruList'[j].hostname] = lruList'[j]
    <3>1. Occurs(lruList, lruList'[j])
      BY <1>6 DEF Occurs
    <3> QED
      BY <3>1 DEF Occurs
  <2> QED
    BY <1>6, <2>1 DEF Hit, Distinct
<1>8. KeepsRecent'
  <2> HIDE DEF e
  <2>1. ASSUME NEW j \in 1..Len(lruList)
        PROVE  /\ lruList'[j] = IF j = 1 THEN e ELSE IF j <= i THEN lruList[j - 1] ELSE lruList[j]
               /\ recent'[j] = IF j = 1 THEN h ELSE IF j <= i THEN recent[j - 1] ELSE recent[j]
    BY <1>2, <1>4, <1>5 DEF IsMoved
  <2>2. \A j \in 1..Len(lruList) : lruList[j].hostname = recent[j]
    OBVIOUS
  <2>3. ASSUME NEW j \in 1..Len(lruList') PROVE lruList'[j].hostname = recent'[j]
    <3>1. CASE j = 1
      BY <1>1, <1>2, <2>1, <3>1
    <3>2. CASE j # 1 /\ j <= i
      <4>1. j - 1 \in 1..Len(lruList) /\ j \in 1..Len(lruList)
        BY <1>2, <3>2
      <4> QED
        <5>1. lruList'[j] = lruList[j - 1] /\ recent'[j] = recent[j - 1]
          BY <2>1, <3>2, <4>1
        <5>2. lruList[j - 1].hostname = recent[j - 1]
          BY <2>2, <4>1
        <5> QED
          BY <5>1, <5>2
    <3>3. CASE j # 1 /\ j > i
      BY <1>2, <2>1, <2>2, <3>3
    <3> QED
      BY <3>1, <3>2, <3>3
  <2> QED
    BY <1>2, <1>4, <2>3
<1> QED
  BY <1>2, <1>7, <1>8

\* A new entry pushes the hostname used longest ago out of a full cache.
LEMMA InsertKeepsCache ==
    ASSUME CertInv, NEW g \in Conns, NEW h \in Hosts, NEW c \in Certs, certCache[h] = None,
           Insert(g, h, c, Len(lruList) >= Size, FALSE)
    PROVE  /\ lruList' \in Seq(Entries)
           /\ certCache' \in [Hosts -> Entries \cup {None}]
           /\ CacheCoherent' /\ CacheBounded' /\ KeepsRecent'
<1> USE CacheAssumption, NoEntryAssumption DEF CertInv, CertTypeOK
<1> DEFINE n == Len(lruList)
           full == n >= Size
           entry == [hostname |-> h, cert |-> c]
           rest == IF full THEN SubSeq(lruList, 1, n - 1) ELSE lruList
           m == IF full THEN n - 1 ELSE n
<1>1. entry \in Entries
  BY DEF Entries
<1>2. rest \in Seq(Entries) /\ Len(rest) = m /\ \A j \in 1..m : rest[j] = lruList[j]
  OBVIOUS
<1>3. /\ lruList' \in Seq(Entries) /\ Len(lruList') = m + 1 /\ lruList'[1] = entry
      /\ \A j \in 2..m + 1 : lruList'[j] = lruList[j - 1]
  <2>1. lruList' = PushFront(rest, entry)
    BY DEF Insert
  <2>r. rest \in Seq(Entries)
    BY <1>2
  <2> HIDE CacheAssumption, NoEntryAssumption DEF rest, entry, m, CertInv, CertTypeOK
  <2>2. /\ PushFront(rest, entry) \in Seq(Entries)
        /\ Len(PushFront(rest, entry)) = Len(rest) + 1
        /\ PushFront(rest, entry)[1] = entry
        /\ \A j \in 2..Len(rest) + 1 : PushFront(rest, entry)[j] = rest[j - 1]
    BY <1>1, <2>r, PushFrontShifts
  <2>3. ASSUME NEW j \in 2..m + 1 PROVE lruList'[j] = lruList[j - 1]
    <3>1. m \in Nat /\ j - 1 \in 1..m
      BY <1>2
    <3> QED
      BY <1>2, <2>1, <2>2, <3>1
  <2> QED
    BY <1>2, <2>1, <2>2, <2>3
<1>4. \A x \in Hosts : certCache'[x] =
          IF x = h THEN entry
          ELSE IF full /\ x = lruList[n].hostname THEN None ELSE certCache[x]
  BY DEF Insert
<1>5. certCache' \in [Hosts -> Entries \cup {None}]
  BY <1>1 DEF Insert
<1>6. \A j \in 1..n : lruList[j] \in Entries /\ lruList[j].hostname \in Hosts /\ lruList[j].hostname # h
  <2>1. \A j \in 1..n : lruList[j] \in Entries /\ certCache[lruList[j].hostname] = lruList[j]
    BY DEF CacheCoherent
  <2> QED
    BY <2>1 DEF Entries
<1>7. \A j, k \in 1..n : lruList[j].hostname = lruList[k].hostname => j = k
  BY DEF CacheCoherent
<1>8. CacheCoherent'
  <2>1. ASSUME NEW x \in Hosts, certCache'[x] # None
        PROVE  certCache'[x].hostname = x /\ Occurs(lruList', certCache'[x])
    <3>1. CASE x = h
      BY <1>3, <1>4, <3>1 DEF Occurs
    <3>2. CASE x # h
      <4>1. certCache'[x] = certCache[x] /\ certCache[x].hostname = x
        BY <1>4, <2>1, <3>2 DEF CacheCoherent
      <4>2. PICK j \in 1..n : lruList[j] = certCache[x]
        BY <2>1, <4>1 DEF CacheCoherent, Occurs
      <4>3. j \in 1..m
        BY <1>4, <2>1, <3>2, <4>1, <4>2
      <4>4. j + 1 \in 1..Len(lruList') /\ lruList'[j + 1] = certCache[x]
        BY <1>3, <4>2, <4>3
      <4> QED
        BY <4>1, <4>4 DEF Occurs
    <3> QED
      BY <3>1, <3>2
  <2>2. ASSUME NEW j \in 1..Len(lruList')
        PROVE  certCache'[lruList'[j].hostname] = lruList'[j]
    <3>1. CASE j = 1
      BY <1>3, <1>4, <3>1
    <3>2. CASE j # 1
      <4>1. j - 1 \in 1..m /\ j - 1 \in 1..n /\ lruList'[j] = lruList[j - 1]
        BY <1>3, <3>2
      <4>2. full => lruList[j - 1].hostname # lruList[n].hostname
        BY <1>7, <4>1, SMTT(30)
      <4> QED
        BY <1>4, <1>6, <4>1, <4>2 DEF CacheCoherent
    <3> QED
      BY <3>1, <3>2
  <2>3. ASSUME NEW j \in 1..Len(lruList'), NEW k \in 1..Len(lruList'), lruList'[j] = lruList'[k]
        PROVE  j = k
    <3>1. \A l \in 2..m + 1 : lruList'[l].hostname # h /\ lruList'[l] = lruList[l - 1] /\ l - 1 \in 1..n
      BY <1>3, <1>6
    <3>2. lruList'[1].hostname = h
      BY <1>3
    <3>3. CASE j = 1 \/ k = 1
      BY <1>3, <2>3, <3>1, <3>2, <3>3
    <3>4. CASE j # 1 /\ k # 1
      <4>1. j \in 2..m + 1 /\ k \in 2..m + 1
        BY <1>3, <3>4
      <4>2. lruList[j - 1] = lruList[k - 1] /\ j - 1 \in 1..n /\ k - 1 \in 1..n
        BY <2>3, <3>1, <4>1
      <4>3. j - 1 = k - 1
        BY <1>7, <4>2
      <4> QED
        BY <4>3
    <3> QED
      BY <3>3, <3>4
  <2> QED
    BY <2>1, <2>2, <2>3 DEF CacheCoherent
<1>9. CacheBounded'
  BY <1>3 DEF CacheBounded
<1>10. KeepsRecent'
  <2>1. \A j \in 1..n : recent[j] # h
    BY <1>6 DEF KeepsRecent
  <2>2. CASE Occurs(recent, h)
    <3>1. PICK k \in 1..Len(recent) :
              recent' \in Seq(Hosts) /\ Len(recent') = Len(recent) /\ IsMoved(recent', recent, h, k)
      BY <2>2, MoveToFrontMoves DEF Insert, Used
    <3>2. k > n
      BY <2>1, <3>1 DEF IsMoved
    <3>3. full /\ n = Size
      BY <3>1, <3>2 DEF KeepsRecent
    <3>4. \A j \in 1..Len(lruList') : lruList'[j].hostname = recent'[j]
      BY <1>3, <3>1, <3>2, <3>3 DEF IsMoved, KeepsRecent
    <3> QED
      BY <1>3, <3>1, <3>2, <3>3, <3>4 DEF KeepsRecent
  <2>3. CASE ~Occurs(recent, h)
    <3>1. /\ recent' \in Seq(Hosts) /\ Len(recent') = Len(recent) + 1 /\ recent'[1] = h
          /\ \A j \in 2..Len(recent) + 1 : recent'[j] = recent[j - 1]
      <4>1. recent' = PushFront(recent, h)
        BY <2>3 DEF Insert, Used
      <4>2. recent \in Seq(Hosts)
        OBVIOUS
      <4> HIDE CacheAssumption, NoEntryAssumption DEF CertInv, CertTypeOK
      <4>3. /\ PushFront(recent, h) \in Seq(Hosts)
            /\ Len(PushFront(recent, h)) = Len(recent) + 1
            /\ PushFront(recent, h)[1] = h
            /\ \A j \in 2..Len(recent) + 1 : PushFront(recent, h)[j] = recent[j - 1]
        BY <4>2, PushFrontShifts
      <4> QED
        BY <4>1, <4>3
    <3>2. lruList'[1].hostname = recent'[1]
      BY <1>3, <3>1
    <3>3. \A j \in 2..Len(lruList') : lruList'[j].hostname = recent'[j]
      <4>1. \A j \in 1..n : lruList[j].hostname = recent[j] /\ j \in 1..Len(recent)
        BY DEF KeepsRecent
      <4>2. \A j \in 2..Len(lruList') : j - 1 \in 1..n /\ j \in 2..m + 1
        BY <1>3
      <4>3. \A j \in 2..Len(lruList') : j \in 2..Len(recent) + 1
        BY <4>1, <4>2
      <4> HIDE DEF CertInv, CertTypeOK
      <4> QED
        BY <1>3, <3>1, <4>1, <4>2, <4>3
    <3>4. \A j \in 1..Len(lruList') : lruList'[j].hostname = recent'[j]
      BY <1>3, <3>2, <3>3
    <3> QED
      BY <1>3, <3>1, <3>4 DEF KeepsRecent, CacheBounded
  <2> QED
    BY <2>2, <2>3
<1> QED
  BY <1>3, <1>5, <1>8, <1>9, <1>10

\* Lookup and Generate change the cache in these two ways, the other steps
\* leave it alone.
LEMMA StepCert == CertInv /\ [Next]_vars => CertInv'
<1> SUFFICES ASSUME CertInv, [Next]_vars PROVE CertInv'
  OBVIOUS
<1> USE DEF CertTypeOK, connVars
<1>1. ASSUME NEW g \in Conns, NEW h \in Hosts, Hit(g, h),
             want' \in [Conns -> Hosts \cup {None}], want'[g] = h,
             \A q \in Conns : q # g => want'[q] = want[q]
      PROVE  CertInv'
  <2>1. recent' \in Seq(Hosts) /\ Distinct(recent')
    BY <1>1, UsedFacts DEF CertInv, Hit
  <2>2. certCache[h] \in Entries
    BY <1>1 DEF CertInv, Hit
  <2>3. certCache[h].cert \in Certs
    BY <2>2 DEF Entries
  <2>4. CertTypeOK'
    BY <1>1, <2>1, <2>3, HitKeepsCache DEF CertInv, Hit, Return
  <2> QED
    BY <1>1, <2>1, <2>4, HitKeepsCache DEF CertInv
<1>2. ASSUME NEW g \in Conns, NEW h \in Hosts, Lookup(g, h) PROVE CertInv'
  <2>1. want' \in [Conns -> Hosts \cup {None}] /\ want'[g] = h
        /\ \A q \in Conns : q # g => want'[q] = want[q]
    BY <1>2 DEF Lookup, CertInv
  <2>2. CASE Hit(g, h)
    BY <1>1, <2>1, <2>2
  <2>3. CASE ~Hit(g, h)
    BY <1>2, <2>3 DEF Lookup, CertInv, CacheCoherent, CacheBounded, KeepsRecent, Distinct, Occurs
  <2> QED
    BY <2>2, <2>3
<1>3. ASSUME NEW g \in Conns, Generate(g) PROVE CertInv'
  <2>1. want[g] \in Hosts /\ want' = want
    BY <1>3 DEF Generate, CertInv
  <2>2. CASE Hit(g, want[g])
    BY <1>1, <2>1, <2>2 DEF CertInv
  <2>3. ASSUME NEW c \in Certs, certCache[want[g]] = None,
               Insert(g, want[g], c, Len(lruList) >= Size, FALSE)
        PROVE  CertInv'
    <3>1. recent' \in Seq(Hosts) /\ Distinct(recent')
      BY <2>1, <2>3, UsedFacts DEF CertInv, Insert
    <3>2. /\ lruList' \in Seq(Entries)
          /\ certCache' \in [Hosts -> Entries \cup {None}]
          /\ CacheCoherent' /\ CacheBounded' /\ KeepsRecent'
      BY <2>1, <2>3, InsertKeepsCache
    <3>3. Return(g, c)
      BY <2>3 DEF Insert
    <3>4. CertTypeOK'
      BY <2>1, <3>1, <3>2, <3>3 DEF CertInv, Return
    <3> QED
      BY <3>1, <3>2, <3>4 DEF CertInv
  <2> QED
    BY <1>3, <2>2, <2>3 DEF Generate, Add
<1>4. ASSUME NEW g \in Conns, GenerateFails(g) \/ Close(g) PROVE CertInv'
  BY <1>4, SMTT(30) DEF GenerateFails, Close, CertInv, CacheCoherent, CacheBounded, KeepsRecent, Distinct,
     Occurs
<1>5. CASE UNCHANGED vars
  BY <1>5 DEF vars, CertInv, CacheCoherent, CacheBounded, KeepsRecent, Distinct, Occurs
<1> QED
  BY <1>2, <1>3, <1>4, <1>5 DEF Next

\* The three facts of an inductive invariant, put together.
LEMMA CertInductive == Spec => []CertInv
BY InitCert, StepCert, PTL DEF Spec

\* The cache and the connections keep their types; no page is sent without a
\* certificate.
THEOREM CertTypeCorrect == Spec => []CertTypeOK
<1>1. CertInv => CertTypeOK
  BY DEF CertInv
<1> QED
  BY <1>1, CertInductive, PTL

\* certCache and lruList agree in every state of every execution.
THEOREM CacheIsCoherent == Spec => []CacheCoherent
<1>1. CertInv => CacheCoherent
  BY DEF CertInv
<1> QED
  BY <1>1, CertInductive, PTL

\* GetCertificate never lets the list outgrow maxCertCacheSize.
THEOREM CacheIsBounded == Spec => []CacheBounded
<1>1. CertInv => CacheBounded
  BY DEF CertInv
<1> QED
  BY <1>1, CertInductive, PTL

\* What GetCertificate evicts is the hostname used longest ago.
THEOREM RecentAreKept == Spec => []KeepsRecent
<1>1. CertInv => KeepsRecent
  BY DEF CertInv
<1> QED
  BY <1>1, CertInductive, PTL

\* A cached certificate is not replaced, and GetCertificate returns it.
THEOREM OneCertificateEach == Spec => OneCertificate
<1> DEFINE Kept == \A h \in Hosts : certCache[h] # None /\ certCache'[h] # None
                        => certCache'[h] = certCache[h]
           FromCache == \A g \in Conns : pc[g] # "page" /\ pc'[g] = "page"
                        => certCache'[want'[g]] = [hostname |-> want'[g], cert |-> served'[g]]
<1>1. CertInv /\ [Next]_vars => [Kept /\ FromCache]_vars
  <2> SUFFICES ASSUME CertInv, Next PROVE Kept /\ FromCache
    OBVIOUS
  <2> USE DEF CertInv, CertTypeOK
  <2>1. ASSUME NEW g \in Conns, NEW h \in Hosts, Hit(g, h), want'[g] = h
        PROVE  Kept /\ FromCache
    <3>1. certCache[h] \in Entries /\ certCache[h].hostname = h
      BY <2>1 DEF Hit, CacheCoherent
    <3>2. certCache[h] = [hostname |-> h, cert |-> certCache[h].cert]
      BY <3>1 DEF Entries
    <3>3. served'[g] = certCache[h].cert /\ \A q \in Conns : q # g => pc'[q] = pc[q]
      BY <2>1 DEF Hit, Return
    <3> QED
      BY <2>1, <3>2, <3>3 DEF Hit
  <2>2. ASSUME NEW g \in Conns, NEW c \in Certs, want[g] \in Hosts, want' = want,
               certCache[want[g]] = None,
               Insert(g, want[g], c, Len(lruList) >= Size, FALSE)
        PROVE  Kept /\ FromCache
    <3>1. served'[g] = c /\ \A q \in Conns : q # g => pc'[q] = pc[q]
      BY <2>2 DEF Insert, Return
    <3>2. certCache'[want[g]] = [hostname |-> want[g], cert |-> c]
      BY <2>2 DEF Insert
    <3>3. Kept
      BY <2>2 DEF Insert
    <3> QED
      BY <2>2, <3>1, <3>2, <3>3
  <2>3. ASSUME NEW g \in Conns, NEW h \in Hosts, Lookup(g, h) PROVE Kept /\ FromCache
    <3>1. CASE Hit(g, h)
      BY <2>1, <2>3, <3>1 DEF Lookup
    <3>2. CASE ~Hit(g, h)
      BY <2>3, <3>2 DEF Lookup
    <3> QED
      BY <3>1, <3>2
  <2>4. ASSUME NEW g \in Conns, Generate(g) PROVE Kept /\ FromCache
    <3>1. want[g] \in Hosts /\ want' = want
      BY <2>4 DEF Generate
    <3> QED
      BY <2>1, <2>2, <2>4, <3>1 DEF Generate, Add
  <2>5. ASSUME NEW g \in Conns, GenerateFails(g) \/ Close(g) PROVE Kept /\ FromCache
    BY <2>5 DEF GenerateFails, Close
  <2> QED
    BY <2>3, <2>4, <2>5 DEF Next
<1> QED
  BY <1>1, CertInductive, PTL DEF Spec, OneCertificate
=============================================================================
