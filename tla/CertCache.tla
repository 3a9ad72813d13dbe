----------------------------- MODULE CertCache -----------------------------
(***************************************************************************)
(* The certificates of TLS error pages: tlsErrorCertProvider of            *)
(* internal/httpserver, used by sendTLSErrorPage in the goroutine of each  *)
(* connection.                                                             *)
(*                                                                         *)
(* certCache maps hostnames to elements of lruList; both are protected by  *)
(* cacheMu, but a certificate is generated outside of it.  An element is   *)
(* its entry here, and a certificate that nobody refers to any more may    *)
(* stand for a new one.  Validity periods are not modelled.                *)
(***************************************************************************)
EXTENDS Naturals, Sequences

CONSTANTS
    Conns,      \* goroutines that serve connections, one after the other
    Hosts,      \* hostnames that error pages are asked for
    Certs,      \* certificates
    Size,       \* maxCertCacheSize
    None        \* no certificate, no entry

ASSUME CacheAssumption == Size \in Nat /\ Size > 0

VARIABLES
    certCache,  \* p.certCache
    lruList,    \* p.lruList, its front first
    pc,         \* where each connection is
    want,       \* the hostname that it asked for
    served,     \* the certificate that GetCertificate returned
    recent      \* all hostnames asked for with success, the latest first

connVars == <<pc, want, served>>
vars == <<certCache, lruList, connVars, recent>>

Entries == [hostname : Hosts, cert : Certs]

ASSUME NoEntryAssumption == None \notin Entries /\ None \notin Certs

CertTypeOK ==
    /\ certCache \in [Hosts -> Entries \cup {None}]
    /\ lruList \in Seq(Entries)
    /\ pc \in [Conns -> {"idle", "generate", "page"}]
    /\ want \in [Conns -> Hosts \cup {None}]
    /\ served \in [Conns -> Certs \cup {None}]
    /\ recent \in Seq(Hosts)
    /\ \A g \in Conns : pc[g] # "idle" => want[g] \in Hosts
    /\ \A g \in Conns : pc[g] = "page" => served[g] \in Certs

Init ==
    /\ certCache = [h \in Hosts |-> None]
    /\ lruList = <<>>
    /\ pc = [g \in Conns |-> "idle"]
    /\ want = [g \in Conns |-> None]
    /\ served = [g \in Conns |-> None]
    /\ recent = <<>>

-----------------------------------------------------------------------------
Occurs(s, x) == \E i \in 1..Len(s) : s[i] = x

\* x moves to the front of s: s[i] = x and those before it make room.
MoveToFront(s, x) ==
    LET i == CHOOSE j \in 1..Len(s) : s[j] = x
    IN  [j \in 1..Len(s) |-> IF j = 1 THEN x ELSE IF j <= i THEN s[j - 1] ELSE s[j]]

PushFront(s, x) == <<x>> \o s

\* The hostnames in the order of their last use, after a use of h.
Used(h) == IF Occurs(recent, h) THEN MoveToFront(recent, h) ELSE PushFront(recent, h)

Return(g, c) ==
    /\ pc' = [pc EXCEPT ![g] = "page"]
    /\ served' = [served EXCEPT ![g] = c]

\* Mutant: a hit leaves the order alone.
HitInPlace(g, h) ==
    /\ certCache[h] # None
    /\ Return(g, certCache[h].cert)
    /\ recent' = Used(h)
    /\ UNCHANGED <<certCache, lruList>>

\* Either look into the cache finds the hostname.
Hit(g, h) ==
    /\ certCache[h] # None
    /\ lruList' = MoveToFront(lruList, certCache[h])
    /\ Return(g, certCache[h].cert)
    /\ recent' = Used(h)
    /\ UNCHANGED certCache

\* A connection in need of an error page: the first section of cacheMu.
Lookup(g, h) ==
    /\ pc[g] = "idle"
    /\ want' = [want EXCEPT ![g] = h]
    /\ \/ Hit(g, h)
       \/ /\ certCache[h] = None
          /\ pc' = [pc EXCEPT ![g] = "generate"]
          /\ UNCHANGED <<certCache, lruList, served, recent>>

\* Mutant: sendTLSErrorPage goes on without a certificate.
GenerateFailsUnchecked(g) ==
    /\ pc[g] = "generate"
    /\ Return(g, None)
    /\ UNCHANGED <<certCache, lruList, want, recent>>

\* The connection is closed without an error page.
GenerateFails(g) ==
    /\ pc[g] = "generate"
    /\ pc' = [pc EXCEPT ![g] = "idle"]
    /\ UNCHANGED <<certCache, lruList, want, served, recent>>

Fresh(c) ==
    /\ \A i \in 1..Len(lruList) : lruList[i].cert # c
    /\ \A g \in Conns : pc[g] = "page" => served[g] # c

\* The last entry makes room, if the cache is full; it takes the key of its
\* hostname with it, unless keep.
Insert(g, h, c, full, keep) ==
    LET n == Len(lruList)
        entry == [hostname |-> h, cert |-> c]
        evicted(x) == full /\ ~keep /\ x = lruList[n].hostname
    IN
    /\ certCache' = [x \in Hosts |->
            IF x = h THEN entry ELSE IF evicted(x) THEN None ELSE certCache[x]]
    /\ lruList' = PushFront(IF full THEN SubSeq(lruList, 1, n - 1) ELSE lruList, entry)
    /\ Return(g, c)
    /\ recent' = Used(h)

\* Mutants: without the second look; with the wrong comparison; a map that
\* keeps the evicted hostname.
AddUnchecked(g, h) ==
    \E c \in Certs : Fresh(c) /\ Insert(g, h, c, Len(lruList) >= Size, FALSE)

AddOneTooMany(g, h) ==
    \/ Hit(g, h)
    \/ /\ certCache[h] = None
       /\ \E c \in Certs : Fresh(c) /\ Insert(g, h, c, Len(lruList) > Size, FALSE)

AddKeepingKey(g, h) ==
    \/ Hit(g, h)
    \/ /\ certCache[h] = None
       /\ \E c \in Certs : Fresh(c) /\ Insert(g, h, c, Len(lruList) >= Size, TRUE)

\* The second section of cacheMu: another connection may have come first.
Add(g, h) ==
    \/ Hit(g, h)
    \/ /\ certCache[h] = None
       /\ \E c \in Certs : Fresh(c) /\ Insert(g, h, c, Len(lruList) >= Size, FALSE)

Generate(g) ==
    /\ pc[g] = "generate"
    /\ Add(g, want[g])
    /\ UNCHANGED want

\* The error page has been sent, or its handshake failed.
Close(g) ==
    /\ pc[g] = "page"
    /\ pc' = [pc EXCEPT ![g] = "idle"]
    /\ UNCHANGED <<certCache, lruList, want, served, recent>>

Next ==
    \E g \in Conns :
        \/ \E h \in Hosts : Lookup(g, h)
        \/ Generate(g) \/ GenerateFails(g) \/ Close(g)

Spec == Init /\ [][Next]_vars

-----------------------------------------------------------------------------
(* Properties.                                                             *)

\* The map and the list of tlsErrorCertProvider hold the same entries, each
\* once: no entry is in the list that no lookup finds, none is found that the
\* list cannot evict, whichever connections generated for one hostname at a
\* time.
CacheCoherent ==
    /\ \A h \in Hosts : certCache[h] # None =>
            certCache[h].hostname = h /\ Occurs(lruList, certCache[h])
    /\ \A i \in 1..Len(lruList) : certCache[lruList[i].hostname] = lruList[i]
    /\ \A i, j \in 1..Len(lruList) : lruList[i] = lruList[j] => i = j

\* However many connections found their hostname missing before one of them
\* added it, the cache does not outgrow maxCertCacheSize.
CacheBounded == Len(lruList) <= Size

\* "Uses LRU eviction to [keep] frequently-used certs cached": the hostnames
\* in the cache are those asked for last, as many as have room, in this order.
KeepsRecent ==
    /\ Len(lruList) = IF Len(recent) < Size THEN Len(recent) ELSE Size
    /\ \A i \in 1..Len(lruList) : lruList[i].hostname = recent[i]

\* While a hostname stays in the cache it keeps its certificate, and
\* GetCertificate returns the one in the cache also to the connections that
\* have generated another.
OneCertificate ==
    [][/\ \A h \in Hosts : certCache[h] # None /\ certCache'[h] # None
                => certCache'[h] = certCache[h]
       /\ \A g \in Conns : pc[g] # "page" /\ pc'[g] = "page"
                => certCache'[want'[g]] = [hostname |-> want'[g], cert |-> served'[g]]]_vars
=============================================================================
