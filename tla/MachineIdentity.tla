--------------------------- MODULE MachineIdentity ---------------------------
(***************************************************************************)
(* Machine identity (proxy/src/machine.rs): the certificate checks, the    *)
(* forward-DNS check, and the cache of lookups the checks of all requests  *)
(* share.                                                                  *)
(*                                                                         *)
(* A lookup is an await: other requests run, the zone changes and time     *)
(* passes while it is out, lookups of one name overlap, and their answers  *)
(* are stored in the order the tasks resume.  The cache mutex is never     *)
(* held across the await, so each critical section is one step.            *)
(*                                                                         *)
(* Time is kept as ages: an age counts ticks since an event and stops at   *)
(* MaxAge, beyond which no comparison of the code tells ages apart.  That  *)
(* leaves time itself unbounded.                                           *)
(***************************************************************************)
EXTENDS Integers, FiniteSets

CONSTANTS
  Request,           \* connection slots that carry one request at a time
  Host,              \* certificate names, lowercased
  Addr,              \* client addresses
  NoAddr,            \* the connection has no peer address
  Cert,              \* header values a client may present
  hostOf,            \* the name on each certificate
  defectsOf,         \* what is wrong with each certificate
  dns_ttl, dns_negative_ttl, dns_stale_grace,
  NoEntry,           \* the name is not in the cache
  NoQuery,           \* the request is not looking a name up
  NoDecision,        \* the last step decided no request
  MaxLatency,        \* resolver timeout and task wake-up, together
  MaxAge

\* Defects in the order verify_cert finds them.  The chain check reports one
\* of the last three.
CertDefects == <<"NotBase64", "NotDer", "NoCommonName", "UnsafeCommonName",
                 "HostnameNotAllowed", "UntrustedChain", "CertExpired",
                 "CertNotYetValid">>

CertDefect == {CertDefects[i] : i \in DOMAIN CertDefects}

DnsError == {"HostnameAddressMismatch", "HostnameUnresolvable"}

\* Every failure of verify(); Missing is its caller's.
MachineError == CertDefect \cup DnsError \cup {"NoClientAddress"}

ASSUME TimesAssumption ==
  /\ dns_ttl \in Nat /\ dns_negative_ttl \in Nat /\ dns_stale_grace \in Nat
  /\ MaxLatency \in Nat
  /\ MaxAge \in Nat
  /\ MaxAge >= dns_ttl + dns_stale_grace + MaxLatency
  /\ MaxAge >= dns_negative_ttl + MaxLatency

ASSUME NamesAssumption ==
  /\ hostOf \in [Cert -> Host]
  /\ defectsOf \in [Cert -> SUBSET CertDefect]
  /\ NoAddr \notin Addr

Age == 0 .. MaxAge

Entry == [addrs : SUBSET Addr, age : Age]

ASSUME NoEntryAssumption == NoEntry \notin Entry

Via == {"cache", "dns", "stale", "none"}

Decision == [cert : Cert, ip : Addr \cup {NoAddr},
             result : {"Verified"} \cup MachineError, via : Via]

\* An answer is the set of addresses, or the resolver's error.
Answers == [ok : BOOLEAN, addrs : SUBSET Addr]

Query == [cert : Cert, ip : Addr, age : Age,
          state : {"asking", "answered"}, answer : Answers]

VARIABLES
  zone,      \* what the name servers publish for each name (external)
  since,     \* age of the last change of whether zone[h] holds a
  cache,     \* dns_cache
  query,     \* the lookup each request is waiting for
  decision,  \* the decision of the last step, if it made one
  good       \* age of the last stored non-empty answer, if still the last

vars == <<zone, since, cache, query, decision, good>>

TypeOK ==
  /\ zone \in [Host -> SUBSET Addr]
  /\ since \in [Host -> [Addr -> Age]]
  /\ cache \in [Host -> Entry \cup {NoEntry}]
  /\ query \in [Request -> Query \cup {NoQuery}]
  /\ decision \in Decision \cup {NoDecision}
  /\ good \in [Host -> Age]

Init ==
  /\ zone \in [Host -> SUBSET Addr]
  /\ since = [h \in Host |-> [a \in Addr |-> MaxAge]]
  /\ cache = [h \in Host |-> NoEntry]
  /\ query = [r \in Request |-> NoQuery]
  /\ decision = NoDecision
  /\ good = [h \in Host |-> MaxAge]

-----------------------------------------------------------------------------

\* Fault: a certificate whose name is in policy is not chain-verified.
VerifyCertNoChain(c) ==
  IF defectsOf[c] \subseteq {"UntrustedChain", "CertExpired", "CertNotYetValid"}
  THEN "Verified"
  ELSE CertDefects[CHOOSE i \in 1 .. 5 :
         /\ CertDefects[i] \in defectsOf[c]
         /\ \A j \in 1 .. i - 1 : CertDefects[j] \notin defectsOf[c]]

\* verify_cert: the first defect in the code's order, or "Verified".
VerifyCert(c) ==
  IF defectsOf[c] = {} THEN "Verified"
  ELSE CertDefects[CHOOSE i \in DOMAIN CertDefects :
         /\ CertDefects[i] \in defectsOf[c]
         /\ \A j \in 1 .. i - 1 : CertDefects[j] \notin defectsOf[c]]

IsNegative(e) == e.addrs = {}

\* Fault: an entry is still fresh at its TTL.
FreshAtTtl(h) ==
  /\ cache[h] # NoEntry
  /\ cache[h].age <= (IF IsNegative(cache[h]) THEN dns_negative_ttl ELSE dns_ttl)

\* Fault: the negative TTL is applied to every entry.
FreshNegativeTtl(h) ==
  /\ cache[h] # NoEntry
  /\ cache[h].age < dns_negative_ttl

\* The fast path of resolve_cached: an entry younger than its kind's TTL.
Fresh(h) ==
  /\ cache[h] # NoEntry
  /\ cache[h].age < (IF IsNegative(cache[h]) THEN dns_negative_ttl ELSE dns_ttl)

\* Fault: a stale entry is used for as long as the resolver fails.
UsableStaleForever(h) == cache[h] # NoEntry /\ ~IsNegative(cache[h])

\* What a failing resolver leaves to fall back on.
UsableStale(h) ==
  /\ cache[h] # NoEntry
  /\ ~IsNegative(cache[h])
  /\ cache[h].age < dns_ttl + dns_stale_grace

\* The match on the addresses at the end of verify.
Judge(addrs, ip) ==
  IF ip \in addrs THEN "Verified"
  ELSE IF addrs = {} THEN "HostnameUnresolvable" ELSE "HostnameAddressMismatch"

Decide(c, ip, result, via) ==
  decision' = [cert |-> c, ip |-> ip, result |-> result, via |-> via]

\* Fault: the sweep forgets the grace.
SweptAtTtl(h) == cache[h] # NoEntry /\ cache[h].age >= dns_ttl

\* Entries store() sweeps out on its way to insert.
Swept(h) ==
  /\ cache[h] # NoEntry
  /\ cache[h].age >= dns_ttl + dns_stale_grace

Store(host, addrs) ==
  cache' = [h \in Host |->
              IF h = host THEN [addrs |-> addrs, age |-> 0]
              ELSE IF Swept(h) THEN NoEntry ELSE cache[h]]

-----------------------------------------------------------------------------

\* Fault: a connection without a peer address is not refused.
VerifyNoPeerCheck(r, c, ip) ==
  LET h == hostOf[c]
  IN /\ query[r] = NoQuery
     /\ VerifyCert(c) = "Verified" /\ ~Fresh(h)
     /\ query' = [query EXCEPT ![r] =
          [cert |-> c, ip |-> ip, age |-> 0, state |-> "asking",
           answer |-> [ok |-> FALSE, addrs |-> {}]]]
     /\ decision' = NoDecision
     /\ UNCHANGED <<zone, since, cache, good>>

\* verify, up to the await: the peer address, then the certificate, then the
\* fast path of the cache, else a lookup is started.
Verify(r, c, ip) ==
  LET h == hostOf[c]
      flaw == IF ip = NoAddr THEN "NoClientAddress" ELSE VerifyCert(c)
  IN /\ query[r] = NoQuery
     /\ \/ /\ flaw # "Verified"
           /\ Decide(c, ip, flaw, "none")
           /\ UNCHANGED query
        \/ /\ flaw = "Verified" /\ Fresh(h)
           /\ Decide(c, ip, Judge(cache[h].addrs, ip), "cache")
           /\ UNCHANGED query
        \/ /\ flaw = "Verified" /\ ~Fresh(h)
           /\ query' = [query EXCEPT ![r] =
                [cert |-> c, ip |-> ip, age |-> 0, state |-> "asking",
                 answer |-> [ok |-> FALSE, addrs |-> {}]]]
           /\ decision' = NoDecision
     /\ UNCHANGED <<zone, since, cache, good>>

\* The resolver reads the zone.  A name with no addresses may come back as
\* an empty answer or, as getaddrinfo does, as an error.
Answer(r) ==
  /\ query[r] # NoQuery /\ query[r].state = "asking"
  /\ query' = [query EXCEPT ![r].state = "answered",
                            ![r].answer = [ok |-> TRUE,
                                           addrs |-> zone[hostOf[query[r].cert]]]]
  /\ decision' = NoDecision
  /\ UNCHANGED <<zone, since, cache, good>>

Fail(r) ==
  /\ query[r] # NoQuery /\ query[r].state = "asking"
  /\ query' = [query EXCEPT ![r].state = "answered"]
  /\ decision' = NoDecision
  /\ UNCHANGED <<zone, since, cache, good>>

\* resolve_cached after the await, when the resolver answered.
CompleteOk(r) ==
  LET q == query[r]
      h == hostOf[q.cert]
      addrs == q.answer.addrs
  IN /\ q # NoQuery /\ q.state = "answered" /\ q.answer.ok
     /\ Store(h, addrs)
     /\ Decide(q.cert, q.ip, Judge(addrs, q.ip), "dns")
     /\ good' = [good EXCEPT ![h] = IF addrs = {} THEN MaxAge ELSE 0]
     /\ query' = [query EXCEPT ![r] = NoQuery]
     /\ UNCHANGED <<zone, since>>

\* Fault: serving a stale entry makes it fresh again.
CompleteErrRefreshes(r) ==
  LET q == query[r]
      h == hostOf[q.cert]
  IN /\ q # NoQuery /\ q.state = "answered" /\ ~q.answer.ok
     /\ IF UsableStale(h)
        THEN /\ Decide(q.cert, q.ip, Judge(cache[h].addrs, q.ip), "stale")
             /\ Store(h, cache[h].addrs)
        ELSE /\ Decide(q.cert, q.ip, "HostnameUnresolvable", "none")
             /\ UNCHANGED cache
     /\ query' = [query EXCEPT ![r] = NoQuery]
     /\ UNCHANGED <<zone, since, good>>

\* ... and when it failed: the last good answer within the grace, or none.
CompleteErr(r) ==
  LET q == query[r]
      h == hostOf[q.cert]
  IN /\ q # NoQuery /\ q.state = "answered" /\ ~q.answer.ok
     /\ IF UsableStale(h)
        THEN Decide(q.cert, q.ip, Judge(cache[h].addrs, q.ip), "stale")
        ELSE Decide(q.cert, q.ip, "HostnameUnresolvable", "none")
     /\ query' = [query EXCEPT ![r] = NoQuery]
     /\ UNCHANGED <<zone, since, cache, good>>

-----------------------------------------------------------------------------

Older(x) == IF x < MaxAge THEN x + 1 ELSE MaxAge

\* Time passes.  No lookup is out for longer than MaxLatency.
Tick ==
  /\ \A r \in Request : query[r] # NoQuery => query[r].age < MaxLatency
  /\ since' = [h \in Host |-> [a \in Addr |-> Older(since[h][a])]]
  /\ cache' = [h \in Host |-> IF cache[h] = NoEntry THEN NoEntry
                              ELSE [cache[h] EXCEPT !.age = Older(@)]]
  /\ query' = [r \in Request |-> IF query[r] = NoQuery THEN NoQuery
                                 ELSE [query[r] EXCEPT !.age = Older(@)]]
  /\ good' = [h \in Host |-> Older(good[h])]
  /\ decision' = NoDecision
  /\ UNCHANGED zone

\* An address is published for a name, or withdrawn.
ZoneChange(h, a) ==
  /\ zone' = [zone EXCEPT ![h] = IF a \in @ THEN @ \ {a} ELSE @ \cup {a}]
  /\ since' = [since EXCEPT ![h][a] = 0]
  /\ decision' = NoDecision
  /\ UNCHANGED <<cache, query, good>>

Lookup(r) == Answer(r) \/ Fail(r) \/ CompleteOk(r) \/ CompleteErr(r)

Next ==
  \/ \E r \in Request, c \in Cert, ip \in Addr \cup {NoAddr} : Verify(r, c, ip)
  \/ \E r \in Request : Lookup(r)
  \/ \E h \in Host, a \in Addr : ZoneChange(h, a)
  \/ Tick

Spec == Init /\ [][Next]_vars

-----------------------------------------------------------------------------
(* Properties.                                                             *)

\* How old the view of the zone behind a decision can be.  Only a negative
\* entry makes the cache answer HostnameUnresolvable.
Staleness(d) ==
  CASE d.via = "dns" -> MaxLatency + 1
    [] d.via = "cache" ->
         (IF d.result = "HostnameUnresolvable" THEN dns_negative_ttl ELSE dns_ttl)
           + MaxLatency
    [] OTHER -> dns_ttl + dns_stale_grace + MaxLatency

\* A machine is verified only from an address the zone publishes for its
\* name, or published until less than the TTL, the grace if the resolver
\* was failing, and one lookup ago: however lookups overlap and whichever
\* order they are stored in, nobody extends an answer's life.
AcceptedWasPublished ==
  decision # NoDecision /\ decision.result = "Verified" =>
    \/ decision.ip \in zone[hostOf[decision.cert]]
    \/ since[hostOf[decision.cert]][decision.ip] < Staleness(decision)

\* Conversely an address published without a break for that long is not
\* refused on the strength of an answer from before it was.
NoLingeringRefusal ==
  decision # NoDecision /\ decision.result \in DnsError /\ decision.via # "none"
  => \/ decision.ip \notin zone[hostOf[decision.cert]]
     \/ since[hostOf[decision.cert]][decision.ip] < Staleness(decision)

\* A resolver outage is not a proxy outage: a failed lookup refuses a
\* machine outright only when its name has had no good answer for the TTL
\* and the grace.  Stores for other names never cost it its entry.
OutageTolerated ==
  decision # NoDecision /\ decision.result \in DnsError /\ decision.via = "none"
  => good[hostOf[decision.cert]] >= dns_ttl + dns_stale_grace

\* r starts a lookup of h in this step.
LookupStarts(r, h) ==
  query[r] = NoQuery /\ query'[r] # NoQuery /\ hostOf[query'[r].cert] = h

\* The cache keeps the check off the resolver: no lookup is started within
\* the TTL of a good answer that is still the last word on the name.
CacheSparesResolver ==
  [][\A r \in Request, h \in Host :
       LookupStarts(r, h) => good[h] >= dns_ttl]_vars

\* Only a certificate without defects is verified, and only such a one is
\* looked up or refused over DNS: chain_verified in the audit record rests on
\* this, and so does never sending an untrusted name to the resolver.
OnlySoundCertsResolved ==
  /\ decision # NoDecision /\ decision.result \in DnsError \cup {"Verified"} =>
       defectsOf[decision.cert] = {}
  /\ \A r \in Request : query[r] # NoQuery => defectsOf[query[r].cert] = {}

\* The comment on dns_negative_ttl_secs: a failed lookup is remembered, so
\* that the name's next request does not query again.
FailedLookupRemembered ==
  decision # NoDecision /\ decision.result \in DnsError /\ decision.via = "none"
  => Fresh(hostOf[decision.cert])

-----------------------------------------------------------------------------
(* The inductive invariant behind the staleness bounds.                    *)

\* addrs is what zone[h] was at some moment less than age + 1 ticks ago.
SeenWithin(h, addrs, age) ==
  \A a \in Addr : (a \in addrs <=> a \in zone[h]) \/ since[h][a] <= age

QueryInv ==
  \A r \in Request : query[r] # NoQuery =>
    /\ query[r].age <= MaxLatency
    /\ query[r].answer.ok =>
         /\ query[r].state = "answered"
         /\ SeenWithin(hostOf[query[r].cert], query[r].answer.addrs, query[r].age)

CacheInv ==
  \A h \in Host : cache[h] # NoEntry =>
    SeenWithin(h, cache[h].addrs, cache[h].age + MaxLatency)

\* The last good answer is in the cache for as long as it can be of use.
GoodInv ==
  \A h \in Host : good[h] < dns_ttl + dns_stale_grace =>
    cache[h] # NoEntry /\ ~IsNegative(cache[h]) /\ cache[h].age = good[h]

\* The inductive invariant, besides the properties it implies.
DnsInv == QueryInv /\ CacheInv /\ GoodInv
=============================================================================
