---------------------------- MODULE MachineProofs ----------------------------
(***************************************************************************)
(* Proofs about MachineIdentity, for every set of requests, names,         *)
(* addresses and certificates, every TTL and grace, and every bound on the *)
(* resolver's latency.                                                     *)
(***************************************************************************)
EXTENDS MachineIdentity, TLAPS

-----------------------------------------------------------------------------
(* Facts about the operators.                                              *)

\* verify_cert reports one of the defects it looks for, and reports none
\* only for a certificate that has none.
LEMMA VerifyCertResult ==
  ASSUME NEW c \in Cert
  PROVE  /\ VerifyCert(c) \in {"Verified"} \cup CertDefect
         /\ VerifyCert(c) = "Verified" => defectsOf[c] = {}
<1> DEFINE D == defectsOf[c]
           First(i) == /\ CertDefects[i] \in D
                       /\ \A j \in 1 .. i - 1 : CertDefects[j] \notin D
<1>1. D \subseteq CertDefect
  BY NamesAssumption
<1>2. DOMAIN CertDefects = 1 .. 8
  BY DEF CertDefects
<1>3. "Verified" \notin CertDefect
  BY DEF CertDefect, CertDefects
<1>4. ASSUME D # {}
      PROVE  \E i \in 1 .. 8 : First(i)
  <2>1. \E k \in 1 .. 8 : CertDefects[k] \in D
    BY <1>1, <1>2, <1>4 DEF CertDefect
  <2> HIDE DEF D
  <2>2. ASSUME NEW n \in 1 .. 8, CertDefects[n] \in D,
               ~ \E i \in 1 .. 8 : First(i)
        PROVE  \E k \in 1 .. n - 1 : CertDefects[k] \in D
    BY <2>2
  <2> QED
    BY <2>1, <2>2
<1>5. CASE D = {}
  BY <1>5 DEF VerifyCert
<1>6. CASE D # {}
  <2> DEFINE i == CHOOSE i \in DOMAIN CertDefects : First(i)
  <2>1. i \in DOMAIN CertDefects
    BY <1>2, <1>4, <1>6
  <2>2. VerifyCert(c) = CertDefects[i]
    BY <1>6 DEF VerifyCert
  <2>3. CertDefects[i] \in CertDefect
    BY <2>1 DEF CertDefect
  <2> QED BY <1>3, <2>2, <2>3
<1> QED BY <1>5, <1>6

\* Ages stay ages, grow by at most one, and keep their order.
LEMMA OlderAge ==
  ASSUME NEW x \in Age
  PROVE  /\ Older(x) \in Age
         /\ x <= Older(x) /\ Older(x) <= x + 1
         /\ x < MaxAge => Older(x) = x + 1
         /\ x = MaxAge => Older(x) = MaxAge
BY TimesAssumption DEF Age, Older

\* What was seen within an age was seen within a greater one.
LEMMA SeenWithinMonotone ==
  ASSUME TypeOK, NEW h \in Host, NEW addrs \in SUBSET Addr,
         NEW x \in Nat, NEW y \in Nat, x <= y, SeenWithin(h, addrs, x)
  PROVE  SeenWithin(h, addrs, y)
<1> SUFFICES ASSUME NEW a \in Addr, ~ (a \in addrs <=> a \in zone[h])
             PROVE  since[h][a] <= y
  BY DEF SeenWithin
<1>1. since[h][a] <= x
  BY DEF SeenWithin
<1>2. since[h][a] \in Nat
  BY TimesAssumption DEF TypeOK, Age
<1> QED BY <1>1, <1>2

-----------------------------------------------------------------------------
(* Types.                                                                  *)

\* A decision has its type when its parts have theirs.
LEMMA DecideType ==
  ASSUME NEW c \in Cert, NEW ip \in Addr \cup {NoAddr},
         NEW result \in {"Verified"} \cup MachineError, NEW via \in Via,
         Decide(c, ip, result, via)
  PROVE  /\ decision' \in Decision
         /\ decision'.cert = c /\ decision'.ip = ip
         /\ decision'.result = result /\ decision'.via = via
BY DEF Decide, Decision

\* What the address check says.
LEMMA JudgeResult ==
  ASSUME NEW addrs, NEW ip
  PROVE  /\ Judge(addrs, ip) \in {"Verified"} \cup DnsError
         /\ Judge(addrs, ip) = "Verified" <=> ip \in addrs
         /\ Judge(addrs, ip) = "HostnameUnresolvable" => addrs = {}
         /\ Judge(addrs, ip) = "HostnameAddressMismatch" => addrs # {}
BY DEF Judge, DnsError

\* Every step keeps the types.
LEMMA TypeStep ==
  ASSUME TypeOK, [Next]_vars
  PROVE  TypeOK'
<1> USE DEF TypeOK
<1>z. 0 \in Age /\ MaxAge \in Age
  BY TimesAssumption DEF Age
<1>1. ASSUME NEW r \in Request, NEW c \in Cert, NEW ip \in Addr \cup {NoAddr},
             Verify(r, c, ip)
      PROVE  TypeOK'
  <2> DEFINE flaw == IF ip = NoAddr THEN "NoClientAddress" ELSE VerifyCert(c)
             new == [cert |-> c, ip |-> ip, age |-> 0, state |-> "asking",
                     answer |-> [ok |-> FALSE, addrs |-> {}]]
  <2>1. flaw \in {"Verified"} \cup MachineError
    BY VerifyCertResult DEF MachineError
  <2>2. Judge(cache[hostOf[c]].addrs, ip) \in {"Verified"} \cup MachineError
    BY JudgeResult DEF MachineError
  <2>3. "none" \in Via /\ "cache" \in Via
    BY DEF Via
  <2>4. decision' \in Decision \cup {NoDecision}
    BY <1>1, <2>1, <2>2, <2>3, DecideType DEF Verify
  <2>5. query' = query \/ (ip # NoAddr /\ query' = [query EXCEPT ![r] = new])
    BY <1>1 DEF Verify
  <2>6. ip # NoAddr => new \in Query
    BY <1>z DEF Query, Answers
  <2> HIDE DEF new
  <2>7. query' \in [Request -> Query \cup {NoQuery}]
    BY <2>5, <2>6
  <2> QED BY <1>1, <2>4, <2>7 DEF Verify
<1>2. ASSUME NEW r \in Request, Answer(r)
      PROVE  TypeOK'
  <2>1. query[r] \in Query
    BY <1>2 DEF Answer
  <2>2. zone[hostOf[query[r].cert]] \in SUBSET Addr
    BY <2>1, NamesAssumption DEF Query
  <2> DEFINE new == [query[r] EXCEPT !.state = "answered",
                        !.answer = [ok |-> TRUE,
                                    addrs |-> zone[hostOf[query[r].cert]]]]
  <2>3. new \in Query
    BY <2>1, <2>2 DEF Query, Answers
  <2>4. query' = [query EXCEPT ![r] = new]
    BY <1>2 DEF Answer
  <2> HIDE DEF new
  <2>5. query' \in [Request -> Query \cup {NoQuery}]
    BY <2>3, <2>4
  <2> QED BY <1>2, <2>5 DEF Answer
<1>3. ASSUME NEW r \in Request, Fail(r)
      PROVE  TypeOK'
  <2>1. query[r] \in Query
    BY <1>3 DEF Fail
  <2> DEFINE new == [query[r] EXCEPT !.state = "answered"]
  <2>2. new \in Query
    BY <2>1 DEF Query
  <2>3. query' = [query EXCEPT ![r] = new]
    BY <1>3 DEF Fail
  <2> HIDE DEF new
  <2>4. query' \in [Request -> Query \cup {NoQuery}]
    BY <2>2, <2>3
  <2> QED BY <1>3, <2>4 DEF Fail
<1>4. ASSUME NEW r \in Request, CompleteOk(r)
      PROVE  TypeOK'
  <2> DEFINE q == query[r]
             h == hostOf[q.cert]
             addrs == q.answer.addrs
             result == Judge(addrs, q.ip)
             e == [addrs |-> addrs, age |-> 0]
  <2>1. q \in Query
    BY <1>4 DEF CompleteOk
  <2>2. q.cert \in Cert /\ q.ip \in Addr /\ addrs \in SUBSET Addr /\ h \in Host
    BY <2>1, NamesAssumption DEF Query, Answers
  <2>3. result \in {"Verified"} \cup MachineError
    BY JudgeResult DEF MachineError
  <2>4. "dns" \in Via
    BY DEF Via
  <2>5. decision' \in Decision
    BY <1>4, <2>2, <2>3, <2>4, DecideType DEF CompleteOk
  <2>6. e \in Entry
    BY <2>2, <1>z DEF Entry
  <2>7. cache' = [k \in Host |-> IF k = h THEN e
                    ELSE IF Swept(k) THEN NoEntry ELSE cache[k]]
    BY <1>4 DEF CompleteOk, Store
  <2>8. /\ good' = [good EXCEPT ![h] = IF addrs = {} THEN MaxAge ELSE 0]
        /\ query' = [query EXCEPT ![r] = NoQuery]
        /\ zone' = zone /\ since' = since
    BY <1>4 DEF CompleteOk
  <2> HIDE DEF q, h, addrs, e
  <2>9. cache' \in [Host -> Entry \cup {NoEntry}]
    BY <2>6, <2>7
  <2>10. good' \in [Host -> Age] /\ query' \in [Request -> Query \cup {NoQuery}]
    BY <2>8, <1>z
  <2> QED BY <2>5, <2>8, <2>9, <2>10
<1>5. ASSUME NEW r \in Request, CompleteErr(r)
      PROVE  TypeOK'
  <2> DEFINE q == query[r]
             h == hostOf[q.cert]
             result == Judge(cache[h].addrs, q.ip)
  <2>1. q \in Query
    BY <1>5 DEF CompleteErr
  <2>2. q.cert \in Cert /\ q.ip \in Addr
    BY <2>1 DEF Query
  <2>3. /\ result \in {"Verified"} \cup MachineError
        /\ "HostnameUnresolvable" \in {"Verified"} \cup MachineError
    BY JudgeResult DEF MachineError, DnsError
  <2>4. "stale" \in Via /\ "none" \in Via
    BY DEF Via
  <2>5. \/ Decide(q.cert, q.ip, result, "stale")
        \/ Decide(q.cert, q.ip, "HostnameUnresolvable", "none")
    BY <1>5 DEF CompleteErr
  <2>6. decision' \in Decision
    BY <2>2, <2>3, <2>4, <2>5, DecideType
  <2>7. query' \in [Request -> Query \cup {NoQuery}]
    BY <1>5 DEF CompleteErr
  <2> QED BY <1>5, <2>6, <2>7 DEF CompleteErr
<1>6. ASSUME NEW h \in Host, NEW a \in Addr, ZoneChange(h, a)
      PROVE  TypeOK'
  BY <1>6, <1>z DEF ZoneChange
<1>7. ASSUME Tick
      PROVE  TypeOK'
  <2>1. since' \in [Host -> [Addr -> Age]] /\ good' \in [Host -> Age]
    BY <1>7, OlderAge DEF Tick
  <2>2. ASSUME NEW h \in Host, cache[h] # NoEntry
        PROVE  [cache[h] EXCEPT !.age = Older(@)] \in Entry
    <3>1. cache[h] \in Entry /\ cache[h].age \in Age
      BY <2>2 DEF Entry
    <3>2. Older(cache[h].age) \in Age
      BY <3>1, OlderAge
    <3> QED BY <3>1, <3>2 DEF Entry
  <2>3. cache' \in [Host -> Entry \cup {NoEntry}]
    BY <1>7, <2>2 DEF Tick
  <2>4. ASSUME NEW r \in Request, query[r] # NoQuery
        PROVE  [query[r] EXCEPT !.age = Older(@)] \in Query
    <3>1. query[r] \in Query /\ query[r].age \in Age
      BY <2>4 DEF Query
    <3>2. Older(query[r].age) \in Age
      BY <3>1, OlderAge
    <3> QED BY <3>1, <3>2 DEF Query
  <2>5. query' \in [Request -> Query \cup {NoQuery}]
    BY <1>7, <2>4 DEF Tick
  <2> QED BY <1>7, <2>1, <2>3, <2>5 DEF Tick
<1>8. CASE UNCHANGED vars
  BY <1>8 DEF vars
<1> QED
  BY <1>1, <1>2, <1>3, <1>4, <1>5, <1>6, <1>7, <1>8 DEF Next, Lookup

-----------------------------------------------------------------------------
(* The inductive invariant.                                                *)

\* A lookup that is out saw the zone at most its own age ago.
LEMMA QueryStep ==
  ASSUME TypeOK, TypeOK', QueryInv, [Next]_vars
  PROVE  QueryInv'
<1>1. ASSUME NEW r \in Request, NEW c \in Cert, NEW ip \in Addr \cup {NoAddr},
             Verify(r, c, ip)
      PROVE  QueryInv'
  <2>1. zone' = zone /\ since' = since
    BY <1>1 DEF Verify
  <2>2. ASSUME NEW s \in Request, query'[s] # NoQuery
        PROVE  \/ query'[s] = query[s]
               \/ query'[s].age = 0 /\ ~query'[s].answer.ok
    BY <1>1, <2>2 DEF Verify, TypeOK
  <2>3. 0 <= MaxLatency
    BY TimesAssumption
  <2> QED BY <2>1, <2>2, <2>3 DEF QueryInv, SeenWithin
<1>2. ASSUME NEW r \in Request, Answer(r)
      PROVE  QueryInv'
  <2> DEFINE q == query[r]
             h == hostOf[q.cert]
  <2>1. /\ q # NoQuery /\ zone' = zone /\ since' = since
        /\ query' = [query EXCEPT ![r] = [q EXCEPT !.state = "answered",
                       !.answer = [ok |-> TRUE, addrs |-> zone[h]]]]
    BY <1>2 DEF Answer
  <2>2. q \in Query
    BY <2>1 DEF TypeOK
  <2>3. /\ query'[r].cert = q.cert /\ query'[r].age = q.age
        /\ query'[r].answer.addrs = zone[h] /\ query'[r].state = "answered"
    BY <2>1, <2>2 DEF TypeOK, Query
  <2>4. \A s \in Request : s # r => query'[s] = query[s]
    BY <2>1 DEF TypeOK
  <2>5. q.age <= MaxLatency
    BY <2>1 DEF QueryInv
  <2>6. SeenWithin(h, zone[h], q.age)'
    BY <2>1 DEF SeenWithin
  <2> SUFFICES ASSUME NEW s \in Request, query'[s] # NoQuery
               PROVE  /\ query'[s].age <= MaxLatency
                      /\ query'[s].answer.ok =>
                           /\ query'[s].state = "answered"
                           /\ SeenWithin(hostOf[query[s].cert],
                                query[s].answer.addrs, query[s].age)'
    BY DEF QueryInv, SeenWithin
  <2>7. CASE s = r
    BY <2>1, <2>3, <2>5, <2>6, <2>7 DEF SeenWithin
  <2>8. CASE s # r
    BY <2>1, <2>4, <2>8 DEF QueryInv, SeenWithin
  <2> QED BY <2>7, <2>8
<1>3. ASSUME NEW r \in Request, Fail(r)
      PROVE  QueryInv'
  <2> DEFINE q == query[r]
  <2>1. /\ q # NoQuery /\ q.state = "asking" /\ zone' = zone /\ since' = since
        /\ query' = [query EXCEPT ![r] = [q EXCEPT !.state = "answered"]]
    BY <1>3 DEF Fail
  <2>2. q \in Query
    BY <2>1 DEF TypeOK
  <2>3. /\ query'[r].cert = q.cert /\ query'[r].age = q.age
        /\ query'[r].answer = q.answer
    BY <2>1, <2>2 DEF TypeOK, Query
  <2>4. \A s \in Request : s # r => query'[s] = query[s]
    BY <2>1 DEF TypeOK
  <2> QED BY <2>1, <2>3, <2>4 DEF QueryInv, SeenWithin
<1>4. ASSUME NEW r \in Request, CompleteOk(r) \/ CompleteErr(r)
      PROVE  QueryInv'
  <2>1. zone' = zone /\ since' = since
    BY <1>4 DEF CompleteOk, CompleteErr
  <2>2. \A s \in Request : query'[s] # NoQuery => query'[s] = query[s]
    BY <1>4 DEF CompleteOk, CompleteErr, TypeOK
  <2> QED BY <2>1, <2>2 DEF QueryInv, SeenWithin
<1>5. ASSUME NEW h \in Host, NEW a \in Addr, ZoneChange(h, a)
      PROVE  QueryInv'
  <2>q. query' = query
    BY <1>5 DEF ZoneChange
  <2> SUFFICES ASSUME NEW r \in Request, query[r] # NoQuery,
                      query[r].state = "answered", query[r].answer.ok
               PROVE  SeenWithin(hostOf[query[r].cert],
                                 query[r].answer.addrs, query[r].age)'
    BY <2>q DEF QueryInv, SeenWithin
  <2>1. query[r] \in Query /\ query[r].age \in Age /\ hostOf[query[r].cert] \in Host
    BY NamesAssumption DEF TypeOK, Query
  <2>2. 0 <= query[r].age
    BY <2>1 DEF Age
  <2>3. SeenWithin(hostOf[query[r].cert], query[r].answer.addrs, query[r].age)
    BY DEF QueryInv
  <2> QED BY <1>5, <2>q, <2>1, <2>2, <2>3 DEF SeenWithin, ZoneChange, TypeOK
<1>6. ASSUME Tick
      PROVE  QueryInv'
  <2> SUFFICES ASSUME NEW r \in Request, query'[r] # NoQuery
               PROVE  /\ query'[r].age <= MaxLatency
                      /\ query'[r].answer.ok =>
                           /\ query'[r].state = "answered"
                           /\ SeenWithin(hostOf[query[r].cert],
                                query[r].answer.addrs, query[r].age)'
    BY DEF QueryInv, SeenWithin
  <2> DEFINE q == query[r]
             h == hostOf[q.cert]
  <2>1. q # NoQuery /\ q \in Query /\ q.age < MaxLatency
    BY <1>6 DEF Tick, TypeOK
  <2>2. q.age \in Age /\ h \in Host
    BY <2>1, NamesAssumption DEF Query
  <2>3. q.age < MaxAge /\ q.age + 1 <= MaxLatency
    BY <2>1, <2>2, TimesAssumption DEF Age
  <2>4. query'[r] = [q EXCEPT !.age = Older(@)]
    BY <1>6, <2>1 DEF Tick
  <2>5. /\ query'[r].cert = q.cert /\ query'[r].answer = q.answer
        /\ query'[r].state = q.state /\ query'[r].age = Older(q.age)
    BY <2>1, <2>4 DEF Query
  <2>6. query'[r].age = q.age + 1
    BY <2>2, <2>3, <2>5, OlderAge
  <2>7. ASSUME q.answer.ok, NEW a \in Addr
        PROVE  (a \in q.answer.addrs <=> a \in zone'[h]) \/ since'[h][a] <= q.age + 1
    <3>1. (a \in q.answer.addrs <=> a \in zone[h]) \/ since[h][a] <= q.age
      BY <2>1, <2>7 DEF QueryInv, SeenWithin
    <3>2. zone' = zone /\ since'[h][a] = Older(since[h][a]) /\ since[h][a] \in Age
      BY <1>6, <2>2 DEF Tick, TypeOK
    <3>3. Older(since[h][a]) <= since[h][a] + 1 /\ Older(since[h][a]) \in Age
      BY <3>2, OlderAge
    <3>4. since[h][a] <= q.age => Older(since[h][a]) <= q.age + 1
      BY <2>2, <3>2, <3>3 DEF Age
    <3> QED BY <3>1, <3>2, <3>4
  <2>8. q.answer.ok => q.state = "answered"
    BY <2>1 DEF QueryInv
  <2> QED BY <2>3, <2>5, <2>6, <2>7, <2>8 DEF SeenWithin
<1>7. CASE UNCHANGED vars
  BY <1>7 DEF vars, QueryInv, SeenWithin
<1> QED
  BY <1>1, <1>2, <1>3, <1>4, <1>5, <1>6, <1>7 DEF Next, Lookup

\* A cached answer saw the zone at most one lookup before it was stored.
LEMMA CacheStep ==
  ASSUME TypeOK, TypeOK', QueryInv, CacheInv, [Next]_vars
  PROVE  CacheInv'
<1>1. CASE UNCHANGED <<zone, since, cache>>
  BY <1>1 DEF CacheInv, SeenWithin
<1>2. ASSUME NEW r \in Request, CompleteOk(r)
      PROVE  CacheInv'
  <2> DEFINE q == query[r]
             h == hostOf[q.cert]
             addrs == q.answer.addrs
  <2>1. q # NoQuery /\ q.state = "answered" /\ q.answer.ok /\ Store(h, addrs)
        /\ zone' = zone /\ since' = since
    BY <1>2 DEF CompleteOk
  <2>2. q \in Query
    BY <2>1 DEF TypeOK
  <2>3. h \in Host /\ addrs \in SUBSET Addr /\ q.age \in Nat
    BY <2>2, NamesAssumption, TimesAssumption DEF Query, Answers, Age
  <2>4. q.age <= MaxLatency /\ SeenWithin(h, addrs, q.age)
    BY <2>1 DEF QueryInv
  <2> HIDE DEF q, h, addrs
  <2>5. SeenWithin(h, addrs, MaxLatency)
    BY <2>3, <2>4, SeenWithinMonotone, TimesAssumption
  <2>6. cache'[h].addrs = addrs /\ cache'[h].age + MaxLatency = MaxLatency
    BY <2>1, <2>3, TimesAssumption DEF Store
  <2>7. \A k \in Host : k # h /\ cache'[k] # NoEntry => cache'[k] = cache[k]
    BY <2>1 DEF Store
  <2> QED BY <2>1, <2>5, <2>6, <2>7 DEF CacheInv, SeenWithin
<1>3. ASSUME NEW h \in Host, NEW a \in Addr, ZoneChange(h, a)
      PROVE  CacheInv'
  <2> SUFFICES ASSUME NEW k \in Host, cache[k] # NoEntry
               PROVE  SeenWithin(k, cache[k].addrs, cache[k].age + MaxLatency)'
    BY <1>3 DEF CacheInv, ZoneChange
  <2>1. 0 <= cache[k].age + MaxLatency
    BY TimesAssumption DEF TypeOK, Entry, Age
  <2>2. SeenWithin(k, cache[k].addrs, cache[k].age + MaxLatency)
    BY DEF CacheInv
  <2> QED BY <1>3, <2>1, <2>2 DEF SeenWithin, ZoneChange, TypeOK
<1>4. ASSUME Tick
      PROVE  CacheInv'
  <2> SUFFICES ASSUME NEW h \in Host, cache'[h] # NoEntry, NEW a \in Addr
               PROVE  (a \in cache'[h].addrs <=> a \in zone'[h])
                        \/ since'[h][a] <= cache'[h].age + MaxLatency
    BY DEF CacheInv, SeenWithin
  <2> DEFINE e == cache[h]
             x == since[h][a]
  <2>1. e # NoEntry /\ cache'[h] = [e EXCEPT !.age = Older(@)]
        /\ zone' = zone /\ since'[h][a] = Older(x)
    BY <1>4 DEF Tick
  <2>2. e \in Entry /\ x \in Age
    BY <2>1 DEF TypeOK
  <2>3. cache'[h].addrs = e.addrs /\ cache'[h].age = Older(e.age) /\ e.age \in Age
    BY <2>1, <2>2 DEF Entry
  <2>4. (a \in e.addrs <=> a \in zone[h]) \/ x <= e.age + MaxLatency
    BY <2>1 DEF CacheInv, SeenWithin
  <2> HIDE DEF e, x
  <2>5. x <= e.age + MaxLatency => Older(x) <= Older(e.age) + MaxLatency
    BY <2>2, <2>3, TimesAssumption DEF Older, Age
  <2> QED BY <2>1, <2>3, <2>4, <2>5
<1>5. ASSUME NEW r \in Request, NEW c \in Cert, NEW ip \in Addr \cup {NoAddr},
             Verify(r, c, ip)
      PROVE  CacheInv'
  BY <1>1, <1>5 DEF Verify
<1>6. ASSUME NEW r \in Request, Answer(r) \/ Fail(r) \/ CompleteErr(r)
      PROVE  CacheInv'
  BY <1>1, <1>6 DEF Answer, Fail, CompleteErr
<1>7. CASE UNCHANGED vars
  BY <1>1, <1>7 DEF vars
<1> QED
  BY <1>2, <1>3, <1>4, <1>5, <1>6, <1>7 DEF Next, Lookup

\* Sweeping spares the last good answer while it can be of use, and so does
\* whatever else happens.
LEMMA GoodStep ==
  ASSUME TypeOK, TypeOK', GoodInv, [Next]_vars
  PROVE  GoodInv'
<1> DEFINE L == dns_ttl + dns_stale_grace
<1>l. L \in Nat /\ L <= MaxAge
  BY TimesAssumption
<1>1. CASE UNCHANGED <<good, cache>>
  BY <1>1 DEF GoodInv, IsNegative
<1>2. ASSUME NEW r \in Request, CompleteOk(r)
      PROVE  GoodInv'
  <2> DEFINE q == query[r]
             h == hostOf[q.cert]
             addrs == q.answer.addrs
             e == [addrs |-> addrs, age |-> 0]
  <2>1. /\ q # NoQuery /\ Store(h, addrs)
        /\ good' = [good EXCEPT ![h] = IF addrs = {} THEN MaxAge ELSE 0]
    BY <1>2 DEF CompleteOk
  <2>2. q \in Query
    BY <2>1 DEF TypeOK
  <2>3. h \in Host /\ addrs \in SUBSET Addr
    BY <2>2, NamesAssumption DEF Query, Answers
  <2>4. e \in Entry
    BY <2>3, TimesAssumption DEF Entry, Age
  <2>5. cache'[h] = e /\ e # NoEntry /\ e.addrs = addrs /\ e.age = 0
    BY <2>1, <2>3, <2>4, NoEntryAssumption DEF Store
  <2> HIDE DEF q, h, addrs, e, L
  <2>6. good'[h] < L => good'[h] = 0 /\ addrs # {}
    BY <2>1, <2>3, <1>l, TimesAssumption DEF TypeOK
  <2>7. ASSUME NEW k \in Host, k # h, good'[k] < L
        PROVE  cache'[k] = cache[k] /\ good'[k] = good[k]
    <3>1. good'[k] = good[k]
      BY <2>1, <2>3, <2>7 DEF TypeOK
    <3>2. cache[k].age = good[k] /\ good[k] < L
      BY <2>7, <3>1 DEF GoodInv, L
    <3>3. good[k] \in Nat
      BY TimesAssumption DEF TypeOK, Age
    <3>4. ~ Swept(k)
      BY <3>2, <3>3, <1>l DEF Swept, L
    <3> QED BY <2>1, <2>7, <3>1, <3>4 DEF Store
  <2> QED BY <2>5, <2>6, <2>7 DEF GoodInv, IsNegative, L
<1>3. ASSUME Tick
      PROVE  GoodInv'
  <2> SUFFICES ASSUME NEW h \in Host, good'[h] < L
               PROVE  /\ cache'[h] # NoEntry /\ cache'[h].addrs # {}
                      /\ cache'[h].age = good'[h]
    BY DEF GoodInv, IsNegative
  <2> DEFINE g == good[h]
             e == cache[h]
  <2>1. good'[h] = Older(g) /\ g \in Age
    BY <1>3 DEF Tick, TypeOK
  <2>2. g < L
    BY <1>l, <2>1, OlderAge DEF Age
  <2>3. e # NoEntry /\ e.addrs # {} /\ e.age = g
    BY <2>2 DEF GoodInv, IsNegative
  <2>4. e \in Entry
    BY <2>3 DEF TypeOK
  <2>5. cache'[h] = [e EXCEPT !.age = Older(@)]
    BY <1>3, <2>3 DEF Tick
  <2>6. cache'[h].addrs = e.addrs /\ cache'[h].age = Older(g)
    BY <2>3, <2>4, <2>5 DEF Entry
  <2>7. Older(g) \in Age
    BY <2>1, OlderAge
  <2>8. [e EXCEPT !.age = Older(@)] \in Entry
    BY <2>3, <2>4, <2>7 DEF Entry
  <2> QED BY <2>1, <2>3, <2>5, <2>6, <2>8, NoEntryAssumption
<1>4. ASSUME NEW r \in Request, NEW c \in Cert, NEW ip \in Addr \cup {NoAddr},
             Verify(r, c, ip)
      PROVE  GoodInv'
  BY <1>1, <1>4 DEF Verify
<1>5. ASSUME NEW r \in Request, Answer(r) \/ Fail(r) \/ CompleteErr(r)
      PROVE  GoodInv'
  BY <1>1, <1>5 DEF Answer, Fail, CompleteErr
<1>6. ASSUME NEW h \in Host, NEW a \in Addr, ZoneChange(h, a)
      PROVE  GoodInv'
  BY <1>1, <1>6 DEF ZoneChange
<1>7. CASE UNCHANGED vars
  BY <1>1, <1>7 DEF vars
<1> QED
  BY <1>2, <1>3, <1>4, <1>5, <1>6, <1>7 DEF Next, Lookup

\* What stale data a decision may rest on, once more as one formula: the
\* decision of this step agrees with a view of the zone no older than its
\* kind allows.
DecisionInv == AcceptedWasPublished /\ NoLingeringRefusal /\ OutageTolerated

\* A decision that rests on addrs seen within age, when age is below the
\* bound for its kind, has both staleness properties.
LEMMA DecisionFromView ==
  ASSUME TypeOK, NEW c \in Cert, NEW ip \in Addr, NEW via \in Via \ {"none"},
         NEW addrs \in SUBSET Addr, NEW age \in Nat,
         SeenWithin(hostOf[c], addrs, age),
         Decide(c, ip, Judge(addrs, ip), via),
         age < Staleness(decision)',
         zone' = zone, since' = since
  PROVE  DecisionInv'
<1> DEFINE h == hostOf[c]
           d == decision'
           b == Staleness(decision)'
<1>1. d.cert = c /\ d.ip = ip /\ d.result = Judge(addrs, ip) /\ d.via = via
  BY DEF Decide
<1>2. h \in Host
  BY NamesAssumption
<1>3. since[h][ip] \in Nat
  BY <1>2, TimesAssumption DEF TypeOK, Age
<1>4. (ip \in addrs <=> ip \in zone[h]) \/ since[h][ip] <= age
  BY DEF SeenWithin
<1>5. b \in Nat
  BY TimesAssumption DEF Staleness
<1>6. since[h][ip] <= age => since[h][ip] < b
  BY <1>3, <1>5
<1>7. /\ d.result = "Verified" => ip \in addrs
      /\ d.result \in DnsError => ip \notin addrs
  BY <1>1, JudgeResult DEF DnsError
<1>8. AcceptedWasPublished'
  BY <1>1, <1>4, <1>6, <1>7 DEF AcceptedWasPublished
<1>9. NoLingeringRefusal'
  BY <1>1, <1>4, <1>6, <1>7 DEF NoLingeringRefusal
<1>10. OutageTolerated'
  BY <1>1 DEF OutageTolerated
<1> QED BY <1>8, <1>9, <1>10 DEF DecisionInv

\* A step that makes no decision, or one without a lookup.
LEMMA NoDnsDecision ==
  ASSUME \/ decision' = NoDecision
         \/ decision'.result \notin DnsError \cup {"Verified"}
  PROVE  DecisionInv'
BY DEF DecisionInv, AcceptedWasPublished, NoLingeringRefusal, OutageTolerated

\* Every step's decision, if any, has the three properties.
LEMMA DecisionStep ==
  ASSUME TypeOK, TypeOK', DnsInv, DecisionInv, [Next]_vars
  PROVE  DecisionInv'
<1>1. ASSUME NEW r \in Request, NEW c \in Cert, NEW ip \in Addr \cup {NoAddr},
             Verify(r, c, ip)
      PROVE  DecisionInv'
  <2> DEFINE h == hostOf[c]
             e == cache[h]
             flaw == IF ip = NoAddr THEN "NoClientAddress" ELSE VerifyCert(c)
  <2>1. zone' = zone /\ since' = since
    BY <1>1 DEF Verify
  <2>2. CASE decision' = NoDecision
    BY <2>2, NoDnsDecision
  <2>3. CASE flaw # "Verified" /\ Decide(c, ip, flaw, "none")
    <3>1. flaw \in CertDefect \cup {"NoClientAddress"}
      BY <2>3, VerifyCertResult
    <3>2. decision'.result = flaw
      BY <2>3 DEF Decide
    <3>3. flaw \notin DnsError \cup {"Verified"}
      BY <3>1 DEF CertDefect, CertDefects, DnsError
    <3> QED BY <3>2, <3>3, NoDnsDecision
  <2>4. CASE flaw = "Verified" /\ Fresh(h) /\ Decide(c, ip, Judge(e.addrs, ip), "cache")
    <3>1. ip \in Addr /\ h \in Host /\ e # NoEntry
      BY <2>4, NamesAssumption DEF Fresh
    <3>2. e \in Entry
      BY <3>1 DEF TypeOK
    <3>3. e.addrs \in SUBSET Addr /\ e.age \in Nat
      BY <3>2, TimesAssumption DEF Entry, Age
    <3>4. SeenWithin(h, e.addrs, e.age + MaxLatency)
      BY <3>1 DEF DnsInv, CacheInv
    <3>5. decision'.via = "cache" /\ decision'.result = Judge(e.addrs, ip)
      BY <2>4 DEF Decide
    <3>6. Judge(e.addrs, ip) = "HostnameUnresolvable" <=> e.addrs = {}
      BY JudgeResult DEF Judge
    <3>7. e.age < (IF e.addrs = {} THEN dns_negative_ttl ELSE dns_ttl)
      BY <2>4 DEF Fresh, IsNegative
    <3> HIDE DEF e
    <3>8. e.age + MaxLatency < Staleness(decision)' /\ e.age + MaxLatency \in Nat
      BY <3>3, <3>5, <3>6, <3>7, TimesAssumption DEF Staleness
    <3>9. "cache" \in Via \ {"none"}
      BY DEF Via
    <3> QED BY <2>1, <2>4, <3>1, <3>3, <3>4, <3>8, <3>9, DecisionFromView
  <2> QED BY <1>1, <2>2, <2>3, <2>4 DEF Verify
<1>2. ASSUME NEW r \in Request, CompleteOk(r)
      PROVE  DecisionInv'
  <2> DEFINE q == query[r]
             h == hostOf[q.cert]
             addrs == q.answer.addrs
  <2>1. /\ q # NoQuery /\ q.state = "answered" /\ q.answer.ok
        /\ Decide(q.cert, q.ip, Judge(addrs, q.ip), "dns")
        /\ zone' = zone /\ since' = since
    BY <1>2 DEF CompleteOk
  <2>2. q \in Query
    BY <2>1 DEF TypeOK
  <2>3. /\ q.cert \in Cert /\ q.ip \in Addr /\ addrs \in SUBSET Addr
        /\ q.age \in Nat
    BY <2>2, TimesAssumption DEF Query, Answers, Age
  <2>4. q.age <= MaxLatency /\ SeenWithin(h, addrs, q.age)
    BY <2>1 DEF DnsInv, QueryInv
  <2>5. decision'.via = "dns"
    BY <2>1 DEF Decide
  <2>6. q.age < Staleness(decision)'
    BY <2>3, <2>4, <2>5, TimesAssumption DEF Staleness
  <2>7. "dns" \in Via \ {"none"}
    BY DEF Via
  <2> QED BY <2>1, <2>3, <2>4, <2>6, <2>7, DecisionFromView
<1>3. ASSUME NEW r \in Request, CompleteErr(r)
      PROVE  DecisionInv'
  <2> DEFINE q == query[r]
             h == hostOf[q.cert]
             e == cache[h]
  <2>1. q # NoQuery /\ zone' = zone /\ since' = since /\ good' = good
    BY <1>3 DEF CompleteErr
  <2>2. q \in Query
    BY <2>1 DEF TypeOK
  <2>3. q.cert \in Cert /\ q.ip \in Addr /\ h \in Host
    BY <2>2, NamesAssumption DEF Query
  <2>4. CASE UsableStale(h)
    <3>1. Decide(q.cert, q.ip, Judge(e.addrs, q.ip), "stale")
      BY <1>3, <2>4 DEF CompleteErr
    <3>2. e # NoEntry /\ e.age < dns_ttl + dns_stale_grace
      BY <2>4 DEF UsableStale
    <3>3. e \in Entry
      BY <2>3, <3>2 DEF TypeOK
    <3>4. e.addrs \in SUBSET Addr /\ e.age \in Nat
      BY <3>3, TimesAssumption DEF Entry, Age
    <3>5. SeenWithin(h, e.addrs, e.age + MaxLatency)
      BY <2>3, <3>2 DEF DnsInv, CacheInv
    <3>6. decision'.via = "stale"
      BY <3>1 DEF Decide
    <3> HIDE DEF e
    <3>7. e.age + MaxLatency < Staleness(decision)' /\ e.age + MaxLatency \in Nat
      BY <3>2, <3>4, <3>6, TimesAssumption DEF Staleness
    <3>8. "stale" \in Via \ {"none"}
      BY DEF Via
    <3> HIDE DEF q
    <3> QED BY <2>1, <2>3, <3>1, <3>4, <3>5, <3>7, <3>8, DecisionFromView
  <2>5. CASE ~ UsableStale(h)
    <3>1. Decide(q.cert, q.ip, "HostnameUnresolvable", "none")
      BY <1>3, <2>5 DEF CompleteErr
    <3>2. /\ decision'.cert = q.cert /\ decision'.via = "none"
          /\ decision'.result = "HostnameUnresolvable"
      BY <3>1 DEF Decide
    <3>3. good[h] \in Nat
      BY <2>3, TimesAssumption DEF TypeOK, Age
    <3>4. ~ (good[h] < dns_ttl + dns_stale_grace)
      BY <2>3, <2>5 DEF DnsInv, GoodInv, UsableStale
    <3>5. good[h] >= dns_ttl + dns_stale_grace
      BY <3>3, <3>4, TimesAssumption
    <3>6. OutageTolerated'
      BY <2>1, <3>2, <3>5 DEF OutageTolerated
    <3>7. AcceptedWasPublished' /\ NoLingeringRefusal'
      BY <3>2 DEF AcceptedWasPublished, NoLingeringRefusal
    <3> QED BY <3>6, <3>7 DEF DecisionInv
  <2> QED BY <2>4, <2>5
<1>4. ASSUME NEW r \in Request, Answer(r) \/ Fail(r)
      PROVE  DecisionInv'
  BY <1>4, NoDnsDecision DEF Answer, Fail
<1>5. ASSUME NEW h \in Host, NEW a \in Addr, ZoneChange(h, a)
      PROVE  DecisionInv'
  BY <1>5, NoDnsDecision DEF ZoneChange
<1>6. CASE Tick
  BY <1>6, NoDnsDecision DEF Tick
<1>7. CASE UNCHANGED vars
  BY <1>7 DEF vars, DecisionInv, AcceptedWasPublished, NoLingeringRefusal,
              OutageTolerated, Staleness
<1> QED
  BY <1>1, <1>2, <1>3, <1>4, <1>5, <1>6, <1>7 DEF Next, Lookup

-----------------------------------------------------------------------------
(* The theorems.                                                           *)

IInv == TypeOK /\ DnsInv /\ DecisionInv

\* The initial states satisfy the invariant: nothing cached, nothing asked.
LEMMA InitInvariant == Init => IInv
<1> SUFFICES ASSUME Init
             PROVE  IInv
  OBVIOUS
<1>1. MaxAge \in Age /\ MaxAge >= dns_ttl + dns_stale_grace
  BY TimesAssumption DEF Age
<1>2. TypeOK
  BY <1>1 DEF Init, TypeOK
<1>3. QueryInv
  BY DEF Init, QueryInv
<1>4. CacheInv
  BY DEF Init, CacheInv
<1>5. GoodInv
  BY <1>1, TimesAssumption DEF Init, GoodInv
<1>6. DecisionInv
  BY DEF Init, DecisionInv, AcceptedWasPublished, NoLingeringRefusal,
         OutageTolerated
<1> QED BY <1>2, <1>3, <1>4, <1>5, <1>6 DEF IInv, DnsInv

\* Every step preserves it.
LEMMA StepInvariant == IInv /\ [Next]_vars => IInv'
<1> SUFFICES ASSUME IInv, [Next]_vars
             PROVE  IInv'
  OBVIOUS
<1>1. TypeOK'
  BY TypeStep DEF IInv
<1>2. QueryInv' /\ CacheInv' /\ GoodInv'
  BY <1>1, QueryStep, CacheStep, GoodStep DEF IInv, DnsInv
<1>3. DecisionInv'
  BY <1>1, DecisionStep DEF IInv
<1> QED BY <1>1, <1>2, <1>3 DEF IInv, DnsInv

\* The cache, the lookups that are out and the decisions of machine.rs keep
\* the inductive invariant.
THEOREM Invariance == Spec => []IInv
BY InitInvariant, StepInvariant, PTL DEF Spec

\* The cache, the lookups and the decisions keep their types.
THEOREM TypeCorrect == Spec => []TypeOK
<1>1. IInv => TypeOK
  BY DEF IInv
<1> QED BY <1>1, Invariance, PTL

\* Every answer in dns_cache, and every one on its way there, is a view of the
\* zone no older than its age and one lookup.
THEOREM CacheSound == Spec => []DnsInv
<1>1. IInv => DnsInv
  BY DEF IInv
<1> QED BY <1>1, Invariance, PTL

\* Every acceptance reflects a view of DNS no older than the TTL, the grace if
\* the resolver failed, and one lookup, whatever the overlap of
\* resolve_cached calls.
THEOREM BoundedStaleness == Spec => []AcceptedWasPublished
<1>1. IInv => AcceptedWasPublished
  BY DEF IInv, DecisionInv
<1> QED BY <1>1, Invariance, PTL

\* So does every refusal on the strength of an answer, with the TTL of its
\* kind: an address that has been published for that long is not refused.
THEOREM RefusalsExpire == Spec => []NoLingeringRefusal
<1>1. IInv => NoLingeringRefusal
  BY DEF IInv, DecisionInv
<1> QED BY <1>1, Invariance, PTL

\* A resolver outage refuses a machine only when its name's last good answer
\* is older than the TTL and the grace.
THEOREM OutageTolerance == Spec => []OutageTolerated
<1>1. IInv => OutageTolerated
  BY DEF IInv, DecisionInv
<1> QED BY <1>1, Invariance, PTL

\* Within the TTL of a good answer that is the last word on a name,
\* resolve_cached asks the resolver nothing.
THEOREM ResolverSpared == Spec => CacheSparesResolver
<1>1. ASSUME IInv, [Next]_vars
      PROVE  [\A r \in Request, h \in Host :
                LookupStarts(r, h) => good[h] >= dns_ttl]_vars
  <2> SUFFICES ASSUME NEW s \in Request, NEW h \in Host, LookupStarts(s, h)
               PROVE  good[h] >= dns_ttl
    OBVIOUS
  <2>t. TypeOK /\ GoodInv
    BY <1>1 DEF IInv, DnsInv
  <2>1. ASSUME NEW r \in Request, NEW c \in Cert, NEW ip \in Addr \cup {NoAddr},
               Verify(r, c, ip)
        PROVE  good[h] >= dns_ttl
    <3>1. r = s /\ ~Fresh(hostOf[c]) /\ query'[s].cert = c
      BY <2>1, <2>t DEF LookupStarts, Verify, TypeOK
    <3>2. ~Fresh(h)
      BY <3>1 DEF LookupStarts
    <3>3. good[h] \in Nat
      BY <2>t, TimesAssumption DEF TypeOK, Age
    <3>4. ASSUME good[h] < dns_ttl
          PROVE  FALSE
      <4>1. good[h] < dns_ttl + dns_stale_grace
        BY <3>3, <3>4, TimesAssumption
      <4> QED BY <2>t, <3>2, <3>4, <4>1 DEF GoodInv, Fresh
    <3> QED BY <3>3, <3>4, TimesAssumption
  <2>2. ASSUME NEW r \in Request, Lookup(r)
        PROVE  FALSE
    BY <2>2, <2>t DEF Lookup, Answer, Fail, CompleteOk, CompleteErr,
                      LookupStarts, TypeOK
  <2>3. ASSUME NEW k \in Host, NEW a \in Addr, ZoneChange(k, a)
        PROVE  FALSE
    BY <2>3 DEF ZoneChange, LookupStarts
  <2>4. CASE Tick
    BY <2>4 DEF Tick, LookupStarts
  <2>5. CASE UNCHANGED vars
    BY <2>5 DEF vars, LookupStarts
  <2> QED BY <1>1, <2>1, <2>2, <2>3, <2>4, <2>5 DEF Next
<1> QED BY <1>1, Invariance, PTL DEF Spec, CacheSparesResolver

\* Only a certificate verify_cert finds sound is accepted, refused over DNS
\* or has its name looked up.
THEOREM SoundCerts == Spec => []OnlySoundCertsResolved
<1>1. TypeOK /\ Init => OnlySoundCertsResolved
  BY DEF Init, OnlySoundCertsResolved
<1>2. ASSUME TypeOK, OnlySoundCertsResolved, [Next]_vars
      PROVE  OnlySoundCertsResolved'
  <2>1. ASSUME NEW r \in Request, NEW c \in Cert, NEW ip \in Addr \cup {NoAddr},
               Verify(r, c, ip)
        PROVE  OnlySoundCertsResolved'
    <3> DEFINE flaw == IF ip = NoAddr THEN "NoClientAddress" ELSE VerifyCert(c)
    <3>1. flaw = "Verified" => defectsOf[c] = {}
      BY VerifyCertResult
    <3>2. flaw # "Verified" => flaw \notin DnsError \cup {"Verified"}
      <4>1. flaw # "Verified" => flaw \in CertDefect \cup {"NoClientAddress"}
        BY VerifyCertResult
      <4> HIDE DEF flaw
      <4> QED BY <4>1 DEF CertDefect, CertDefects, DnsError
    <3>3. \/ decision' = NoDecision
          \/ /\ decision'.cert = c
             /\ flaw # "Verified" => decision'.result = flaw
      BY <2>1 DEF Verify, Decide
    <3>4. \A s \in Request : \/ query'[s] = query[s]
                             \/ flaw = "Verified" /\ query'[s].cert = c
      BY <2>1, <1>2 DEF Verify, TypeOK
    <3> HIDE DEF flaw
    <3> QED BY <1>2, <3>1, <3>2, <3>3, <3>4 DEF OnlySoundCertsResolved
  <2>2. ASSUME NEW r \in Request, Answer(r) \/ Fail(r)
        PROVE  OnlySoundCertsResolved'
    <3>1. query[r] # NoQuery /\ decision' = NoDecision
      BY <2>2 DEF Answer, Fail
    <3>2. query[r] \in Query
      BY <1>2, <3>1 DEF TypeOK
    <3>3. query'[r].cert = query[r].cert
      BY <1>2, <2>2, <3>2 DEF Answer, Fail, TypeOK, Query
    <3>4. \A s \in Request : s # r => query'[s] = query[s]
      BY <1>2, <2>2 DEF Answer, Fail, TypeOK
    <3> QED BY <1>2, <3>1, <3>3, <3>4 DEF OnlySoundCertsResolved
  <2>3. ASSUME NEW r \in Request, CompleteOk(r) \/ CompleteErr(r)
        PROVE  OnlySoundCertsResolved'
    <3>1. query[r] # NoQuery /\ decision'.cert = query[r].cert
      BY <2>3 DEF CompleteOk, CompleteErr, Decide
    <3>2. \A s \in Request : query'[s] # NoQuery => query'[s] = query[s]
      BY <1>2, <2>3 DEF CompleteOk, CompleteErr, TypeOK
    <3> QED BY <1>2, <3>1, <3>2 DEF OnlySoundCertsResolved
  <2>4. ASSUME NEW h \in Host, NEW a \in Addr, ZoneChange(h, a)
        PROVE  OnlySoundCertsResolved'
    BY <1>2, <2>4 DEF ZoneChange, OnlySoundCertsResolved
  <2>5. ASSUME Tick
        PROVE  OnlySoundCertsResolved'
    <3>1. decision' = NoDecision
      BY <2>5 DEF Tick
    <3>2. ASSUME NEW r \in Request, query'[r] # NoQuery
          PROVE  query[r] # NoQuery /\ query'[r].cert = query[r].cert
      <4>1. query[r] # NoQuery /\ query'[r] = [query[r] EXCEPT !.age = Older(@)]
        BY <2>5, <3>2 DEF Tick
      <4>2. query[r] \in Query
        BY <1>2, <4>1 DEF TypeOK
      <4> QED BY <4>1, <4>2 DEF Query
    <3> QED BY <1>2, <3>1, <3>2 DEF OnlySoundCertsResolved
  <2>6. CASE UNCHANGED vars
    BY <1>2, <2>6 DEF vars, OnlySoundCertsResolved
  <2> QED BY <1>2, <2>1, <2>2, <2>3, <2>4, <2>5, <2>6 DEF Next, Lookup
<1>3. Init => TypeOK
  BY InitInvariant DEF IInv
<1> QED BY <1>1, <1>2, <1>3, TypeCorrect, PTL DEF Spec
=============================================================================
