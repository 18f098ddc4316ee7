---------------------------- MODULE AttestProofs ----------------------------
(***************************************************************************)
(* Proofs about Attest, for every set of requests and tokens and every     *)
(* value of the windows, the TTL and the eviction limit that satisfies the *)
(* assumptions there.                                                      *)
(***************************************************************************)
EXTENDS Attest, TLAPS

-----------------------------------------------------------------------------
(* Facts about numbers and sequences.                                      *)

\* Multiplication by a natural number is monotone.
LEMMA MulMonotone ==
  ASSUME NEW c \in Nat, NEW a \in Int, NEW b \in Int, a <= b
  PROVE  c * a <= c * b
BY Z3

\* An upper bound that is a sum stays one when its terms grow.
LEMMA SumMonotone ==
  ASSUME NEW x \in Int, NEW a \in Int, NEW b \in Int, NEW c \in Int,
         NEW d \in Int, x <= a + b, c >= a, d >= b
  PROVE  x <= c + d
OBVIOUS

\* Whole seconds: a reading w is in second q = w \div c, that is in
\* [c * q, c * (q + 1)).
LEMMA WholeSeconds ==
  ASSUME NEW c \in Nat \ {0}, NEW w \in Nat
  PROVE  /\ w \div c \in Int
         /\ c * (w \div c) <= w
         /\ w < c * ((w \div c) + 1)
BY Z3

\* What the queue holds after evict_expired has popped k entries and
\* commit has pushed e.
LEMMA QueueAfterCommit ==
  ASSUME NEW q \in Seq(Entry), NEW k \in 0 .. Len(q), NEW e \in Entry,
         NEW p, p = Append(SubSeq(q, k + 1, Len(q)), e)
  PROVE  /\ p \in Seq(Entry)
         /\ Len(p) = Len(q) - k + 1
         /\ \A i \in 1 .. Len(q) - k : p[i] = q[i + k]
         /\ p[Len(q) - k + 1] = e
         /\ \A j \in 1 .. Len(p) : j # Len(q) - k + 1 =>
              /\ j \in 1 .. Len(q) - k
              /\ j + k \in 1 .. Len(q)
              /\ p[j] = q[j + k]
<1> DEFINE s == SubSeq(q, k + 1, Len(q))
<1>1. /\ s \in Seq(Entry)
      /\ Len(s) = Len(q) - k
      /\ \A i \in 1 .. Len(q) - k : s[i] = q[i + k]
  OBVIOUS
<1>2. p = Append(s, e)
  OBVIOUS
<1> HIDE DEF s
<1>3. /\ p \in Seq(Entry)
      /\ Len(p) = Len(s) + 1
      /\ \A i \in 1 .. Len(s) : p[i] = s[i]
      /\ p[Len(s) + 1] = e
  BY <1>1, <1>2
<1>4. /\ Len(q) \in Nat
      /\ Len(p) = Len(q) - k + 1
      /\ \A i \in 1 .. Len(q) - k : p[i] = q[i + k]
  BY <1>1, <1>3
<1>5. ASSUME NEW j \in 1 .. Len(p), j # Len(q) - k + 1
      PROVE  /\ j \in 1 .. Len(q) - k
             /\ j + k \in 1 .. Len(q)
             /\ p[j] = q[j + k]
  <2> DEFINE m == Len(q)
  <2> HIDE DEF m
  <2>1. m \in Nat /\ k \in 0 .. m /\ j \in 1 .. m - k + 1 /\ j # m - k + 1
    BY <1>4, <1>5 DEF m
  <2>2. j \in 1 .. m - k /\ j + k \in 1 .. m
    BY <2>1
  <2> QED BY <1>4, <2>2 DEF m
<1> QED BY <1>1, <1>3, <1>4, <1>5

-----------------------------------------------------------------------------
(* The windows and the TTL.                                                *)

\* The type of a token's fields, and of the constants, as cited below.
LEMMA TokenFields ==
  ASSUME NEW t \in Token
  PROVE  nonceOf[t] \in Nonce /\ tsOf[t] \in Int
BY ConstantsAssumption

\* A token that passes check_commit_window is read between the opening and
\* the close of its window (in ticks).
LEMMA CommitWindow ==
  ASSUME TypeOK, NEW t \in Token, CheckCommitWindow(tsOf[t]) = "Ok"
  PROVE  /\ TicksPerSec * (tsOf[t] - MAX_TS_DRIFT_SECS) <= wall
         /\ wall < TicksPerSec *
              (tsOf[t] + MAX_TS_DRIFT_SECS + COMMIT_GRACE_SECS + 1)
<1> DEFINE q == wall \div TicksPerSec
           c == TicksPerSec
           lo == tsOf[t] - MAX_TS_DRIFT_SECS
           hi == tsOf[t] + MAX_TS_DRIFT_SECS + COMMIT_GRACE_SECS + 1
<1>1. c \in Nat \ {0} /\ wall \in Nat /\ lo \in Int /\ hi \in Int
  BY ConstantsAssumption, TokenFields DEF TypeOK
<1>2. q \in Int /\ c * q <= wall /\ wall < c * (q + 1)
  BY <1>1, WholeSeconds
<1>3. lo <= q /\ q + 1 <= hi
  BY <1>2, ConstantsAssumption, TokenFields DEF CheckCommitWindow, UnixNow
<1> HIDE DEF q, c, lo, hi
<1>4. c * lo <= c * q /\ c * (q + 1) <= c * hi
  BY <1>1, <1>2, <1>3, MulMonotone
<1>5. c * lo \in Int /\ c * hi \in Int /\ c * q \in Int /\ c * (q + 1) \in Int
  BY <1>1, <1>2
<1>6. c * lo <= wall /\ wall < c * hi
  BY <1>1, <1>2, <1>4, <1>5
<1> QED BY <1>6 DEF c, lo, hi

\* A token whose entry is a full TTL old is past its window for good.
LEMMA AgedIsDead ==
  ASSUME TypeOK, NEW t \in Token,
         TicksPerSec * (tsOf[t] - MAX_TS_DRIFT_SECS) <= acceptedAt[t] + peak,
         mono - acceptedAt[t] >= TicksPerSec * NONCE_TTL
  PROVE  Dead(t)
<1> DEFINE c == TicksPerSec
           ts == tsOf[t]
           d == MAX_TS_DRIFT_SECS
           g == COMMIT_GRACE_SECS
           at == acceptedAt[t]
<1>1. /\ c \in Nat /\ ts \in Int /\ d \in Nat /\ g \in Nat /\ at \in Nat
      /\ NONCE_TTL \in Nat /\ MaxBack \in Nat /\ mono \in Nat /\ peak \in Int
  BY ConstantsAssumption, TokenFields DEF TypeOK
<1>2. /\ c * (ts - d) <= at + peak
      /\ mono - at >= c * NONCE_TTL
      /\ MaxBack <= c * (NONCE_TTL - (2 * d + 1 + g))
  BY ToleranceAssumption
<1> SUFFICES mono + peak - MaxBack >= c * (ts + d + g + 1)
  BY DEF Dead
<1> HIDE DEF c, ts, d, g, at
<1>3. /\ c * (NONCE_TTL - (2 * d + 1 + g)) = c * NONCE_TTL - c * (2 * d + 1 + g)
      /\ c * (ts + d + g + 1) = c * (ts - d) + c * (2 * d + 1 + g)
      /\ c * NONCE_TTL \in Int /\ c * (2 * d + 1 + g) \in Int
      /\ c * (ts - d) \in Int
  BY <1>1, Z3
<1> QED BY <1>1, <1>2, <1>3

\* A dead token does not pass check_commit_window.
LEMMA DeadIsRefused ==
  ASSUME TypeOK, ClockInv, NEW t \in Token, Dead(t)
  PROVE  CheckCommitWindow(tsOf[t]) # "Ok"
<1> DEFINE close == TicksPerSec *
              (tsOf[t] + MAX_TS_DRIFT_SECS + COMMIT_GRACE_SECS + 1)
<1>1. close \in Int
  BY ConstantsAssumption, TokenFields
<1>2. mono + peak - MaxBack >= close
  BY DEF Dead
<1>3. CheckCommitWindow(tsOf[t]) = "Ok" => wall < close
  BY CommitWindow
<1> HIDE DEF close
<1> QED
  BY <1>1, <1>2, <1>3, ConstantsAssumption DEF TypeOK, ClockInv

-----------------------------------------------------------------------------
(* The inductive invariant.                                                *)

Inv ==
  TypeOK /\ CacheInStep /\ NoDoubleAccept /\ SeenWereAccepted /\ AttestInv

\* Nothing has been accepted, queued or locked when the proxy starts.
LEMMA InitInv == Init => Inv
<1> SUFFICES ASSUME Init PROVE Inv
  OBVIOUS
<1> USE ConstantsAssumption DEF Init
<1>1. TypeOK
  BY DEF TypeOK, Boots
<1>2. CacheInStep /\ NoDoubleAccept /\ SeenWereAccepted
  BY DEF CacheInStep, NoDoubleAccept, SeenWereAccepted
<1>3. ClockInv
  BY DEF ClockInv
<1>4. LockInv /\ AcceptedInv /\ CommittingInv /\ BootInv
  BY DEF LockInv, AcceptedInv, CommittingInv, BootInv, Boots
<1> QED BY <1>1, <1>2, <1>3, <1>4 DEF Inv, AttestInv

\* A step that leaves the clocks, the cache and the history alone can only
\* disturb what the invariant says of the requests.
LEMMA QuietStep ==
  ASSUME Inv, UNCHANGED <<clocks, cache, boot, history>>,
         TypeOK', LockInv', CommittingInv'
  PROVE  Inv'
<1> USE DEF clocks, cache, history
<1>1. CacheInStep' /\ NoDoubleAccept' /\ SeenWereAccepted'
  BY DEF Inv, CacheInStep, NoDoubleAccept, SeenWereAccepted
<1>2. ClockInv' /\ AcceptedInv' /\ BootInv'
  BY DEF Inv, AttestInv, ClockInv, AcceptedInv, BootInv
<1> QED BY <1>1, <1>2 DEF Inv, AttestInv

\* Leaving the verifier without the lock.
LEMMA DecideQuietly ==
  ASSUME Inv, NEW r \in Request, phase[r] \in {"idle", "nonce", "held"},
         NEW v \in {"Dropped"} \cup AttestError, Decide(r, v),
         UNCHANGED <<clocks, cache, lock, boot, history>>
  PROVE  Inv'
<1> USE DEF Inv, AttestInv, Decide
<1>1. TypeOK'
  BY ConstantsAssumption DEF TypeOK, clocks, cache, history
<1>2. LockInv'
  BY DEF TypeOK, LockInv
<1>3. CommittingInv'
  BY DEF TypeOK, CommittingInv, clocks, cache, history
<1> QED BY <1>1, <1>2, <1>3, QuietStep

\* Going on to a step that does not hold the lock.
LEMMA GoOnQuietly ==
  ASSUME Inv, NEW r \in Request, phase[r] \in {"idle", "nonce", "held"},
         NEW t \in Token, NEW next \in {"nonce", "held"}, GoOn(r, t, next),
         UNCHANGED <<clocks, cache, lock, boot, history>>
  PROVE  Inv'
<1> USE DEF Inv, AttestInv, GoOn
<1>1. TypeOK'
  BY ConstantsAssumption DEF TypeOK, clocks, cache, history
<1>2. LockInv'
  BY DEF TypeOK, LockInv
<1>3. CommittingInv'
  BY DEF TypeOK, CommittingInv, clocks, cache, history
<1> QED BY <1>1, <1>2, <1>3, QuietStep

\* The checks of commit_nonce: a token that passes them was never accepted.
LEMMA CheckCommitInv ==
  ASSUME Inv, NEW r \in Request, phase[r] = "held", CheckCommit(r)
  PROVE  Inv'
<1> DEFINE t == tok[r]
           v == IF Contains(nonceOf[t]) THEN "NonceReplay"
                ELSE CheckCommitWindow(tsOf[t])
<1>1. t \in Token /\ lock = NoOne
  BY DEF Inv, TypeOK, CheckCommit
<1>2. v \in {"Ok"} \cup AttestError
  BY DEF CheckCommitWindow, AttestError
<1>3. CASE v = "Ok"
  <2>1. /\ lock' = r
        /\ GoOn(r, t, "commit")
        /\ UNCHANGED <<clocks, cache, boot, history>>
        /\ nonceOf[t] \notin seen
        /\ CheckCommitWindow(tsOf[t]) = "Ok"
    BY <1>3 DEF CheckCommit, Contains
  <2>2. accepts[boot][t] = 0
    <3> SUFFICES ASSUME accepts[boot][t] > 0 PROVE FALSE
      BY <1>1 DEF Inv, TypeOK
    <3>1. ~ \E i \in 1 .. Len(expiry) :
             expiry[i] = [nonce |-> nonceOf[t], at |-> acceptedAt[t]]
      BY <2>1 DEF Inv, CacheInStep
    <3>2. Dead(t)
      BY <1>1, <3>1, AgedIsDead DEF Inv, AttestInv, AcceptedInv
    <3> QED BY <1>1, <2>1, <3>2, DeadIsRefused DEF Inv, AttestInv
  <2>3. TicksPerSec * (tsOf[t] - MAX_TS_DRIFT_SECS) <= mono + peak
    <3> DEFINE open == TicksPerSec * (tsOf[t] - MAX_TS_DRIFT_SECS)
    <3>1. open <= wall
      BY <1>1, <2>1, CommitWindow DEF Inv
    <3>2. open \in Int
      BY <1>1, ConstantsAssumption, TokenFields
    <3> HIDE DEF open
    <3>3. open <= mono + peak
      BY <3>1, <3>2 DEF Inv, AttestInv, ClockInv, TypeOK
    <3> QED BY <3>3 DEF open
  <2>4. TypeOK'
    BY <1>1, <2>1 DEF Inv, TypeOK, GoOn, clocks, cache, history
  <2>5. LockInv'
    BY <1>1, <2>1, ConstantsAssumption DEF Inv, AttestInv, TypeOK, LockInv, GoOn
  <2>6. CommittingInv'
    <3> SUFFICES ASSUME NEW x \in Request, phase'[x] = "commit"
                 PROVE  x = r /\ tok'[x] = t
      BY <2>1, <2>2, <2>3 DEF CommittingInv, clocks, cache, history
    <3> QED BY <1>1, <2>1, ConstantsAssumption
            DEF Inv, AttestInv, LockInv, TypeOK, GoOn
  <2> QED BY <2>1, <2>4, <2>5, <2>6, QuietStep
<1>4. CASE v # "Ok"
  <2>1. /\ Decide(r, v)
        /\ UNCHANGED <<clocks, cache, lock, boot, history>>
    BY <1>4 DEF CheckCommit
  <2> QED BY <1>2, <1>4, <2>1, DecideQuietly
<1> QED BY <1>3, <1>4

\* NonceCache::commit: the entry that goes in was not there, and the entries
\* that go out are a full TTL old.
LEMMA CommitNonceInv ==
  ASSUME Inv, NEW r \in Request, CommitNonce(r)
  PROVE  Inv'
<1> DEFINE t == tok[r]
           n == nonceOf[t]
           e == [nonce |-> n, at |-> mono]
<1>1. /\ phase[r] = "commit" /\ lock = r /\ t \in Token /\ n \in Nonce
      /\ n \notin seen /\ accepts[boot][t] = 0 /\ e \in Entry
      /\ TicksPerSec * (tsOf[t] - MAX_TS_DRIFT_SECS) <= mono + peak
  <2>1. phase[r] = "commit" /\ t \in Token
    BY DEF CommitNonce, Inv, TypeOK
  <2> QED BY <2>1, TokenFields
          DEF Inv, AttestInv, LockInv, CommittingInv, TypeOK, Entry
<1>2. PICK k \in 0 .. Len(expiry) :
        /\ Evicts(k, mono)
        /\ seen' = (seen \ {expiry[i].nonce : i \in 1 .. k}) \cup {n}
        /\ expiry' = Append(SubSeq(expiry, k + 1, Len(expiry)), e)
        /\ Decide(r, "Ok")
        /\ accepts' = [accepts EXCEPT ![boot][t] = @ + 1]
        /\ acceptedAt' = [acceptedAt EXCEPT ![t] = mono]
  BY <1>1 DEF CommitNonce
<1>3. lock' = NoOne /\ UNCHANGED <<mono, wall, peak, boot>>
  BY DEF CommitNonce, clocks
<1>4. expiry \in Seq(Entry) /\ Len(expiry) \in Nat /\ k \in Nat
  BY DEF Inv, TypeOK
<1>5. /\ expiry' \in Seq(Entry)
      /\ Len(expiry') = Len(expiry) - k + 1
      /\ \A i \in 1 .. Len(expiry) - k : expiry'[i] = expiry[i + k]
      /\ expiry'[Len(expiry) - k + 1] = e
      /\ \A j \in 1 .. Len(expiry') : j # Len(expiry) - k + 1 =>
           /\ j \in 1 .. Len(expiry) - k
           /\ j + k \in 1 .. Len(expiry)
           /\ expiry'[j] = expiry[j + k]
  BY <1>1, <1>2, <1>4, QueueAfterCommit, SMTT(40)
<1>6. \A b \in Boots, u \in Token :
        accepts'[b][u] = IF b = boot /\ u = t THEN 1 ELSE accepts[b][u]
  BY <1>1, <1>2 DEF Inv, TypeOK
<1>7. TypeOK'
  <2>1. accepts' \in [Boots -> [Token -> Nat]]
    BY <1>1, <1>2 DEF Inv, TypeOK
  <2>2. seen' \subseteq Nonce /\ acceptedAt' \in [Token -> Nat]
    BY <1>1, <1>2 DEF Inv, TypeOK
  <2>3. /\ phase' \in [Request -> {"idle", "nonce", "held", "commit"}]
        /\ tok' \in [Request -> Token \cup {NoToken}]
        /\ \A x \in Request : tok'[x] = NoToken <=> phase'[x] = "idle"
        /\ verdict' = "Ok"
    BY <1>2 DEF Inv, TypeOK, Decide
  <2> QED BY <1>3, <1>5, <2>1, <2>2, <2>3 DEF Inv, TypeOK
<1>8. CacheInStep'
  <2>1. \A i, j \in 1 .. Len(expiry') : i < j =>
          /\ expiry'[i].nonce # expiry'[j].nonce
          /\ expiry'[i].at <= expiry'[j].at
    <3> SUFFICES ASSUME NEW i \in 1 .. Len(expiry'),
                        NEW j \in 1 .. Len(expiry'), i < j
                 PROVE  /\ expiry'[i].nonce # expiry'[j].nonce
                        /\ expiry'[i].at <= expiry'[j].at
      OBVIOUS
    <3>1. /\ i \in 1 .. Len(expiry) - k
          /\ expiry'[i] = expiry[i + k] /\ i + k \in 1 .. Len(expiry)
      BY <1>4, <1>5
    <3>2. CASE j = Len(expiry) - k + 1
      BY <1>1, <1>5, <3>1, <3>2 DEF Inv, CacheInStep
    <3>3. CASE j # Len(expiry) - k + 1
      <4>1. j \in 1 .. Len(expiry) - k /\ j + k \in 1 .. Len(expiry)
        BY <1>4, <1>5, <3>3
      <4>2. expiry'[j] = expiry[j + k] /\ i + k < j + k
        BY <1>4, <1>5, <4>1
      <4> QED BY <3>1, <4>1, <4>2 DEF Inv, CacheInStep
    <3> QED BY <3>2, <3>3
  <2>2. \A i \in 1 .. Len(expiry') : expiry'[i].at <= mono'
    <3> SUFFICES ASSUME NEW i \in 1 .. Len(expiry')
                 PROVE  expiry'[i].at <= mono
      BY <1>3
    <3>1. CASE i = Len(expiry) - k + 1
      BY <1>5, <3>1 DEF Inv, TypeOK
    <3>2. CASE i # Len(expiry) - k + 1
      <4>1. i \in 1 .. Len(expiry) - k /\ i + k \in 1 .. Len(expiry)
        BY <1>4, <1>5, <3>2
      <4>2. expiry'[i] = expiry[i + k]
        BY <1>5, <4>1
      <4> QED BY <4>1, <4>2 DEF Inv, CacheInStep
    <3> QED BY <3>1, <3>2
  <2>3. seen' \subseteq {expiry'[i].nonce : i \in 1 .. Len(expiry')}
    <3> SUFFICES ASSUME NEW m \in seen'
                 PROVE  \E i \in 1 .. Len(expiry') : m = expiry'[i].nonce
      OBVIOUS
    <3>1. CASE m = n
      BY <1>4, <1>5, <3>1
    <3>2. CASE m # n
      <4>1. PICK i \in 1 .. Len(expiry) : m = expiry[i].nonce /\ i \notin 1 .. k
        BY <1>2, <3>2 DEF Inv, CacheInStep
      <4>2. i - k \in 1 .. Len(expiry) - k /\ (i - k) + k = i
        BY <1>4, <4>1
      <4>3. expiry'[i - k] = expiry[i] /\ i - k \in 1 .. Len(expiry')
        BY <1>4, <1>5, <4>2
      <4> QED BY <4>1, <4>3
    <3> QED BY <3>1, <3>2
  <2>4. {expiry'[i].nonce : i \in 1 .. Len(expiry')} \subseteq seen'
    <3> SUFFICES ASSUME NEW i \in 1 .. Len(expiry')
                 PROVE  expiry'[i].nonce \in seen'
      OBVIOUS
    <3>1. CASE i = Len(expiry) - k + 1
      BY <1>2, <1>5, <3>1
    <3>2. CASE i # Len(expiry) - k + 1
      <4> i \in 1 .. Len(expiry) - k
        BY <1>4, <1>5, <3>2
      <4>1. /\ i + k \in 1 .. Len(expiry)
            /\ \A j \in 1 .. k : j < i + k /\ j \in 1 .. Len(expiry)
            /\ expiry'[i] = expiry[i + k]
        BY <1>4, <1>5
      <4>2. /\ expiry[i + k].nonce \in seen
            /\ \A j \in 1 .. k : expiry[j].nonce # expiry[i + k].nonce
        BY <4>1 DEF Inv, CacheInStep
      <4> QED BY <1>2, <4>1, <4>2
    <3> QED BY <3>1, <3>2
  <2>5. seen' = {expiry'[i].nonce : i \in 1 .. Len(expiry')}
    BY <2>3, <2>4
  <2> QED BY <2>1, <2>2, <2>5 DEF CacheInStep
<1>9. NoDoubleAccept' /\ BootInv'
  <2> SUFFICES ASSUME NEW b \in Boots, NEW u \in Token
               PROVE  accepts'[b][u] <= 1 /\ (b > boot => accepts'[b][u] = 0)
    BY <1>3 DEF NoDoubleAccept, BootInv
  <2>1. b \in Int /\ boot \in Int /\ accepts[b][u] \in Nat
    BY DEF Inv, TypeOK, Boots
  <2>2. accepts[b][u] <= 1 /\ (b > boot => accepts[b][u] = 0)
    BY DEF Inv, AttestInv, NoDoubleAccept, BootInv
  <2> QED BY <1>6, <2>1, <2>2
<1>10. SeenWereAccepted'
  BY <1>1, <1>2, <1>3, <1>6 DEF Inv, SeenWereAccepted, TypeOK
<1>11. ClockInv' /\ LockInv' /\ CommittingInv'
  BY <1>1, <1>2, <1>3, ConstantsAssumption
     DEF Inv, AttestInv, ClockInv, LockInv, CommittingInv, TypeOK, Decide
<1>12. AcceptedInv'
  <2> SUFFICES ASSUME NEW u \in Token, accepts'[boot][u] > 0
               PROVE
      /\ TicksPerSec * (tsOf[u] - MAX_TS_DRIFT_SECS) <= acceptedAt'[u] + peak
      /\ \/ mono - acceptedAt'[u] >= TicksPerSec * NONCE_TTL
         \/ \E i \in 1 .. Len(expiry') :
              expiry'[i] = [nonce |-> nonceOf[u], at |-> acceptedAt'[u]]
    BY <1>3 DEF AcceptedInv
  <2>1. CASE u = t
    BY <1>1, <1>2, <1>4, <1>5, <2>1, SMTT(40) DEF Inv, TypeOK
  <2>2. CASE u # t
    <3>1. accepts[boot][u] > 0 /\ acceptedAt'[u] = acceptedAt[u]
      BY <1>2, <1>6, <2>2 DEF Inv, TypeOK
    <3>2. TicksPerSec * (tsOf[u] - MAX_TS_DRIFT_SECS) <= acceptedAt[u] + peak
      BY <3>1 DEF Inv, AttestInv, AcceptedInv
    <3>3. CASE mono - acceptedAt[u] >= TicksPerSec * NONCE_TTL
      BY <3>1, <3>2, <3>3
    <3>4. CASE \E i \in 1 .. Len(expiry) :
                 expiry[i] = [nonce |-> nonceOf[u], at |-> acceptedAt[u]]
      <4>1. PICK i \in 1 .. Len(expiry) :
                 expiry[i] = [nonce |-> nonceOf[u], at |-> acceptedAt[u]]
        BY <3>4
      <4>2. CASE i \in 1 .. k
        BY <1>2, <3>1, <3>2, <4>1, <4>2 DEF Evicts, Aged
      <4>3. CASE i \notin 1 .. k
        <5>1. i - k \in 1 .. Len(expiry) - k /\ (i - k) + k = i
          BY <1>4, <4>3
        <5>2. expiry'[i - k] = expiry[i] /\ i - k \in 1 .. Len(expiry')
          BY <1>4, <1>5, <5>1
        <5> QED BY <3>1, <3>2, <4>1, <5>2
      <4> QED BY <4>2, <4>3
    <3> QED BY <3>1, <3>3, <3>4 DEF Inv, AttestInv, AcceptedInv
  <2> QED BY <2>1, <2>2
<1> QED BY <1>7, <1>8, <1>9, <1>10, <1>11, <1>12 DEF Inv, AttestInv

\* Time passes, or the wall clock is set: the lower bound on the wall clock
\* that Dead speaks of only moves forward.
LEMMA ClockStepInv ==
  ASSUME Inv, Tick \/ \E d \in Steps : StepWall(d)
  PROVE  Inv'
<1>1. /\ mono' \in Nat /\ wall' \in Nat /\ peak' \in Int
      /\ mono' >= mono /\ peak' >= peak /\ ClockInv'
  <2>1. CASE Tick
    BY <2>1 DEF Tick, Inv, AttestInv, TypeOK, ClockInv
  <2>2. ASSUME NEW d \in Steps, StepWall(d)
        PROVE  /\ mono' \in Nat /\ wall' \in Nat /\ peak' \in Int
               /\ mono' >= mono /\ peak' >= peak /\ ClockInv'
    BY <2>2, ConstantsAssumption DEF StepWall, Inv, AttestInv, TypeOK, ClockInv
  <2> QED BY <2>1, <2>2
<1>2. /\ UNCHANGED <<seen, expiry, lock, phase, tok, boot, accepts, acceptedAt>>
      /\ verdict' = "none"
  BY DEF Tick, StepWall, cache, history
<1>3. TypeOK'
  BY <1>1, <1>2 DEF Inv, TypeOK
<1>4. CacheInStep'
  <2>1. ASSUME NEW i \in 1 .. Len(expiry) PROVE expiry[i].at <= mono'
    <3> expiry \in Seq(Entry) /\ mono \in Nat
      BY DEF Inv, TypeOK
    <3> expiry[i] \in Entry
      OBVIOUS
    <3>1. expiry[i].at \in Nat
      BY DEF Entry
    <3>2. expiry[i].at <= mono
      BY DEF Inv, CacheInStep
    <3> QED BY <1>1, <3>1, <3>2
  <2> QED BY <1>2, <2>1 DEF Inv, CacheInStep
<1>5. NoDoubleAccept' /\ SeenWereAccepted' /\ LockInv' /\ BootInv'
  BY <1>2 DEF Inv, AttestInv, NoDoubleAccept, SeenWereAccepted, LockInv, BootInv
<1>6. AcceptedInv'
  <2> SUFFICES ASSUME NEW t \in Token, accepts[boot][t] > 0
               PROVE
      /\ TicksPerSec * (tsOf[t] - MAX_TS_DRIFT_SECS) <= acceptedAt[t] + peak'
      /\ \/ mono' - acceptedAt[t] >= TicksPerSec * NONCE_TTL
         \/ \E i \in 1 .. Len(expiry) :
              expiry[i] = [nonce |-> nonceOf[t], at |-> acceptedAt[t]]
    BY <1>2 DEF AcceptedInv
  <2> DEFINE open == TicksPerSec * (tsOf[t] - MAX_TS_DRIFT_SECS)
             ttl == TicksPerSec * NONCE_TTL
  <2>1. open \in Int /\ ttl \in Int /\ acceptedAt[t] \in Nat
    BY ConstantsAssumption, TokenFields DEF Inv, TypeOK
  <2>2. /\ open <= acceptedAt[t] + peak
        /\ \/ mono - acceptedAt[t] >= ttl
           \/ \E i \in 1 .. Len(expiry) :
                expiry[i] = [nonce |-> nonceOf[t], at |-> acceptedAt[t]]
    BY DEF Inv, AttestInv, AcceptedInv
  <2> HIDE DEF open, ttl
  <2>3. /\ open <= acceptedAt[t] + peak'
        /\ mono - acceptedAt[t] >= ttl => mono' - acceptedAt[t] >= ttl
    BY <1>1, <2>1, <2>2 DEF Inv, TypeOK
  <2> QED BY <2>2, <2>3 DEF open, ttl
<1>7. CommittingInv'
  <2> SUFFICES ASSUME NEW r \in Request, phase[r] = "commit"
               PROVE
      /\ nonceOf[tok[r]] \notin seen
      /\ accepts[boot][tok[r]] = 0
      /\ TicksPerSec * (tsOf[tok[r]] - MAX_TS_DRIFT_SECS) <= mono' + peak'
    BY <1>2 DEF CommittingInv
  <2>1. PICK t \in Token : t = tok[r]
    BY DEF Inv, TypeOK
  <2> DEFINE open == TicksPerSec * (tsOf[t] - MAX_TS_DRIFT_SECS)
  <2>2. open \in Int
    BY ConstantsAssumption, TokenFields
  <2>3. /\ nonceOf[t] \notin seen
        /\ accepts[boot][t] = 0
        /\ open <= mono + peak
    BY <2>1 DEF Inv, AttestInv, CommittingInv
  <2> HIDE DEF open
  <2>4. mono \in Int /\ mono' \in Int /\ peak \in Int /\ peak' \in Int
    BY <1>1 DEF Inv, TypeOK
  <2>5. open <= mono' + peak'
    BY <1>1, <2>2, <2>3, <2>4, SumMonotone
  <2> QED BY <2>1, <2>3, <2>5 DEF open
<1> QED BY <1>1, <1>3, <1>4, <1>5, <1>6, <1>7 DEF Inv, AttestInv

\* A restart begins a new run: nothing has been accepted in it.
LEMMA RestartInv ==
  ASSUME Inv, Restart
  PROVE  Inv'
<1> USE DEF Restart, clocks, history
<1>1. boot \in Boots /\ boot' \in Boots /\ boot' > boot
  BY ConstantsAssumption DEF Inv, TypeOK, Boots
<1>2. TypeOK'
  BY <1>1 DEF Inv, TypeOK
<1>3. CacheInStep' /\ SeenWereAccepted'
  BY DEF CacheInStep, SeenWereAccepted
<1>4. NoDoubleAccept' /\ ClockInv'
  BY DEF Inv, AttestInv, NoDoubleAccept, ClockInv
<1>5. BootInv' /\ AcceptedInv'
  <2>1. \A b \in Boots, t \in Token : b >= boot' => accepts[b][t] = 0
    BY <1>1 DEF Inv, AttestInv, BootInv, Boots
  <2>2. BootInv'
    BY <1>1, <2>1 DEF BootInv, Boots
  <2>3. AcceptedInv'
    BY <1>1, <2>1 DEF AcceptedInv, Boots
  <2> QED BY <2>2, <2>3
<1>6. LockInv' /\ CommittingInv'
  BY ConstantsAssumption DEF LockInv, CommittingInv
<1> QED BY <1>2, <1>3, <1>4, <1>5, <1>6 DEF Inv, AttestInv

\* Every step of the verifier and of its environment preserves Inv.
LEMMA NextInv == Inv /\ [Next]_vars => Inv'
<1> SUFFICES ASSUME Inv, [Next]_vars PROVE Inv'
  OBVIOUS
<1>1. ASSUME NEW r \in Request, NEW t \in Token, NEW b \in BOOLEAN,
             VerifyTimestamp(r, t, b)
      PROVE  Inv'
  <2> DEFINE v == IF b THEN CheckDrift(tsOf[t]) ELSE "BadTimestamp"
  <2>1. v \in {"Ok"} \cup AttestError
    BY DEF CheckDrift, AttestError
  <2>2. CASE v = "Ok"
    BY <1>1, <2>2, GoOnQuietly DEF VerifyTimestamp
  <2>3. CASE v # "Ok"
    BY <1>1, <2>1, <2>3, DecideQuietly DEF VerifyTimestamp
  <2> QED BY <2>2, <2>3
<1>2. ASSUME NEW r \in Request, NEW flaw \in Flaws, VerifyToken(r, flaw)
      PROVE  Inv'
  <2> DEFINE v == CheckNonceAndToken(tok[r], flaw)
  <2>1. v \in {"Ok"} \cup AttestError
    BY DEF CheckNonceAndToken, AttestError, Flaws
  <2>2. tok[r] \in Token
    BY <1>2 DEF VerifyToken, Inv, TypeOK
  <2>3. CASE v = "Ok"
    BY <1>2, <2>2, <2>3, GoOnQuietly DEF VerifyToken
  <2>4. CASE v # "Ok"
    BY <1>2, <2>1, <2>4, DecideQuietly DEF VerifyToken
  <2> QED BY <2>3, <2>4
<1>3. ASSUME NEW r \in Request, Abandon(r) PROVE Inv'
  BY <1>3, DecideQuietly DEF Abandon
<1>4. ASSUME NEW r \in Request, CommitUnbound(r) PROVE Inv'
  BY <1>4, CheckCommitInv DEF CommitUnbound
<1>5. ASSUME NEW r \in Request, NEW b \in BOOLEAN, VerifyBodyAndCommit(r, b)
      PROVE  Inv'
  <2>1. "BodyHashMismatch" \in {"Dropped"} \cup AttestError
    BY DEF AttestError
  <2> QED BY <1>5, <2>1, CheckCommitInv, DecideQuietly DEF VerifyBodyAndCommit
<1>6. ASSUME NEW r \in Request, CommitNonce(r) PROVE Inv'
  BY <1>6, CommitNonceInv
<1>7. ASSUME NEW d \in Steps, StepWall(d) PROVE Inv'
  BY <1>7, ClockStepInv
<1>8. CASE Tick
  BY <1>8, ClockStepInv
<1>9. CASE Restart
  BY <1>9, RestartInv
<1>10. CASE UNCHANGED vars
  <2> USE <1>10 DEF vars, clocks, cache, history
  <2>1. TypeOK' /\ LockInv' /\ CommittingInv'
    BY DEF Inv, AttestInv, TypeOK, LockInv, CommittingInv
  <2> QED BY <2>1, QuietStep
<1> QED
  BY <1>1, <1>2, <1>3, <1>4, <1>5, <1>6, <1>7, <1>8, <1>9, <1>10
     DEF Next, Step

-----------------------------------------------------------------------------
(* The theorems.                                                           *)

\* The invariant holds throughout.
THEOREM Invariance == Spec => []Inv
BY InitInv, NextInv, PTL DEF Spec

\* Type correctness of the verifier's state.
THEOREM TypeCorrect == Spec => []TypeOK
<1>1. Inv => TypeOK
  BY DEF Inv
<1> QED BY <1>1, Invariance, PTL

\* Replay protection: no token is accepted twice by one run of the proxy,
\* for every interleaving of requests, every delay between their phases and
\* every wall clock step within the tolerance NONCE_TTL leaves.
THEOREM ReplayProtection == Spec => []NoDoubleAccept
<1>1. Inv => NoDoubleAccept
  BY DEF Inv
<1> QED BY <1>1, Invariance, PTL

\* The queue and the set of the replay cache never come apart, whatever
\* commit_nonce evicts.
THEOREM CacheConsistency == Spec => []CacheInStep
<1>1. Inv => CacheInStep
  BY DEF Inv
<1> QED BY <1>1, Invariance, PTL

\* Only a token that was accepted has its nonce in the replay cache: a request
\* that was refused leaves nothing behind that could refuse another.
THEOREM CacheHonest == Spec => []SeenWereAccepted
<1>1. Inv => SeenWereAccepted
  BY DEF Inv
<1> QED BY <1>1, Invariance, PTL

\* A nonce leaves the cache only when its token can never be accepted again.
THEOREM EvictionIsSafe == Spec => []RememberedWhileLive
<1>1. Inv => RememberedWhileLive
  <2> SUFFICES ASSUME Inv, NEW t \in Token, accepts[boot][t] > 0,
                      nonceOf[t] \notin seen
               PROVE  Dead(t)
    BY DEF RememberedWhileLive
  <2>1. ~ \E i \in 1 .. Len(expiry) :
           expiry[i] = [nonce |-> nonceOf[t], at |-> acceptedAt[t]]
    BY DEF Inv, CacheInStep
  <2> QED BY <2>1, AgedIsDead DEF Inv, AttestInv, AcceptedInv
<1> QED BY <1>1, Invariance, PTL

\* A copy of an accepted request that comes to commit within the TTL is
\* recorded as a replay, not as a slow upload.
THEOREM LateCopies == Spec => LateCopyIsReplay
<1> DEFINE Recorded(r) ==
      /\ CommitDecided(r)
      /\ accepts[boot][tok[r]] > 0
      /\ mono - acceptedAt[tok[r]] < TicksPerSec * NONCE_TTL
      => verdict' = "NonceReplay"
<1>1. ASSUME Inv, NEW r \in Request, CommitDecided(r), [Next]_vars,
             accepts[boot][tok[r]] > 0,
             mono - acceptedAt[tok[r]] < TicksPerSec * NONCE_TTL
      PROVE  verdict' = "NonceReplay"
  <2>1. tok[r] \in Token /\ phase[r] \in {"held", "commit"}
    BY <1>1 DEF CommitDecided, Inv, TypeOK
  <2>2. nonceOf[tok[r]] \in seen
    <3> DEFINE ttl == TicksPerSec * NONCE_TTL
    <3>1. ttl \in Int /\ acceptedAt[tok[r]] \in Int /\ mono \in Int
      BY <1>1, <2>1, ConstantsAssumption DEF Inv, TypeOK
    <3>2. ~(mono - acceptedAt[tok[r]] >= ttl)
      BY <1>1, <3>1
    <3>3. \E i \in 1 .. Len(expiry) :
            expiry[i] = [nonce |-> nonceOf[tok[r]], at |-> acceptedAt[tok[r]]]
      BY <1>1, <2>1, <3>2 DEF Inv, AttestInv, AcceptedInv
    <3> QED BY <1>1, <3>3 DEF Inv, CacheInStep
  <2>3. ASSUME NEW x \in Request, Step(x)
        PROVE  x = r
    <3> SUFFICES ASSUME x # r PROVE phase'[r] = phase[r]
      BY <1>1 DEF CommitDecided
    <3> phase \in [Request -> {"idle", "nonce", "held", "commit"}]
      BY <1>1 DEF Inv, TypeOK
    <3> QED
      BY <2>3 DEF Step, VerifyTimestamp, VerifyToken, Abandon, CommitUnbound,
           VerifyBodyAndCommit, CheckCommit, CommitNonce, Decide, GoOn
  <2>4. CASE Step(r)
    <3>1. phase[r] # "commit"
      BY <1>1, <2>1, <2>2 DEF Inv, AttestInv, CommittingInv
    <3>2. CASE CheckCommit(r)
      BY <2>2, <3>2 DEF CheckCommit, Contains, Decide
    <3>3. CASE Decide(r, "Dropped") \/ Decide(r, "BodyHashMismatch")
      BY <1>1, <3>3 DEF Decide, CommitDecided
    <3> QED
      BY <2>1, <2>4, <3>1, <3>2, <3>3
         DEF Step, VerifyTimestamp, VerifyToken, Abandon, CommitUnbound,
             VerifyBodyAndCommit, CommitNonce
  <2>5. CASE Tick \/ Restart \/ \E d \in Steps : StepWall(d)
    BY <1>1, <2>5 DEF Tick, Restart, StepWall, CommitDecided
  <2>6. CASE UNCHANGED vars
    BY <1>1, <2>6 DEF vars, CommitDecided
  <2> QED BY <1>1, <2>3, <2>4, <2>5, <2>6 DEF Next
<1>2. Inv /\ [Next]_vars => [\A r \in Request : Recorded(r)]_vars
  BY <1>1
<1> QED BY <1>2, Invariance, PTL DEF Spec, LateCopyIsReplay

\* The verifier implements the once-only gate.
THEOREM ImplementsGate == Spec => GateSpec
<1> DEFINE adm == {t \in Token : accepts[boot][t] > 0}
<1>1. Init => Gate!Init
  BY ConstantsAssumption DEF Init, Gate!Init, Boots
<1>2. ASSUME Inv, Inv', [Next]_vars PROVE [Gate!Next]_(Gate!vars)
  <2> USE DEF Gate!Next, Gate!Refuse, Gate!vars
  <2>1. CASE verdict' # "Ok" /\ UNCHANGED <<boot, accepts>>
    BY <2>1
  <2>2. ASSUME NEW r \in Request, CommitNonce(r) PROVE Gate!Next
    <3>0. PICK t \in Token : t = tok[r]
      BY <1>2, <2>2 DEF CommitNonce, Inv, TypeOK
    <3>1. /\ t \in Token /\ nonceOf[t] \notin seen /\ accepts[boot][t] = 0
      BY <1>2, <2>2, <3>0 DEF CommitNonce, Inv, AttestInv, CommittingInv
    <3>2. /\ accepts' = [accepts EXCEPT ![boot][t] = @ + 1]
          /\ boot' = boot /\ verdict' = "Ok"
      BY <2>2, <3>0, <3>1 DEF CommitNonce, Decide
    <3>3. /\ \A u \in Token : u # t => accepts'[boot][u] = accepts[boot][u]
          /\ accepts'[boot][t] = 1
      BY <1>2, <3>1, <3>2 DEF Inv, TypeOK
    <3>4. {u \in Token : accepts'[boot'][u] > 0} = adm \cup {t}
      BY <3>1, <3>2, <3>3
    <3>5. Gate!Admit(t)
      BY <3>1, <3>2, <3>4 DEF Gate!Admit
    <3> QED BY <3>1, <3>5
  <2>3. CASE Restart
    <3>1. boot' \in Boots /\ boot' > boot /\ accepts' = accepts
      BY <1>2, <2>3, ConstantsAssumption
         DEF Restart, history, Inv, TypeOK, Boots
    <3>2. \A t \in Token : accepts'[boot'][t] = 0
      BY <1>2, <3>1 DEF Inv, AttestInv, BootInv
    <3> QED BY <2>3, <3>2 DEF Restart, Gate!Forget
  <2>4. CASE Tick \/ \E d \in Steps : StepWall(d)
    <3>1. verdict' # "Ok" /\ UNCHANGED <<boot, accepts>>
      BY <2>4 DEF Tick, StepWall, history
    <3> QED BY <2>1, <3>1
  <2>5. ASSUME NEW r \in Request, Step(r), ~CommitNonce(r)
        PROVE  verdict' # "Ok" /\ UNCHANGED <<boot, accepts>>
    <3> USE DEF GoOn, Decide, history
    <3>1. ASSUME NEW t \in Token, NEW b \in BOOLEAN, VerifyTimestamp(r, t, b)
          PROVE  verdict' # "Ok" /\ UNCHANGED <<boot, accepts>>
      BY <3>1 DEF VerifyTimestamp
    <3>2. ASSUME NEW f \in Flaws, VerifyToken(r, f)
          PROVE  verdict' # "Ok" /\ UNCHANGED <<boot, accepts>>
      BY <3>2 DEF VerifyToken
    <3>3. CASE CheckCommit(r)
      BY <3>3 DEF CheckCommit
    <3>4. CASE Abandon(r) \/ CommitUnbound(r)
               \/ \E b \in BOOLEAN : VerifyBodyAndCommit(r, b)
      BY <3>3, <3>4 DEF Abandon, CommitUnbound, VerifyBodyAndCommit
    <3> QED BY <2>5, <3>1, <3>2, <3>4 DEF Step
  <2>6. CASE UNCHANGED vars
    BY <2>6 DEF vars, history
  <2> QED BY <1>2, <2>1, <2>2, <2>3, <2>4, <2>5, <2>6 DEF Next
<1> QED BY <1>1, <1>2, Invariance, PTL DEF Spec, GateSpec, Gate!Spec
=============================================================================
