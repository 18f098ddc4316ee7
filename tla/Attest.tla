------------------------------- MODULE Attest -------------------------------
(***************************************************************************)
(* The attestation verifier of the proxy (proxy/src/attest.rs): phase 1,   *)
(* which checks a request's three headers, phase 2, which commits its      *)
(* nonce, and the replay cache the two share.                              *)
(*                                                                         *)
(* Requests run concurrently.  Phase 1 and the commit of one request are   *)
(* separated by a DNS lookup and by a body upload whose length the client  *)
(* chooses, so copies of one token may all be between the two at once.     *)
(*                                                                         *)
(* The code reads two clocks.  Timestamps are compared with the wall clock *)
(* in whole seconds (UnixNow); cache entries age by the monotonic clock.   *)
(* Both advance together (Tick), and the wall clock may also be stepped.   *)
(* A tick is 1/TicksPerSec of a second.                                    *)
(***************************************************************************)
EXTENDS Integers, Sequences, FiniteSets

CONSTANTS
  Request,             \* connection slots that carry one request at a time
  Token,               \* tokens browsers minted
  Nonce,
  nonceOf,             \* the nonce, timestamp and body binding each token
  tsOf,                \*   commits to in its authenticated plaintext
  bindingOf,
  NoOne, NoToken,      \* "the mutex is free", "the slot carries no request"
  TicksPerSec,
  MAX_TS_DRIFT_SECS,
  COMMIT_GRACE_SECS,
  NONCE_TTL,           \* seconds
  MAX_EVICTIONS_PER_COMMIT,
  MaxBack,             \* how far, in ticks, wall steps may set the clock back
  Steps,               \* sizes of a wall clock step, in ticks
  StartWall,           \* readings of the wall clock at startup, in ticks
  MaxMono, MaxWall, MaxRestarts   \* bounds of the exploration

\* The compile-time assertion on NONCE_TTL.
ASSUME TtlAssumption ==
  NONCE_TTL > 2 * MAX_TS_DRIFT_SECS + 1 + COMMIT_GRACE_SECS

ASSUME ConstantsAssumption ==
  /\ TicksPerSec \in Nat \ {0}
  /\ MAX_TS_DRIFT_SECS \in Nat
  /\ COMMIT_GRACE_SECS \in Nat
  /\ NONCE_TTL \in Nat
  /\ MAX_EVICTIONS_PER_COMMIT \in Nat \ {0}
  /\ MaxBack \in Nat
  /\ Steps \subseteq Int
  /\ StartWall \subseteq Nat
  /\ MaxMono \in Nat /\ MaxWall \in Nat /\ MaxRestarts \in Nat
  /\ NoOne \notin Request /\ NoToken \notin Token
  /\ nonceOf \in [Token -> Nonce]
  /\ tsOf \in [Token -> Int]
  /\ bindingOf \in [Token -> {"Hash", "Unbound"}]

\* The tolerance the comment on NonceCache claims: what NONCE_TTL leaves over
\* once the span in which one token can be accepted is taken off.
ASSUME ToleranceAssumption ==
  MaxBack <= TicksPerSec *
    (NONCE_TTL - (2 * MAX_TS_DRIFT_SECS + 1 + COMMIT_GRACE_SECS))

VARIABLES
  mono,        \* std::time::Instant, in ticks
  wall,        \* SystemTime since the Unix epoch, in ticks
  peak,        \* the largest wall - mono so far
  seen,        \* NonceCache.seen
  expiry,      \* NonceCache.expiry: oldest first
  lock,        \* holder of the nonce_cache mutex across commit_nonce
  phase,       \* how far each request has got
  tok,         \* the token each request carries
  verdict,     \* what the last step returned: Ok or an error, else "none"
  boot,        \* which run of the proxy process this is
  accepts,     \* history: accepts[b][t], acceptances of t in run b
  acceptedAt   \* history: mono when t was last accepted

clocks  == <<mono, wall, peak>>
cache   == <<seen, expiry>>
history == <<accepts, acceptedAt>>
vars == <<clocks, cache, lock, phase, tok, verdict, boot, history>>

AttestError ==
  {"BadTimestamp", "TimestampDrift", "CommitTooLate", "InvalidNonce",
   "NonceReplay", "InvalidToken", "DecryptFailed", "PlaintextMismatch",
   "BodyHashMismatch"}

Boots == 0 .. MaxRestarts

Entry == [nonce : Nonce, at : Nat]

TypeOK ==
  /\ mono \in Nat /\ wall \in Nat /\ peak \in Int
  /\ seen \subseteq Nonce
  /\ expiry \in Seq(Entry)
  /\ lock \in Request \cup {NoOne}
  /\ phase \in [Request -> {"idle", "nonce", "held", "commit"}]
  /\ tok \in [Request -> Token \cup {NoToken}]
  /\ \A r \in Request : tok[r] = NoToken <=> phase[r] = "idle"
  /\ verdict \in {"none", "Ok", "Dropped"} \cup AttestError
  /\ boot \in Boots
  /\ accepts \in [Boots -> [Token -> Nat]]
  /\ acceptedAt \in [Token -> Nat]

Init ==
  /\ mono = 0
  /\ wall \in StartWall
  /\ peak = wall
  /\ seen = {} /\ expiry = <<>>
  /\ lock = NoOne
  /\ phase = [r \in Request |-> "idle"]
  /\ tok = [r \in Request |-> NoToken]
  /\ verdict = "none"
  /\ boot = 0
  /\ accepts = [b \in Boots |-> [t \in Token |-> 0]]
  /\ acceptedAt = [t \in Token |-> 0]

-----------------------------------------------------------------------------
(* The checks.  Each returns "Ok" or an AttestError.                       *)

UnixNow == wall \div TicksPerSec

\* |now - ts| may not exceed the drift.  The code saturates at the ends of
\* i64, which only ever makes a large difference large.
CheckDrift(ts) ==
  IF UnixNow - ts \in -MAX_TS_DRIFT_SECS .. MAX_TS_DRIFT_SECS
  THEN "Ok" ELSE "TimestampDrift"

\* Fault: the upper end of the window is one second late.
CheckCommitWindowLate(ts) ==
  LET elapsed == UnixNow - ts
  IN IF elapsed < -MAX_TS_DRIFT_SECS THEN "TimestampDrift"
     ELSE IF elapsed > MAX_TS_DRIFT_SECS + COMMIT_GRACE_SECS + 1
     THEN "CommitTooLate" ELSE "Ok"

CheckCommitWindow(ts) ==
  LET elapsed == UnixNow - ts
  IN IF elapsed < -MAX_TS_DRIFT_SECS THEN "TimestampDrift"
     ELSE IF elapsed > MAX_TS_DRIFT_SECS + COMMIT_GRACE_SECS
     THEN "CommitTooLate" ELSE "Ok"

Contains(nonce) == nonce \in seen

\* What verify_headers finds once the timestamp is in the window.  flaw is
\* the first defect of the headers, in the order the code looks for them, or
\* "Ok"; only the nonce's format is examined before the cache.
CheckNonceAndToken(t, flaw) ==
  IF flaw = "InvalidNonce" THEN flaw
  ELSE IF Contains(nonceOf[t]) THEN "NonceReplay" ELSE flaw

Flaws == {"Ok", "InvalidNonce", "InvalidToken", "DecryptFailed",
          "PlaintextMismatch"}

(***************************************************************************)
(* evict_expired: pop entries off the front while they are past the TTL,   *)
(* at most MAX_EVICTIONS_PER_COMMIT of them.  Evicts(k, now) says that the *)
(* loop pops exactly k.                                                    *)
(***************************************************************************)
\* Fault: an entry is dropped a tick before its TTL.
AgedEarly(i, now) == now - expiry[i].at >= TicksPerSec * NONCE_TTL - 1

Aged(i, now) == now - expiry[i].at >= TicksPerSec * NONCE_TTL

Evicts(k, now) ==
  /\ k <= MAX_EVICTIONS_PER_COMMIT
  /\ \A i \in 1 .. k : Aged(i, now)
  /\ k < MAX_EVICTIONS_PER_COMMIT /\ k < Len(expiry) => ~Aged(k + 1, now)

-----------------------------------------------------------------------------
(* A request's steps.                                                      *)

\* Fault: the slot keeps the token of the request that left.
DecideKeepsToken(r, v) ==
  /\ phase' = [phase EXCEPT ![r] = "idle"]
  /\ verdict' = v
  /\ UNCHANGED tok

\* The request leaves the verifier with v.
Decide(r, v) ==
  /\ phase' = [phase EXCEPT ![r] = "idle"]
  /\ tok' = [tok EXCEPT ![r] = NoToken]
  /\ verdict' = v

\* The request, carrying t, goes on to its next step.
GoOn(r, t, next) ==
  /\ phase' = [phase EXCEPT ![r] = next]
  /\ tok' = [tok EXCEPT ![r] = t]
  /\ verdict' = "none"

\* verify_headers, up to the timestamp window.
VerifyTimestamp(r, t, readable) ==
  /\ phase[r] = "idle"
  /\ LET v == IF readable THEN CheckDrift(tsOf[t]) ELSE "BadTimestamp"
     IN IF v = "Ok" THEN GoOn(r, t, "nonce") ELSE Decide(r, v)
  /\ UNCHANGED <<clocks, cache, lock, boot, history>>

\* Fault: phase 1 already records the nonce of a token it passes.
VerifyTokenCommits(r, flaw) ==
  /\ phase[r] = "nonce"
  /\ lock = NoOne
  /\ LET n == nonceOf[tok[r]]
         v == CheckNonceAndToken(tok[r], flaw)
     IN IF v = "Ok"
        THEN /\ GoOn(r, tok[r], "held")
             /\ seen' = seen \cup {n}
             /\ expiry' = Append(expiry, [nonce |-> n, at |-> mono])
        ELSE Decide(r, v) /\ UNCHANGED cache
  /\ UNCHANGED <<clocks, lock, boot, history>>

\* The rest of verify_headers, from the fast-path look at the cache.
VerifyToken(r, flaw) ==
  /\ phase[r] = "nonce"
  /\ lock = NoOne
  /\ LET v == CheckNonceAndToken(tok[r], flaw)
     IN IF v = "Ok" THEN GoOn(r, tok[r], "held") ELSE Decide(r, v)
  /\ UNCHANGED <<clocks, cache, lock, boot, history>>

\* The caller refuses or loses the request between the phases: machine
\* identity fails, the body is too large or cannot be read.
Abandon(r) ==
  /\ phase[r] = "held"
  /\ Decide(r, "Dropped")
  /\ UNCHANGED <<clocks, cache, lock, boot, history>>

\* Fault: the window is checked before the replay cache.
CheckCommitWindowFirst(r) ==
  /\ lock = NoOne
  /\ LET t == tok[r]
         w == CheckCommitWindow(tsOf[t])
         v == IF w # "Ok" THEN w
              ELSE IF Contains(nonceOf[t]) THEN "NonceReplay" ELSE "Ok"
     IN \/ v = "Ok" /\ lock' = r /\ GoOn(r, t, "commit")
        \/ v # "Ok" /\ Decide(r, v) /\ UNCHANGED lock
  /\ UNCHANGED <<clocks, cache, boot, history>>

\* Fault: the mutex is released between the checks and the insertion.
CheckCommitUnlocked(r) ==
  /\ lock = NoOne
  /\ LET t == tok[r]
         v == IF Contains(nonceOf[t]) THEN "NonceReplay"
              ELSE CheckCommitWindow(tsOf[t])
     IN IF v = "Ok" THEN GoOn(r, t, "commit") ELSE Decide(r, v)
  /\ UNCHANGED <<clocks, cache, lock, boot, history>>

\* commit_nonce up to the two reads of the clocks.  A refusal releases the
\* mutex at once; otherwise it is held until CommitNonce.
CheckCommit(r) ==
  /\ lock = NoOne
  /\ LET t == tok[r]
         v == IF Contains(nonceOf[t]) THEN "NonceReplay"
              ELSE CheckCommitWindow(tsOf[t])
     IN \/ /\ v = "Ok"
           /\ lock' = r
           /\ GoOn(r, t, "commit")
        \/ /\ v # "Ok"
           /\ Decide(r, v)
           /\ UNCHANGED lock
  /\ UNCHANGED <<clocks, cache, boot, history>>

\* An unbound upload goes straight to commit_nonce.
CommitUnbound(r) ==
  /\ phase[r] = "held"
  /\ bindingOf[tok[r]] = "Unbound"
  /\ CheckCommit(r)

\* verify_body_and_commit.
VerifyBodyAndCommit(r, matches) ==
  /\ phase[r] = "held"
  /\ bindingOf[tok[r]] = "Hash"
  /\ IF matches
     THEN CheckCommit(r)
     ELSE /\ Decide(r, "BodyHashMismatch")
          /\ UNCHANGED <<clocks, cache, lock, boot, history>>

\* Fault: eviction pops the queue but leaves the nonce in the set.
CommitNonceLeaks(r) ==
  /\ phase[r] = "commit"
  /\ LET t == tok[r]
         n == nonceOf[t]
     IN \E k \in 0 .. Len(expiry) :
          /\ Evicts(k, mono)
          /\ seen' = seen \cup {n}
          /\ expiry' = Append(SubSeq(expiry, k + 1, Len(expiry)),
                              [nonce |-> n, at |-> mono])
          /\ Decide(r, "Ok")
          /\ accepts' = [accepts EXCEPT ![boot][t] = @ + 1]
          /\ acceptedAt' = [acceptedAt EXCEPT ![t] = mono]
  /\ lock' = NoOne
  /\ UNCHANGED <<clocks, boot>>

\* NonceCache::commit under the mutex, at the monotonic time read there:
\* evict, insert the nonce unless it is there already, queue it, unlock.
CommitNonce(r) ==
  /\ phase[r] = "commit"
  /\ LET t == tok[r]
         n == nonceOf[t]
     IN \E k \in 0 .. Len(expiry) :
          LET kept == seen \ {expiry[i].nonce : i \in 1 .. k}
              rest == SubSeq(expiry, k + 1, Len(expiry))
          IN /\ Evicts(k, mono)
             /\ seen' = kept \cup {n}
             /\ IF n \in kept
                THEN /\ expiry' = rest
                     /\ Decide(r, "NonceReplay")
                     /\ UNCHANGED history
                ELSE /\ expiry' = Append(rest, [nonce |-> n, at |-> mono])
                     /\ Decide(r, "Ok")
                     /\ accepts' = [accepts EXCEPT ![boot][t] = @ + 1]
                     /\ acceptedAt' = [acceptedAt EXCEPT ![t] = mono]
  /\ lock' = NoOne
  /\ UNCHANGED <<clocks, boot>>

-----------------------------------------------------------------------------
(* The environment: the two clocks and the process's own life.             *)

Tick ==
  /\ mono < MaxMono /\ wall < MaxWall
  /\ mono' = mono + 1
  /\ wall' = wall + 1
  /\ verdict' = "none"
  /\ UNCHANGED <<peak, cache, lock, phase, tok, boot, history>>

\* The wall clock is set.  It is never set so far back that it loses more
\* than MaxBack on the monotonic clock, nor to before the epoch.
StepWall(d) ==
  /\ wall + d \in 0 .. MaxWall
  /\ wall' = wall + d
  /\ peak' = IF wall' - mono > peak THEN wall' - mono ELSE peak
  /\ peak' - (wall' - mono) <= MaxBack
  /\ verdict' = "none"
  /\ UNCHANGED <<mono, cache, lock, phase, tok, boot, history>>

\* The process ends and is started again: a fresh Verifier, empty cache; the
\* connections, and the requests on them, are gone.
Restart ==
  /\ boot < MaxRestarts
  /\ boot' = boot + 1
  /\ seen' = {} /\ expiry' = <<>>
  /\ lock' = NoOne
  /\ phase' = [r \in Request |-> "idle"]
  /\ tok' = [r \in Request |-> NoToken]
  /\ verdict' = "none"
  /\ UNCHANGED <<clocks, history>>

Step(r) ==
  \/ \E t \in Token, readable \in BOOLEAN : VerifyTimestamp(r, t, readable)
  \/ \E flaw \in Flaws : VerifyToken(r, flaw)
  \/ Abandon(r)
  \/ CommitUnbound(r)
  \/ \E matches \in BOOLEAN : VerifyBodyAndCommit(r, matches)
  \/ CommitNonce(r)

Next ==
  \/ \E r \in Request : Step(r)
  \/ Tick
  \/ \E d \in Steps : StepWall(d)
  \/ Restart

Spec == Init /\ [][Next]_vars

-----------------------------------------------------------------------------
(* Properties.                                                             *)

\* However requests interleave, however long each takes between its phases
\* and however the wall clock is stepped within the tolerance, no token is
\* accepted twice by one run of the proxy (commit_nonce and NONCE_TTL).
NoDoubleAccept == \A b \in Boots, t \in Token : accepts[b][t] <= 1

\* NonceCache keeps its two halves in step: the queue holds each nonce of
\* seen exactly once, in the order of the commits (evict_expired relies on
\* the oldest being in front).
CacheInStep ==
  /\ seen = {expiry[i].nonce : i \in 1 .. Len(expiry)}
  /\ \A i, j \in 1 .. Len(expiry) :
       i < j => /\ expiry[i].nonce # expiry[j].nonce
                /\ expiry[i].at <= expiry[j].at
  /\ \A i \in 1 .. Len(expiry) : expiry[i].at <= mono

\* Only an accepted token puts its nonce in the cache: forged, mismatched,
\* late or abandoned requests cannot fill it (the reason phase 1 does not
\* commit).
SeenWereAccepted ==
  \A n \in seen : \E t \in Token : nonceOf[t] = n /\ accepts[boot][t] > 0

\* The wall clock can no longer be in the commit window of t, now or later.
Dead(t) ==
  mono + peak - MaxBack >=
    TicksPerSec * (tsOf[t] + MAX_TS_DRIFT_SECS + COMMIT_GRACE_SECS + 1)

\* The nonce of an accepted token stays in the cache until the token is past
\* its commit window for good: eviction never reopens a window.
RememberedWhileLive ==
  \A t \in Token :
    accepts[boot][t] > 0 => nonceOf[t] \in seen \/ Dead(t)

\* r's attempt to commit is decided in this step.
CommitDecided(r) ==
  /\ phase[r] \in {"held", "commit"} /\ phase'[r] = "idle"
  /\ verdict' \notin {"none", "Dropped", "BodyHashMismatch"}

\* A copy that tries to commit within the TTL of its token's acceptance is
\* recorded as the replay it is, even after the commit window has closed
\* (the order of the checks in commit_nonce).  The TTL is not in the comment
\* at attest.rs:393, but a copy that comes later still finds its nonce evicted
\* and is recorded as CommitTooLate.
LateCopyIsReplay ==
  [][\A r \in Request :
       /\ CommitDecided(r)
       /\ accepts[boot][tok[r]] > 0
       /\ mono - acceptedAt[tok[r]] < TicksPerSec * NONCE_TTL
       => verdict' = "NonceReplay"]_vars

\* The verifier implements the once-only gate of OnceOnly: the tokens it has
\* accepted in this run are the ones let through.
Gate == INSTANCE OnceOnly WITH
  admitted <- {t \in Token : accepts[boot][t] > 0},
  answer <- verdict

\* Every step of the verifier is a step of the gate.
GateSpec == Gate!Spec

\* The promise of patch 006: a token is not accepted again, whatever happens.
NeverAcceptedAgain ==
  \A t \in Token : \A b, c \in Boots :
    accepts[b][t] > 0 /\ accepts[c][t] > 0 => b = c

-----------------------------------------------------------------------------
(* The inductive invariant behind the theorems of AttestProofs.            *)

\* The wall clock is within MaxBack of the furthest it has been ahead.
ClockInv ==
  /\ wall - mono <= peak
  /\ peak - (wall - mono) <= MaxBack

LockInv == \A r \in Request : phase[r] = "commit" <=> lock = r

\* An accepted token is still queued, at the time it was committed, or has
\* been evicted after a full TTL.  Its commit time bounds its timestamp.
AcceptedInv ==
  \A t \in Token : accepts[boot][t] > 0 =>
    /\ TicksPerSec * (tsOf[t] - MAX_TS_DRIFT_SECS) <= acceptedAt[t] + peak
    /\ \/ mono - acceptedAt[t] >= TicksPerSec * NONCE_TTL
       \/ \E i \in 1 .. Len(expiry) :
            expiry[i] = [nonce |-> nonceOf[t], at |-> acceptedAt[t]]

\* A request between the checks and the insertion of commit_nonce carries a
\* token that was never accepted, no earlier than its window opens.
CommittingInv ==
  \A r \in Request : phase[r] = "commit" =>
    /\ nonceOf[tok[r]] \notin seen
    /\ accepts[boot][tok[r]] = 0
    /\ TicksPerSec * (tsOf[tok[r]] - MAX_TS_DRIFT_SECS) <= mono + peak

BootInv == \A b \in Boots, t \in Token : b > boot => accepts[b][t] = 0

\* The parts of the inductive invariant that are not properties themselves.
AttestInv ==
  ClockInv /\ LockInv /\ AcceptedInv /\ CommittingInv /\ BootInv
=============================================================================
