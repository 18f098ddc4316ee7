# DenBrowser in TLA+

DenBrowser is a hardened Firefox ESR (a stack of patches) and a reverse proxy in
Rust (`proxy/`, on Pingora) that stands in front of an organisation's backend.
The browser attaches a token to every request; the proxy forwards a request only
when the token, optionally the machine it comes from, and its body check out, and
leaves one audit record for every request. This directory models the proxy: how
it starts, whom it talks to, what it lets through, what it remembers, and what it
writes down.

All paths below are relative to the repository.

## The system and its parts

| Part | Source | State | Operations |
|---|---|---|---|
| Attestation verifier | `proxy/src/attest.rs` | replay cache: a set of nonces and a queue of (nonce, commit time), behind a mutex | `verify_headers` (phase 1), `commit_nonce`, `verify_body_and_commit` (phase 2), eviction on commit |
| Machine identity | `proxy/src/machine.rs` | DNS cache: per name, addresses and when they were fetched | `verify` = `verify_cert`, then `resolve_cached` (fast path, lookup, stale fallback), `store` (sweep, insert) |
| Rate limiter | `proxy/src/ratelimit.rs` | one counter per limit, address and window | `admit`: universal limit, then the first matching rule |
| Request pipeline | `proxy/src/main.rs` | per request: how far it has got, its body | Pingora's hooks: `request_filter`, `upstream_peer`, `upstream_request_filter`, `logging` |
| Audit record | `proxy/src/audit.rs` | per request: decision, reason, attestation and machine status | `reject`, `forward`, `bypass`, `token_verified`, `machine_*`, `finish` |
| Bypass | `proxy/src/passthrough.rs` | none after startup | `authorizes` |
| Client mTLS | `proxy/src/mtls.rs` | the client certificate of a connection or session | recorder run after the handshake, subject names |
| Configuration | `proxy/src/config.rs`, `config/env.rs` | none | load, expand `${NAME}`, validate |
| Startup | `main()` in `main.rs`, `tls_key.rs`, `upstream_tls.rs` and every `from_config` | the controls put in force so far | fourteen steps, each of which may end the process |
| Logging | `proxy/src/logging.rs` | the queue of the writer thread, the log files | `init`, `format_event`, write, rotate |
| Browser | `patches/*.patch` | clipboard ownership, downloads, site filter, tab state, minted tokens | see `PROJECT.json` |

A request passes, in this order: the rate limiter, the bypass policy, the
presence of its headers, the machine pre-flight (is a certificate named at all),
phase 1, machine identity (which may await a DNS lookup), the body (buffered and
hashed when the token binds it), the commit of the nonce, and then Pingora's
exchange with the backend. Any of these may end it; the `logging` hook then
writes its record. Requests run concurrently on a multi-threaded runtime. They
share the replay cache, the DNS cache, the rate counters and the log; nothing else.

Before that, `main()` loads the configuration, brings the log up, and builds each
control in turn; it listens only when all of them exist. The TLS listener then
authenticates clients, in a full handshake or by resuming a session, and attaches
their identity to the connection, where the bypass policy and the audit record
find it.

### What is hard here

* Phase 1 and the commit of one request are separated by awaits whose length the
  client chooses, so any number of copies of a token may be between the two.
* The verifier uses two clocks. Windows follow the wall clock in whole seconds;
  the cache ages by the monotonic clock. The wall clock may be stepped, and a
  thread may be preempted between the two reads.
* DNS lookups overlap, the zone changes while they are out, and the older answer
  may be stored last. A resolver may fail for a long time.
* A request is charged to two counters that are not charged atomically.
* There are a dozen ways to leave `request_filter`, and more to fail after it;
  every one must leave a record that says what happened.
* A body is forwarded from a buffer that silently stops holding it beyond a size.
* Settings for which empty means "off" can be filled from environment variables,
  and a filter with a stray blank parses as one that keeps nothing: controls can
  vanish without an error.
* A resumed TLS session carries an identity that nothing verifies again; the
  process may meanwhile have been restarted with another CA.
* Log lines wait in a bounded queue for a disk that may stall, in a process that
  exits without flushing.

`PROJECT.json` lists these as hazards at their lines with the properties that
would catch them.

## Modules

| Module | Models | Used by |
|---|---|---|
| `Attest` | `attest.rs`: requests, the mutex, both clocks, restarts | `MCAttest`, `AttestProofs` |
| `OnceOnly` | the abstract promise of the verifier: a gate that lets each token through once | `Attest` implements it, `Pipeline` uses it |
| `MachineIdentity` | `machine.rs`: lookups, cache, certificate checks, the zone | `MCMachine`, `MachineProofs` |
| `RateLimit` | `ratelimit.rs` | `MCRateLimit`, `RateLimitProofs` |
| `AuditReasons` | the reason table of `audit.rs` and the two error-to-reason maps | `Pipeline` |
| `Pipeline` | `request_filter` and the other hooks of `main.rs`, with the `RequestAudit` of each request | `MCPipeline`, `PipelineProofs` |
| `Env` | `config/env.rs`: `expand_str`, and the documented rules stated without its loop | `ProxyConfig`, `EnvProofs` |
| `ProxyConfig` | `config.rs` and `Args`: the settings with the choices the code tells apart, parsing and validation | `Startup` |
| `Startup` | `main()`, `logging::init`, `tls_key.rs`, `upstream_tls.rs` and the `from_config` of every part | `Listener` |
| `SubjectName` | `mtls.rs`: how a certificate's subject is written into an audit record | `Listener`, `SubjectProofs` |
| `Listener` | `mtls.rs`, `passthrough.rs`: handshakes, sessions, identities, the bypass, composed with `Startup` and restarts | `MCListener`, `ListenerProofs` |
| `LogWriter` | `logging.rs` after `init`, `audit::emit`, `fatal` | `MCLogWriter`, `LogWriterProofs` |

`Pipeline` composes the others through what they promise. The verifier in it is
an instance of `OnceOnly`, which `Attest` is shown to implement (`GateSpec`,
checked and proved). The rate limiter and machine identity may give any answer
that `RateLimit` and `MachineIdentity` allow for the request at hand. `Listener`
extends `Startup`: what a connection may do follows from the controls that `main()`
put in force in this run of the process, and a restart runs `main()` again with
other inputs. What `Listener` shows of `BypassRequest` is what `Pipeline` takes as
`authorized`.

Operators whose comment starts with "Fault:" are variants of the definition that
follows them with one plausible slip in it. No specification uses them; replacing
the definition by its variant shows that the property named in `PROJECT.json`
notices the slip.

### Attest

A request is in phase `idle`, `nonce` (timestamp checked, cache not yet looked
at), `held` (phase 1 passed, the caller is busy with the machine and the body) or
`commit` (inside `commit_nonce`, mutex held, between the window check and the
insertion). `VerifyTimestamp`, `VerifyToken`, `CommitUnbound`,
`VerifyBodyAndCommit` and `CommitNonce` are the code's steps; `Abandon` is the
caller dropping the request between the phases. A token carries what its
authenticated plaintext commits to: nonce, timestamp, body binding. Cryptography
is abstracted to the first flaw the checks would report, in their order.

`Tick` advances both clocks; `StepWall` sets the wall clock, never losing more
than `MaxBack` against the monotonic one. `ToleranceAssumption` bounds `MaxBack`
by what the TTL leaves after the acceptance span: the 59 s the comment on
`NonceCache` claims. `Restart` empties the cache and drops all connections.
`accepts` and `acceptedAt` are history variables.

### MachineIdentity

Time is kept as ages that saturate at `MaxAge`, which is at least every bound the
code compares with; time itself is unbounded. Each critical section of the cache
mutex is one step. `Verify` runs up to the await; `Answer` and `Fail` are the
resolver (external), which reads the zone at some moment of the lookup;
`CompleteOk` and `CompleteErr` are the rest of `resolve_cached`. A certificate has
a set of defects and `VerifyCert` reports the first in the code's order.
`decision` is what the last step decided, with the source of the addresses it
rests on (`cache`, `dns`, `stale`, `none`). `since` (how long ago an address was
published or withdrawn) and `good` (how long ago the last word on a name was a
non-empty answer) are history variables. `MaxLatency` bounds a lookup: resolver
timeout and wake-up.

### RateLimit

`admit` is split where other threads can get in between: the charge to the
universal limit and the charge to the rule. `Observe` is `Rate::observe` of
pingora_limits (external): it adds one and returns an estimate that is never below
the address's count and exceeds it at most by what other addresses were counted in
the same window (`total`), which is all that colliding hashes can add. `WindowEnds`
starts a limit's window afresh at any moment. `universal` says whether there is a
universal cap; a limiter may have that cap, rules, or both, and `from_config` refuses
one with neither. `passed` and `burst` are history variables.

### Pipeline

One slot is one request. `stage` is its place in `request_filter`; `ctx` is its
`RequestAudit`; `facts` is a history of what was really established (token,
chain, machine, hash, nonce), which the records are compared with. `config` ranges
over rate limiter on or off, bypass on or off, machine identity disabled, optional
or required, log level. Inputs are what distinguishes requests to the code: which
headers were sent, whether a peer address is known, whether the bypass policy
authorizes it, whether a host is named, whether the machine header is absent,
holds a certificate, other text or no text, whether the method is idempotent. The
record carries, besides the decision, whether it names the machine's subject and
hostname, and the risk its reason stands for. Body chunks of several sizes
are read one at a time into `size` (what is hashed) and `buffered` (what Pingora's
retry buffer holds). Pingora is external: it may fail a request before
`request_filter` and at every point of the exchange, and may retry once.

### Env, ProxyConfig, Startup

A string setting is a sequence of character classes (`$`, `{`, `}`, letter, digit,
padding, other), as many as `expand_str` tells apart. `Turn` is one pass of its
loop and `ExpandStr` the loop, as a recursive function on positions. The documented
rules are stated without it: `Escaped` is how a literal has to be written,
`IsReference` finds the references of a text (an odd run of dollars before a brace)
and `Replaced` says what becomes of each. Every string of the file is such a text and
is expanded, as `expand_value` does: single settings, the elements of lists, the
patterns of rate limiting rules. What a word stands for after expansion (a level, a
rotation, a pattern, a range) is a text too, so that a variable can fill it with
anything. The other settings take a value for every case the code distinguishes: a
file is readable or not, parses or not, and holds a set of CAs.

`given` is what a start finds (file, command line, environment, disk), `cfg` the
parsed configuration, `pc` the next step, `ctl` the controls in force. Each step is
an action that puts one control in force or, through `Step`, ends the process.
`errors` is what a failed `Config::load` prints: the error of the read, that of the
typed parse, which shows the offending line of the file, or what expansion reports;
only the last is held to quoting nothing. A CA file stays the same during a start,
although `client_ca` is read twice (`Mtls::from_config`, `set_ca_file`). Binding the
listening socket is Pingora's and its failure is left out.

### Listener

A connection has an address, a certificate and the identity `Recorder` attached. CAs
may be certified by other CAs (`Certified`), and a client sends the chain above its
certificate along. `FullHandshake` accepts a certificate when such a chain ends at a
root in the store `main()` filled (`ChainsTo`); that store has no `PARTIAL_CHAIN`,
so an issuing CA in it ends no chain. `ResumedHandshake` takes the certificate from
a session and verifies nothing, as the comment in `main.rs` says. Certificates
expire at any time; sessions end at any time or last. `verified` is a history of the
full handshakes of this run. `Restart` ends the process and starts it with other
inputs; sessions and their keys are process memory.

`main()` keeps the two kinds of client apart by comparing the certificates of the two
bundles (`CheckCaOverlap`) and looks at no chain. Where `machine_ca` is an issuing CA
that a root of `client_ca` has certified, the bundles do not overlap, and a machine
certificate sent with its issuer passes client authentication: the model allows it,
as the code does. `IdentitiesApart` therefore says what is left: every identity rests
on a root of the client bundle that is no machine CA.

`SubjectName` is the rendering of subjects, over the characters that RFC 4514 escapes
differently. A subject is the list of its entries, each with the RDN it belongs to and
a value that may hold bytes no decoder accepts. `DistinguishedName` does what
`distinguished_name` does: every entry is written as an RDN of its own, and what cannot
be decoded becomes a replacement character; `EscapedChar` is the match of
`escape_dn_value`, and `Bounded` is the cut at `MAX_DN_CHARS` in the record. Two
subjects that differ only in grouping, in undecodable bytes or behind the cut are
recorded alike; `SubjectsUnambiguous` says that nothing else is.

### LogWriter

A logging call passes the filter (and, for Pingora's records, the `log` facade's
level), is formatted, goes to the file layer's queue if there is room (it waits if
there is none) and then to stderr, in the order `init` registers the layers. The
writer thread (external) takes one line at a time into its `hand` and writes it,
rotating the files first when that is due. The disk may be stalled, so that the
write does not return, or full, so that it fails: the thread then drops the line
(`NoLine` in `trail`) and goes on. `fatal` exits when its own call has returned; a
shutdown exits at any time. `files` holds where in the whole trail each kept file
begins, so that what rotation deletes is visible. `accepted` is a history variable.

## Runs

Bounds are chosen so that windows open and close, entries age out, and both sides
of every comparison are reached.

| Run | Instance | Shows |
|---|---|---|
| `attest` | 2 requests, 3 tokens (two share a nonce), windows of 1 s, TTL 5 s, 2 ticks a second, eviction batch 1, one backward wall step up to the tolerance, one restart | no double acceptance, cache consistent, eviction safe, late copies recorded as replays, refinement of `OnceOnly` |
| `attest_restart_replay` | the same | violation: a token is accepted again after a restart |
| `machine` | 2 concurrent lookups of one name, 2 addresses, TTLs 2 and 1, grace 1, latency 1; sound, foreign and expired certificates | staleness bounds both ways, resolver spared, only sound certificates resolved |
| `machine_outage` | 2 names sharing the cache | an outage is tolerated for TTL and grace, whatever is stored for the other name |
| `machine_failed` | 1 name | violation: a failed lookup is not remembered |
| `rate_limit` | 2 requests, 2 addresses, overlapping rules, with and without a universal cap, every estimate collisions allow | caps per address and window; a refusal is the right limit's, which has counted more than its cap, and exactly at the cap for an address alone there; no matching request goes uncharged |
| `rate_limit_burst` | the same | violation: requests that match a rule use up the universal cap |
| `pipeline` | 1 request, every configuration, every input, all failures | what the backend may see, what a refusal may spend, truthful records, a record for every request that does not wait for ever on others |
| `pipeline_copies` | 2 requests that may carry copies of one token | the backend sees a token once |
| `pipeline_bound` | 1 request | violation: `bound` without a verified hash |
| `lifecycle` | every start that differs in up to two inputs from one with all controls on; every text of up to 4 characters, and some longer (references after up to 5 dollars), under 9 kinds of variable; then 2 connections, 3 certificates, 4 CAs of which one is certified by another, expiry, resumption and one restart with one of 5 configurations | literals survive expansion, references give half their dollars and their value as data or their own error; errors of expansion quote nothing; a listening proxy has what its file asks for and nothing is off or silent by accident; identities are verified by this run and by the right CA; the bypass is for listed clients; recorded subjects tell names apart; every start decides |
| `log_writer` | `main()` and 2 workers, 3 calls, a queue of 2, a disk that stalls and fills up, 6 configurations of outputs, rotation, retention and filter | nothing handed over is lost, but for failed writes and what an exit leaves, nothing is reordered or doubled, retention, no other module writes an audit record, a fatal start ends with its message on stderr, the trail catches up |

The time bounds of `attest` (`MaxMono`, `MaxWall`) end exploration after a token's
entry has aged out and its window has closed; wall steps forward are not in that
instance, because they multiply the states without a new comparison, and are covered
by the proofs. `machine` has no time bound. `MaxCount` of `rate_limit` ends counting
one above the largest cap. In `lifecycle` two deviations are enough for every
interaction between two settings (an overlap of two bundles, a variable and the
setting it fills, two sources of a passphrase), 4 characters for a reference and a
run of dollars at every offset, and two runs for everything that could outlive the
first. The three certificates are one under the user root, one under an issuing CA
which that root has certified, and one under the machine CA; two of their subjects
would read alike without escaping, and the third is longer than `MaxDn`. In
`log_writer` 3 calls overfill the queue of 2, and `max_files` 2 is exceeded by the
third file; `MaxStart < Capacity` stands for the dozen lines `main()` logs against
the appender's 128 000. Requests are symmetric in all runs that use symmetry,
addresses too in the machine runs (they are compared only for equality); the
liveness run uses no symmetry.

### Fairness

`pipeline` (`EveryRequestLogged`): `FairSpec` is weak fairness of the steps the proxy
takes by itself (`OwnStep`): the runtime polls every task that can go on. Nothing is
assumed of what somebody else has to end (`Waits`): the DNS lookup, the client's body,
the exchange with the backend, the client taking its answer. The code sets no timeout
there (`upstream_peer` leaves `PeerOptions` at Pingora's defaults, the lookup is the
system resolver's), so a request may wait for ever and have no record until it ends.
The property claims the others: whichever of a dozen exits a request takes, if it does
not wait for ever its record is written, or dropped only because it is a success below
the configured level.

`lifecycle` (`StartDecides`): weak fairness of `main()`, a sequential program whose
steps read files and return.

`log_writer` (`FatalReported`, `TrailCatchesUp`): weak fairness of each thread's logging
call, of the exit in `fatal` and of the writer thread taking a line, which the
scheduler gives; strong fairness of the end of its write, successful or not, since a
disk that stalls and recovers disables it again and again. The disk may stall for good:
`FatalReported` holds even then, and `TrailCatchesUp` assumes in its statement that it
keeps answering.

## Where the code and its documentation differ

Each is a run that expects a violation; `PROJECT.json` quotes the sentences.

1. Patch 006 says captured headers are never accepted again. They are, once, after
   a restart within their window: the cache is process memory.
2. `dns_negative_ttl_secs` is said to remember a failed lookup. A resolver error
   stores nothing; only an empty successful answer makes a negative entry.
3. A burst against one rule's pattern is said never to spend the universal budget.
   `admit` charges every request to the universal cap first, so it does, and requests
   to other targets are refused.
4. `attestation.body_binding = bound` is said to mean that the hash was verified.
   It is set in phase 1 and stays on the records of requests refused later.

A remark without a run of its own: `commit_nonce`'s comment says that a late copy is
recorded as a replay. Within the TTL it is (`LateCopyIsReplay`, proved); beyond it the
nonce is gone and the reason is the window. The copy is refused either way.

## Proofs

Checked by TLAPS, for every value of the constants that satisfies the named
assumptions. The bounds `MaxMono`, `MaxWall`, `MaxRestarts`, `MaxCount`,
`MaxEvents`, `MaxRuns` are arbitrary naturals there, and so are the numbers of
requests, threads and connections. TLC evaluates every assumption on the runs'
instances, and the inductive invariants were model-checked on them before they were
proved.

**AttestProofs** (assumes `ConstantsAssumption`, `TtlAssumption` - the compile-time
assertion of the code - and `ToleranceAssumption`). `NoDoubleAccept` is not
inductive: a state with a live token missing from the cache would break it. The
invariant adds that an accepted token's nonce is in the queue at its commit time
or a full TTL has passed (`AcceptedInv`), that its commit time bounds its
timestamp, that the wall clock has never been more than `MaxBack` behind its peak
(`ClockInv`), that whoever is inside `commit_nonce` holds the mutex and carries a
token that is neither cached nor accepted (`LockInv`, `CommittingInv`), and that
set and queue agree (`CacheInStep`). The heart is `AgedIsDead`: an entry a TTL old
belongs to a token whose window the wall clock can no longer be in. Proved:
`TypeCorrect`, `ReplayProtection`, `CacheConsistency`, `CacheHonest`,
`EvictionIsSafe`, `LateCopies`, `ImplementsGate`.

**MachineProofs** (assumes `TimesAssumption`, `NamesAssumption`,
`NoEntryAssumption`). `SeenWithin(h, addrs, age)` says that `addrs` and the zone
disagree only on addresses that changed at most `age` ago. A lookup keeps it at
its own age, an entry at its age plus one lookup, time preserves both, and a change
of the zone makes the address young. `GoodInv` keeps the last good answer in the
cache while it can be used: the sweep removes only entries past TTL and grace.
Each decision then follows from the view it rests on (`DecisionFromView`), in both
directions: what is accepted was published recently enough, and what is refused was
not. Proved: `TypeCorrect`, `CacheSound`, `BoundedStaleness`, `RefusalsExpire`,
`OutageTolerance`, `ResolverSpared`, `SoundCerts`.

**RateLimitProofs** (assumes `ConfigAssumption` - a list of rules, possibly empty, and
positive caps - and `BoundAssumption`). What passes a limit in a window was counted in
it (`PassedWereCounted`), so the estimate, never below the count, keeps it under the
cap. An address's count is part of the total (`CountedInTotal`), and one that is the
whole total is estimated exactly, so that what it was let through is its count up to
the cap (`AloneIsExact`); a verdict is tied to the limit that gave it and to what that
limit had counted (`VerdictInv`). Proved: `TypeCorrect`,
`RateCaps`, `RefusalsJustified`, `MatchesCharged`.

**PipelineProofs** (assumes `BufferAssumption` - the body limit fits Pingora's retry
buffer - and `InputAssumption`). None of the properties is inductive: they compare a
record or a delivery with facts established many steps earlier. The invariant says,
of each request, what its audit state knows about its facts (`KnowledgeInv`), what
its decision implies (`DecisionInv`), what must have happened by each stage
(`StageInv`), that nothing read is missing from the buffer unless the request was
refused (`BodyInv`), when the backend has seen it (`DeliveryInv`), and that its
record is the one `finish` makes of the state it ended in (`LogInv`); `GateInv` ties
the requests together: a token whose nonce a request committed is one the gate has
admitted, and no two requests committed the same. Every action changes one request,
so each lemma proves the parts for that request and a frame lemma gives the others.
Proved: `TypeCorrect`, `OnlyVerifiedDelivered`, `OneDeliveryPerToken`,
`HashedBodyForwarded`, `RefusalsAreFree`, `RecordsAreTrue`, `RisksAreEarned`.

**LogWriterProofs** (assumes `CapacityAssumption` - `main()` logs fewer lines than
the queue holds -, `EventsAssumption`, `ConfigAssumption`, and `KindsAssumption` -
`audit::emit` always supplies the field that marks a record). The invariant adds to
the properties themselves what the calls under way carry (`CallsVerbatim`), that
before the proxy serves only `main()` logs and has handed over fewer lines than the
queue holds (`StartInv`), and that nothing is queued without a file (`FileInv`).
Proved: `TypeCorrect`, `NothingLost`, `RetentionHolds`, `AuditIsAuthentic`,
`FatalNeverWaits` (a failing start finds room in the queue, which is what makes
`FatalReported` independent of the disk).

**EnvProofs** (no assumptions). The library's induction theorems take an operator
and cannot be instantiated here; a set of positions without a last element outside
it (`FromTheEnd` and, upwards, `FromTheStart`, from the well-foundedness of the
naturals) does the same for one set at a time. `TurnIs` says the three things a pass
of the loop can come to: the rest is copied, something that is not padding is
written in front of a later pass, or it fails. From it follow that the recursion has
a solution (`PassExists`) and what every solution gives (`ExpandIsHonest`). Two
texts are compared position by position. `PassOfEnd` says that passes over texts
with the same end give the same result there. `PassBefore` says that, up to the run
of dollars of a reference, the loop goes through the text before it as if it stood
alone; dollar runs need care, because the loop consumes a run at once and one before
that place must not reach across it. `PassAtReference` says what the pass at that
run writes, or how it fails. `FlattenLayout` says where the pieces of a flattened
sequence stand, from which `PassOfWritten` follows the loop over an escaped text one
source character at a time. Proved, for texts and values of any length:
`NothingVanishes` (what is accepted stands as written or shows something other than
padding), `ErrorsNameVariables`, `ReferencesInsert` and `LiteralsSurvive`.

**SubjectProofs** (assumes `MaxDnAssumption`). `EscapeRead` is the heart: a position
of the text can be the start of the escape of one character only (a bare character
is never a backslash, and after a backslash a `0` means a code, anything else
itself). With `FromTheStart` two values (`ValuesAgree`) and then two names
(`NamesAgree`) that stand at the same place agree as far as the shorter one goes; no
escape begins with a comma and every entry ends at one or at the end
(`EscapeNoComma`, `ListEnds`), so the shorter one is all of the other. Types end at
the first equals sign (`TypeRead`). That makes a list of entries readable from its
text (`EntriesReadBack`); a subject is such a list once it is decoded (`EntriesIs`),
and a text that was cut is longer than the limit (`BoundedIs`). Proved, for subjects
of any number of entries, grouped in any way, decodable or not: `NamesReadBack`.

**ListenerProofs** (assumes `RunsAssumption`, `TextsAssumption` - the strings of the
file and the variable hold text - and `CertsAssumption` - subjects are lists of
entries). `ControlsInForce` speaks of the last step of `main()` only;
the invariant records what each step before it left behind (`LoadDone` to
`StoreFilled`) and that the later steps keep it, one lemma per step. `CasApart`,
`BypassNeedsMtls` and `StoreFilled` outlive the configuration, which is dropped when
the proxy serves; with `ConnInv` (everything a connection or session rests on was
verified by a full handshake of this run) they give the properties of the listener
across resumption and restarts; nothing is assumed of which CAs certify which.
`SubjectsAreUnambiguous` is `NamesReadBack` for the certificates of two connections.
That no control is off by accident needs
`NothingVanishes`. `ExpansionIsExact` follows from the theorems of `EnvProofs` once
every text that a start or a restart can find is known to be one (`GivenTexts`).
Proved: `TypeCorrect`, `NeverLessThanAsked`, `IdentitiesAreVerified`, `CasNeverMixed`,
`BypassIsEarned`, `ErrorsAreDiscreet`, `ExpansionAsDocumented`,
`SubjectsAreUnambiguous`.

Only model-checked:

* liveness (`EveryRequestLogged`, `StartDecides`, `FatalReported`,
  `TrailCatchesUp`), which is outside the prover;
* the four runs that expect a violation.

## Not modelled

* Cryptography, base64, DER and X.509 themselves, the TLS handshake, TOML: the
  model has their verdicts.
* Header stripping towards the backend, byte counts, times, messages and the length
  caps of records other than the subject's.
* What a list of log directives lets through: a list may silence the audit records,
  and `SilentOnlyOnPurpose` makes no claim about lists.
* Files that change while the proxy starts, a listening socket that cannot be
  bound, and OpenSSL's session lifetime: that a session outlives its certificate's
  expiry is allowed by the model, and by the code's own comment.
* Bracketed IPv6 hosts and other details of parsing addresses and CIDR ranges.
* The browser's patches: diffs against a Firefox tree that is not in the
  repository, so most of the code they change cannot be read here. Scripts and
  test tooling.

## Plan

Every invariant and action property that the passing runs check is proved. What is
left:

1. The browser's attestation (patch 006) composed with the verifier: resends and
   redirects against the replay cache.
