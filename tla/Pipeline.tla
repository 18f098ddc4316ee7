------------------------------ MODULE Pipeline ------------------------------
(***************************************************************************)
(* One request through the proxy (request_filter and the other ProxyHttp   *)
(* hooks of proxy/src/main.rs) and the audit record it leaves behind       *)
(* (RequestAudit of proxy/src/audit.rs), for requests that run             *)
(* concurrently and may carry copies of one token.                         *)
(*                                                                         *)
(* The verifier is the once-only gate that Attest is shown to implement.   *)
(* The rate limiter and machine identity may answer whatever RateLimit and *)
(* MachineIdentity can.  Pingora is external: it calls the hooks in order, *)
(* keeps the body request_filter read in its retry buffer, retries an      *)
(* idempotent request once, and calls logging once.                        *)
(***************************************************************************)
EXTENDS Integers, AuditReasons

CONSTANTS
  Request,
  Token,
  Config,            \* the configurations to consider
  Input,             \* the requests to consider
  ChunkSizes,        \* sizes of body chunks
  BOUND_BODY_MAX,
  RetryBufferMax,    \* capacity of pingora's retry buffer (external)
  bindingOf,         \* the body binding in each token
  NoInput,           \* the slot has not been used yet
  NoRecord           \* no audit record yet

ASSUME BufferAssumption ==
  /\ BOUND_BODY_MAX \in Nat /\ RetryBufferMax \in Nat
  /\ BOUND_BODY_MAX <= RetryBufferMax
  /\ ChunkSizes \subseteq Nat
  /\ bindingOf \in [Token -> {"Bound", "Unbound"}]

\* level is the level [logging] keeps: "warn" drops the successes.
Configs == [rate_limiter : BOOLEAN, bypass : BOOLEAN,
            machine : {"disabled", "optional", "required"},
            level : {"info", "warn"}]

\* token: the token its headers carry.  ip: the peer address is known.
\* authorized: BypassPolicy::authorizes accepts its address and its client
\* certificate.  sent: its three attestation headers.  host: it names one.
\* machine: its machine certificate header, which may hold a certificate,
\* other text, or bytes that are no text.
Inputs == [token : Token, ip : BOOLEAN, authorized : BOOLEAN,
           idempotent : BOOLEAN, sent : {"none", "some", "all"},
           host : BOOLEAN,
           machine : {"absent", "cert", "garbage", "unreadable"}]

ASSUME InputAssumption == Config \subseteq Configs /\ Input \subseteq Inputs

VARIABLES
  config,     \* the proxy's configuration
  admitted,   \* the verifier: tokens whose nonce is committed
  answer,     \* what the verifier last answered, else "none"
  stage,      \* how far each request has got
  req,        \* what each request carries
  ctx,        \* its RequestAudit
  size,       \* body bytes request_filter has read and hashed
  buffered,   \* body bytes pingora's retry buffer holds
  delivered,  \* how often the backend received the request
  failure,    \* pingora's terminal error, classified, or "none"
  log,        \* its audit record
  facts       \* history: what was really established about the request

session == <<req, size, buffered>>
gate == <<admitted, answer>>
vars == <<config, admitted, answer, stage, req, ctx, size, buffered, delivered,
          failure, log, facts>>

Verifier == INSTANCE OnceOnly

Actions == {"Forward", "Bypass", "Reject", "RateLimit", "Error"}
Outcomes == {"Success", "Failure"}
AttestationStatus ==
  {"Verified", "Failed", "Bypassed", "Incomplete", "NotEvaluated"}
MachineStatus == {"Verified", "Failed", "Absent", "NotEvaluated", "Disabled"}
Binding == {"Bound", "Unbound"}

\* RequestAudit.  presented: the machine certificate header it keeps to read a
\* subject from.  subject_dn, hostname: whether the record has one.
Context ==
  [action : Actions \cup {"none"},
   reason : Reason \cup {"none"},
   status : AttestationStatus,
   token_verified : BOOLEAN,
   binding : Binding \cup {"none"},
   machine : MachineStatus,
   presented : {"none", "cert", "garbage"},
   subject_dn : BOOLEAN,
   hostname : BOOLEAN,
   chain_verified : BOOLEAN]

\* The record on the wire; kept: the filter lets it through.
AuditRecord == [context : Context, outcome : Outcomes, risk : Risks, kept : BOOLEAN]

Fact == {"decrypted", "token", "hash", "nonce", "machine", "chain"}

\* RequestAudit::new.
NewContext ==
  [action |-> "none", reason |-> "none", status |-> "NotEvaluated",
   token_verified |-> FALSE, binding |-> "none",
   machine |-> IF config.machine = "disabled" THEN "Disabled"
               ELSE "NotEvaluated",
   presented |-> "none", subject_dn |-> FALSE, hostname |-> FALSE,
   chain_verified |-> FALSE]

TypeOK ==
  /\ config \in Configs
  /\ admitted \subseteq Token
  /\ stage \in [Request -> {"idle", "limit", "bypass", "headers", "preflight",
                            "phase1", "machine", "body", "commit", "upstream",
                            "exchange", "ended", "logged"}]
  /\ req \in [Request -> Inputs \cup {NoInput}]
  /\ ctx \in [Request -> Context]
  /\ size \in [Request -> Nat]
  /\ buffered \in [Request -> Nat]
  /\ delivered \in [Request -> Nat]
  /\ failure \in [Request -> Reason \cup {"none"}]
  /\ log \in [Request -> AuditRecord \cup {NoRecord}]
  /\ \A r \in Request : log[r] # NoRecord => log[r].context.action # "none"
  /\ facts \in [Request -> SUBSET Fact]

Init ==
  /\ config \in Config
  /\ Verifier!Init
  /\ stage = [r \in Request |-> "idle"]
  /\ req = [r \in Request |-> NoInput]
  /\ ctx = [r \in Request |-> NewContext]
  /\ size = [r \in Request |-> 0]
  /\ buffered = [r \in Request |-> 0]
  /\ delivered = [r \in Request |-> 0]
  /\ failure = [r \in Request |-> "none"]
  /\ log = [r \in Request |-> NoRecord]
  /\ facts = [r \in Request |-> {}]

-----------------------------------------------------------------------------
(* RequestAudit.                                                           *)

Reject(c, reason) ==
  [c EXCEPT !.action = IF reason = "RateLimited" THEN "RateLimit" ELSE "Reject",
            !.reason = reason,
            !.status = IF IsAttestation(reason) THEN "Failed"
                       ELSE IF c.token_verified THEN "Incomplete"
                       ELSE "NotEvaluated"]

Forward(c) == [c EXCEPT !.action = "Forward", !.status = "Verified"]

Bypass(c) == [c EXCEPT !.action = "Bypass", !.status = "Bypassed"]

TokenVerified(c, binding) ==
  [c EXCEPT !.token_verified = TRUE, !.binding = binding]

\* A header that is not readable text is not kept.
MachineCertPresented(c, header) ==
  [c EXCEPT !.presented = IF header \in {"cert", "garbage"} THEN header ELSE "none"]

\* presented_subject_dn: whether a subject can be read from what was sent.
PresentedSubjectDn(presented) == presented = "cert"

MachineAbsent(c) == [c EXCEPT !.machine = "Absent"]

MachineVerified(c) ==
  [c EXCEPT !.machine = "Verified", !.chain_verified = TRUE,
            !.subject_dn = TRUE, !.hostname = TRUE, !.presented = "none"]

\* Fault: every rejected certificate is recorded as one that chained.
MachineRejectedTrusts(c, e) ==
  Reject([c EXCEPT !.machine = "Failed", !.chain_verified = TRUE],
         MachineReason[e])

MachineRejected(c, e) ==
  Reject([c EXCEPT !.machine = "Failed", !.chain_verified = ChainVerified(e)],
         MachineReason[e])

Outcome(c, error) ==
  IF c.action \in {"Forward", "Bypass"} /\ error = "none"
  THEN "Success" ELSE "Failure"

\* Fault: a request that failed before a decision keeps no action.
RecordNoAction(c, error) ==
  IF error # "none" /\ c.action \in {"none", "Forward", "Bypass"}
  THEN [c EXCEPT !.reason = error]
  ELSE c

\* The record: an error of the exchange is the reason unless the request was
\* refused, and ending without a decision is an internal error.  A subject
\* that is not known yet is read from the header that was sent.
Record(c, error) ==
  LET e == IF c.action = "none" /\ error = "none" THEN "InternalError"
           ELSE error
      named == [c EXCEPT !.subject_dn = @ \/ PresentedSubjectDn(c.presented)]
  IN IF e # "none" /\ c.action \in {"none", "Forward", "Bypass"}
     THEN [named EXCEPT !.action = IF @ = "none" THEN "Error" ELSE @,
                        !.reason = e]
     ELSE named

-----------------------------------------------------------------------------
(* request_filter.                                                         *)

\* The request goes on to the stage next with audit state c.
GoOn(r, c, next) ==
  /\ stage' = [stage EXCEPT ![r] = next]
  /\ ctx' = [ctx EXCEPT ![r] = c]

\* It is answered here, and pingora never opens the upstream connection.
Refuse(r, c) == GoOn(r, c, "ended")

Establish(r, f) == facts' = [facts EXCEPT ![r] = @ \cup f]

\* A step that does not involve the verifier.
Quiet == answer' = "none" /\ UNCHANGED admitted

\* new_ctx, and the facts recorded before any check.
Arrive(r, i) ==
  /\ stage[r] = "idle"
  /\ GoOn(r, MachineCertPresented(NewContext, i.machine), "limit")
  /\ req' = [req EXCEPT ![r] = i]
  /\ Quiet
  /\ UNCHANGED <<config, size, buffered, delivered, failure, log, facts>>

\* pingora fails the request before it calls request_filter.
EarlyFailure(r, i) ==
  /\ stage[r] = "idle"
  /\ GoOn(r, NewContext, "ended")
  /\ req' = [req EXCEPT ![r] = i]
  /\ failure' = [failure EXCEPT ![r] = "InternalError"]
  /\ Quiet
  /\ UNCHANGED <<config, size, buffered, delivered, log, facts>>

\* The limiter is asked only when there is one and an address to key on.
RateLimit(r, admit) ==
  /\ stage[r] = "limit"
  /\ ~admit => config.rate_limiter /\ req[r].ip
  /\ IF admit THEN GoOn(r, ctx[r], "bypass")
     ELSE Refuse(r, Reject(ctx[r], "RateLimited"))
  /\ Quiet
  /\ UNCHANGED <<config, session, delivered, failure, log, facts>>

CheckBypass(r) ==
  /\ stage[r] = "bypass"
  /\ IF config.bypass /\ req[r].ip /\ req[r].authorized
     THEN GoOn(r, Bypass(ctx[r]), "upstream")
     ELSE GoOn(r, ctx[r], "headers")
  /\ Quiet
  /\ UNCHANGED <<config, session, delivered, failure, log, facts>>

\* Fault: a machine certificate alone does not count as a header sent.
CheckHeadersTokenOnly(r) ==
  /\ stage[r] = "headers"
  /\ IF req[r].sent = "all" /\ req[r].host THEN GoOn(r, ctx[r], "preflight")
     ELSE Refuse(r, Reject(ctx[r],
            IF req[r].sent = "none"
            THEN "NoAttestationHeaders" ELSE "IncompleteAttestationHeaders"))
  /\ Quiet
  /\ UNCHANGED <<config, session, delivered, failure, log, facts>>

CheckHeaders(r) ==
  /\ stage[r] = "headers"
  /\ IF req[r].sent = "all" /\ req[r].host THEN GoOn(r, ctx[r], "preflight")
     ELSE Refuse(r, Reject(ctx[r],
            IF req[r].sent = "none" /\ req[r].machine = "absent"
            THEN "NoAttestationHeaders" ELSE "IncompleteAttestationHeaders"))
  /\ Quiet
  /\ UNCHANGED <<config, session, delivered, failure, log, facts>>

MachinePreflight(r) ==
  LET missing == config.machine # "disabled" /\ req[r].machine = "absent"
  IN /\ stage[r] = "preflight"
     /\ IF missing /\ config.machine = "required"
        THEN Refuse(r, MachineRejected(ctx[r], "Missing"))
        ELSE GoOn(r, IF missing THEN MachineAbsent(ctx[r]) ELSE ctx[r],
                  "phase1")
     /\ Quiet
     /\ UNCHANGED <<config, session, delivered, failure, log, facts>>

\* Phase 1.  The gate says nothing of which tokens it passes here.
VerifyHeaders(r, v) ==
  LET binding == bindingOf[req[r].token]
  IN /\ stage[r] = "phase1"
     /\ IF v = "Ok"
        THEN /\ GoOn(r, TokenVerified(ctx[r], binding), "machine")
             /\ Establish(r, {"decrypted", "token"})
             /\ Quiet
        ELSE /\ Refuse(r, Reject(ctx[r], AttestReason[v]))
             /\ answer' = v
             /\ Verifier!Refuse
             /\ Establish(r, IF v = "PlaintextMismatch" THEN {"decrypted"} ELSE {})
     /\ UNCHANGED <<config, session, delivered, failure, log>>

Phase1Results == {"Ok", "BadTimestamp", "TimestampDrift", "InvalidNonce",
                  "NonceReplay", "InvalidToken", "DecryptFailed",
                  "PlaintextMismatch"}

\* A bound body is read and hashed next; an unbound one is not.
AfterMachine(r) ==
  IF bindingOf[req[r].token] = "Unbound" THEN "commit" ELSE "body"

\* The results of verify for this request: a header that is not readable is
\* never passed to it, and without an address it refuses at once.
MachineResults(r) ==
  CASE req[r].machine = "unreadable" -> {"NotBase64"}
    [] req[r].machine # "unreadable" /\ ~req[r].ip -> {"NoClientAddress"}
    [] req[r].machine = "garbage" /\ req[r].ip -> {"NotBase64", "NotDer"}
    [] OTHER -> (DOMAIN MachineReason \ {"Missing", "NoClientAddress", "NotBase64",
                                         "NotDer"}) \cup {"Verified"}

\* Fault: a name that cannot be resolved is let through.
VerifyMachineFailsOpen(r) ==
  /\ stage[r] = "machine"
  /\ IF config.machine = "disabled" \/ req[r].machine = "absent"
     THEN GoOn(r, ctx[r], AfterMachine(r)) /\ UNCHANGED facts
     ELSE \E v \in MachineResults(r) :
       \/ /\ v = "Verified"
          /\ GoOn(r, MachineVerified(ctx[r]), AfterMachine(r))
          /\ Establish(r, {"chain", "machine"})
       \/ /\ v = "HostnameUnresolvable"
          /\ GoOn(r, ctx[r], AfterMachine(r))
          /\ Establish(r, {"chain"})
  /\ Quiet
  /\ UNCHANGED <<config, session, delivered, failure, log>>

VerifyMachine(r) ==
  /\ stage[r] = "machine"
  /\ IF config.machine = "disabled" \/ req[r].machine = "absent"
     THEN GoOn(r, ctx[r], AfterMachine(r)) /\ UNCHANGED facts
     ELSE \E v \in MachineResults(r) :
       \/ /\ v = "Verified"
          /\ GoOn(r, MachineVerified(ctx[r]), AfterMachine(r))
          /\ Establish(r, {"chain", "machine"})
       \/ /\ v # "Verified"
          /\ Refuse(r, MachineRejected(ctx[r], v))
          /\ Establish(r, IF v \in {"HostnameAddressMismatch",
                                    "HostnameUnresolvable"}
                          THEN {"chain"} ELSE {})
  /\ Quiet
  /\ UNCHANGED <<config, session, delivered, failure, log>>

\* commit_nonce: the gate admits the token, or refuses it with v.
CommitNonce(r, v) ==
  \/ /\ v = "Ok"
     /\ Verifier!Admit(req[r].token)
     /\ GoOn(r, Forward(ctx[r]), "upstream")
  \/ /\ v # "Ok"
     /\ answer' = v
     /\ Verifier!Refuse
     /\ Refuse(r, Reject(ctx[r], AttestReason[v]))

CommitResults == {"Ok", "NonceReplay", "TimestampDrift", "CommitTooLate"}

\* Fault: an unbound upload is forwarded without committing its nonce.
CommitUnboundSkipped(r, v) ==
  /\ stage[r] = "commit" /\ bindingOf[req[r].token] = "Unbound"
  /\ v = "Ok"
  /\ GoOn(r, Forward(ctx[r]), "upstream")
  /\ Quiet
  /\ UNCHANGED <<config, session, delivered, failure, log, facts>>

\* An unbound upload is committed without reading its body.
CommitUnbound(r, v) ==
  /\ stage[r] = "commit" /\ bindingOf[req[r].token] = "Unbound"
  /\ CommitNonce(r, v)
  /\ Establish(r, IF v = "Ok" THEN {"nonce"} ELSE {})
  /\ UNCHANGED <<config, session, delivered, failure, log>>

\* Fault: the size check lets one byte more through.
ReadChunkOneMore(r, len) ==
  LET total == size[r] + len
  IN /\ stage[r] = "body"
     /\ size' = [size EXCEPT ![r] = total]
     /\ buffered' = [buffered EXCEPT ![r] =
          IF @ = size[r] /\ total <= RetryBufferMax THEN total ELSE 0]
     /\ IF total > BOUND_BODY_MAX + 1
        THEN Refuse(r, Reject(ctx[r], "BodyTooLarge"))
        ELSE GoOn(r, ctx[r], "body")
     /\ Quiet
     /\ UNCHANGED <<config, req, delivered, failure, log, facts>>

\* One turn of the loop that buffers and hashes a bound body.  The retry
\* buffer takes the chunk when it fits, and is of no use once one does not.
ReadChunk(r, len) ==
  LET total == size[r] + len
  IN /\ stage[r] = "body"
     /\ size' = [size EXCEPT ![r] = total]
     /\ buffered' = [buffered EXCEPT ![r] =
          IF @ = size[r] /\ total <= RetryBufferMax THEN total ELSE 0]
     /\ IF total > BOUND_BODY_MAX
        THEN Refuse(r, Reject(ctx[r], "BodyTooLarge"))
        ELSE GoOn(r, ctx[r], "body")
     /\ Quiet
     /\ UNCHANGED <<config, req, delivered, failure, log, facts>>

\* The loop ends: the client failed to deliver the body, or it is complete.
EndBody(r, delivery) ==
  /\ stage[r] = "body"
  /\ IF delivery = "failed"
     THEN Refuse(r, Reject(ctx[r], "BodyReadFailed"))
     ELSE GoOn(r, ctx[r], "commit")
  /\ Quiet
  /\ UNCHANGED <<config, session, delivered, failure, log, facts>>

\* Fault: the nonce is committed before the hash is compared.
VerifyBodyAfterCommit(r, v) ==
  /\ stage[r] = "commit" /\ bindingOf[req[r].token] = "Bound"
  /\ \/ /\ v = "BodyHashMismatch"
        /\ Verifier!Admit(req[r].token)
        /\ Refuse(r, Reject(ctx[r], AttestReason[v]))
        /\ Establish(r, {"nonce"})
     \/ /\ v # "BodyHashMismatch"
        /\ CommitNonce(r, v)
        /\ Establish(r, IF v = "Ok" THEN {"hash", "nonce"} ELSE {"hash"})
  /\ UNCHANGED <<config, session, delivered, failure, log>>

\* verify_body_and_commit, once the loop has the hash of the whole body.
VerifyBodyAndCommit(r, v) ==
  /\ stage[r] = "commit" /\ bindingOf[req[r].token] = "Bound"
  /\ \/ /\ v = "BodyHashMismatch"
        /\ Refuse(r, Reject(ctx[r], AttestReason[v]))
        /\ answer' = v
        /\ Verifier!Refuse
        /\ UNCHANGED facts
     \/ /\ v # "BodyHashMismatch"
        /\ CommitNonce(r, v)
        /\ Establish(r, IF v = "Ok" THEN {"hash", "nonce"} ELSE {"hash"})
  /\ UNCHANGED <<config, session, delivered, failure, log>>

-----------------------------------------------------------------------------
(* Pingora's exchange with the upstream (external).                        *)

\* The exchange ends with error e.
Ends(r, e) ==
  /\ stage' = [stage EXCEPT ![r] = "ended"]
  /\ failure' = [failure EXCEPT ![r] = e]

\* pingora's request policy answers 400, or the upstream is not reached.
SendFails(r, e) ==
  /\ stage[r] = "upstream"
  /\ e \in {"RequestMalformed", "UpstreamError"}
  /\ e = "RequestMalformed" => delivered[r] = 0
  /\ Ends(r, e)
  /\ Quiet
  /\ UNCHANGED <<config, session, ctx, delivered, log, facts>>

\* The request reaches the backend.
Send(r) ==
  /\ stage[r] = "upstream"
  /\ stage' = [stage EXCEPT ![r] = "exchange"]
  /\ delivered' = [delivered EXCEPT ![r] = @ + 1]
  /\ Quiet
  /\ UNCHANGED <<config, session, ctx, failure, log, facts>>

\* An idempotent request that failed on a reused connection is sent again.
Retry(r) ==
  /\ stage[r] = "exchange"
  /\ req[r].idempotent /\ delivered[r] = 1
  /\ stage' = [stage EXCEPT ![r] = "upstream"]
  /\ Quiet
  /\ UNCHANGED <<config, session, ctx, delivered, failure, log, facts>>

\* The response is relayed to the end, or a side fails.
ExchangeEnds(r, e) ==
  /\ stage[r] = "exchange"
  /\ Ends(r, e)
  /\ Quiet
  /\ UNCHANGED <<config, session, ctx, delivered, log, facts>>

ExchangeResults == {"none", "UpstreamError", "DownstreamError", "InternalError"}

\* Fault: a refused request ends without a record.
LoggingOnlyForwarded(r, late) ==
  LET e == IF failure[r] = "none" THEN late ELSE failure[r]
  IN /\ stage[r] = "ended"
     /\ stage' = [stage EXCEPT ![r] = "logged"]
     /\ log' = IF ctx[r].action \in {"Reject", "RateLimit"} THEN log
               ELSE [log EXCEPT ![r] =
                       [context |-> Record(ctx[r], e),
                        outcome |-> Outcome(ctx[r], e),
                        risk |-> RiskOf(Record(ctx[r], e).reason),
                        kept |-> \/ config.level = "info"
                                 \/ Outcome(ctx[r], e) = "Failure"]]
     /\ Quiet
     /\ UNCHANGED <<config, session, ctx, delivered, failure, facts>>

\* The logging hook and RequestAudit::finish.  A refusal's response may fail
\* to reach the client (late).
Logging(r, late) ==
  LET e == IF failure[r] = "none" THEN late ELSE failure[r]
  IN /\ stage[r] = "ended"
     /\ late # "none" => ctx[r].action \in {"Reject", "RateLimit"}
     /\ stage' = [stage EXCEPT ![r] = "logged"]
     /\ log' = [log EXCEPT ![r] =
          [context |-> Record(ctx[r], e),
           outcome |-> Outcome(ctx[r], e),
           risk |-> RiskOf(Record(ctx[r], e).reason),
           kept |-> config.level = "info" \/ Outcome(ctx[r], e) = "Failure"]]
     /\ Quiet
     /\ UNCHANGED <<config, session, ctx, delivered, failure, facts>>

Filter(r) ==
  \/ \E admit \in BOOLEAN : RateLimit(r, admit)
  \/ CheckBypass(r)
  \/ CheckHeaders(r)
  \/ MachinePreflight(r)
  \/ \E v \in Phase1Results : VerifyHeaders(r, v)
  \/ VerifyMachine(r)
  \/ \E v \in CommitResults : CommitUnbound(r, v)
  \/ \E d \in {"failed", "complete"} : EndBody(r, d)
  \/ \E v \in CommitResults \cup {"BodyHashMismatch"} :
       VerifyBodyAndCommit(r, v)

Exchange(r) ==
  \/ \E e \in {"RequestMalformed", "UpstreamError"} : SendFails(r, e)
  \/ Send(r)
  \/ \E e \in ExchangeResults : ExchangeEnds(r, e)
  \/ \E late \in {"none", "DownstreamError"} : Logging(r, late)

\* Every request of the workload has been served.
Served ==
  /\ \A r \in Request : stage[r] = "logged"
  /\ UNCHANGED vars

Next ==
  \/ \E r \in Request :
       \/ \E i \in Input : Arrive(r, i) \/ EarlyFailure(r, i)
       \/ Filter(r)
       \/ \E len \in ChunkSizes : ReadChunk(r, len)
       \/ Exchange(r)
       \/ Retry(r)
  \/ Served

Spec == Init /\ [][Next]_vars

\* r is at an await that only somebody else can end: the resolver, the client
\* sending its body, the backend or the client of the exchange, or the client
\* taking the answer to a refusal.  None of these has a timeout of the proxy's.
Waits(r) ==
  \/ /\ stage[r] = "machine" /\ config.machine # "disabled"
     /\ req[r].machine = "cert" /\ req[r].ip
  \/ stage[r] \in {"body", "upstream", "exchange"}
  \/ stage[r] = "ended" /\ ctx[r].action \in {"Reject", "RateLimit"}

\* The runtime polls every task that can go on: the proxy's own steps are
\* taken.  What a request waits for may never come.
OwnStep(r) ==
  /\ ~Waits(r)
  /\ Filter(r) \/ \E late \in {"none", "DownstreamError"} : Logging(r, late)

FairSpec == Spec /\ \A r \in Request : WF_vars(OwnStep(r))

-----------------------------------------------------------------------------
(* Properties.                                                             *)

\* The operator has exempted the request from attestation.
Exempt(r) == config.bypass /\ req[r].ip /\ req[r].authorized

\* What the backend may rely on: a delivered request was authorized to
\* bypass, or its token, its nonce, its body hash if it is bound, and its
\* machine if one was named or had to be, were all verified.
BackendSeesOnlyVerified ==
  \A r \in Request : delivered[r] > 0 =>
    \/ Exempt(r)
    \/ /\ {"token", "nonce"} \subseteq facts[r]
       /\ bindingOf[req[r].token] = "Bound" => "hash" \in facts[r]
       /\ config.machine = "required" => "machine" \in facts[r]
       /\ config.machine = "optional" /\ req[r].machine # "absent" =>
            "machine" \in facts[r]

\* Of all the requests that carry one token, however they interleave, the
\* backend sees one; pingora repeats only that one, and only if idempotent.
TokenDeliveredOnce ==
  \A r, s \in Request :
    /\ delivered[r] > 0 /\ delivered[s] > 0
    /\ ~Exempt(r) /\ ~Exempt(s)
    /\ req[r].token = req[s].token
    => r = s /\ delivered[r] <= (IF req[r].idempotent THEN 2 ELSE 1)

\* The retry buffer holds the whole body that was hashed, so what the
\* backend gets is what was verified.
VerifiedBodyIsForwarded ==
  \A r \in Request :
    delivered[r] > 0 /\ "hash" \in facts[r] => buffered[r] = size[r]

\* A refused request never spends its token: the nonce is committed only for
\* the one request that is then forwarded.  And only a request whose token
\* passed makes the proxy spend chain verification and DNS on it.
RefusalSpendsNothing ==
  \A r \in Request :
    /\ ctx[r].action \in {"Reject", "RateLimit"} => "nonce" \notin facts[r]
    /\ stage[r] = "machine" \/ "chain" \in facts[r] => "token" \in facts[r]

\* The decision, the statuses and the outcome in a record against what really
\* happened to its request.
DecisionOnRecord(r) ==
  LET c == log[r].context
  IN /\ delivered[r] > 0 => c.action \in {"Forward", "Bypass"}
     /\ c.action = "Forward" <=> "nonce" \in facts[r]
     /\ c.action = "Bypass" => Exempt(r) /\ facts[r] = {}
     /\ c.status = "Verified" <=> "nonce" \in facts[r]
     /\ c.machine = "Verified" <=> "machine" \in facts[r]
     /\ c.chain_verified <=> "chain" \in facts[r]
     /\ c.binding # "none" <=> "token" \in facts[r]
     /\ log[r].outcome = "Success" <=> c.reason = "none"
     /\ log[r].outcome = "Success" => delivered[r] > 0

\* The machine in a record: whatever became of the request once request_filter
\* saw it, the record names the subject of the certificate that was sent if
\* one can be read from it, and a hostname only for a machine that was verified.
MachineOnRecord(r) ==
  LET c == log[r].context
  IN /\ c.action # "Error" => (c.subject_dn <=> req[r].machine = "cert")
     /\ c.hostname <=> "machine" \in facts[r]
     /\ c.chain_verified => c.subject_dn

\* The reason and the attestation status explain each other: "failed" is a
\* reason of an attestation stage, "incomplete" a token that had passed when
\* another control refused, and a refusal keeps its reason even when its
\* response could not be delivered.
StatusExplained(r) ==
  LET c == log[r].context
  IN /\ c.status = "Failed" <=> c.reason # "none" /\ IsAttestation(c.reason)
     /\ c.status = "Incomplete" =>
          "token" \in facts[r] /\ "nonce" \notin facts[r]
     /\ c.action \in {"Reject", "RateLimit"} => c.reason = ctx[r].reason
     /\ c.action = "Reject" => c.reason \notin
          {"UpstreamError", "DownstreamError", "InternalError",
           "RequestMalformed"}

\* Every record agrees with what happened, across all exits of
\* request_filter and every way the exchange can fail afterwards.
RecordTellsTruth ==
  \A r \in Request : log[r] # NoRecord =>
    DecisionOnRecord(r) /\ MachineOnRecord(r) /\ StatusExplained(r)

\* The risk of a record is earned: "info" for successes only, "low" only when
\* nothing of DenBrowser was sent or the client went away, and "critical" only
\* for a token made for this proxy that the backend never saw used.  With
\* [logging] at "warn" the log keeps exactly the refusals and failures.
RiskIsEarned ==
  \A r \in Request : log[r] # NoRecord =>
    LET risk == log[r].risk
    IN /\ risk = "Info" <=> log[r].outcome = "Success"
       /\ risk = "Low" =>
            \/ req[r].sent = "none" /\ req[r].machine = "absent"
            \/ log[r].context.reason \in {"DownstreamError", "BodyReadFailed"}
       /\ risk = "Critical" => "decrypted" \in facts[r] /\ delivered[r] = 0
       /\ log[r].kept <=> config.level = "info" \/ risk # "Info"

\* The record r leaves: the filter drops it only for a success at "warn".
Recorded(r) ==
  /\ log[r] # NoRecord
  /\ log[r].kept \/ (config.level = "warn" /\ log[r].outcome = "Success")

\* Every request that arrives leaves its record, whichever exit it takes,
\* unless it waits for ever on the resolver, the backend or its client: no
\* step of the proxy's own loses it.
EveryRequestLogged ==
  \A r \in Request :
    []<>(~Waits(r)) => (stage[r] # "idle" ~> Recorded(r))

\* The audit README on attestation.body_binding: "bound" means that the body
\* hash was verified.
BoundMeansHashVerified ==
  \A r \in Request : log[r] # NoRecord /\ log[r].context.binding = "Bound" =>
    "hash" \in facts[r]
=============================================================================
