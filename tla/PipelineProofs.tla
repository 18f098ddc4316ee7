--------------------------- MODULE PipelineProofs ---------------------------
(***************************************************************************)
(* Proofs about Pipeline: what the backend may rely on and what the audit  *)
(* record says, for any number of concurrent requests, any copies of any   *)
(* tokens, every configuration and every limit of the body.                *)
(***************************************************************************)
EXTENDS Pipeline, TLAPS

-----------------------------------------------------------------------------
(* The inductive invariant, per request.                                   *)

\* Stages in front of the token's decryption, and all of request_filter.
BeforeToken == {"limit", "bypass", "headers", "preflight", "phase1"}
InFilter == BeforeToken \cup {"machine", "body", "commit"}

\* How an exchange can fail, and why request_filter can refuse.
ExchangeErrors == {"RequestMalformed", "UpstreamError", "DownstreamError",
                   "InternalError"}
Refusals == Reason \ ExchangeErrors

\* What the audit state c says of a request q about which f was established:
\* it knows every fact, and facts come in the order the checks run.
Knows(c, f, q) ==
  /\ c.token_verified <=> "token" \in f
  /\ c.binding # "none" <=> "token" \in f
  /\ c.machine = "Verified" <=> "machine" \in f
  /\ c.hostname <=> "machine" \in f
  /\ c.chain_verified <=> "chain" \in f
  /\ "machine" \in f => "chain" \in f
  /\ "chain" \in f => "token" \in f /\ q.machine = "cert"
  /\ "hash" \in f => "token" \in f
  /\ "nonce" \in f => "token" \in f
  /\ "token" \in f => "decrypted" \in f

\* Whatever names the machine is still there to be read.
Names(c, q) == c.subject_dn \/ c.presented = "cert" <=> q.machine = "cert"

\* A reason whose risk says something of the request.
Explains(reason, f, q) ==
  /\ reason = "NoAttestationHeaders" => q.sent = "none" /\ q.machine = "absent"
  /\ reason \in {"TokenRequestMismatch", "BodyHashMismatch"} => "decrypted" \in f

KnowledgeInv(r) ==
  stage[r] # "idle" =>
    /\ req[r] \in Inputs
    /\ Knows(ctx[r], facts[r], req[r])
    /\ Explains(ctx[r].reason, facts[r], req[r])
    /\ stage[r] \in InFilter \/ ctx[r].action # "none" => Names(ctx[r], req[r])

\* The decision in the audit state is the one that was made.
DecisionInv(r) ==
  LET c == ctx[r]
      f == facts[r]
  IN /\ c.action # "Error"
     /\ c.action = "Forward" <=> "nonce" \in f
     /\ c.status = "Verified" <=> "nonce" \in f
     /\ c.action = "Bypass" => Exempt(r) /\ f = {}
     /\ c.action \in {"none", "Forward", "Bypass"} =>
          c.reason = "none" /\ c.status \notin {"Failed", "Incomplete"}
     /\ c.action \in {"Reject", "RateLimit"} =>
          /\ c.reason \in Refusals
          /\ c.status = "Failed" <=> IsAttestation(c.reason)
          /\ c.status = "Incomplete" => "token" \in f

\* A machine was verified where one had to be, and the hash of a bound body.
MachinePassed(r) ==
  /\ config.machine = "required" => "machine" \in facts[r]
  /\ config.machine = "optional" /\ req[r].machine # "absent" =>
       "machine" \in facts[r]
HashPassed(r) == bindingOf[req[r].token] = "Bound" => "hash" \in facts[r]

\* What holds at each stage.
StageInv(r) ==
  LET c == ctx[r]
      f == facts[r]
      at == stage[r]
  IN /\ at \in BeforeToken \cup {"idle"} => f = {}
     /\ at \in InFilter \cup {"idle"} => c.action = "none" /\ failure[r] = "none"
     /\ at \in {"machine", "body", "commit"} => "token" \in f
     /\ at = "machine" => "chain" \notin f
     /\ at \in {"phase1", "machine"} =>
          (config.machine = "required" => req[r].machine # "absent")
     /\ at \in {"body", "commit"} \/ c.action = "Forward" => MachinePassed(r)
     /\ c.action = "Forward" => HashPassed(r)
     /\ at \in {"upstream", "exchange"} =>
          c.action \in {"Forward", "Bypass"} /\ failure[r] = "none"
     /\ at \in {"ended", "logged"} /\ c.action = "none" =>
          failure[r] # "none" /\ f = {}
     /\ at \in {"ended", "logged"} /\ c.action \in {"Forward", "Bypass"}
          /\ failure[r] = "none" => delivered[r] > 0
     /\ c.action \in {"Reject", "RateLimit"} =>
          at \in {"ended", "logged"} /\ failure[r] = "none"
     /\ failure[r] \in ExchangeErrors \cup {"none"}

\* Nothing that was read is missing from the retry buffer.
BodyInv(r) ==
  ctx[r].action # "Reject" => buffered[r] = size[r] /\ size[r] <= BOUND_BODY_MAX

\* The backend sees decided requests only, twice only if they are idempotent.
DeliveryInv(r) ==
  /\ delivered[r] > 0 => ctx[r].action \in {"Forward", "Bypass"}
  /\ stage[r] # "idle" => delivered[r] <= (IF req[r].idempotent THEN 2 ELSE 1)
  /\ stage[r] = "upstream" =>
       delivered[r] <= (IF req[r].idempotent THEN 1 ELSE 0)
  /\ stage[r] = "exchange" => delivered[r] > 0

\* The record is the one finish() makes of the state the request ended in.
IsRecordOf(rec, c, e) ==
  rec = [context |-> Record(c, e),
         outcome |-> Outcome(c, e),
         risk |-> RiskOf(Record(c, e).reason),
         kept |-> config.level = "info" \/ Outcome(c, e) = "Failure"]

LogInv(r) ==
  log[r] # NoRecord =>
    /\ stage[r] = "logged"
    /\ \E late \in {"none", "DownstreamError"} :
         /\ late # "none" => ctx[r].action \in {"Reject", "RateLimit"}
         /\ IsRecordOf(log[r], ctx[r],
                       IF failure[r] = "none" THEN late ELSE failure[r])

RequestInv(r) ==
  /\ KnowledgeInv(r)
  /\ DecisionInv(r)
  /\ StageInv(r)
  /\ BodyInv(r)
  /\ DeliveryInv(r)
  /\ LogInv(r)

\* Between requests: a committed nonce is known to the gate, and no two
\* requests have committed the same token.
GateInv ==
  /\ \A r \in Request : "nonce" \in facts[r] => req[r].token \in admitted
  /\ \A r, s \in Request :
       "nonce" \in facts[r] /\ "nonce" \in facts[s] /\ req[r].token = req[s].token
       => r = s

Inv == TypeOK /\ (\A r \in Request : RequestInv(r)) /\ GateInv

-----------------------------------------------------------------------------
(* The reason table.                                                       *)

\* The class of every reason and the reasons of each telling risk.
LEMMA RiskTable ==
  ASSUME NEW reason \in Reason
  PROVE  /\ RiskOf(reason) \in Risks \ {"Info"}
         /\ RiskOf(reason) = "Low" => reason \in
              {"NoAttestationHeaders", "BodyReadFailed", "DownstreamError"}
         /\ RiskOf(reason) = "Critical" => reason \in
              {"TokenRequestMismatch", "BodyHashMismatch"}
BY DEF Reason, Reasons, At, RiskOf, Risks

\* What an exchange fails with is no verdict on the attestation.
LEMMA ExchangeReasons ==
  /\ ExchangeErrors \subseteq Reason
  /\ \A e \in ExchangeErrors : ~IsAttestation(e) /\ RiskOf(e) # "Critical"
BY DEF ExchangeErrors, Reason, Reasons, At, RiskOf, IsAttestation, StageOf

\* Every refusal of request_filter has a reason of its own.
LEMMA FilterReasons ==
  {"RateLimited", "NoAttestationHeaders", "IncompleteAttestationHeaders",
   "BodyTooLarge", "BodyReadFailed"} \subseteq Refusals
BY DEF Refusals, ExchangeErrors, Reason, Reasons, At

LEMMA AttestReasons ==
  ASSUME NEW v \in (Phase1Results \cup CommitResults \cup {"BodyHashMismatch"})
                     \ {"Ok"}
  PROVE  /\ AttestReason[v] \in Refusals
         /\ AttestReason[v] \notin {"RateLimited", "NoAttestationHeaders"}
         /\ AttestReason[v] = "TokenRequestMismatch" => v = "PlaintextMismatch"
         /\ AttestReason[v] = "BodyHashMismatch" => v = "BodyHashMismatch"
BY DEF Phase1Results, CommitResults, AttestReason, Refusals, ExchangeErrors,
       Reason, Reasons, At

LEMMA MachineReasons ==
  ASSUME NEW v \in DOMAIN MachineReason
  PROVE  /\ MachineReason[v] \in Refusals
         /\ MachineReason[v] \notin {"RateLimited", "NoAttestationHeaders",
                                     "TokenRequestMismatch", "BodyHashMismatch"}
BY DEF MachineReason, Refusals, ExchangeErrors, Reason, Reasons, At

-----------------------------------------------------------------------------
(* RequestAudit: what each of its methods changes.                         *)

\* Two audit states that differ at most in the decision.
SameFindings(c, d) ==
  /\ c.token_verified = d.token_verified /\ c.binding = d.binding
  /\ c.machine = d.machine /\ c.presented = d.presented
  /\ c.subject_dn = d.subject_dn /\ c.hostname = d.hostname
  /\ c.chain_verified = d.chain_verified

SameDecision(c, d) ==
  c.action = d.action /\ c.reason = d.reason /\ c.status = d.status

LEMMA NewContextFields ==
  ASSUME config \in Configs
  PROVE  /\ NewContext \in Context
         /\ NewContext.action = "none" /\ NewContext.reason = "none"
         /\ NewContext.status = "NotEvaluated"
         /\ ~NewContext.token_verified /\ NewContext.binding = "none"
         /\ NewContext.machine # "Verified" /\ NewContext.presented = "none"
         /\ ~NewContext.subject_dn /\ ~NewContext.hostname
         /\ ~NewContext.chain_verified
BY DEF NewContext, Context, Configs, Actions, AttestationStatus, MachineStatus,
       Binding

LEMMA RejectFields ==
  ASSUME NEW c \in Context, NEW reason \in Reason
  PROVE  /\ Reject(c, reason) \in Context
         /\ SameFindings(Reject(c, reason), c)
         /\ Reject(c, reason).action =
              (IF reason = "RateLimited" THEN "RateLimit" ELSE "Reject")
         /\ Reject(c, reason).reason = reason
         /\ Reject(c, reason).status = "Failed" <=> IsAttestation(reason)
         /\ Reject(c, reason).status = "Incomplete" => c.token_verified
         /\ Reject(c, reason).status # "Verified"
BY ZenonT(40) DEF Reject, Context, SameFindings, Actions, AttestationStatus

LEMMA ForwardFields ==
  ASSUME NEW c \in Context
  PROVE  /\ Forward(c) \in Context /\ SameFindings(Forward(c), c)
         /\ Forward(c).action = "Forward" /\ Forward(c).status = "Verified"
         /\ Forward(c).reason = c.reason
BY DEF Forward, Context, SameFindings, Actions, AttestationStatus

LEMMA BypassFields ==
  ASSUME NEW c \in Context
  PROVE  /\ Bypass(c) \in Context /\ SameFindings(Bypass(c), c)
         /\ Bypass(c).action = "Bypass" /\ Bypass(c).status = "Bypassed"
         /\ Bypass(c).reason = c.reason
BY DEF Bypass, Context, SameFindings, Actions, AttestationStatus

LEMMA TokenVerifiedFields ==
  ASSUME NEW c \in Context, NEW b \in Binding
  PROVE  /\ TokenVerified(c, b) \in Context
         /\ SameDecision(TokenVerified(c, b), c)
         /\ TokenVerified(c, b).token_verified /\ TokenVerified(c, b).binding = b
         /\ TokenVerified(c, b).machine = c.machine
         /\ TokenVerified(c, b).presented = c.presented
         /\ TokenVerified(c, b).subject_dn = c.subject_dn
         /\ TokenVerified(c, b).hostname = c.hostname
         /\ TokenVerified(c, b).chain_verified = c.chain_verified
BY DEF TokenVerified, Context, SameDecision, Binding

LEMMA PresentedFields ==
  ASSUME NEW c \in Context, NEW h
  PROVE  LET d == MachineCertPresented(c, h)
         IN /\ d \in Context /\ SameDecision(d, c)
            /\ d.presented = "cert" <=> h = "cert"
            /\ d.token_verified = c.token_verified /\ d.binding = c.binding
            /\ d.machine = c.machine /\ d.subject_dn = c.subject_dn
            /\ d.hostname = c.hostname /\ d.chain_verified = c.chain_verified
BY DEF MachineCertPresented, Context, SameDecision

LEMMA MachineAbsentFields ==
  ASSUME NEW c \in Context
  PROVE  LET d == MachineAbsent(c)
         IN /\ d \in Context /\ SameDecision(d, c) /\ d.machine = "Absent"
            /\ d.token_verified = c.token_verified /\ d.binding = c.binding
            /\ d.presented = c.presented /\ d.subject_dn = c.subject_dn
            /\ d.hostname = c.hostname /\ d.chain_verified = c.chain_verified
BY DEF MachineAbsent, Context, SameDecision, MachineStatus

LEMMA MachineVerifiedFields ==
  ASSUME NEW c \in Context
  PROVE  LET d == MachineVerified(c)
         IN /\ d \in Context /\ SameDecision(d, c)
            /\ d.machine = "Verified" /\ d.chain_verified
            /\ d.subject_dn /\ d.hostname
            /\ d.token_verified = c.token_verified /\ d.binding = c.binding
BY DEF MachineVerified, Context, SameDecision, MachineStatus

\* The audit state in which a machine is rejected with e.
MachineFailed(c, e) ==
  [c EXCEPT !.machine = "Failed", !.chain_verified = ChainVerified(e)]

LEMMA MachineFailedFields ==
  ASSUME NEW c \in Context, NEW e
  PROVE  LET d == MachineFailed(c, e)
         IN /\ d \in Context /\ SameDecision(d, c) /\ d.machine = "Failed"
            /\ d.chain_verified <=> ChainVerified(e)
            /\ d.token_verified = c.token_verified /\ d.binding = c.binding
            /\ d.presented = c.presented /\ d.subject_dn = c.subject_dn
            /\ d.hostname = c.hostname
            /\ MachineRejected(c, e) = Reject(d, MachineReason[e])
<1>1. MachineRejected(c, e) = Reject(MachineFailed(c, e), MachineReason[e])
  BY DEF MachineRejected, MachineFailed
<1>2. ChainVerified(e) \in BOOLEAN
  BY DEF ChainVerified
<1> QED
  BY <1>1, <1>2 DEF MachineFailed, Context, SameDecision, MachineStatus

\* finish(): the findings stay, but for the subject that is read late.
LEMMA RecordFields ==
  ASSUME NEW c \in Context, NEW e \in ExchangeErrors \cup {"none"}
  PROVE  LET d == Record(c, e)
             undecided == c.action \in {"none", "Forward", "Bypass"}
         IN /\ d \in Context
            /\ d.action = (IF c.action = "none" THEN "Error" ELSE c.action)
            /\ undecided /\ e # "none" => d.reason = e
            /\ undecided /\ e = "none" /\ c.action # "none" =>
                 d.reason = c.reason
            /\ ~undecided => d.reason = c.reason
            /\ d.status = c.status
            /\ d.subject_dn <=> c.subject_dn \/ c.presented = "cert"
            /\ d.token_verified = c.token_verified /\ d.binding = c.binding
            /\ d.machine = c.machine /\ d.hostname = c.hostname
            /\ d.chain_verified = c.chain_verified
<1> DEFINE named == [c EXCEPT !.subject_dn = @ \/ PresentedSubjectDn(c.presented)]
           err == IF c.action = "none" /\ e = "none" THEN "InternalError" ELSE e
           closed == [named EXCEPT !.action = IF @ = "none" THEN "Error" ELSE @,
                                   !.reason = err]
           undecided == c.action \in {"none", "Forward", "Bypass"}
<1>1. /\ named \in Context /\ SameDecision(named, c)
      /\ named.subject_dn <=> c.subject_dn \/ c.presented = "cert"
      /\ named.token_verified = c.token_verified /\ named.binding = c.binding
      /\ named.machine = c.machine /\ named.hostname = c.hostname
      /\ named.chain_verified = c.chain_verified
  BY DEF Context, PresentedSubjectDn, SameDecision
<1>2. Record(c, e) = IF err # "none" /\ undecided THEN closed ELSE named
  BY DEF Record
<1>3. err \in Reason \cup {"none"} /\ (e # "none" => err = e)
      /\ (c.action # "none" => err = e) /\ (c.action = "none" => err # "none")
  BY ExchangeReasons DEF ExchangeErrors
<1> HIDE DEF named, err
<1>4. ASSUME err \in Reason
      PROVE  /\ closed \in Context
             /\ closed.action = (IF c.action = "none" THEN "Error" ELSE c.action)
             /\ closed.reason = err /\ closed.status = c.status
             /\ closed.subject_dn = named.subject_dn
             /\ closed.token_verified = c.token_verified
             /\ closed.binding = c.binding
             /\ closed.machine = c.machine /\ closed.hostname = c.hostname
             /\ closed.chain_verified = c.chain_verified
  BY <1>1, <1>4, ZenonT(40) DEF Context, Actions, SameDecision
<1> HIDE DEF closed
<1>5. CASE err # "none" /\ undecided
  <2>1. Record(c, e) = closed /\ err \in Reason
    BY <1>2, <1>3, <1>5
  <2> QED
    BY <2>1, <1>1, <1>3, <1>4, <1>5
<1>6. CASE ~(err # "none" /\ undecided)
  <2>1. Record(c, e) = named
    BY <1>2, <1>6
  <2> QED
    BY <2>1, <1>1, <1>3, <1>6 DEF SameDecision
<1> QED
  BY <1>5, <1>6

-----------------------------------------------------------------------------
(* Steps of one request.                                                   *)

\* The step is r's: no other request, and not the configuration, changes.
OnlyOf(r) ==
  /\ config' = config
  /\ \A s \in Request \ {r} :
       /\ stage'[s] = stage[s] /\ req'[s] = req[s] /\ ctx'[s] = ctx[s]
       /\ size'[s] = size[s] /\ buffered'[s] = buffered[s]
       /\ delivered'[s] = delivered[s] /\ failure'[s] = failure[s]
       /\ log'[s] = log[s] /\ facts'[s] = facts[s]

LEMMA OthersKeep ==
  ASSUME NEW r \in Request, OnlyOf(r),
         NEW s \in Request, s # r, RequestInv(s)
  PROVE  RequestInv(s)'
<1>1. /\ config' = config
      /\ stage'[s] = stage[s] /\ req'[s] = req[s] /\ ctx'[s] = ctx[s]
      /\ size'[s] = size[s] /\ buffered'[s] = buffered[s]
      /\ delivered'[s] = delivered[s] /\ failure'[s] = failure[s]
      /\ log'[s] = log[s] /\ facts'[s] = facts[s]
  BY DEF OnlyOf
<1>2. KnowledgeInv(s)'
  BY <1>1 DEF RequestInv, KnowledgeInv
<1>3. DecisionInv(s)'
  BY <1>1 DEF RequestInv, DecisionInv, Exempt
<1>4. StageInv(s)'
  BY <1>1 DEF RequestInv, StageInv, MachinePassed, HashPassed
<1>5. BodyInv(s)' /\ DeliveryInv(s)'
  BY <1>1 DEF RequestInv, BodyInv, DeliveryInv
<1>6. LogInv(s)'
  BY <1>1 DEF RequestInv, LogInv, IsRecordOf
<1> QED
  BY <1>2, <1>3, <1>4, <1>5, <1>6 DEF RequestInv

LEMMA SameAt ==
  ASSUME NEW S, NEW T, NEW f \in [S -> T], NEW x \in S
  PROVE  f = [f EXCEPT ![x] = f[x]]
OBVIOUS

\* The new values at r of what request_filter may change in one step.
FilterStep(r, next, c, f, n, b) ==
  /\ GoOn(r, c, next)
  /\ facts' = [facts EXCEPT ![r] = f]
  /\ size' = [size EXCEPT ![r] = n]
  /\ buffered' = [buffered EXCEPT ![r] = b]
  /\ UNCHANGED <<config, req, delivered, failure, log>>

Stages == InFilter \cup {"idle", "upstream", "exchange", "ended", "logged"}

LEMMA FilterStepType ==
  ASSUME TypeOK, NEW r \in Request, NEW next \in Stages, NEW c \in Context,
         NEW f \in SUBSET Fact, NEW n \in Nat, NEW b \in Nat,
         FilterStep(r, next, c, f, n, b), admitted' \subseteq Token
  PROVE  /\ TypeOK' /\ OnlyOf(r)
         /\ stage'[r] = next /\ ctx'[r] = c /\ facts'[r] = f
         /\ size'[r] = n /\ buffered'[r] = b
         /\ req'[r] = req[r] /\ delivered'[r] = delivered[r]
         /\ failure'[r] = failure[r] /\ log'[r] = log[r]
<1> USE DEF FilterStep, GoOn
<1>1. OnlyOf(r)
  BY DEF OnlyOf, TypeOK
<1>2. /\ stage'[r] = next /\ ctx'[r] = c /\ facts'[r] = f
      /\ size'[r] = n /\ buffered'[r] = b
      /\ req'[r] = req[r] /\ delivered'[r] = delivered[r]
      /\ failure'[r] = failure[r] /\ log'[r] = log[r]
  BY DEF TypeOK
<1>3. TypeOK'
  BY DEF TypeOK, Stages, InFilter, BeforeToken
<1> QED
  BY <1>1, <1>2, <1>3

\* request_filter goes on: nothing is decided yet.
LEMMA Continues ==
  ASSUME TypeOK, NEW r \in Request, RequestInv(r), stage[r] \in InFilter,
         NEW next \in InFilter, NEW c \in Context, NEW f \in SUBSET Fact,
         NEW n \in Nat, NEW b \in Nat,
         FilterStep(r, next, c, f, n, b), admitted' \subseteq Token,
         SameDecision(c, ctx[r]), Knows(c, f, req[r]), Names(c, req[r]),
         "nonce" \notin f, b = n /\ n <= BOUND_BODY_MAX,
         next \in BeforeToken => f = {},
         next \notin BeforeToken => "token" \in f,
         next = "machine" => "chain" \notin f,
         next \in {"phase1", "machine"} /\ config.machine = "required" =>
           req[r].machine # "absent",
         next \in {"body", "commit"} =>
           /\ config.machine = "required" => "machine" \in f
           /\ config.machine = "optional" /\ req[r].machine # "absent" =>
                "machine" \in f
  PROVE  TypeOK' /\ OnlyOf(r) /\ RequestInv(r)'
<1>1. /\ TypeOK' /\ OnlyOf(r)
      /\ stage'[r] = next /\ ctx'[r] = c /\ facts'[r] = f
      /\ size'[r] = n /\ buffered'[r] = b
      /\ req'[r] = req[r] /\ delivered'[r] = delivered[r]
      /\ failure'[r] = failure[r] /\ log'[r] = log[r] /\ config' = config
  BY FilterStepType DEF Stages, OnlyOf
<1>2. /\ ctx[r].action = "none" /\ failure[r] = "none" /\ log[r] = NoRecord
      /\ ctx[r].reason = "none" /\ ctx[r].status \notin {"Failed", "Incomplete"}
      /\ ctx[r].status # "Verified" /\ req[r] \in Inputs /\ ~(delivered[r] > 0)
  BY DEF RequestInv, StageInv, DecisionInv, KnowledgeInv, LogInv, DeliveryInv,
         InFilter, BeforeToken
<1>3. c.action = "none" /\ c.reason = "none" /\ c.status = ctx[r].status
  BY <1>2 DEF SameDecision
<1>4. KnowledgeInv(r)'
  BY <1>1, <1>2, <1>3 DEF KnowledgeInv, Explains
<1>5. DecisionInv(r)'
  BY <1>1, <1>2, <1>3 DEF DecisionInv
<1>6. StageInv(r)'
  BY <1>1, <1>2, <1>3
     DEF StageInv, InFilter, BeforeToken, MachinePassed
<1>7. BodyInv(r)'
  BY <1>1 DEF BodyInv
<1>8. DeliveryInv(r)'
  BY <1>1, <1>2 DEF DeliveryInv, InFilter, BeforeToken, RequestInv
<1>9. LogInv(r)'
  BY <1>1, <1>2 DEF LogInv
<1> QED
  BY <1>1, <1>4, <1>5, <1>6, <1>7, <1>8, <1>9 DEF RequestInv

\* request_filter answers the request itself, for the given reason.
LEMMA Refuses ==
  ASSUME TypeOK, NEW r \in Request, RequestInv(r), stage[r] \in InFilter,
         NEW d \in Context, NEW reason \in Refusals, NEW f \in SUBSET Fact,
         NEW n \in Nat, NEW b \in Nat,
         FilterStep(r, "ended", Reject(d, reason), f, n, b),
         admitted' \subseteq Token,
         Knows(d, f, req[r]), Names(d, req[r]), Explains(reason, f, req[r]),
         "nonce" \notin f,
         reason = "RateLimited" => b = buffered[r] /\ n = size[r]
  PROVE  TypeOK' /\ OnlyOf(r) /\ RequestInv(r)'
<1> DEFINE c == Reject(d, reason)
<1>0. reason \in Reason /\ reason # "none"
  BY DEF Refusals, Reason, Reasons
<1>1. /\ c \in Context /\ SameFindings(c, d) /\ c.reason = reason
      /\ c.action = (IF reason = "RateLimited" THEN "RateLimit" ELSE "Reject")
      /\ c.status = "Failed" <=> IsAttestation(reason)
      /\ c.status = "Incomplete" => d.token_verified
      /\ c.status # "Verified"
  BY <1>0, RejectFields
<1>2. FilterStep(r, "ended", c, f, n, b)
  OBVIOUS
<1> HIDE DEF c
<1>3. /\ TypeOK' /\ OnlyOf(r)
      /\ stage'[r] = "ended" /\ ctx'[r] = c /\ facts'[r] = f
      /\ size'[r] = n /\ buffered'[r] = b
      /\ req'[r] = req[r] /\ delivered'[r] = delivered[r]
      /\ failure'[r] = failure[r] /\ log'[r] = log[r] /\ config' = config
  BY <1>1, <1>2, FilterStepType, SMTT(30) DEF Stages, OnlyOf
<1>4. /\ ctx[r].action = "none" /\ failure[r] = "none" /\ log[r] = NoRecord
      /\ req[r] \in Inputs /\ ~(delivered[r] > 0)
      /\ buffered[r] = size[r] /\ size[r] <= BOUND_BODY_MAX
  BY DEF RequestInv, StageInv, DecisionInv, KnowledgeInv, LogInv, DeliveryInv,
         BodyInv, InFilter, BeforeToken
<1>5. Knows(c, f, req[r]) /\ Names(c, req[r])
  BY <1>1 DEF SameFindings, Knows, Names
<1>6. KnowledgeInv(r)'
  BY <1>1, <1>3, <1>4, <1>5 DEF KnowledgeInv
<1>7. DecisionInv(r)'
  BY <1>1, <1>3 DEF DecisionInv, Knows
<1>8. StageInv(r)'
  BY <1>1, <1>3, <1>4 DEF StageInv, InFilter, BeforeToken
<1>9. BodyInv(r)'
  BY <1>1, <1>3, <1>4 DEF BodyInv
<1>10. DeliveryInv(r)'
  BY <1>3, <1>4 DEF DeliveryInv, InFilter, BeforeToken, RequestInv
<1>11. LogInv(r)'
  BY <1>3, <1>4 DEF LogInv
<1> QED
  BY <1>3, <1>6, <1>7, <1>8, <1>9, <1>10, <1>11 DEF RequestInv

\* request_filter lets the request through, by forwarding or by the bypass.
LEMMA Passes ==
  ASSUME TypeOK, NEW r \in Request, RequestInv(r), stage[r] \in InFilter,
         NEW c \in Context, NEW f \in SUBSET Fact,
         FilterStep(r, "upstream", c, f, size[r], buffered[r]),
         admitted' \subseteq Token,
         SameFindings(c, ctx[r]), c.reason = ctx[r].reason,
         Knows(ctx[r], f, req[r]),
         \/ /\ c.action = "Forward" /\ c.status = "Verified" /\ "nonce" \in f
            /\ bindingOf[req[r].token] = "Bound" => "hash" \in f
            /\ config.machine = "required" => "machine" \in f
            /\ config.machine = "optional" /\ req[r].machine # "absent" =>
                 "machine" \in f
         \/ c.action = "Bypass" /\ c.status = "Bypassed" /\ f = {} /\ Exempt(r)
  PROVE  TypeOK' /\ OnlyOf(r) /\ RequestInv(r)'
<1>1. /\ TypeOK' /\ OnlyOf(r)
      /\ stage'[r] = "upstream" /\ ctx'[r] = c /\ facts'[r] = f
      /\ size'[r] = size[r] /\ buffered'[r] = buffered[r]
      /\ req'[r] = req[r] /\ delivered'[r] = delivered[r]
      /\ failure'[r] = failure[r] /\ log'[r] = log[r] /\ config' = config
  <2>1. size[r] \in Nat /\ buffered[r] \in Nat /\ "upstream" \in Stages
    BY DEF TypeOK, Stages
  <2>2. /\ TypeOK' /\ OnlyOf(r)
        /\ stage'[r] = "upstream" /\ ctx'[r] = c /\ facts'[r] = f
        /\ size'[r] = size[r] /\ buffered'[r] = buffered[r]
        /\ req'[r] = req[r] /\ delivered'[r] = delivered[r]
        /\ failure'[r] = failure[r] /\ log'[r] = log[r]
    BY <2>1, FilterStepType, SMTT(30)
  <2> QED
    BY <2>2 DEF OnlyOf
<1>2. /\ ctx[r].action = "none" /\ failure[r] = "none" /\ log[r] = NoRecord
      /\ ctx[r].reason = "none" /\ req[r] \in Inputs
      /\ delivered[r] \in Nat /\ ~(delivered[r] > 0)
      /\ buffered[r] = size[r] /\ size[r] <= BOUND_BODY_MAX
      /\ Names(ctx[r], req[r])
  BY DEF RequestInv, StageInv, DecisionInv, KnowledgeInv, LogInv, DeliveryInv,
         BodyInv, InFilter, BeforeToken, TypeOK
<1>3. Knows(c, f, req[r]) /\ Names(c, req[r])
  BY <1>2 DEF SameFindings, Knows, Names
<1>4. KnowledgeInv(r)'
  BY <1>1, <1>2, <1>3 DEF KnowledgeInv, Explains
<1>5. DecisionInv(r)'
  BY <1>1, <1>2 DEF DecisionInv, Exempt
<1>6. StageInv(r)'
  BY <1>1, <1>2 DEF StageInv, InFilter, BeforeToken, MachinePassed, HashPassed
<1>7. BodyInv(r)' /\ DeliveryInv(r)'
  BY <1>1, <1>2 DEF BodyInv, DeliveryInv
<1>8. LogInv(r)'
  BY <1>1, <1>2 DEF LogInv
<1> QED
  BY <1>1, <1>4, <1>5, <1>6, <1>7, <1>8 DEF RequestInv

\* What every action of one request shows.  A token that is committed was not
\* committed before, and nothing else adds a nonce to what was established.
GateStep(r) ==
  \/ /\ admitted' = admitted
     /\ "nonce" \in facts'[r] => "nonce" \in facts[r] /\ req'[r] = req[r]
  \/ /\ req[r].token \notin admitted
     /\ admitted' = admitted \cup {req[r].token}
     /\ req'[r] = req[r]

Keeps(r) == TypeOK' /\ OnlyOf(r) /\ RequestInv(r)' /\ GateStep(r)

LEMMA ArriveKeeps ==
  ASSUME TypeOK, NEW r \in Request, RequestInv(r), NEW i \in Inputs,
         Arrive(r, i)
  PROVE  Keeps(r)
<1> DEFINE c == MachineCertPresented(NewContext, i.machine)
<1>1. /\ c \in Context /\ c.action = "none" /\ c.reason = "none"
      /\ c.status = "NotEvaluated" /\ ~c.token_verified /\ c.binding = "none"
      /\ c.machine # "Verified" /\ ~c.subject_dn /\ ~c.hostname
      /\ ~c.chain_verified /\ (c.presented = "cert" <=> i.machine = "cert")
  <2>1. config \in Configs
    BY DEF TypeOK
  <2> QED
    BY <2>1, NewContextFields, PresentedFields DEF SameDecision
<1>2. GoOn(r, c, "limit")
  BY DEF Arrive
<1> HIDE DEF c
<1>3. /\ OnlyOf(r) /\ config' = config /\ admitted' = admitted
      /\ stage'[r] = "limit" /\ ctx'[r] = c /\ req'[r] = i
      /\ size'[r] = size[r] /\ buffered'[r] = buffered[r]
      /\ facts'[r] = facts[r] /\ delivered'[r] = delivered[r]
      /\ failure'[r] = failure[r] /\ log'[r] = log[r] /\ stage[r] = "idle"
  BY <1>2 DEF TypeOK, GoOn, Arrive, OnlyOf, Quiet
<1>4. TypeOK'
  BY <1>1, <1>2 DEF TypeOK, GoOn, Arrive, Quiet
<1>5. /\ facts[r] = {} /\ ctx[r].action = "none" /\ failure[r] = "none"
      /\ log[r] = NoRecord /\ delivered[r] \in Nat /\ ~(delivered[r] > 0)
      /\ buffered[r] = size[r] /\ size[r] <= BOUND_BODY_MAX
  BY <1>3 DEF RequestInv, StageInv, LogInv, DeliveryInv, BodyInv, TypeOK
<1>6. KnowledgeInv(r)'
  BY <1>1, <1>3, <1>5 DEF KnowledgeInv, Knows, Names, Explains
<1>7. DecisionInv(r)' /\ StageInv(r)'
  BY <1>1, <1>3, <1>5 DEF DecisionInv, StageInv, InFilter, BeforeToken
<1>8. BodyInv(r)' /\ DeliveryInv(r)' /\ LogInv(r)'
  BY <1>1, <1>3, <1>5 DEF BodyInv, DeliveryInv, LogInv
<1> QED
  BY <1>3, <1>4, <1>5, <1>6, <1>7, <1>8 DEF Keeps, RequestInv, GateStep

LEMMA EarlyFailureKeeps ==
  ASSUME TypeOK, NEW r \in Request, RequestInv(r), NEW i \in Inputs,
         EarlyFailure(r, i)
  PROVE  Keeps(r)
<1> DEFINE c == NewContext
<1>1. /\ c \in Context /\ c.action = "none" /\ c.reason = "none"
      /\ c.status = "NotEvaluated" /\ ~c.token_verified /\ c.binding = "none"
      /\ c.machine # "Verified" /\ ~c.hostname /\ ~c.chain_verified
  <2>1. config \in Configs
    BY DEF TypeOK
  <2> QED
    BY <2>1, NewContextFields
<1>2. GoOn(r, c, "ended")
  BY DEF EarlyFailure
<1> HIDE DEF c
<1>3. /\ OnlyOf(r) /\ config' = config /\ admitted' = admitted
      /\ stage'[r] = "ended" /\ ctx'[r] = c /\ req'[r] = i
      /\ size'[r] = size[r] /\ buffered'[r] = buffered[r]
      /\ facts'[r] = facts[r] /\ delivered'[r] = delivered[r]
      /\ failure'[r] = "InternalError" /\ log'[r] = log[r]
      /\ stage[r] = "idle"
  BY <1>2 DEF TypeOK, GoOn, EarlyFailure, OnlyOf, Quiet
<1>4. TypeOK'
  <2>1. "InternalError" \in Reason
    BY ExchangeReasons DEF ExchangeErrors
  <2> QED
    BY <2>1, <1>1, <1>2 DEF TypeOK, GoOn, EarlyFailure, Quiet
<1>5. /\ facts[r] = {} /\ log[r] = NoRecord /\ ctx[r].action = "none"
      /\ delivered[r] \in Nat /\ ~(delivered[r] > 0)
      /\ buffered[r] = size[r] /\ size[r] <= BOUND_BODY_MAX
  BY <1>3 DEF RequestInv, StageInv, LogInv, DeliveryInv, BodyInv, TypeOK
<1>6. KnowledgeInv(r)'
  BY <1>1, <1>3, <1>5 DEF KnowledgeInv, Knows, Explains, InFilter, BeforeToken
<1>7. DecisionInv(r)' /\ StageInv(r)'
  BY <1>1, <1>3, <1>5
     DEF DecisionInv, StageInv, InFilter, BeforeToken, ExchangeErrors
<1>8. BodyInv(r)' /\ DeliveryInv(r)' /\ LogInv(r)'
  BY <1>1, <1>3, <1>5 DEF BodyInv, DeliveryInv, LogInv
<1> QED
  BY <1>3, <1>4, <1>5, <1>6, <1>7, <1>8 DEF Keeps, RequestInv, GateStep

-----------------------------------------------------------------------------
(* request_filter, stage by stage.                                         *)

LEMMA FilterState ==
  ASSUME TypeOK, NEW r \in Request, RequestInv(r), stage[r] \in InFilter
  PROVE  /\ ctx[r] \in Context /\ facts[r] \in SUBSET Fact /\ req[r] \in Inputs
         /\ Knows(ctx[r], facts[r], req[r]) /\ Names(ctx[r], req[r])
         /\ ctx[r].action = "none" /\ "nonce" \notin facts[r]
         /\ size[r] \in Nat /\ buffered[r] = size[r] /\ size[r] <= BOUND_BODY_MAX
         /\ stage[r] \in BeforeToken => facts[r] = {}
         /\ stage[r] \notin BeforeToken => "token" \in facts[r]
         /\ SameDecision(ctx[r], ctx[r])
         /\ config \in Configs /\ admitted \subseteq Token
BY DEF RequestInv, KnowledgeInv, DecisionInv, StageInv, BodyInv, TypeOK,
       InFilter, BeforeToken, SameDecision

\* A step that leaves the session alone.
LEMMA SessionKept ==
  ASSUME TypeOK, NEW r \in Request, NEW c, NEW next, NEW f,
         GoOn(r, c, next), facts' = [facts EXCEPT ![r] = f],
         UNCHANGED <<config, session, delivered, failure, log>>
  PROVE  FilterStep(r, next, c, f, size[r], buffered[r])
<1>1. size \in [Request -> Nat] /\ buffered \in [Request -> Nat]
  BY DEF TypeOK
<1>2. /\ size' = [size EXCEPT ![r] = size[r]]
      /\ buffered' = [buffered EXCEPT ![r] = buffered[r]]
  BY <1>1, SameAt DEF session
<1> QED
  BY <1>2 DEF FilterStep, session

LEMMA FactsKept ==
  ASSUME TypeOK, NEW r \in Request
  PROVE  facts = [facts EXCEPT ![r] = facts[r]]
<1>1. facts \in [Request -> SUBSET Fact]
  BY DEF TypeOK
<1> QED
  BY <1>1, SameAt

LEMMA RateLimitKeeps ==
  ASSUME TypeOK, NEW r \in Request, RequestInv(r), NEW admit \in BOOLEAN,
         RateLimit(r, admit)
  PROVE  Keeps(r)
<1>1. stage[r] = "limit" /\ stage[r] \in InFilter /\ stage[r] \in BeforeToken
  BY DEF RateLimit, InFilter, BeforeToken
<1>2. admitted' = admitted /\ facts' = facts /\ req' = req
  BY DEF RateLimit, Quiet, session
<1>3. facts' = [facts EXCEPT ![r] = facts[r]]
  BY <1>2, FactsKept
<1>4. CASE admit
  <2>1. FilterStep(r, "bypass", ctx[r], facts[r], size[r], buffered[r])
    BY <1>3, <1>4, SessionKept DEF RateLimit
  <2> QED
    BY <1>1, <1>2, <2>1, FilterState, Continues
       DEF Keeps, GateStep, InFilter, BeforeToken
<1>5. CASE ~admit
  <2>1. FilterStep(r, "ended", Reject(ctx[r], "RateLimited"), facts[r],
                   size[r], buffered[r])
    BY <1>3, <1>5, SessionKept DEF RateLimit, Refuse
  <2>2. Explains("RateLimited", facts[r], req[r])
    BY DEF Explains
  <2> QED
    BY <1>1, <1>2, <2>1, <2>2, FilterState, FilterReasons, Refuses
       DEF Keeps, GateStep
<1> QED
  BY <1>4, <1>5

LEMMA CheckBypassKeeps ==
  ASSUME TypeOK, NEW r \in Request, RequestInv(r), CheckBypass(r)
  PROVE  Keeps(r)
<1>1. stage[r] = "bypass" /\ stage[r] \in InFilter /\ stage[r] \in BeforeToken
  BY DEF CheckBypass, InFilter, BeforeToken
<1>2. admitted' = admitted /\ facts' = facts /\ req' = req
  BY DEF CheckBypass, Quiet, session
<1>3. facts' = [facts EXCEPT ![r] = facts[r]]
  BY <1>2, FactsKept
<1>4. CASE Exempt(r)
  <2>1. FilterStep(r, "upstream", Bypass(ctx[r]), facts[r], size[r], buffered[r])
    BY <1>3, <1>4, SessionKept DEF CheckBypass, Exempt
  <2> QED
    BY <1>1, <1>2, <1>4, <2>1, FilterState, BypassFields, Passes
       DEF Keeps, GateStep
<1>5. CASE ~Exempt(r)
  <2>1. FilterStep(r, "headers", ctx[r], facts[r], size[r], buffered[r])
    BY <1>3, <1>5, SessionKept DEF CheckBypass, Exempt
  <2> QED
    BY <1>1, <1>2, <2>1, FilterState, Continues
       DEF Keeps, GateStep, InFilter, BeforeToken
<1> QED
  BY <1>4, <1>5

LEMMA CheckHeadersKeeps ==
  ASSUME TypeOK, NEW r \in Request, RequestInv(r), CheckHeaders(r)
  PROVE  Keeps(r)
<1>1. stage[r] = "headers" /\ stage[r] \in InFilter /\ stage[r] \in BeforeToken
  BY DEF CheckHeaders, InFilter, BeforeToken
<1>2. admitted' = admitted /\ facts' = facts /\ req' = req
  BY DEF CheckHeaders, Quiet, session
<1>3. facts' = [facts EXCEPT ![r] = facts[r]]
  BY <1>2, FactsKept
<1>4. CASE req[r].sent = "all" /\ req[r].host
  <2>1. FilterStep(r, "preflight", ctx[r], facts[r], size[r], buffered[r])
    BY <1>3, <1>4, SessionKept DEF CheckHeaders
  <2> QED
    BY <1>1, <1>2, <2>1, FilterState, Continues
       DEF Keeps, GateStep, InFilter, BeforeToken
<1>5. CASE ~(req[r].sent = "all" /\ req[r].host)
  <2> DEFINE reason ==
        IF req[r].sent = "none" /\ req[r].machine = "absent"
        THEN "NoAttestationHeaders" ELSE "IncompleteAttestationHeaders"
  <2>1. FilterStep(r, "ended", Reject(ctx[r], reason), facts[r],
                   size[r], buffered[r])
    BY <1>3, <1>5, SessionKept DEF CheckHeaders, Refuse
  <2>2. Explains(reason, facts[r], req[r]) /\ reason # "RateLimited"
    BY DEF Explains
  <2>3. reason \in Refusals
    BY FilterReasons
  <2> HIDE DEF reason
  <2> QED
    BY <1>1, <1>2, <2>1, <2>2, <2>3, FilterState, Refuses DEF Keeps, GateStep
<1> QED
  BY <1>4, <1>5

\* A rejected machine certificate: only one that chained counts as a fact.
LEMMA MachineRefuses ==
  ASSUME TypeOK, NEW r \in Request, RequestInv(r), stage[r] \in InFilter,
         "machine" \notin facts[r], "chain" \notin facts[r],
         NEW e \in DOMAIN MachineReason, NEW f,
         f = facts[r] \cup (IF ChainVerified(e) THEN {"chain"} ELSE {}),
         ChainVerified(e) => "token" \in facts[r] /\ req[r].machine = "cert",
         GoOn(r, MachineRejected(ctx[r], e), "ended"),
         facts' = [facts EXCEPT ![r] = f],
         admitted' = admitted, UNCHANGED <<config, session, delivered, failure, log>>
  PROVE  Keeps(r)
<1> DEFINE d == MachineFailed(ctx[r], e)
           reason == MachineReason[e]
<1>1. /\ d \in Context /\ d.machine = "Failed"
      /\ d.chain_verified <=> ChainVerified(e)
      /\ d.token_verified = ctx[r].token_verified /\ d.binding = ctx[r].binding
      /\ d.presented = ctx[r].presented /\ d.subject_dn = ctx[r].subject_dn
      /\ d.hostname = ctx[r].hostname
      /\ MachineRejected(ctx[r], e) = Reject(d, reason)
  BY FilterState, MachineFailedFields
<1>2. /\ reason \in Refusals /\ reason # "RateLimited"
      /\ Explains(reason, f, req[r])
  BY MachineReasons DEF Explains
<1>3. FilterStep(r, "ended", Reject(d, reason), f, size[r], buffered[r])
  BY <1>1, SessionKept
<1> HIDE DEF d, reason
<1>4. /\ f \in SUBSET Fact /\ "nonce" \notin f
      /\ Knows(d, f, req[r]) /\ Names(d, req[r])
  BY <1>1, FilterState DEF Knows, Names, Fact
<1>5. TypeOK' /\ OnlyOf(r) /\ RequestInv(r)'
  BY <1>1, <1>2, <1>3, <1>4, FilterState, Refuses
<1>6. facts'[r] = f
  BY DEF TypeOK
<1> QED
  BY <1>4, <1>5, <1>6 DEF Keeps, GateStep

LEMMA MachinePreflightKeeps ==
  ASSUME TypeOK, NEW r \in Request, RequestInv(r), MachinePreflight(r)
  PROVE  Keeps(r)
<1>1. stage[r] = "preflight" /\ stage[r] \in InFilter /\ stage[r] \in BeforeToken
  BY DEF MachinePreflight, InFilter, BeforeToken
<1>2. admitted' = admitted /\ facts' = facts /\ req' = req /\ facts[r] = {}
  BY <1>1, FilterState DEF MachinePreflight, Quiet, session
<1>3. facts' = [facts EXCEPT ![r] = facts[r]]
  BY <1>2, FactsKept
<1> DEFINE missing == config.machine # "disabled" /\ req[r].machine = "absent"
<1>4. CASE missing /\ config.machine = "required"
  <2>1. "Missing" \in DOMAIN MachineReason /\ ~ChainVerified("Missing")
    BY DEF MachineReason, ChainVerified
  <2>2. /\ GoOn(r, MachineRejected(ctx[r], "Missing"), "ended")
        /\ UNCHANGED <<config, session, delivered, failure, log>>
    BY <1>4 DEF MachinePreflight, Refuse
  <2>3. facts[r] = facts[r] \cup (IF ChainVerified("Missing") THEN {"chain"} ELSE {})
    BY <2>1
  <2> QED
    BY <1>1, <1>2, <1>3, <2>1, <2>2, <2>3, MachineRefuses
<1>5. CASE ~(missing /\ config.machine = "required")
  <2> DEFINE c == IF missing THEN MachineAbsent(ctx[r]) ELSE ctx[r]
  <2>1. FilterStep(r, "phase1", c, facts[r], size[r], buffered[r])
    BY <1>3, <1>5, SessionKept DEF MachinePreflight
  <2>2. /\ c \in Context /\ SameDecision(c, ctx[r])
        /\ Knows(c, facts[r], req[r]) /\ Names(c, req[r])
    BY <1>1, <1>2, FilterState, MachineAbsentFields DEF Knows, Names
  <2>3. config.machine = "required" => req[r].machine # "absent"
    BY <1>5
  <2> HIDE DEF c
  <2> QED
    BY <1>1, <1>2, <2>1, <2>2, <2>3, FilterState, Continues
       DEF Keeps, GateStep, InFilter, BeforeToken
<1> QED
  BY <1>4, <1>5

\* The verifier refuses the token with v, in either phase.
LEMMA VerifierRefuses ==
  ASSUME TypeOK, NEW r \in Request, RequestInv(r), stage[r] \in InFilter,
         NEW v \in (Phase1Results \cup CommitResults \cup {"BodyHashMismatch"})
                     \ {"Ok"},
         NEW f \in SUBSET Fact, "nonce" \notin f, Knows(ctx[r], f, req[r]),
         v \in {"PlaintextMismatch", "BodyHashMismatch"} => "decrypted" \in f,
         Refuse(r, Reject(ctx[r], AttestReason[v])),
         facts' = [facts EXCEPT ![r] = f],
         admitted' = admitted, UNCHANGED <<config, session, delivered, failure, log>>
  PROVE  Keeps(r)
<1> DEFINE reason == AttestReason[v]
<1>1. /\ reason \in Refusals /\ reason # "RateLimited"
      /\ Explains(reason, f, req[r])
  BY AttestReasons DEF Explains
<1>2. FilterStep(r, "ended", Reject(ctx[r], reason), f, size[r], buffered[r])
  BY SessionKept DEF Refuse
<1> HIDE DEF reason
<1>3. TypeOK' /\ OnlyOf(r) /\ RequestInv(r)'
  BY <1>1, <1>2, FilterState, Refuses
<1>4. facts'[r] = f
  BY DEF TypeOK
<1> QED
  BY <1>3, <1>4 DEF Keeps, GateStep

LEMMA VerifyHeadersKeeps ==
  ASSUME TypeOK, NEW r \in Request, RequestInv(r), NEW v \in Phase1Results,
         VerifyHeaders(r, v)
  PROVE  Keeps(r)
<1>1. stage[r] = "phase1" /\ stage[r] \in InFilter /\ stage[r] \in BeforeToken
  BY DEF VerifyHeaders, InFilter, BeforeToken
<1>2. facts[r] = {} /\ UNCHANGED <<config, session, delivered, failure, log>>
  BY <1>1, FilterState DEF VerifyHeaders
<1>3. CASE v = "Ok"
  <2> DEFINE b == bindingOf[req[r].token]
             c == TokenVerified(ctx[r], b)
             f == {"decrypted", "token"}
  <2>1. b \in Binding
    BY <1>1, FilterState, BufferAssumption DEF Inputs, Binding
  <2>2. GoOn(r, c, "machine") /\ facts' = [facts EXCEPT ![r] = f]
        /\ admitted' = admitted
    BY <1>2, <1>3 DEF VerifyHeaders, Establish, Quiet
  <2>3. FilterStep(r, "machine", c, f, size[r], buffered[r])
    BY <1>2, <2>2, SessionKept
  <2>4. /\ c \in Context /\ SameDecision(c, ctx[r])
        /\ Knows(c, f, req[r]) /\ Names(c, req[r])
    BY <1>1, <1>2, <2>1, FilterState, TokenVerifiedFields
       DEF Knows, Names, Binding
  <2>5. config.machine = "required" => req[r].machine # "absent"
    BY <1>1 DEF RequestInv, StageInv
  <2> HIDE DEF c
  <2>6. TypeOK' /\ OnlyOf(r) /\ RequestInv(r)'
    <3>1. /\ f \in SUBSET Fact
          /\ "nonce" \notin f /\ "chain" \notin f /\ "token" \in f
      BY DEF Fact
    <3>2. "machine" \in InFilter /\ "machine" \notin BeforeToken
      BY DEF InFilter, BeforeToken
    <3> HIDE DEF f
    <3> QED
      BY <1>1, <2>2, <2>3, <2>4, <2>5, <3>1, <3>2, FilterState, Continues
  <2>7. facts'[r] = f
    BY <2>2 DEF TypeOK
  <2> QED
    BY <2>2, <2>6, <2>7 DEF Keeps, GateStep
<1>4. CASE v # "Ok"
  <2> DEFINE f == IF v = "PlaintextMismatch" THEN {"decrypted"} ELSE {}
  <2>1. /\ Refuse(r, Reject(ctx[r], AttestReason[v]))
        /\ facts' = [facts EXCEPT ![r] = f] /\ admitted' = admitted
    BY <1>2, <1>4 DEF VerifyHeaders, Establish, Verifier!Refuse
  <2>2. f \in SUBSET Fact /\ "nonce" \notin f /\ Knows(ctx[r], f, req[r])
    BY <1>1, <1>2, FilterState DEF Fact, Knows
  <2>3. v \in {"PlaintextMismatch", "BodyHashMismatch"} => "decrypted" \in f
    BY DEF Phase1Results
  <2> HIDE DEF f
  <2> QED
    BY <1>1, <1>2, <1>4, <2>1, <2>2, <2>3, VerifierRefuses
<1> QED
  BY <1>3, <1>4

LEMMA VerifyMachineKeeps ==
  ASSUME TypeOK, NEW r \in Request, RequestInv(r), VerifyMachine(r)
  PROVE  Keeps(r)
<1>1. stage[r] = "machine" /\ stage[r] \in InFilter /\ stage[r] \notin BeforeToken
  BY DEF VerifyMachine, InFilter, BeforeToken
<1>2. /\ admitted' = admitted
      /\ UNCHANGED <<config, session, delivered, failure, log>>
      /\ "token" \in facts[r] /\ req[r] \in Inputs /\ config \in Configs
      /\ config.machine = "required" => req[r].machine # "absent"
  BY <1>1, FilterState DEF VerifyMachine, Quiet, RequestInv, StageInv
<1>3. AfterMachine(r) \in {"body", "commit"} /\ AfterMachine(r) \in InFilter
      /\ AfterMachine(r) \notin BeforeToken
  BY DEF AfterMachine, InFilter, BeforeToken
<1>4. CASE config.machine = "disabled" \/ req[r].machine = "absent"
  <2>1. GoOn(r, ctx[r], AfterMachine(r)) /\ facts' = facts /\ req' = req
    BY <1>4, <1>2 DEF VerifyMachine, session
  <2>2. FilterStep(r, AfterMachine(r), ctx[r], facts[r], size[r], buffered[r])
    BY <1>2, <2>1, FactsKept, SessionKept
  <2>3. /\ config.machine # "required"
        /\ config.machine = "optional" => req[r].machine = "absent"
    BY <1>2, <1>4 DEF Configs
  <2>4. TypeOK' /\ OnlyOf(r) /\ RequestInv(r)'
    BY <1>1, <1>2, <1>3, <2>2, <2>3, FilterState, Continues
  <2> QED
    BY <1>2, <2>1, <2>4 DEF Keeps, GateStep
<1>5. CASE ~(config.machine = "disabled" \/ req[r].machine = "absent")
  <2>1. PICK v \in MachineResults(r) :
       \/ /\ v = "Verified"
          /\ GoOn(r, MachineVerified(ctx[r]), AfterMachine(r))
          /\ Establish(r, {"chain", "machine"})
       \/ /\ v # "Verified"
          /\ Refuse(r, MachineRejected(ctx[r], v))
          /\ Establish(r, IF v \in {"HostnameAddressMismatch",
                                    "HostnameUnresolvable"}
                          THEN {"chain"} ELSE {})
    BY <1>5 DEF VerifyMachine
  <2>2. /\ v \in {"Verified", "HostnameAddressMismatch", "HostnameUnresolvable"}
             => req[r].machine = "cert"
        /\ v # "Verified" => v \in DOMAIN MachineReason
    <3>1. {"NotBase64", "NotDer", "NoClientAddress"} \subseteq DOMAIN MachineReason
      BY DEF MachineReason
    <3>2. req[r].machine \in {"cert", "garbage", "unreadable"} /\ req[r].ip \in BOOLEAN
      BY <1>2, <1>5 DEF Inputs
    <3> QED
      BY <2>1, <3>1, <3>2 DEF MachineResults
  <2>3. CASE v = "Verified"
    <3> DEFINE f == facts[r] \cup {"chain", "machine"}
               c == MachineVerified(ctx[r])
    <3>1. GoOn(r, c, AfterMachine(r)) /\ facts' = [facts EXCEPT ![r] = f]
      BY <2>1, <2>3 DEF Establish
    <3>2. FilterStep(r, AfterMachine(r), c, f, size[r], buffered[r])
      BY <1>2, <3>1, SessionKept
    <3>3. /\ c \in Context /\ SameDecision(c, ctx[r])
          /\ Knows(c, f, req[r]) /\ Names(c, req[r])
      BY <1>1, <1>2, <2>2, <2>3, FilterState, MachineVerifiedFields
         DEF Knows, Names
    <3>4. /\ f \in SUBSET Fact /\ "nonce" \notin f
          /\ "token" \in f /\ "machine" \in f
      BY <1>1, <1>2, FilterState DEF Fact
    <3>5. facts'[r] = f
      BY <3>1 DEF TypeOK
    <3> HIDE DEF c, f
    <3>6. TypeOK' /\ OnlyOf(r) /\ RequestInv(r)'
      BY <1>1, <1>2, <1>3, <3>2, <3>3, <3>4, FilterState, Continues
    <3> QED
      BY <1>2, <3>4, <3>5, <3>6 DEF Keeps, GateStep
  <2>4. CASE v # "Verified"
    <3> DEFINE f == facts[r] \cup (IF ChainVerified(v) THEN {"chain"} ELSE {})
    <3>1. /\ GoOn(r, MachineRejected(ctx[r], v), "ended")
          /\ facts' = [facts EXCEPT ![r] = f]
      BY <2>1, <2>4 DEF Establish, Refuse, ChainVerified
    <3>2. ChainVerified(v) => "token" \in facts[r] /\ req[r].machine = "cert"
      BY <1>2, <2>2 DEF ChainVerified
    <3>3. "machine" \notin facts[r] /\ "chain" \notin facts[r]
      BY <1>1, FilterState DEF RequestInv, StageInv, Knows
    <3> QED
      BY <1>1, <1>2, <2>2, <2>4, <3>1, <3>2, <3>3, MachineRefuses
  <2> QED
    BY <2>3, <2>4
<1> QED
  BY <1>4, <1>5

\* commit_nonce, with f established if it refuses.
LEMMA CommitKeeps ==
  ASSUME TypeOK, NEW r \in Request, RequestInv(r), stage[r] = "commit",
         NEW v \in CommitResults, NEW f \in SUBSET Fact,
         f \in {facts[r], facts[r] \cup {"hash"}},
         bindingOf[req[r].token] = "Bound" => "hash" \in f,
         CommitNonce(r, v),
         facts' = [facts EXCEPT ![r] = f \cup (IF v = "Ok" THEN {"nonce"} ELSE {})],
         UNCHANGED <<config, session, delivered, failure, log>>
  PROVE  Keeps(r)
<1>1. stage[r] \in InFilter /\ stage[r] \notin BeforeToken
  BY DEF InFilter, BeforeToken
<1>2. "token" \in facts[r] /\ "nonce" \notin f /\ req[r].token \in Token
  BY <1>1, FilterState DEF Inputs
<1>3. CASE v = "Ok"
  <2> DEFINE c == Forward(ctx[r])
             g == f \cup {"nonce"}
  <2>1. /\ GoOn(r, c, "upstream") /\ facts' = [facts EXCEPT ![r] = g]
        /\ req[r].token \notin admitted
        /\ admitted' = admitted \cup {req[r].token} /\ req' = req
    BY <1>3 DEF CommitNonce, Verifier!Admit, session
  <2>2. FilterStep(r, "upstream", c, g, size[r], buffered[r])
    BY <2>1, SessionKept
  <2>3. g \in SUBSET Fact /\ "nonce" \in g /\ Knows(ctx[r], g, req[r])
    BY <1>1, <1>2, FilterState DEF Fact, Knows
  <2>4. /\ config.machine = "required" => "machine" \in g
        /\ config.machine = "optional" /\ req[r].machine # "absent" =>
             "machine" \in g
    BY DEF RequestInv, StageInv, MachinePassed
  <2>5. admitted' \subseteq Token
    BY <1>1, <1>2, <2>1, FilterState
  <2>6. /\ c \in Context /\ SameFindings(c, ctx[r]) /\ c.reason = ctx[r].reason
        /\ c.action = "Forward" /\ c.status = "Verified"
    BY <1>1, FilterState, ForwardFields
  <2>7. bindingOf[req[r].token] = "Bound" => "hash" \in g
    OBVIOUS
  <2> HIDE DEF c, g
  <2>8. TypeOK' /\ OnlyOf(r) /\ RequestInv(r)'
    BY <1>1, <2>2, <2>3, <2>4, <2>5, <2>6, <2>7, Passes
  <2> QED
    BY <2>1, <2>8 DEF Keeps, GateStep
<1>4. CASE v # "Ok"
  <2>1. /\ Refuse(r, Reject(ctx[r], AttestReason[v])) /\ admitted' = admitted
        /\ facts' = [facts EXCEPT ![r] = f]
    BY <1>4 DEF CommitNonce, Verifier!Refuse
  <2>2. Knows(ctx[r], f, req[r])
    BY <1>1, <1>2, FilterState DEF Knows
  <2>3. v \notin {"PlaintextMismatch", "BodyHashMismatch"}
    BY DEF CommitResults
  <2> QED
    BY <1>1, <1>2, <1>4, <2>1, <2>2, <2>3, VerifierRefuses
<1> QED
  BY <1>3, <1>4

LEMMA CommitUnboundKeeps ==
  ASSUME TypeOK, NEW r \in Request, RequestInv(r), NEW v \in CommitResults,
         CommitUnbound(r, v)
  PROVE  Keeps(r)
<1>1. /\ stage[r] = "commit" /\ bindingOf[req[r].token] # "Bound"
      /\ CommitNonce(r, v)
      /\ facts' = [facts EXCEPT ![r] =
                     facts[r] \cup (IF v = "Ok" THEN {"nonce"} ELSE {})]
      /\ UNCHANGED <<config, session, delivered, failure, log>>
  BY DEF CommitUnbound, Establish
<1>2. facts[r] \in SUBSET Fact
  BY DEF TypeOK
<1> QED
  BY <1>1, <1>2, CommitKeeps

LEMMA VerifyBodyAndCommitKeeps ==
  ASSUME TypeOK, NEW r \in Request, RequestInv(r),
         NEW v \in CommitResults \cup {"BodyHashMismatch"},
         VerifyBodyAndCommit(r, v)
  PROVE  Keeps(r)
<1>1. /\ stage[r] = "commit" /\ stage[r] \in InFilter
      /\ stage[r] \notin BeforeToken /\ facts[r] \in SUBSET Fact
      /\ UNCHANGED <<config, session, delivered, failure, log>>
  BY DEF VerifyBodyAndCommit, InFilter, BeforeToken, TypeOK
<1>2. CASE v = "BodyHashMismatch"
  <2>1. /\ Refuse(r, Reject(ctx[r], AttestReason[v])) /\ admitted' = admitted
        /\ facts' = facts
    BY <1>2 DEF VerifyBodyAndCommit, Verifier!Refuse
  <2>2. facts' = [facts EXCEPT ![r] = facts[r]]
    BY <2>1, FactsKept
  <2>3. "decrypted" \in facts[r]
    BY <1>1, FilterState DEF Knows
  <2> QED
    BY <1>1, <1>2, <2>1, <2>2, <2>3, FilterState, VerifierRefuses
<1>3. CASE v # "BodyHashMismatch"
  <2> DEFINE f == facts[r] \cup {"hash"}
  <2>1. /\ CommitNonce(r, v)
        /\ facts' = [facts EXCEPT ![r] =
                       f \cup (IF v = "Ok" THEN {"nonce"} ELSE {})]
    <3>1. /\ CommitNonce(r, v)
          /\ facts' = [facts EXCEPT ![r] =
               facts[r] \cup (IF v = "Ok" THEN {"hash", "nonce"} ELSE {"hash"})]
      BY <1>3 DEF VerifyBodyAndCommit, Establish
    <3>2. facts[r] \cup (IF v = "Ok" THEN {"hash", "nonce"} ELSE {"hash"})
            = f \cup (IF v = "Ok" THEN {"nonce"} ELSE {})
      OBVIOUS
    <3> QED
      BY <3>1, <3>2
  <2>2. f \in SUBSET Fact /\ "hash" \in f /\ v \in CommitResults
    BY <1>1, <1>3 DEF Fact
  <2> HIDE DEF f
  <2>3. f \in {facts[r], facts[r] \cup {"hash"}}
    BY DEF f
  <2> QED
    BY <1>1, <2>1, <2>2, <2>3, CommitKeeps
<1> QED
  BY <1>2, <1>3

LEMMA ReadChunkKeeps ==
  ASSUME TypeOK, NEW r \in Request, RequestInv(r), NEW len \in Nat,
         ReadChunk(r, len)
  PROVE  Keeps(r)
<1> DEFINE n == size[r] + len
           b == IF buffered[r] = size[r] /\ n <= RetryBufferMax THEN n ELSE 0
<1>1. stage[r] = "body" /\ stage[r] \in InFilter /\ stage[r] \notin BeforeToken
  BY DEF ReadChunk, InFilter, BeforeToken
<1>2. /\ admitted' = admitted /\ facts' = facts /\ req' = req
      /\ size' = [size EXCEPT ![r] = n] /\ buffered' = [buffered EXCEPT ![r] = b]
      /\ UNCHANGED <<config, req, delivered, failure, log>>
      /\ IF n > BOUND_BODY_MAX THEN Refuse(r, Reject(ctx[r], "BodyTooLarge"))
         ELSE GoOn(r, ctx[r], "body")
  BY DEF ReadChunk, Quiet
<1>3. facts' = [facts EXCEPT ![r] = facts[r]]
  BY <1>2, FactsKept
<1>4. /\ n \in Nat /\ b \in Nat
      /\ ~(n > BOUND_BODY_MAX) => b = n /\ n <= BOUND_BODY_MAX
  BY <1>1, FilterState, BufferAssumption
<1>5. MachinePassed(r)
  BY <1>1 DEF RequestInv, StageInv
<1> HIDE DEF n, b
<1>6. CASE n > BOUND_BODY_MAX
  <2>1. FilterStep(r, "ended", Reject(ctx[r], "BodyTooLarge"), facts[r], n, b)
    BY <1>2, <1>3, <1>6 DEF FilterStep, Refuse
  <2>2. Explains("BodyTooLarge", facts[r], req[r])
    BY DEF Explains
  <2>3. "BodyTooLarge" \in Refusals
    BY FilterReasons
  <2> QED
    BY <1>1, <1>2, <1>4, <2>1, <2>2, <2>3, FilterState, Refuses
       DEF Keeps, GateStep
<1>7. CASE ~(n > BOUND_BODY_MAX)
  <2>1. FilterStep(r, "body", ctx[r], facts[r], n, b)
    BY <1>2, <1>3, <1>7 DEF FilterStep
  <2>2. TypeOK' /\ OnlyOf(r) /\ RequestInv(r)'
    BY <1>1, <1>2, <1>4, <1>5, <1>7, <2>1, FilterState, Continues
       DEF MachinePassed
  <2> QED
    BY <1>2, <2>2 DEF Keeps, GateStep
<1> QED
  BY <1>6, <1>7

LEMMA EndBodyKeeps ==
  ASSUME TypeOK, NEW r \in Request, RequestInv(r), NEW d, EndBody(r, d)
  PROVE  Keeps(r)
<1>1. stage[r] = "body" /\ stage[r] \in InFilter /\ stage[r] \notin BeforeToken
  BY DEF EndBody, InFilter, BeforeToken
<1>2. admitted' = admitted /\ facts' = facts /\ req' = req
  BY DEF EndBody, Quiet, session
<1>3. facts' = [facts EXCEPT ![r] = facts[r]]
  BY <1>2, FactsKept
<1>4. CASE d = "failed"
  <2>1. FilterStep(r, "ended", Reject(ctx[r], "BodyReadFailed"), facts[r],
                   size[r], buffered[r])
    BY <1>3, <1>4, SessionKept DEF EndBody, Refuse
  <2>2. Explains("BodyReadFailed", facts[r], req[r])
    BY DEF Explains
  <2>3. "BodyReadFailed" \in Refusals
    BY FilterReasons
  <2> QED
    BY <1>1, <1>2, <2>1, <2>2, <2>3, FilterState, Refuses DEF Keeps, GateStep
<1>5. CASE d # "failed"
  <2>1. FilterStep(r, "commit", ctx[r], facts[r], size[r], buffered[r])
    BY <1>3, <1>5, SessionKept DEF EndBody
  <2>2. MachinePassed(r)
    BY <1>1 DEF RequestInv, StageInv
  <2>3. "commit" \in InFilter /\ "commit" \notin BeforeToken
    BY DEF InFilter, BeforeToken
  <2>4. TypeOK' /\ OnlyOf(r) /\ RequestInv(r)'
    BY <1>1, <1>2, <2>1, <2>2, <2>3, FilterState, Continues DEF MachinePassed
  <2> QED
    BY <1>2, <2>4 DEF Keeps, GateStep
<1> QED
  BY <1>4, <1>5

-----------------------------------------------------------------------------
(* The exchange, and the record at its end.                                *)

\* The new values at r of what a step of the exchange may change.
ExchangeStep(r, next, k, e, l) ==
  /\ stage' = [stage EXCEPT ![r] = next]
  /\ delivered' = [delivered EXCEPT ![r] = k]
  /\ failure' = [failure EXCEPT ![r] = e]
  /\ log' = [log EXCEPT ![r] = l]
  /\ UNCHANGED <<config, session, ctx, admitted, facts>>

\* After request_filter nothing is decided, read or established any more.
LEMMA Decided ==
  ASSUME TypeOK, NEW r \in Request, RequestInv(r),
         stage[r] \in {"upstream", "exchange", "ended"},
         NEW next \in {"upstream", "exchange", "ended", "logged"},
         NEW k \in Nat, NEW e \in ExchangeErrors \cup {"none"},
         NEW l \in AuditRecord \cup {NoRecord},
         l # NoRecord => l.context.action # "none",
         ExchangeStep(r, next, k, e, l)
  PROVE  /\ TypeOK' /\ OnlyOf(r) /\ GateStep(r)
         /\ KnowledgeInv(r)' /\ DecisionInv(r)' /\ BodyInv(r)'
         /\ stage'[r] = next /\ delivered'[r] = k /\ failure'[r] = e
         /\ log'[r] = l /\ ctx'[r] = ctx[r] /\ facts'[r] = facts[r]
         /\ req'[r] = req[r] /\ config' = config
<1>1. /\ req' = req /\ size' = size /\ buffered' = buffered /\ ctx' = ctx
      /\ facts' = facts /\ admitted' = admitted /\ config' = config
  BY DEF session, ExchangeStep
<1>2. e \in Reason \cup {"none"}
  BY ExchangeReasons
<1>3. TypeOK'
  BY <1>1, <1>2 DEF TypeOK, ExchangeStep
<1>4. OnlyOf(r) /\ GateStep(r)
  BY <1>1 DEF TypeOK, OnlyOf, GateStep, ExchangeStep
<1>5. stage'[r] = next /\ delivered'[r] = k /\ failure'[r] = e /\ log'[r] = l
  BY DEF TypeOK, ExchangeStep
<1>6. KnowledgeInv(r)'
  BY <1>1, <1>5 DEF RequestInv, KnowledgeInv, InFilter, BeforeToken
<1>7. DecisionInv(r)' /\ BodyInv(r)'
  BY <1>1 DEF RequestInv, DecisionInv, BodyInv, Exempt
<1> QED
  BY <1>1, <1>3, <1>4, <1>5, <1>6, <1>7

LEMMA ExchangeKept ==
  ASSUME TypeOK, NEW r \in Request
  PROVE  /\ delivered = [delivered EXCEPT ![r] = delivered[r]]
         /\ failure = [failure EXCEPT ![r] = failure[r]]
         /\ log = [log EXCEPT ![r] = log[r]]
         /\ delivered[r] \in Nat /\ log[r] \in AuditRecord \cup {NoRecord}
<1>1. /\ delivered \in [Request -> Nat]
      /\ failure \in [Request -> Reason \cup {"none"}]
      /\ log \in [Request -> AuditRecord \cup {NoRecord}]
  BY DEF TypeOK
<1>2. delivered = [delivered EXCEPT ![r] = delivered[r]]
  BY <1>1, SameAt
<1>3. failure = [failure EXCEPT ![r] = failure[r]]
  BY <1>1, SameAt
<1>4. log = [log EXCEPT ![r] = log[r]]
  BY <1>1, SameAt
<1> QED
  BY <1>1, <1>2, <1>3, <1>4

LEMMA SendFailsKeeps ==
  ASSUME TypeOK, NEW r \in Request, RequestInv(r), NEW e, SendFails(r, e)
  PROVE  Keeps(r)
<1>1. /\ stage[r] = "upstream" /\ e \in ExchangeErrors /\ e # "none"
      /\ stage' = [stage EXCEPT ![r] = "ended"]
      /\ failure' = [failure EXCEPT ![r] = e]
      /\ UNCHANGED <<config, session, ctx, admitted, facts>>
      /\ delivered' = delivered /\ log' = log
  BY DEF SendFails, Ends, Quiet, ExchangeErrors
<1>2. /\ ExchangeStep(r, "ended", delivered[r], e, log[r])
      /\ delivered[r] \in Nat /\ log[r] \in AuditRecord \cup {NoRecord}
  BY <1>1, ExchangeKept DEF ExchangeStep
<1>3. log[r] = NoRecord /\ ctx[r].action \in {"Forward", "Bypass"}
  BY <1>1 DEF RequestInv, LogInv, StageInv
<1>4. /\ TypeOK' /\ OnlyOf(r) /\ GateStep(r)
      /\ KnowledgeInv(r)' /\ DecisionInv(r)' /\ BodyInv(r)'
      /\ stage'[r] = "ended" /\ delivered'[r] = delivered[r] /\ failure'[r] = e
      /\ log'[r] = NoRecord /\ ctx'[r] = ctx[r] /\ facts'[r] = facts[r]
      /\ req'[r] = req[r] /\ config' = config
  BY <1>1, <1>2, <1>3, Decided
<1>5. StageInv(r)'
  BY <1>1, <1>3, <1>4
     DEF RequestInv, StageInv, MachinePassed, HashPassed, InFilter, BeforeToken
<1>6. DeliveryInv(r)' /\ LogInv(r)'
  BY <1>1, <1>3, <1>4 DEF RequestInv, DeliveryInv, LogInv
<1> QED
  BY <1>4, <1>5, <1>6 DEF Keeps, RequestInv

LEMMA SendKeeps ==
  ASSUME TypeOK, NEW r \in Request, RequestInv(r), Send(r)
  PROVE  Keeps(r)
<1> DEFINE k == delivered[r] + 1
<1>1. /\ stage[r] = "upstream" /\ delivered[r] \in Nat
      /\ stage' = [stage EXCEPT ![r] = "exchange"]
      /\ delivered' = [delivered EXCEPT ![r] = k] /\ k \in Nat
      /\ UNCHANGED <<config, session, ctx, admitted, facts>>
      /\ failure' = failure /\ log' = log
  BY DEF Send, Quiet, TypeOK
<1>2. /\ ExchangeStep(r, "exchange", k, failure[r], log[r])
      /\ log[r] \in AuditRecord \cup {NoRecord}
  BY <1>1, ExchangeKept DEF ExchangeStep
<1>3. /\ log[r] = NoRecord /\ failure[r] = "none"
      /\ ctx[r].action \in {"Forward", "Bypass"}
      /\ delivered[r] <= (IF req[r].idempotent THEN 1 ELSE 0)
  BY <1>1 DEF RequestInv, LogInv, StageInv, DeliveryInv
<1> HIDE DEF k
<1>4. /\ TypeOK' /\ OnlyOf(r) /\ GateStep(r)
      /\ KnowledgeInv(r)' /\ DecisionInv(r)' /\ BodyInv(r)'
      /\ stage'[r] = "exchange" /\ delivered'[r] = k
      /\ failure'[r] = "none"
      /\ log'[r] = NoRecord /\ ctx'[r] = ctx[r] /\ facts'[r] = facts[r]
      /\ req'[r] = req[r] /\ config' = config
  BY <1>1, <1>2, <1>3, Decided, SMTT(40)
<1>5. StageInv(r)'
  BY <1>1, <1>3, <1>4
     DEF k, RequestInv, StageInv, MachinePassed, HashPassed, InFilter, BeforeToken
<1>6. DeliveryInv(r)' /\ LogInv(r)'
  BY <1>1, <1>3, <1>4 DEF k, DeliveryInv, LogInv
<1> QED
  BY <1>4, <1>5, <1>6 DEF Keeps, RequestInv

LEMMA RetryKeeps ==
  ASSUME TypeOK, NEW r \in Request, RequestInv(r), Retry(r)
  PROVE  Keeps(r)
<1>1. /\ stage[r] = "exchange" /\ req[r].idempotent /\ delivered[r] = 1
      /\ stage' = [stage EXCEPT ![r] = "upstream"]
      /\ UNCHANGED <<config, session, ctx, admitted, facts>>
      /\ delivered' = delivered /\ failure' = failure /\ log' = log
  BY DEF Retry, Quiet
<1>2. /\ ExchangeStep(r, "upstream", delivered[r], failure[r], log[r])
      /\ log[r] \in AuditRecord \cup {NoRecord} /\ delivered[r] \in Nat
  BY <1>1, ExchangeKept DEF ExchangeStep
<1>3. /\ log[r] = NoRecord /\ failure[r] = "none"
      /\ ctx[r].action \in {"Forward", "Bypass"}
  BY <1>1 DEF RequestInv, LogInv, StageInv
<1>4. /\ TypeOK' /\ OnlyOf(r) /\ GateStep(r)
      /\ KnowledgeInv(r)' /\ DecisionInv(r)' /\ BodyInv(r)'
      /\ stage'[r] = "upstream" /\ delivered'[r] = delivered[r]
      /\ failure'[r] = "none"
      /\ log'[r] = NoRecord /\ ctx'[r] = ctx[r] /\ facts'[r] = facts[r]
      /\ req'[r] = req[r] /\ config' = config
  <2>1. PICK k \in Nat, l \in AuditRecord \cup {NoRecord} : k = delivered[r] /\ l = log[r]
    BY <1>2
  <2>2. ExchangeStep(r, "upstream", k, "none", l)
    BY <1>2, <1>3, <2>1, Zenon
  <2>3. l # NoRecord => l.context.action # "none"
    BY <1>3, <2>1, Zenon
  <2>4. stage[r] \in {"upstream", "exchange", "ended"}
    BY <1>1
  <2> QED
    BY <1>3, <2>1, <2>2, <2>3, <2>4, Decided
<1>5. StageInv(r)'
  BY <1>1, <1>3, <1>4
     DEF RequestInv, StageInv, MachinePassed, HashPassed, InFilter, BeforeToken
<1>6. DeliveryInv(r)' /\ LogInv(r)'
  BY <1>1, <1>3, <1>4 DEF DeliveryInv, LogInv
<1> QED
  BY <1>4, <1>5, <1>6 DEF Keeps, RequestInv

LEMMA ExchangeEndsKeeps ==
  ASSUME TypeOK, NEW r \in Request, RequestInv(r), NEW e \in ExchangeResults,
         ExchangeEnds(r, e)
  PROVE  Keeps(r)
<1>1. /\ stage[r] = "exchange" /\ e \in ExchangeErrors \cup {"none"}
      /\ stage' = [stage EXCEPT ![r] = "ended"]
      /\ failure' = [failure EXCEPT ![r] = e]
      /\ UNCHANGED <<config, session, ctx, admitted, facts>>
      /\ delivered' = delivered /\ log' = log
  BY DEF ExchangeEnds, Ends, Quiet, ExchangeErrors, ExchangeResults
<1>2. /\ ExchangeStep(r, "ended", delivered[r], e, log[r])
      /\ delivered[r] \in Nat /\ log[r] \in AuditRecord \cup {NoRecord}
  BY <1>1, ExchangeKept DEF ExchangeStep
<1>3. /\ log[r] = NoRecord /\ ctx[r].action \in {"Forward", "Bypass"}
      /\ delivered[r] > 0
  BY <1>1 DEF RequestInv, LogInv, StageInv, DeliveryInv
<1>4. /\ TypeOK' /\ OnlyOf(r) /\ GateStep(r)
      /\ KnowledgeInv(r)' /\ DecisionInv(r)' /\ BodyInv(r)'
      /\ stage'[r] = "ended" /\ delivered'[r] = delivered[r] /\ failure'[r] = e
      /\ log'[r] = NoRecord /\ ctx'[r] = ctx[r] /\ facts'[r] = facts[r]
      /\ req'[r] = req[r] /\ config' = config
  BY <1>1, <1>2, <1>3, Decided
<1>5. StageInv(r)'
  BY <1>1, <1>3, <1>4
     DEF RequestInv, StageInv, MachinePassed, HashPassed, InFilter, BeforeToken
<1>6. DeliveryInv(r)' /\ LogInv(r)'
  BY <1>1, <1>3, <1>4 DEF RequestInv, DeliveryInv, LogInv
<1> QED
  BY <1>4, <1>5, <1>6 DEF Keeps, RequestInv

\* The risk and the outcome of a record are of their types.
LEMMA RecordTyped ==
  ASSUME NEW c \in Context, NEW e \in ExchangeErrors \cup {"none"}, NEW rec,
         IsRecordOf(rec, c, e)
  PROVE  rec \in AuditRecord /\ rec.context.action # "none"
<1>1. Record(c, e) \in Context /\ Record(c, e).action # "none"
  BY RecordFields
<1>2. Record(c, e).reason \in Reason \cup {"none"}
  BY <1>1 DEF Context
<1>3. RiskOf(Record(c, e).reason) \in Risks
  <2>1. CASE Record(c, e).reason = "none"
    BY <2>1 DEF RiskOf, Risks
  <2>2. CASE Record(c, e).reason \in Reason
    BY <2>2, RiskTable
  <2> QED
    BY <1>2, <2>1, <2>2
<1>4. Outcome(c, e) \in Outcomes
  BY DEF Outcome, Outcomes
<1>5. (config.level = "info" \/ Outcome(c, e) = "Failure") \in BOOLEAN
  OBVIOUS
<1> QED
  BY <1>1, <1>3, <1>4, <1>5 DEF IsRecordOf, AuditRecord

LEMMA LoggingKeeps ==
  ASSUME TypeOK, NEW r \in Request, RequestInv(r),
         NEW late \in {"none", "DownstreamError"}, Logging(r, late)
  PROVE  Keeps(r)
<1> DEFINE e == IF failure[r] = "none" THEN late ELSE failure[r]
           rec == [context |-> Record(ctx[r], e),
                   outcome |-> Outcome(ctx[r], e),
                   risk |-> RiskOf(Record(ctx[r], e).reason),
                   kept |-> config.level = "info" \/ Outcome(ctx[r], e) = "Failure"]
<1>1. /\ stage[r] = "ended"
      /\ late # "none" => ctx[r].action \in {"Reject", "RateLimit"}
      /\ stage' = [stage EXCEPT ![r] = "logged"]
      /\ log' = [log EXCEPT ![r] = rec]
      /\ UNCHANGED <<config, session, ctx, admitted, facts>>
      /\ delivered' = delivered /\ failure' = failure
  BY DEF Logging, Quiet
<1>2. IsRecordOf(rec, ctx[r], e)
  BY DEF IsRecordOf
<1>3. /\ e \in ExchangeErrors \cup {"none"} /\ ctx[r] \in Context
      /\ failure[r] \in ExchangeErrors \cup {"none"}
  BY DEF RequestInv, StageInv, TypeOK, ExchangeErrors
<1> HIDE DEF rec
<1>4. rec \in AuditRecord /\ rec.context.action # "none"
  BY <1>2, <1>3, RecordTyped
<1>5. /\ ExchangeStep(r, "logged", delivered[r], failure[r], rec)
      /\ delivered[r] \in Nat
  BY <1>1, ExchangeKept DEF ExchangeStep
<1>6. /\ TypeOK' /\ OnlyOf(r) /\ GateStep(r)
      /\ KnowledgeInv(r)' /\ DecisionInv(r)' /\ BodyInv(r)'
      /\ stage'[r] = "logged" /\ delivered'[r] = delivered[r]
      /\ failure'[r] = failure[r]
      /\ log'[r] = rec /\ ctx'[r] = ctx[r] /\ facts'[r] = facts[r]
      /\ req'[r] = req[r] /\ config' = config
  BY <1>1, <1>3, <1>4, <1>5, Decided
<1>7. StageInv(r)'
  BY <1>1, <1>6
     DEF RequestInv, StageInv, MachinePassed, HashPassed, InFilter, BeforeToken
<1>8. DeliveryInv(r)'
  BY <1>1, <1>6 DEF RequestInv, DeliveryInv
<1>9. LogInv(r)'
  BY <1>1, <1>2, <1>6 DEF LogInv, IsRecordOf
<1> QED
  BY <1>6, <1>7, <1>8, <1>9 DEF Keeps, RequestInv

-----------------------------------------------------------------------------
(* The invariant.                                                          *)

LEMMA InitInv == Init => Inv
<1> SUFFICES ASSUME Init PROVE Inv
  OBVIOUS
<1>1. config \in Configs
  BY InputAssumption DEF Init
<1>2. TypeOK
  BY <1>1, NewContextFields DEF Init, TypeOK, Verifier!Init
<1>3. ASSUME NEW r \in Request PROVE RequestInv(r)
  <2>1. /\ stage[r] = "idle" /\ ctx[r] = NewContext /\ facts[r] = {}
        /\ size[r] = 0 /\ buffered[r] = 0 /\ delivered[r] = 0
        /\ failure[r] = "none" /\ log[r] = NoRecord
    BY DEF Init
  <2>2. /\ ctx[r].action = "none" /\ ctx[r].reason = "none"
        /\ ctx[r].status = "NotEvaluated"
    BY <1>1, <2>1, NewContextFields
  <2>3. KnowledgeInv(r) /\ DecisionInv(r) /\ StageInv(r)
    BY <2>1, <2>2 DEF KnowledgeInv, DecisionInv, StageInv, InFilter, BeforeToken
  <2>4. BodyInv(r) /\ DeliveryInv(r) /\ LogInv(r)
    BY <2>1, <2>2, BufferAssumption DEF BodyInv, DeliveryInv, LogInv
  <2> QED
    BY <2>3, <2>4 DEF RequestInv
<1>4. GateInv
  BY DEF Init, GateInv
<1> QED
  BY <1>2, <1>3, <1>4 DEF Inv

\* One request steps and no two requests come to share a committed token.
LEMMA GateKept ==
  ASSUME Inv, NEW r \in Request, Keeps(r)
  PROVE  GateInv'
<1>1. /\ \A s \in Request \ {r} : facts'[s] = facts[s] /\ req'[s] = req[s]
      /\ GateStep(r) /\ GateInv
  BY DEF Keeps, OnlyOf, Inv
<1>2. CASE /\ admitted' = admitted
           /\ "nonce" \in facts'[r] => "nonce" \in facts[r] /\ req'[r] = req[r]
  BY <1>1, <1>2 DEF GateInv
<1>3. CASE /\ req[r].token \notin admitted
           /\ admitted' = admitted \cup {req[r].token}
           /\ req'[r] = req[r]
  BY <1>1, <1>3 DEF GateInv
<1> QED
  BY <1>1, <1>2, <1>3 DEF GateStep

LEMMA StepInv == Inv /\ [Next]_vars => Inv'
<1> SUFFICES ASSUME Inv, [Next]_vars PROVE Inv'
  OBVIOUS
<1>1. ASSUME NEW r \in Request, Keeps(r) PROVE Inv'
  <2>1. \A s \in Request : RequestInv(s)'
    BY <1>1, OthersKeep DEF Inv, Keeps
  <2> QED
    BY <1>1, <2>1, GateKept DEF Inv, Keeps
<1>2. ASSUME UNCHANGED vars PROVE Inv'
  <2>1. TypeOK' /\ GateInv'
    BY <1>2 DEF Inv, vars, TypeOK, GateInv
  <2>2. ASSUME NEW r \in Request PROVE RequestInv(r)'
    <3>1. KnowledgeInv(r)' /\ DecisionInv(r)'
      BY <1>2 DEF Inv, vars, RequestInv, KnowledgeInv, DecisionInv, Exempt
    <3>2. StageInv(r)'
      BY <1>2 DEF Inv, vars, RequestInv, StageInv, MachinePassed, HashPassed
    <3>3. BodyInv(r)' /\ DeliveryInv(r)' /\ LogInv(r)'
      BY <1>2
         DEF Inv, vars, RequestInv, BodyInv, DeliveryInv, LogInv, IsRecordOf
    <3> QED
      BY <3>1, <3>2, <3>3 DEF RequestInv
  <2> QED
    BY <2>1, <2>2 DEF Inv
<1>3. TypeOK /\ (\A r \in Request : RequestInv(r))
  BY DEF Inv
<1>4. ASSUME NEW r \in Request, NEW i \in Input, Arrive(r, i) \/ EarlyFailure(r, i)
      PROVE  Inv'
  <2>1. i \in Inputs
    BY InputAssumption
  <2> QED
    BY <1>1, <1>3, <1>4, <2>1, ArriveKeeps, EarlyFailureKeeps
<1>5. ASSUME NEW r \in Request, Filter(r) PROVE Inv'
  <2>1. Keeps(r)
    BY <1>3, <1>5, RateLimitKeeps, CheckBypassKeeps, CheckHeadersKeeps,
       MachinePreflightKeeps, VerifyHeadersKeeps, VerifyMachineKeeps,
       CommitUnboundKeeps, EndBodyKeeps, VerifyBodyAndCommitKeeps DEF Filter
  <2> QED
    BY <1>1, <2>1
<1>6. ASSUME NEW r \in Request, NEW len \in ChunkSizes, ReadChunk(r, len)
      PROVE  Inv'
  <2>1. len \in Nat
    BY BufferAssumption
  <2> QED
    BY <1>1, <1>3, <1>6, <2>1, ReadChunkKeeps
<1>7. ASSUME NEW r \in Request, Exchange(r) \/ Retry(r) PROVE Inv'
  <2>1. Keeps(r)
    BY <1>3, <1>7, SendFailsKeeps, SendKeeps, ExchangeEndsKeeps, LoggingKeeps,
       RetryKeeps DEF Exchange
  <2> QED
    BY <1>1, <2>1
<1>8. CASE Served
  BY <1>2, <1>8 DEF Served
<1> QED
  BY <1>2, <1>4, <1>5, <1>6, <1>7, <1>8 DEF Next

LEMMA Invariance == Spec => []Inv
BY InitInv, StepInv, PTL DEF Spec

-----------------------------------------------------------------------------
(* What the backend gets.                                                  *)

\* Every variable of the pipeline keeps its type, and no record leaves
\* finish() without an action.
THEOREM TypeCorrect == Spec => []TypeOK
<1>1. Inv => TypeOK
  BY DEF Inv
<1> QED
  BY Invariance, <1>1, PTL

\* A request that reaches the backend was exempt, or passed every check that
\* request_filter of this configuration makes.
THEOREM OnlyVerifiedDelivered == Spec => []BackendSeesOnlyVerified
<1>1. Inv => BackendSeesOnlyVerified
  <2> SUFFICES ASSUME Inv, NEW r \in Request, delivered[r] > 0, ~Exempt(r)
               PROVE  /\ {"token", "nonce"} \subseteq facts[r]
                      /\ bindingOf[req[r].token] = "Bound" => "hash" \in facts[r]
                      /\ MachinePassed(r)
    BY DEF BackendSeesOnlyVerified, MachinePassed
  <2>1. RequestInv(r)
    BY DEF Inv
  <2>2. ctx[r].action = "Forward" /\ "nonce" \in facts[r]
    BY <2>1 DEF RequestInv, DeliveryInv, DecisionInv
  <2>3. stage[r] # "idle"
    BY <2>1, <2>2 DEF RequestInv, StageInv
  <2>4. "token" \in facts[r]
    BY <2>1, <2>2, <2>3 DEF RequestInv, KnowledgeInv, Knows
  <2> QED
    BY <2>1, <2>2, <2>4 DEF RequestInv, StageInv, HashPassed
<1> QED
  BY Invariance, <1>1, PTL

\* Of the requests that carry one token the backend sees one, and that one
\* twice only if it is idempotent, however many run at once.
THEOREM OneDeliveryPerToken == Spec => []TokenDeliveredOnce
<1>1. Inv => TokenDeliveredOnce
  <2> SUFFICES ASSUME Inv, NEW r \in Request, NEW s \in Request,
                      delivered[r] > 0, delivered[s] > 0,
                      ~Exempt(r), ~Exempt(s), req[r].token = req[s].token
               PROVE  r = s /\ delivered[r] <= (IF req[r].idempotent THEN 2 ELSE 1)
    BY DEF TokenDeliveredOnce
  <2>1. RequestInv(r) /\ RequestInv(s) /\ GateInv
    BY DEF Inv
  <2>2. /\ ctx[r].action = "Forward" /\ "nonce" \in facts[r]
        /\ "nonce" \in facts[s]
    BY <2>1 DEF RequestInv, DeliveryInv, DecisionInv
  <2>3. r = s
    BY <2>1, <2>2 DEF GateInv
  <2>4. stage[r] # "idle"
    BY <2>1, <2>2 DEF RequestInv, StageInv
  <2> QED
    BY <2>1, <2>3, <2>4 DEF RequestInv, DeliveryInv
<1> QED
  BY Invariance, <1>1, PTL

\* The body pingora sends is the whole body request_filter hashed.
THEOREM HashedBodyForwarded == Spec => []VerifiedBodyIsForwarded
<1>1. Inv => VerifiedBodyIsForwarded
  BY DEF Inv, VerifiedBodyIsForwarded, RequestInv, DeliveryInv, BodyInv
<1> QED
  BY Invariance, <1>1, PTL

\* No refusal spends a nonce, and no machine is looked up before the token
\* passed.
THEOREM RefusalsAreFree == Spec => []RefusalSpendsNothing
<1>1. Inv => RefusalSpendsNothing
  <2> SUFFICES ASSUME Inv, NEW r \in Request
               PROVE  /\ ctx[r].action \in {"Reject", "RateLimit"} =>
                           "nonce" \notin facts[r]
                      /\ stage[r] = "machine" \/ "chain" \in facts[r] =>
                           "token" \in facts[r]
    BY DEF RefusalSpendsNothing
  <2>1. RequestInv(r)
    BY DEF Inv
  <2>2. stage[r] = "idle" => facts[r] = {}
    BY <2>1 DEF RequestInv, StageInv
  <2>3. ctx[r].action \in {"Reject", "RateLimit"} => "nonce" \notin facts[r]
    BY <2>1 DEF RequestInv, DecisionInv
  <2>4. "chain" \in facts[r] => "token" \in facts[r]
    BY <2>1, <2>2 DEF RequestInv, KnowledgeInv, Knows
  <2>5. stage[r] = "machine" => "token" \in facts[r]
    BY <2>1 DEF RequestInv, StageInv
  <2> QED
    BY <2>3, <2>4, <2>5
<1> QED
  BY Invariance, <1>1, PTL

-----------------------------------------------------------------------------
(* What the audit record says.                                             *)

\* A record, and the state its request ended in.
LEMMA RecordState ==
  ASSUME Inv, NEW r \in Request, log[r] # NoRecord
  PROVE  \E e \in ExchangeErrors \cup {"none"} :
           /\ IsRecordOf(log[r], ctx[r], e)
           /\ ctx[r].action = "none" => e # "none" /\ facts[r] = {}
           /\ ctx[r].action \in {"Forward", "Bypass"} /\ e = "none" =>
                delivered[r] > 0
<1>1. RequestInv(r)
  BY DEF Inv
<1>2. PICK late \in {"none", "DownstreamError"} :
        /\ late # "none" => ctx[r].action \in {"Reject", "RateLimit"}
        /\ IsRecordOf(log[r], ctx[r],
                      IF failure[r] = "none" THEN late ELSE failure[r])
  BY <1>1 DEF RequestInv, LogInv
<1> DEFINE e == IF failure[r] = "none" THEN late ELSE failure[r]
<1>3. stage[r] = "logged"
  BY <1>1 DEF RequestInv, LogInv
<1>4. /\ e \in ExchangeErrors \cup {"none"}
      /\ ctx[r].action = "none" => e # "none" /\ facts[r] = {}
      /\ ctx[r].action \in {"Forward", "Bypass"} /\ e = "none" =>
           delivered[r] > 0
  BY <1>1, <1>3 DEF RequestInv, StageInv, ExchangeErrors
<1>5. IsRecordOf(log[r], ctx[r], e)
  BY <1>2
<1> HIDE DEF e
<1> QED
  BY <1>4, <1>5

\* What a record is made of, field by field.
LEMMA RecordContents ==
  ASSUME Inv, NEW r \in Request, log[r] # NoRecord,
         NEW e \in ExchangeErrors \cup {"none"}, IsRecordOf(log[r], ctx[r], e)
  PROVE  /\ ctx[r] \in Context /\ log[r].context = Record(ctx[r], e)
         /\ log[r].outcome = Outcome(ctx[r], e)
         /\ log[r].risk = RiskOf(log[r].context.reason)
         /\ log[r].kept <=> config.level = "info" \/ Outcome(ctx[r], e) = "Failure"
         /\ stage[r] = "logged"
<1>1. ctx[r] \in Context /\ stage[r] = "logged"
  BY DEF Inv, TypeOK, RequestInv, LogInv
<1>2. log[r].context = Record(ctx[r], e) /\ log[r].outcome = Outcome(ctx[r], e)
      /\ log[r].risk = RiskOf(Record(ctx[r], e).reason)
  BY DEF IsRecordOf
<1>3. log[r].kept <=> config.level = "info" \/ Outcome(ctx[r], e) = "Failure"
  <2> DEFINE kept == config.level = "info" \/ Outcome(ctx[r], e) = "Failure"
  <2>1. log[r] = [context |-> Record(ctx[r], e),
                  outcome |-> Outcome(ctx[r], e),
                  risk |-> RiskOf(Record(ctx[r], e).reason),
                  kept |-> kept]
    BY DEF IsRecordOf
  <2>2. kept \in BOOLEAN
    OBVIOUS
  <2> HIDE DEF kept
  <2>3. log[r].kept = kept
    BY <2>1
  <2>4. log[r].kept <=> kept
    BY <2>2, <2>3
  <2> QED
    BY <2>4 DEF kept
<1> QED
  BY <1>1, <1>2, <1>3

\* The reason in a record: none exactly for a success, the exchange's error
\* when a request that was let through failed, else the refusal's own.
LEMMA RecordReason ==
  ASSUME Inv, NEW r \in Request, log[r] # NoRecord,
         NEW e \in ExchangeErrors \cup {"none"}, IsRecordOf(log[r], ctx[r], e),
         ctx[r].action = "none" => e # "none"
  PROVE  LET reason == log[r].context.reason
             c == ctx[r]
         IN /\ reason \in Reason \cup {"none"}
            /\ log[r].outcome = "Success" <=> reason = "none"
            /\ c.action \in {"Reject", "RateLimit"} =>
                 reason = c.reason /\ reason \in Refusals
            /\ c.action \in {"none", "Forward", "Bypass"} =>
                 reason \in ExchangeErrors \cup {"none"}
            /\ reason # "none" => RiskOf(reason) # "Info"
            /\ log[r].outcome \in {"Success", "Failure"}
<1> DEFINE c == ctx[r]
           reason == log[r].context.reason
           undecided == c.action \in {"none", "Forward", "Bypass"}
<1>1. /\ c \in Context /\ log[r].context = Record(c, e)
      /\ log[r].outcome = Outcome(c, e)
  BY RecordContents
<1>2. /\ undecided /\ e # "none" => reason = e
      /\ undecided /\ e = "none" /\ c.action # "none" => reason = c.reason
      /\ ~undecided => reason = c.reason
      /\ Record(c, e) \in Context
  BY <1>1, RecordFields
<1>3. /\ c.action \in {"Forward", "Bypass"} => c.reason = "none"
      /\ c.action \in {"Reject", "RateLimit"} => c.reason \in Refusals
      /\ c.action \in {"none", "Forward", "Bypass", "Reject", "RateLimit"}
  BY <1>1 DEF Inv, RequestInv, DecisionInv, Context, Actions
<1>4. "none" \notin Reason
  BY DEF Reason, Reasons
<1>5. reason \in Reason \cup {"none"}
  BY <1>1, <1>2 DEF Context
<1>6. reason # "none" => RiskOf(reason) # "Info"
  BY <1>5, RiskTable
<1>7. Refusals \subseteq Reason /\ ExchangeErrors \subseteq Reason
  BY ExchangeReasons DEF Refusals
<1>8. Outcome(c, e) = IF c.action \in {"Forward", "Bypass"} /\ e = "none"
                      THEN "Success" ELSE "Failure"
  BY DEF Outcome
<1> HIDE DEF c, reason
<1>9. log[r].outcome = "Success" <=> reason = "none"
  BY <1>1, <1>2, <1>3, <1>4, <1>7, <1>8 DEF c
<1> QED
  BY <1>1, <1>2, <1>3, <1>5, <1>6, <1>8, <1>9 DEF c, reason

\* The record agrees with what happened to its request: the decision, the
\* machine, and the reason and status that explain each other.
THEOREM RecordsAreTrue == Spec => []RecordTellsTruth
<1>1. Inv => RecordTellsTruth
  <2> SUFFICES ASSUME Inv, NEW r \in Request, log[r] # NoRecord
               PROVE  DecisionOnRecord(r) /\ MachineOnRecord(r) /\ StatusExplained(r)
    BY DEF RecordTellsTruth
  <2>1. PICK e \in ExchangeErrors \cup {"none"} :
           /\ IsRecordOf(log[r], ctx[r], e)
           /\ ctx[r].action = "none" => e # "none" /\ facts[r] = {}
           /\ ctx[r].action \in {"Forward", "Bypass"} /\ e = "none" =>
                delivered[r] > 0
    BY RecordState
  <2> DEFINE c == ctx[r]
             d == log[r].context
  <2>2. /\ c \in Context /\ d = Record(c, e) /\ stage[r] = "logged"
        /\ log[r].outcome = Outcome(c, e)
    BY <2>1, RecordContents
  <2>3. /\ d.reason \in Reason \cup {"none"}
        /\ log[r].outcome = "Success" <=> d.reason = "none"
        /\ c.action \in {"Reject", "RateLimit"} =>
             d.reason = c.reason /\ d.reason \in Refusals
        /\ c.action \in {"none", "Forward", "Bypass"} =>
             d.reason \in ExchangeErrors \cup {"none"}
    BY <2>1, RecordReason
  <2>4. /\ d.action = (IF c.action = "none" THEN "Error" ELSE c.action)
        /\ d.status = c.status
        /\ d.subject_dn <=> c.subject_dn \/ c.presented = "cert"
        /\ d.binding = c.binding /\ d.machine = c.machine
        /\ d.hostname = c.hostname /\ d.chain_verified = c.chain_verified
    BY <2>2, RecordFields
  <2>5. /\ Knows(c, facts[r], req[r]) /\ DecisionInv(r)
        /\ c.action # "none" => Names(c, req[r])
        /\ delivered[r] > 0 => c.action \in {"Forward", "Bypass"}
    BY <2>2 DEF Inv, RequestInv, KnowledgeInv, DeliveryInv
  <2>6. log[r].outcome = "Success" => delivered[r] > 0
    BY <2>1, <2>2 DEF Outcome
  <2>7. /\ c.action \in {"Forward", "Bypass", "Reject", "RateLimit", "none"}
        /\ c.action = "none" => facts[r] = {}
    BY <2>1, <2>2, <2>5 DEF Context, Actions, DecisionInv
  <2> HIDE DEF c, d
  <2>8. /\ c.action = "Forward" <=> "nonce" \in facts[r]
        /\ c.status = "Verified" <=> "nonce" \in facts[r]
        /\ c.action = "Bypass" => Exempt(r) /\ facts[r] = {}
        /\ c.action \in {"none", "Forward", "Bypass"} =>
             c.status \notin {"Failed", "Incomplete"}
        /\ c.action \in {"Reject", "RateLimit"} =>
             /\ c.status = "Failed" <=> IsAttestation(c.reason)
             /\ c.status = "Incomplete" => "token" \in facts[r]
    BY <2>5 DEF DecisionInv, c
  <2>9. DecisionOnRecord(r)
    BY <2>3, <2>4, <2>5, <2>6, <2>7, <2>8 DEF DecisionOnRecord, Knows, d
  <2>10. MachineOnRecord(r)
    BY <2>4, <2>5, <2>7 DEF MachineOnRecord, Knows, Names, d
  <2>11. StatusExplained(r)
    <3>1. d.status = "Failed" <=> d.reason # "none" /\ IsAttestation(d.reason)
      <4>1. CASE c.action \in {"Reject", "RateLimit"}
        <5>1. d.reason # "none"
          BY <4>1, <2>3 DEF Refusals, Reason, Reasons
        <5> QED
          BY <4>1, <5>1, <2>3, <2>4, <2>8
      <4>2. CASE c.action \in {"none", "Forward", "Bypass"}
        BY <4>2, <2>3, <2>4, <2>8, ExchangeReasons
      <4> QED
        BY <2>7, <4>1, <4>2
    <3>2. d.status = "Incomplete" => "token" \in facts[r] /\ "nonce" \notin facts[r]
      BY <2>4, <2>7, <2>8
    <3>3. d.action \in {"Reject", "RateLimit"} => d.reason = c.reason
      BY <2>3, <2>4
    <3>4. d.action = "Reject" => d.reason \notin
            {"UpstreamError", "DownstreamError", "InternalError",
             "RequestMalformed"}
      BY <2>3, <2>4 DEF Refusals, ExchangeErrors
    <3> QED
      BY <3>1, <3>2, <3>3, <3>4 DEF StatusExplained, c, d
  <2> QED
    BY <2>9, <2>10, <2>11
<1> QED
  BY Invariance, <1>1, PTL

\* The risk in a record is earned, and the level "warn" drops exactly the
\* successes.
THEOREM RisksAreEarned == Spec => []RiskIsEarned
<1>1. Inv => RiskIsEarned
  <2> SUFFICES ASSUME Inv, NEW r \in Request, log[r] # NoRecord
               PROVE  LET risk == log[r].risk
                      IN /\ risk = "Info" <=> log[r].outcome = "Success"
                         /\ risk = "Low" =>
                              \/ req[r].sent = "none" /\ req[r].machine = "absent"
                              \/ log[r].context.reason \in
                                   {"DownstreamError", "BodyReadFailed"}
                         /\ risk = "Critical" =>
                              "decrypted" \in facts[r] /\ delivered[r] = 0
                         /\ log[r].kept <=> config.level = "info" \/ risk # "Info"
    BY DEF RiskIsEarned
  <2>1. PICK e \in ExchangeErrors \cup {"none"} :
           /\ IsRecordOf(log[r], ctx[r], e)
           /\ ctx[r].action = "none" => e # "none"
    BY RecordState
  <2> DEFINE c == ctx[r]
             reason == log[r].context.reason
             risk == log[r].risk
  <2>2. /\ c \in Context /\ stage[r] = "logged" /\ risk = RiskOf(reason)
        /\ log[r].outcome = Outcome(c, e)
        /\ log[r].kept <=> config.level = "info" \/ Outcome(c, e) = "Failure"
    BY <2>1, RecordContents
  <2>3. /\ reason \in Reason \cup {"none"}
        /\ log[r].outcome = "Success" <=> reason = "none"
        /\ c.action \in {"Reject", "RateLimit"} =>
             reason = c.reason /\ reason \in Refusals
        /\ c.action \in {"none", "Forward", "Bypass"} =>
             reason \in ExchangeErrors \cup {"none"}
        /\ reason # "none" => RiskOf(reason) # "Info"
        /\ log[r].outcome \in {"Success", "Failure"}
    BY <2>1, RecordReason
  <2>4. /\ Explains(c.reason, facts[r], req[r]) /\ delivered[r] \in Nat
        /\ delivered[r] > 0 => c.action \in {"Forward", "Bypass"}
        /\ c.action # "Error"
    BY <2>2 DEF Inv, RequestInv, KnowledgeInv, DeliveryInv, DecisionInv, TypeOK
  <2>5. c.action \in {"none", "Forward", "Bypass", "Reject", "RateLimit"}
    BY <2>2, <2>4 DEF Context, Actions
  <2> HIDE DEF c, reason, risk
  <2>6. RiskOf("none") = "Info"
    BY DEF RiskOf
  <2>7. risk = "Info" <=> log[r].outcome = "Success"
    BY <2>2, <2>3, <2>6
  <2>8. log[r].kept <=> config.level = "info" \/ risk # "Info"
    BY <2>2, <2>3, <2>7
  <2>9. ASSUME risk = "Low"
        PROVE  \/ req[r].sent = "none" /\ req[r].machine = "absent"
               \/ reason \in {"DownstreamError", "BodyReadFailed"}
    <3>1. reason \in {"NoAttestationHeaders", "BodyReadFailed", "DownstreamError"}
      BY <2>2, <2>3, <2>6, <2>9, RiskTable
    <3>2. CASE reason = "NoAttestationHeaders"
      BY <2>3, <2>4, <2>5, <3>2 DEF Explains, ExchangeErrors
    <3> QED
      BY <3>1, <3>2
  <2>10. ASSUME risk = "Critical"
         PROVE  "decrypted" \in facts[r] /\ delivered[r] = 0
    <3>1. reason \in {"TokenRequestMismatch", "BodyHashMismatch"}
      BY <2>2, <2>3, <2>6, <2>10, RiskTable
    <3>2. c.action \in {"Reject", "RateLimit"}
      BY <2>3, <2>5, <3>1 DEF ExchangeErrors
    <3> QED
      BY <2>3, <2>4, <3>1, <3>2 DEF Explains
  <2> QED
    BY <2>7, <2>8, <2>9, <2>10 DEF reason, risk
<1> QED
  BY Invariance, <1>1, PTL
=============================================================================
