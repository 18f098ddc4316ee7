--------------------------- MODULE ListenerProofs ---------------------------
(***************************************************************************)
(* Proofs about Listener and Startup: what main() guarantees once it       *)
(* listens, and what client authentication and the bypass rest on, for any *)
(* connections, certificates, starts and restarts.                         *)
(***************************************************************************)
EXTENDS Listener, EnvProofs, SubjectProofs

-----------------------------------------------------------------------------
(* The order of main().                                                    *)

\* Each step of main() is followed by the next one of the source.
LEMMA StepOrder ==
  ASSUME NEW here, NEW ok, Step(here, ok)
  PROVE  /\ pc = here
         /\ ~ok => pc' = "exited" /\ died' = here
         /\ ok => died' = died
         /\ ok /\ here = "load" => pc' = "logging"
         /\ ok /\ here = "logging" => pc' = "proxy"
         /\ ok /\ here = "proxy" => pc' = "upstream_tls"
         /\ ok /\ here = "upstream_tls" => pc' = "verifier"
         /\ ok /\ here = "verifier" => pc' = "rate_limiter"
         /\ ok /\ here = "rate_limiter" => pc' = "mtls"
         /\ ok /\ here = "mtls" => pc' = "machine"
         /\ ok /\ here = "machine" => pc' = "ca_overlap"
         /\ ok /\ here = "ca_overlap" => pc' = "bypass"
         /\ ok /\ here = "bypass" => pc' = "new"
         /\ ok /\ here = "new" => pc' = "tls_key"
         /\ ok /\ here = "tls_key" => pc' = "tls"
         /\ ok /\ here = "tls" => pc' = "client_auth"
         /\ ok /\ here = "client_auth" => pc' = "listening"
<1> DEFINE at == CHOOSE i \in DOMAIN Steps : Steps[i] = here
<1>1. /\ pc = here
      /\ ok => pc' = Steps[1 + at] /\ died' = died
      /\ ~ok => pc' = "exited" /\ died' = here
  BY DEF Step
<1>2. ASSUME NEW k \in DOMAIN Steps, Steps[k] = here
      PROVE  at \in DOMAIN Steps /\ Steps[at] = here
  BY <1>2
<1>3. DOMAIN Steps = 1..15
  BY DEF Steps
<1>4. ASSUME NEW k \in 1..15, Steps[k] = here
      PROVE  at = k
  BY <1>2, <1>3, <1>4, SMTT(60) DEF Steps
<1> QED
  BY <1>1, <1>4 DEF Steps

-----------------------------------------------------------------------------
(* The parsed configuration.                                               *)

\* A setting is one string or a list of them.
LEMMA TextsAreNoLists ==
  ASSUME NEW k \in TextSettings
  PROVE  k \notin ListSettings /\ k # "rate_rules"
BY DEF TextSettings, ListSettings, ProxySettings, SecretSettings

\* Config::parse takes settings that are no text as they are written.
LEMMA ParsedSettings ==
  ASSUME NEW g
  PROVE  /\ Parsed(g).mtls_enabled = g.mtls_enabled
         /\ Parsed(g).machine_enabled = g.machine_enabled
         /\ Parsed(g).bypass_enabled = g.bypass_enabled
         /\ Parsed(g).rate_enabled = g.rate_enabled
         /\ Parsed(g).machine_required = g.machine_required
         /\ Parsed(g).upstream_ca = Expand(g, "upstream_ca", g.upstream_ca).text
         /\ Parsed(g).dir = Expand(g, "dir", g.dir).text
<1>1. {"mtls_enabled", "machine_enabled", "bypass_enabled", "rate_enabled",
       "machine_required", "upstream_ca", "dir"} \subseteq SettingNames
  BY DEF SettingNames, TextSettings, ProxySettings, RateLimitSettings,
         MtlsSettings, MachineIdentitySettings, ProxyBypassSettings,
         LoggingSettings
<1>2. /\ {"mtls_enabled", "machine_enabled", "bypass_enabled", "rate_enabled",
          "machine_required"} \cap (TextSettings \cup ListSettings \cup {"rate_rules"}) = {}
      /\ "upstream_ca" \in TextSettings /\ "dir" \in TextSettings
  BY DEF TextSettings, ListSettings, ProxySettings, SecretSettings
<1>3. ASSUME NEW k \in SettingNames,
             k \notin TextSettings, k \notin ListSettings, k # "rate_rules"
      PROVE  Parsed(g)[k] = g[k]
  BY <1>3 DEF Parsed
<1>4. ASSUME NEW k \in SettingNames, k \in TextSettings
      PROVE  Parsed(g)[k] = Expand(g, k, g[k]).text
  BY <1>4, TextsAreNoLists DEF Parsed
<1> QED
  BY <1>1, <1>2, <1>3, <1>4

-----------------------------------------------------------------------------
(* The inductive invariant of main().                                      *)

\* The steps of main() that come after the named one.
AfterClientAuth == {"listening"}
AfterTls == {"client_auth"} \cup AfterClientAuth
AfterBypass == {"new", "tls_key", "tls"} \cup AfterTls
AfterOverlap == {"bypass"} \cup AfterBypass
AfterMachine == {"ca_overlap"} \cup AfterOverlap
AfterMtls == {"machine"} \cup AfterMachine
AfterRateLimiter == {"mtls"} \cup AfterMtls
AfterVerifier == {"rate_limiter"} \cup AfterRateLimiter
AfterUpstreamTls == {"verifier"} \cup AfterVerifier
AfterLogging == {"proxy", "upstream_tls"} \cup AfterUpstreamTls
AfterLoad == {"logging"} \cup AfterLogging
Running == {"load"} \cup AfterLoad

\* ctl is a record of controls, whatever they hold.
Controls == {"filter", "log_file", "upstream", "verifier", "rate", "mtls",
             "machine", "machine_required", "bypass", "key", "verify_peer", "store"}
CtlShape == ctl = [k \in Controls |-> ctl[k]]

\* What each step of main() has left behind.
LoadDone == cfg = Parsed(given) /\ LoadErrors(given) = {}
LoggingDone ==
  /\ ctl.filter = BuildFilter(cfg, given.RUST_LOG).filter
  /\ ctl.log_file <=> FileEnabled(cfg)
  /\ BuildFilter(cfg, given.RUST_LOG).ok /\ LoggingValid(cfg)
UpstreamTlsDone ==
  /\ ctl.upstream.verify <=> ~given.insecure_upstream
  /\ ctl.upstream.roots.on <=> cfg.upstream_ca # <<>>
VerifierDone == ctl.verifier
RateLimiterDone == ctl.rate = RateLimits(cfg) /\ ctl.rate # "invalid"
MtlsDone ==
  IF cfg.mtls_enabled
  THEN /\ ctl.mtls = On(given.client_ca_pem.cas)
       /\ Usable(given.client_ca_pem)
  ELSE ctl.mtls = Off
MachineDone ==
  IF cfg.machine_enabled
  THEN /\ ctl.machine = On(given.machine_ca_pem.cas)
       /\ Usable(given.machine_ca_pem)
       /\ cfg.machine_required => ctl.machine_required
  ELSE ctl.machine = Off
BypassDone ==
  ctl.bypass.on =>
    /\ cfg.bypass_enabled /\ ctl.mtls.on
    /\ ctl.bypass.ranges # {} /\ ctl.bypass.subjects # {}

\* These outlive the configuration main() drops when it starts to serve.
CasApart == ctl.mtls.on /\ ctl.machine.on => ctl.mtls.cas \cap ctl.machine.cas = {}
BypassNeedsMtls == ctl.bypass.on => ctl.mtls.on
StoreFilled ==
  /\ ctl.verify_peer <=> ctl.mtls.on
  /\ ctl.mtls.on => ctl.store = ctl.mtls.cas

StartInv ==
  /\ CtlShape
  /\ pc \in Running \ AfterBypass => ~ctl.bypass.on
  /\ pc \in AfterLoad => LoadDone
  /\ pc \in AfterLogging => LoggingDone
  /\ pc \in AfterUpstreamTls => UpstreamTlsDone
  /\ pc \in AfterVerifier => VerifierDone
  /\ pc \in AfterRateLimiter => RateLimiterDone
  /\ pc \in AfterMtls => MtlsDone
  /\ pc \in AfterMachine => MachineDone
  /\ pc \in AfterOverlap \cup {"serving"} => CasApart
  /\ pc \in AfterBypass => BypassDone
  /\ pc \in AfterTls => ctl.key = "pair"
  /\ pc = "serving" => BypassNeedsMtls
  /\ pc \in AfterClientAuth \cup {"serving"} => StoreFilled

\* What a connection that is not closed rests on: a certificate some full
\* handshake of this run verified, the identity read from it, and the policy.
OneConn(d) ==
  d # Closed =>
    /\ d.cert \in verified
    /\ d.id = IF ctl.mtls.on /\ d.cert # NoCert THEN ClientCert(d.cert) ELSE NoIdentity
    /\ d.bypassed => Authorizes(ctl.bypass, d.ip, d.id)

\* Nothing is served before main() is done, and every certificate a session
\* holds was verified by a full handshake of this run.
ConnInv ==
  /\ pc # "serving" =>
       (\A c \in Conns : conn[c] = Closed) /\ tickets = {} /\ verified = {}
  /\ tickets \subseteq verified
  /\ ctl.verify_peer =>
       \A cert \in verified : cert # NoCert /\ ChainsTo(cert.issuer, ctl.store)
  /\ \A c \in Conns : OneConn(conn[c])

Inv == TypeOK /\ StartInv /\ ConnInv

-----------------------------------------------------------------------------
(* main(), step by step.                                                   *)

USE DEF AfterClientAuth, AfterTls, AfterBypass, AfterOverlap, AfterMachine,
        AfterMtls, AfterRateLimiter, AfterVerifier, AfterUpstreamTls,
        AfterLogging, AfterLoad, Running

LEMMA SetControl ==
  ASSUME CtlShape, NEW k \in Controls, NEW v, ctl' = [ctl EXCEPT ![k] = v]
  PROVE  CtlShape' /\ ctl'[k] = v /\ \A j \in Controls \ {k} : ctl'[j] = ctl[j]
<1>1. DOMAIN ctl = Controls
  BY DEF CtlShape
<1>2. ctl' = [j \in Controls |-> IF j = k THEN v ELSE ctl[j]]
  BY <1>1 DEF CtlShape
<1> QED
  BY <1>2 DEF CtlShape

\* A step that fails ends the process and leaves the controls as they are.
LEMMA StepFails ==
  ASSUME StartInv, NEW here, NEW ok, Step(here, ok), ~ok, ctl' = ctl
  PROVE  StartInv'
<1>1. pc' = "exited"
  BY StepOrder
<1> QED
  BY <1>1 DEF StartInv, CtlShape

\* A step that checks and puts nothing in force.
LEMMA StepChecks ==
  ASSUME StartInv, NEW here \in {"proxy", "new"}, NEW ok, Step(here, ok),
         UNCHANGED <<given, cfg, ctl, errors>>
  PROVE  StartInv'
<1>1. CASE ~ok
  BY <1>1, StepFails
<1>2. CASE ok
  <2>1. \/ pc = "proxy" /\ pc' = "upstream_tls"
        \/ pc = "new" /\ pc' = "tls_key"
    BY <1>2, StepOrder
  <2> QED
    BY <2>1
       DEF StartInv, CtlShape, LoadDone, LoggingDone, UpstreamTlsDone,
         VerifierDone, RateLimiterDone, MtlsDone, MachineDone, BypassDone,
         CasApart
<1> QED
  BY <1>1, <1>2

LEMMA LoadKeeps ==
  ASSUME StartInv, Load
  PROVE  StartInv'
<1> DEFINE ok == LoadErrors(given) = {}
<1>1. /\ Step("load", ok) /\ given' = given /\ ctl' = ctl
      /\ cfg' = IF ok THEN Parsed(given) ELSE cfg
  BY DEF Load
<1>2. CASE ~ok
  BY <1>1, <1>2, StepFails
<1>3. CASE ok
  <2>1. pc = "load" /\ pc' = "logging"
    BY <1>1, <1>3, StepOrder
  <2> QED
    BY <1>1, <1>3, <2>1 DEF StartInv, CtlShape, LoadDone
<1> QED
  BY <1>2, <1>3

LEMMA LogInitKeeps ==
  ASSUME StartInv, LogInit
  PROVE  StartInv'
<1> DEFINE built == BuildFilter(cfg, given.RUST_LOG)
           ok == /\ LoggingValid(cfg)
                 /\ built.ok
                 /\ FileEnabled(cfg) => FileWriterBuilt
           c == [ctl EXCEPT !.filter = built.filter, !.log_file = FileEnabled(cfg)]
<1>1. /\ Step("logging", ok) /\ given' = given /\ cfg' = cfg
      /\ ctl' = IF ok THEN c ELSE ctl
  BY DEF LogInit, Sets
<1>2. CASE ~ok
  BY <1>1, <1>2, StepFails
<1>3. CASE ok
  <2>1. pc = "logging" /\ pc' = "proxy"
    BY <1>1, <1>3, StepOrder
  <2>2. DOMAIN ctl = Controls /\ CtlShape /\ FileEnabled(cfg) \in BOOLEAN
    BY DEF StartInv, CtlShape, FileEnabled
  <2>3. c = [j \in Controls |-> IF j = "filter" THEN built.filter
                                ELSE IF j = "log_file" THEN FileEnabled(cfg)
                                ELSE ctl[j]]
    BY <2>2 DEF CtlShape, Controls
  <2>4. ctl' = c
    BY <1>1, <1>3
  <2> HIDE DEF c
  <2>5. /\ CtlShape' /\ ctl'.filter = built.filter
        /\ ctl'.log_file = FileEnabled(cfg) /\ ctl'.bypass = ctl.bypass
    BY <2>3, <2>4 DEF CtlShape, Controls
  <2>6. LoggingDone'
    BY <1>1, <1>3, <2>2, <2>5 DEF LoggingDone
  <2>7. LoadDone'
    BY <1>1, <2>1 DEF StartInv, LoadDone
  <2>8. ~ctl'.bypass.on
    BY <2>1, <2>5 DEF StartInv
  <2> QED
    BY <2>1, <2>5, <2>6, <2>7, <2>8 DEF StartInv
<1> QED
  BY <1>2, <1>3

LEMMA UpstreamTlsKeeps ==
  ASSUME StartInv, LoadUpstreamTls
  PROVE  StartInv'
<1> DEFINE custom == cfg.upstream_ca # <<>>
           ok == custom => Usable(given.upstream_ca_pem)
           v == [verify |-> ~given.insecure_upstream,
                 roots |-> IF custom THEN On(given.upstream_ca_pem.cas) ELSE Off]
<1>1. /\ Step("upstream_tls", ok) /\ given' = given /\ cfg' = cfg
      /\ ctl' = IF ok THEN [ctl EXCEPT !.upstream = v] ELSE ctl
  BY DEF LoadUpstreamTls, Sets
<1>2. /\ v.verify <=> ~given.insecure_upstream
      /\ v.roots.on <=> cfg.upstream_ca # <<>>
  BY DEF On, Off
<1>3. CASE ~ok
  BY <1>1, <1>3, StepFails
<1>4. CASE ok
  <2>1. pc = "upstream_tls" /\ pc' = "verifier"
    BY <1>1, <1>4, StepOrder
  <2>2. CtlShape /\ ctl' = [ctl EXCEPT !["upstream"] = v]
    BY <1>1, <1>4 DEF StartInv
  <2> HIDE DEF v
  <2>3. /\ CtlShape' /\ ctl'.upstream = v /\ ctl'.filter = ctl.filter
        /\ ctl'.log_file = ctl.log_file /\ ctl'.bypass = ctl.bypass
    BY <2>2, SetControl DEF Controls
  <2> QED
    BY <1>1, <1>2, <2>1, <2>3
       DEF StartInv, LoadDone, LoggingDone, UpstreamTlsDone
<1> QED
  BY <1>3, <1>4

LEMMA VerifierKeeps ==
  ASSUME StartInv, LoadVerifier
  PROVE  StartInv'
<1> DEFINE ok == cfg.private_key # <<>> /\ given.private_key_pem = "ok"
<1>1. /\ Step("verifier", ok) /\ given' = given /\ cfg' = cfg
      /\ ctl' = IF ok THEN [ctl EXCEPT !.verifier = TRUE] ELSE ctl
  BY DEF LoadVerifier, Sets
<1>2. CASE ~ok
  BY <1>1, <1>2, StepFails
<1>3. CASE ok
  <2>1. pc = "verifier" /\ pc' = "rate_limiter"
    BY <1>1, <1>3, StepOrder
  <2>2. CtlShape /\ ctl' = [ctl EXCEPT !["verifier"] = TRUE]
    BY <1>1, <1>3 DEF StartInv
  <2>3. /\ CtlShape' /\ ctl'.verifier = TRUE /\ ctl'.filter = ctl.filter
        /\ ctl'.log_file = ctl.log_file /\ ctl'.upstream = ctl.upstream
        /\ ctl'.bypass = ctl.bypass
    BY <2>2, SetControl DEF Controls
  <2> QED
    BY <1>1, <2>1, <2>3
       DEF StartInv, LoadDone, LoggingDone, UpstreamTlsDone, VerifierDone
<1> QED
  BY <1>2, <1>3

LEMMA RateLimiterKeeps ==
  ASSUME StartInv, LoadRateLimiter
  PROVE  StartInv'
<1> DEFINE ok == RateLimits(cfg) # "invalid"
<1>1. /\ Step("rate_limiter", ok) /\ given' = given /\ cfg' = cfg
      /\ ctl' = IF ok THEN [ctl EXCEPT !.rate = RateLimits(cfg)] ELSE ctl
  BY DEF LoadRateLimiter, Sets
<1>2. CASE ~ok
  BY <1>1, <1>2, StepFails
<1>3. CASE ok
  <2>1. pc = "rate_limiter" /\ pc' = "mtls"
    BY <1>1, <1>3, StepOrder
  <2>2. CtlShape /\ ctl' = [ctl EXCEPT !["rate"] = RateLimits(cfg)]
    BY <1>1, <1>3 DEF StartInv
  <2>3. /\ CtlShape' /\ ctl'.rate = RateLimits(cfg) /\ ctl'.filter = ctl.filter
        /\ ctl'.log_file = ctl.log_file /\ ctl'.upstream = ctl.upstream
        /\ ctl'.verifier = ctl.verifier /\ ctl'.bypass = ctl.bypass
    BY <2>2, SetControl DEF Controls
  <2> QED
    BY <1>1, <1>3, <2>1, <2>3
       DEF StartInv, LoadDone, LoggingDone, UpstreamTlsDone, VerifierDone,
         RateLimiterDone
<1> QED
  BY <1>2, <1>3

LEMMA MtlsKeeps ==
  ASSUME StartInv, LoadMtls
  PROVE  StartInv'
<1> DEFINE ok == cfg.mtls_enabled =>
                   cfg.client_ca # <<>> /\ Usable(given.client_ca_pem)
           v == IF cfg.mtls_enabled THEN On(given.client_ca_pem.cas) ELSE Off
<1>1. /\ Step("mtls", ok) /\ given' = given /\ cfg' = cfg
      /\ ctl' = IF ok THEN [ctl EXCEPT !.mtls = v] ELSE ctl
  BY DEF LoadMtls, Sets
<1>2. CASE ~ok
  BY <1>1, <1>2, StepFails
<1>3. CASE ok
  <2>1. pc = "mtls" /\ pc' = "machine"
    BY <1>1, <1>3, StepOrder
  <2>2. CtlShape /\ ctl' = [ctl EXCEPT !["mtls"] = v]
    BY <1>1, <1>3 DEF StartInv
  <2> HIDE DEF v
  <2>3. /\ CtlShape' /\ ctl'.mtls = v
        /\ ctl'.filter = ctl.filter /\ ctl'.log_file = ctl.log_file
        /\ ctl'.upstream = ctl.upstream /\ ctl'.verifier = ctl.verifier
        /\ ctl'.rate = ctl.rate /\ ctl'.bypass = ctl.bypass
    BY <2>2, SetControl DEF Controls
  <2> QED
    BY <1>1, <1>3, <2>1, <2>3
       DEF StartInv, LoadDone, LoggingDone, UpstreamTlsDone, VerifierDone,
         RateLimiterDone, MtlsDone, v
<1> QED
  BY <1>2, <1>3

LEMMA MachineKeeps ==
  ASSUME StartInv, LoadMachine
  PROVE  StartInv'
<1> DEFINE ok == cfg.machine_enabled =>
                   /\ cfg.machine_ca # <<>>
                   /\ Usable(given.machine_ca_pem)
                   /\ \A p \in cfg.allowed_hostnames : IsGlob(p)
           v == IF cfg.machine_enabled THEN On(given.machine_ca_pem.cas) ELSE Off
           q == cfg.machine_enabled /\ cfg.machine_required
           c == [ctl EXCEPT !.machine = v, !.machine_required = q]
<1>1. /\ Step("machine", ok) /\ given' = given /\ cfg' = cfg
      /\ ctl' = IF ok THEN c ELSE ctl
  BY DEF LoadMachine, Sets
<1>2. CASE ~ok
  BY <1>1, <1>2, StepFails
<1>3. CASE ok
  <2>1. pc = "machine" /\ pc' = "ca_overlap"
    BY <1>1, <1>3, StepOrder
  <2>2. DOMAIN ctl = Controls /\ CtlShape
    BY DEF StartInv, CtlShape
  <2>3. c = [j \in Controls |-> IF j = "machine" THEN v
                                ELSE IF j = "machine_required" THEN q
                                ELSE ctl[j]]
    BY <2>2 DEF CtlShape, Controls
  <2>4. ctl' = c
    BY <1>1, <1>3
  <2>5. cfg.machine_enabled /\ cfg.machine_required => q
    OBVIOUS
  <2> HIDE DEF c, v, q
  <2>6. /\ CtlShape' /\ ctl'.machine = v /\ ctl'.machine_required = q
        /\ ctl'.filter = ctl.filter /\ ctl'.log_file = ctl.log_file
        /\ ctl'.upstream = ctl.upstream /\ ctl'.verifier = ctl.verifier
        /\ ctl'.rate = ctl.rate /\ ctl'.bypass = ctl.bypass
        /\ ctl'.mtls = ctl.mtls
    BY <2>3, <2>4 DEF CtlShape, Controls
  <2>7. MachineDone'
    BY <1>1, <1>3, <2>5, <2>6 DEF MachineDone, v
  <2> QED
    BY <1>1, <2>1, <2>6, <2>7
       DEF StartInv, LoadDone, LoggingDone, UpstreamTlsDone, VerifierDone,
         RateLimiterDone, MtlsDone
<1> QED
  BY <1>2, <1>3

\* main()'s own check is what makes the two bundles disjoint from here on.
LEMMA OverlapKeeps ==
  ASSUME StartInv, CheckCaOverlap
  PROVE  StartInv'
<1>1. Step("ca_overlap", CasApart) /\ UNCHANGED <<given, cfg, ctl>>
  BY DEF CheckCaOverlap, CasApart
<1>2. CASE ~CasApart
  BY <1>1, <1>2, StepFails
<1>3. CASE CasApart
  <2>1. pc = "ca_overlap" /\ pc' = "bypass"
    BY <1>1, <1>3, StepOrder
  <2> QED
    BY <1>1, <1>3, <2>1
       DEF StartInv, CtlShape, LoadDone, LoggingDone, UpstreamTlsDone,
         VerifierDone, RateLimiterDone, MtlsDone, MachineDone, CasApart
<1> QED
  BY <1>2, <1>3

LEMMA BypassKeeps ==
  ASSUME StartInv, LoadBypass
  PROVE  StartInv'
<1> DEFINE ok == cfg.bypass_enabled =>
                   /\ ctl.mtls.on
                   /\ cfg.allowed_ip_ranges # {}
                   /\ \A t \in cfg.allowed_ip_ranges : IsCidr(t)
                   /\ cfg.allowed_subjects # {}
           v == [on |-> TRUE, ranges |-> cfg.allowed_ip_ranges,
                 subjects |-> cfg.allowed_subjects]
<1>1. /\ Step("bypass", ok) /\ given' = given /\ cfg' = cfg
      /\ ctl' = IF ok /\ cfg.bypass_enabled THEN [ctl EXCEPT !.bypass = v] ELSE ctl
  BY DEF LoadBypass, Sets
<1>2. CASE ~ok
  BY <1>1, <1>2, StepFails
<1>3. CASE ok
  <2>1. pc = "bypass" /\ pc' = "new"
    BY <1>1, <1>3, StepOrder
  <2>2. CtlShape /\ ~ctl.bypass.on
    BY <2>1 DEF StartInv
  <2>3. CASE cfg.bypass_enabled
    <3>1. ctl' = [ctl EXCEPT !["bypass"] = v]
      BY <1>1, <1>3, <2>3
    <3>2. v.ranges # {} /\ v.subjects # {} /\ ctl.mtls.on
      BY <1>3, <2>3
    <3> HIDE DEF v
    <3>3. /\ CtlShape' /\ ctl'.bypass = v /\ ctl'.machine = ctl.machine
          /\ ctl'.machine_required = ctl.machine_required
          /\ ctl'.filter = ctl.filter /\ ctl'.log_file = ctl.log_file
          /\ ctl'.upstream = ctl.upstream /\ ctl'.verifier = ctl.verifier
          /\ ctl'.rate = ctl.rate /\ ctl'.mtls = ctl.mtls
      BY <2>2, <3>1, SetControl DEF Controls
    <3> QED
      BY <1>1, <2>1, <2>3, <3>2, <3>3
         DEF StartInv, LoadDone, LoggingDone, UpstreamTlsDone, VerifierDone,
           RateLimiterDone, MtlsDone, MachineDone, CasApart, BypassDone
  <2>4. CASE ~cfg.bypass_enabled
    <3>1. ctl' = ctl
      BY <1>1, <2>4
    <3> QED
      BY <1>1, <2>1, <2>2, <3>1
         DEF StartInv, CtlShape, LoadDone, LoggingDone, UpstreamTlsDone,
           VerifierDone, RateLimiterDone, MtlsDone, MachineDone, CasApart,
           BypassDone
  <2> QED
    BY <2>3, <2>4
<1> QED
  BY <1>2, <1>3

LEMMA TlsKeyKeeps ==
  ASSUME StartInv, LoadTlsKey
  PROVE  StartInv'
<1> DEFINE ok == /\ given.tls_key_pem.state = "ok"
                 /\ Passphrase(cfg, given.passphrase_lines).ok
                 /\ \/ given.tls_key_pem.pass = <<>>
                    \/ given.tls_key_pem.pass
                         = Passphrase(cfg, given.passphrase_lines).pass
           v == "loaded"
<1>1. /\ Step("tls_key", ok) /\ given' = given /\ cfg' = cfg
      /\ ctl' = IF ok THEN [ctl EXCEPT !.key = v] ELSE ctl
  BY DEF LoadTlsKey, Sets
<1>2. CASE ~ok
  BY <1>1, <1>2, StepFails
<1>3. CASE ok
  <2>1. pc = "tls_key" /\ pc' = "tls"
    BY <1>1, <1>3, StepOrder
  <2>2. CtlShape /\ ctl' = [ctl EXCEPT !["key"] = v]
    BY <1>1, <1>3 DEF StartInv
  <2> HIDE DEF v
  <2>3. /\ CtlShape' /\ ctl'.key = v
        /\ ctl'.filter = ctl.filter /\ ctl'.log_file = ctl.log_file
        /\ ctl'.upstream = ctl.upstream /\ ctl'.verifier = ctl.verifier
        /\ ctl'.rate = ctl.rate /\ ctl'.bypass = ctl.bypass
        /\ ctl'.mtls = ctl.mtls /\ ctl'.machine = ctl.machine
        /\ ctl'.machine_required = ctl.machine_required
    BY <2>2, SetControl DEF Controls
  <2> QED
    BY <1>1, <1>3, <2>1, <2>3
       DEF StartInv, LoadDone, LoggingDone, UpstreamTlsDone, VerifierDone,
         RateLimiterDone, MtlsDone, MachineDone, CasApart, BypassDone, v
<1> QED
  BY <1>2, <1>3

LEMMA TlsKeeps ==
  ASSUME StartInv, BuildTls
  PROVE  StartInv'
<1> DEFINE ok == given.tls_cert_pem = "ok" /\ given.tls_key_pem.pair
           v == "pair"
<1>1. /\ Step("tls", ok) /\ given' = given /\ cfg' = cfg
      /\ ctl' = IF ok THEN [ctl EXCEPT !.key = v] ELSE ctl
  BY DEF BuildTls, Sets
<1>2. CASE ~ok
  BY <1>1, <1>2, StepFails
<1>3. CASE ok
  <2>1. pc = "tls" /\ pc' = "client_auth"
    BY <1>1, <1>3, StepOrder
  <2>2. CtlShape /\ ctl' = [ctl EXCEPT !["key"] = v]
    BY <1>1, <1>3 DEF StartInv
  <2> HIDE DEF v
  <2>3. /\ CtlShape' /\ ctl'.key = v
        /\ ctl'.filter = ctl.filter /\ ctl'.log_file = ctl.log_file
        /\ ctl'.upstream = ctl.upstream /\ ctl'.verifier = ctl.verifier
        /\ ctl'.rate = ctl.rate /\ ctl'.bypass = ctl.bypass
        /\ ctl'.mtls = ctl.mtls /\ ctl'.machine = ctl.machine
        /\ ctl'.machine_required = ctl.machine_required
    BY <2>2, SetControl DEF Controls
  <2> QED
    BY <1>1, <1>3, <2>1, <2>3
       DEF StartInv, LoadDone, LoggingDone, UpstreamTlsDone, VerifierDone,
         RateLimiterDone, MtlsDone, MachineDone, CasApart, BypassDone, v
<1> QED
  BY <1>2, <1>3

LEMMA ClientCertsKeep ==
  ASSUME StartInv, RequireClientCerts
  PROVE  StartInv'
<1> DEFINE ok == ctl.mtls.on => given.client_ca_pem.state = "ok"
           s == IF ctl.mtls.on THEN given.client_ca_pem.cas ELSE {}
           c == [ctl EXCEPT !.store = s, !.verify_peer = ctl.mtls.on]
<1>1. /\ Step("client_auth", ok) /\ given' = given /\ cfg' = cfg
      /\ ctl' = IF ok THEN c ELSE ctl
  BY DEF RequireClientCerts, Sets
<1>2. CASE ~ok
  BY <1>1, <1>2, StepFails
<1>3. CASE ok
  <2>1. pc = "client_auth" /\ pc' = "listening"
    BY <1>1, <1>3, StepOrder
  <2>2. DOMAIN ctl = Controls /\ CtlShape
    BY DEF StartInv, CtlShape
  <2>3. c = [j \in Controls |-> IF j = "store" THEN s
                                ELSE IF j = "verify_peer" THEN ctl.mtls.on
                                ELSE ctl[j]]
    BY <2>2 DEF CtlShape, Controls
  <2>4. ctl' = c
    BY <1>1, <1>3
  <2>5. ctl.mtls.on => s = ctl.mtls.cas
    BY <2>1 DEF StartInv, MtlsDone, On, Off
  <2> HIDE DEF c, s
  <2>6. /\ CtlShape' /\ ctl'.store = s /\ ctl'.verify_peer = ctl.mtls.on
        /\ ctl'.filter = ctl.filter /\ ctl'.log_file = ctl.log_file
        /\ ctl'.upstream = ctl.upstream /\ ctl'.verifier = ctl.verifier
        /\ ctl'.rate = ctl.rate /\ ctl'.mtls = ctl.mtls /\ ctl'.key = ctl.key
        /\ ctl'.machine = ctl.machine /\ ctl'.bypass = ctl.bypass
        /\ ctl'.machine_required = ctl.machine_required
    BY <2>3, <2>4 DEF CtlShape, Controls
  <2> QED
    BY <1>1, <2>1, <2>5, <2>6
       DEF StartInv, LoadDone, LoggingDone, UpstreamTlsDone, VerifierDone,
         RateLimiterDone, MtlsDone, MachineDone, CasApart, BypassDone,
         StoreFilled
<1> QED
  BY <1>2, <1>3

\* The configuration is dropped; what was checked against it stays.
LEMMA ServingKeeps ==
  ASSUME StartInv, RunForever
  PROVE  StartInv'
<1>1. pc = "listening" /\ pc' = "serving" /\ ctl' = ctl
  BY DEF RunForever
<1>2. CtlShape /\ CasApart /\ BypassDone /\ StoreFilled
  BY <1>1 DEF StartInv
<1> QED
  BY <1>1, <1>2 DEF StartInv, CtlShape, CasApart, BypassDone, BypassNeedsMtls,
                    StoreFilled

LEMMA MainKeepsStart ==
  ASSUME StartInv, StartNext
  PROVE  StartInv'
<1>1. CASE ValidateProxy
  BY <1>1, StepChecks DEF ValidateProxy
<1>2. CASE NewProxy
  BY <1>2, StepChecks DEF NewProxy
<1> QED
  BY <1>1, <1>2, LoadKeeps, LogInitKeeps, UpstreamTlsKeeps, VerifierKeeps,
     RateLimiterKeeps, MtlsKeeps, MachineKeeps, OverlapKeeps, BypassKeeps,
     TlsKeyKeeps, TlsKeeps, ClientCertsKeep, ServingKeeps DEF StartNext

-----------------------------------------------------------------------------
(* Type correctness.                                                       *)

StepNames == {Steps[i] : i \in DOMAIN Steps}

LEMMA StepNamesAre ==
  StepNames = {"load", "logging", "proxy", "upstream_tls", "verifier",
               "rate_limiter", "mtls", "machine", "ca_overlap", "bypass", "new",
               "tls_key", "tls", "client_auth", "listening"}
<1>1. DOMAIN Steps = 1..15
  BY DEF Steps
<1>2. ASSUME NEW i \in 1..15
      PROVE  i \in {1, 2, 3, 4, 5, 6, 7, 8, 9, 10, 11, 12, 13, 14, 15}
  OBVIOUS
<1>3. StepNames = {Steps[i] : i \in {1, 2, 3, 4, 5, 6, 7, 8, 9, 10, 11, 12, 13, 14, 15}}
  BY <1>1, <1>2 DEF StepNames
<1> QED
  BY <1>3 DEF Steps

\* What a step of main() does to the place it has reached and to its verdict.
StartTypeOK ==
  /\ pc \in StepNames \cup {"serving", "exited"}
  /\ died \in StepNames \cup {"no"}
  /\ (pc = "exited") = (died # "no")
  /\ errors # {} => died = "load"

LEMMA StepKeepsType ==
  ASSUME StartTypeOK, NEW here \in StepNames \ {"listening"}, NEW ok, Step(here, ok),
         \/ errors' = errors
         \/ here = "load" /\ (ok => errors' = {})
  PROVE  StartTypeOK'
<1>1. /\ pc = here
      /\ ~ok => pc' = "exited" /\ died' = here
      /\ ok => died' = died /\ pc' \in StepNames
  BY StepOrder, StepNamesAre
<1>2. died = "no" /\ errors = {}
  BY <1>1, StepNamesAre DEF StartTypeOK
<1>3. CASE ok
  BY <1>1, <1>2, <1>3, StepNamesAre DEF StartTypeOK
<1>4. CASE ~ok
  BY <1>1, <1>2, <1>4, StepNamesAre DEF StartTypeOK
<1> QED
  BY <1>3, <1>4

LEMMA MainKeepsType ==
  ASSUME StartTypeOK, StartNext
  PROVE  StartTypeOK'
<1>1. ASSUME Load PROVE StartTypeOK'
  <2> DEFINE ok == LoadErrors(given) = {}
  <2>1. Step("load", ok) /\ errors' = LoadErrors(given)
    BY <1>1 DEF Load
  <2>2. ok => errors' = {}
    BY <2>1
  <2> QED
    BY <2>1, <2>2, StepKeepsType, StepNamesAre
<1>2. ASSUME NEW here \in StepNames \ {"listening"}, NEW ok, Step(here, ok),
             errors' = errors
      PROVE  StartTypeOK'
  BY <1>2, StepKeepsType
<1>3. ASSUME LogInit \/ ValidateProxy \/ LoadUpstreamTls \/ LoadVerifier
      PROVE  StartTypeOK'
  BY <1>2, <1>3, StepNamesAre
     DEF LogInit, ValidateProxy, LoadUpstreamTls, LoadVerifier
<1>4. ASSUME LoadRateLimiter \/ LoadMtls \/ LoadMachine \/ CheckCaOverlap
      PROVE  StartTypeOK'
  BY <1>2, <1>4, StepNamesAre
     DEF LoadRateLimiter, LoadMtls, LoadMachine, CheckCaOverlap
<1>5. ASSUME LoadBypass \/ NewProxy \/ LoadTlsKey \/ BuildTls \/ RequireClientCerts
      PROVE  StartTypeOK'
  BY <1>2, <1>5, StepNamesAre
     DEF LoadBypass, NewProxy, LoadTlsKey, BuildTls, RequireClientCerts
<1>6. ASSUME RunForever PROVE StartTypeOK'
  BY <1>6, StepNamesAre DEF RunForever, StartTypeOK
<1> QED
  BY <1>1, <1>3, <1>4, <1>5, <1>6 DEF StartNext

\* What the listener's own variables hold.
ConnRecords == [open : BOOLEAN, ip : Addresses, cert : Certs \cup {NoCert},
                id : Identities, bypassed : BOOLEAN]

ListenTypeOK ==
  /\ conn \in [Conns -> ConnRecords]
  /\ tickets \subseteq Certs \cup {NoCert}
  /\ expired \subseteq Certs
  /\ run \in 1..MaxRuns

LEMMA TypeParts ==
  /\ TypeOK <=> StartTypeOK /\ ListenTypeOK
  /\ TypeOK' <=> StartTypeOK' /\ ListenTypeOK'
BY DEF TypeOK, StartTypeOK, ListenTypeOK, ConnRecords, StepNames

LEMMA ClosedType == Closed \in ConnRecords
BY DEF Closed, ConnRecords, Addresses, Identities

\* The connection Open makes.
Opened(ip, cert) ==
  [open |-> TRUE, ip |-> ip, cert |-> cert,
   id |-> IF ctl.mtls.on /\ cert # NoCert THEN ClientCert(cert) ELSE NoIdentity,
   bypassed |-> FALSE]

LEMMA OpenedType ==
  ASSUME NEW ip \in Addresses, NEW cert \in Certs \cup {NoCert}
  PROVE  Opened(ip, cert) \in ConnRecords
BY DEF Opened, ConnRecords, Identities

LEMMA ListenKeepsType ==
  ASSUME ListenTypeOK, Next
  PROVE  ListenTypeOK'
<1>1. ASSUME Main PROVE ListenTypeOK'
  BY <1>1 DEF Main, listenVars, ListenTypeOK
<1>2. ASSUME NEW c \in Conns, NEW ip \in Addresses, NEW cert \in Certs \cup {NoCert},
             FullHandshake(c, ip, cert) \/ ResumedHandshake(c, ip, cert)
      PROVE  ListenTypeOK'
  <2>1. conn' = [conn EXCEPT ![c] = Opened(ip, cert)]
    BY <1>2 DEF FullHandshake, ResumedHandshake, Open, Opened
  <2>2. conn' \in [Conns -> ConnRecords]
    BY <2>1, OpenedType DEF ListenTypeOK
  <2> QED
    BY <1>2, <2>2 DEF FullHandshake, ResumedHandshake, ListenTypeOK
<1>3. ASSUME NEW cert \in Certs, SessionEnds(cert) \/ CertExpires(cert)
      PROVE  ListenTypeOK'
  BY <1>3 DEF SessionEnds, CertExpires, ListenTypeOK
<1>4. ASSUME NEW c \in Conns, BypassRequest(c) \/ Close(c)
      PROVE  ListenTypeOK'
  <2>1. conn[c] \in ConnRecords
    BY DEF ListenTypeOK
  <2>2. [conn[c] EXCEPT !.bypassed = TRUE] \in ConnRecords
    BY <2>1 DEF ConnRecords
  <2>3. \/ conn' = [conn EXCEPT ![c] = [conn[c] EXCEPT !.bypassed = TRUE]]
        \/ conn' = [conn EXCEPT ![c] = Closed]
    BY <1>4 DEF BypassRequest, Close
  <2>4. conn' \in [Conns -> ConnRecords]
    BY <2>2, <2>3, ClosedType DEF ListenTypeOK
  <2> QED
    BY <1>4, <2>4 DEF BypassRequest, Close, ListenTypeOK
<1>5. ASSUME NEW g \in Restarts, Restart(g) PROVE ListenTypeOK'
  <2>1. conn' \in [Conns -> ConnRecords]
    BY <1>5, ClosedType DEF Restart
  <2>2. run' \in 1..MaxRuns
    BY <1>5, RunsAssumption DEF Restart, ListenTypeOK
  <2> QED
    BY <1>5, <2>1, <2>2 DEF Restart, ListenTypeOK
<1> QED
  BY <1>1, <1>2, <1>3, <1>4, <1>5 DEF Next

-----------------------------------------------------------------------------
(* Connections and sessions.                                               *)

\* main() runs only while nothing is served.
LEMMA MainBeforeServing ==
  ASSUME StartNext
  PROVE  pc # "serving"
BY DEF StartNext, Step, Load, LogInit, ValidateProxy, LoadUpstreamTls,
       LoadVerifier, LoadRateLimiter, LoadMtls, LoadMachine, CheckCaOverlap,
       LoadBypass, NewProxy, LoadTlsKey, BuildTls, RequireClientCerts, RunForever

LEMMA MainKeepsConns ==
  ASSUME ConnInv, Main
  PROVE  ConnInv'
<1>1. pc # "serving" /\ UNCHANGED <<conn, tickets, verified>>
  BY MainBeforeServing DEF Main, listenVars
<1> QED
  BY <1>1 DEF ConnInv, OneConn

LEMMA HandshakeKeepsConns ==
  ASSUME TypeOK, ConnInv, NEW c \in Conns, NEW ip \in Addresses,
         NEW cert \in Certs \cup {NoCert},
         FullHandshake(c, ip, cert) \/ ResumedHandshake(c, ip, cert)
  PROVE  ConnInv'
<1>1. /\ pc = "serving" /\ pc' = pc /\ ctl' = ctl
      /\ conn' = [conn EXCEPT ![c] = Opened(ip, cert)]
      /\ verified \subseteq verified' /\ cert \in verified'
      /\ tickets' \subseteq verified'
  BY DEF FullHandshake, ResumedHandshake, Open, Opened, startVars, ConnInv
<1>2. ctl'.verify_peer =>
        \A x \in verified' : x # NoCert /\ ChainsTo(x.issuer, ctl'.store)
  BY DEF FullHandshake, ResumedHandshake, startVars, ConnInv
<1>3. OneConn(Opened(ip, cert))'
  <2>1. /\ Opened(ip, cert).cert = cert /\ Opened(ip, cert).bypassed = FALSE
        /\ Opened(ip, cert).id = IF ctl.mtls.on /\ cert # NoCert
                                 THEN ClientCert(cert) ELSE NoIdentity
    BY DEF Opened
  <2>2. Opened(ip, cert)' = Opened(ip, cert)
    BY <1>1 DEF Opened
  <2> QED
    BY <1>1, <2>1, <2>2 DEF OneConn
<1>4. ASSUME NEW x \in Conns PROVE OneConn(conn[x])'
  <2>1. conn'[x] = IF x = c THEN Opened(ip, cert) ELSE conn[x]
    BY <1>1, TypeParts DEF ListenTypeOK
  <2>2. CASE x = c
    BY <1>1, <1>3, <2>1, <2>2 DEF OneConn, Opened
  <2>3. CASE x # c
    <3>1. conn'[x] = conn[x] /\ OneConn(conn[x])
      BY <2>1, <2>3 DEF ConnInv
    <3> QED
      BY <1>1, <3>1 DEF OneConn
  <2> QED
    BY <2>2, <2>3
<1> QED
  BY <1>1, <1>2, <1>4 DEF ConnInv

LEMMA SessionKeepsConns ==
  ASSUME ConnInv, NEW cert \in Certs, SessionEnds(cert) \/ CertExpires(cert)
  PROVE  ConnInv'
<1>1. /\ UNCHANGED <<pc, ctl, conn, verified>> /\ pc = "serving"
      /\ tickets' \subseteq tickets
  BY DEF SessionEnds, CertExpires, startVars
<1> QED
  BY <1>1 DEF ConnInv, OneConn

LEMMA RequestKeepsConns ==
  ASSUME TypeOK, ConnInv, NEW c \in Conns, BypassRequest(c) \/ Close(c)
  PROVE  ConnInv'
<1>1. UNCHANGED <<pc, ctl, tickets, verified>>
  BY DEF BypassRequest, Close, startVars
<1>2. conn \in [Conns -> ConnRecords]
  BY TypeParts DEF ListenTypeOK
<1>3. pc = "serving"
  <2>1. conn[c].open
    BY DEF BypassRequest, Close
  <2>2. conn[c] # Closed
    BY <2>1 DEF Closed
  <2> QED
    BY <2>2 DEF ConnInv
<1>4. ASSUME NEW x \in Conns PROVE OneConn(conn[x])'
  <2>1. CASE conn'[x] = conn[x]
    BY <1>1, <2>1 DEF ConnInv, OneConn
  <2>2. CASE conn'[x] = Closed
    BY <1>1, <2>2 DEF OneConn, Closed
  <2>3. CASE /\ x = c /\ conn[c].open
             /\ Authorizes(ctl.bypass, conn[c].ip, conn[c].id)
             /\ conn'[x] = [conn[x] EXCEPT !.bypassed = TRUE]
    <3>1. conn[x] \in ConnRecords /\ conn[x] # Closed
      BY <1>2, <2>3 DEF Closed
    <3>2. /\ conn'[x].cert = conn[x].cert /\ conn'[x].id = conn[x].id
          /\ conn'[x].ip = conn[x].ip
      BY <2>3, <3>1 DEF ConnRecords
    <3>3. OneConn(conn[x])
      BY DEF ConnInv
    <3> QED
      BY <1>1, <2>3, <3>1, <3>2, <3>3 DEF OneConn
  <2>4. \/ conn'[x] = conn[x]
        \/ conn'[x] = Closed
        \/ /\ x = c /\ conn[c].open
           /\ Authorizes(ctl.bypass, conn[c].ip, conn[c].id)
           /\ conn'[x] = [conn[x] EXCEPT !.bypassed = TRUE]
    BY <1>2 DEF BypassRequest, Close
  <2> QED
    BY <2>1, <2>2, <2>3, <2>4
<1> QED
  BY <1>1, <1>3, <1>4 DEF ConnInv

LEMMA RestartKeeps ==
  ASSUME NEW g, Restart(g)
  PROVE  StartTypeOK' /\ StartInv' /\ ConnInv'
<1>1. /\ pc' = "load" /\ ctl' = NoControls /\ died' = "no" /\ errors' = {}
      /\ conn' = [c \in Conns |-> Closed] /\ tickets' = {} /\ verified' = {}
  BY DEF Restart
<1>2. StartTypeOK'
  BY <1>1, StepNamesAre DEF StartTypeOK
<1>3. StartInv'
  BY <1>1 DEF StartInv, CtlShape, Controls, NoControls
<1>4. ConnInv'
  BY <1>1 DEF ConnInv, OneConn
<1> QED
  BY <1>2, <1>3, <1>4

-----------------------------------------------------------------------------
(* The invariant holds.                                                    *)

LEMMA InitInv == Init => Inv
<1> SUFFICES ASSUME Init PROVE Inv
  OBVIOUS
<1>1. /\ pc = "load" /\ ctl = NoControls /\ died = "no" /\ errors = {}
      /\ conn = [c \in Conns |-> Closed] /\ tickets = {} /\ verified = {}
      /\ expired = {} /\ run = 1
  BY DEF Init, StartInit
<1>2. StartTypeOK
  BY <1>1, StepNamesAre DEF StartTypeOK
<1>3. ListenTypeOK
  BY <1>1, ClosedType, RunsAssumption DEF ListenTypeOK
<1>4. StartInv
  BY <1>1 DEF StartInv, CtlShape, Controls, NoControls
<1>5. ConnInv
  BY <1>1 DEF ConnInv, OneConn
<1> QED
  BY <1>2, <1>3, <1>4, <1>5, TypeParts DEF Inv

LEMMA StartVarsKeep ==
  ASSUME StartTypeOK, StartInv, UNCHANGED startVars
  PROVE  StartTypeOK' /\ StartInv'
<1>1. UNCHANGED <<given, cfg, pc, ctl, errors, died>>
  BY DEF startVars
<1>2. StartTypeOK'
  BY <1>1 DEF StartTypeOK, StepNames
<1>3. StartInv'
  BY <1>1, ZenonT(40) DEF StartInv, CtlShape, LoadDone, LoggingDone, UpstreamTlsDone,
    VerifierDone, RateLimiterDone, MtlsDone, MachineDone, CasApart, BypassDone,
    BypassNeedsMtls, StoreFilled
<1> QED
  BY <1>2, <1>3

LEMMA NextInv == Inv /\ [Next]_vars => Inv'
<1> SUFFICES ASSUME Inv, [Next]_vars PROVE Inv'
  OBVIOUS
<1>1. TypeOK /\ StartTypeOK /\ ListenTypeOK /\ StartInv /\ ConnInv
  BY TypeParts DEF Inv
<1>2. CASE UNCHANGED vars
  <2>1. UNCHANGED <<startVars, conn, tickets, expired, verified, run>>
    BY <1>2 DEF vars, listenVars
  <2>2. ListenTypeOK'
    BY <1>1, <2>1 DEF ListenTypeOK
  <2>3. ConnInv'
    BY <1>1, <2>1 DEF ConnInv, OneConn, startVars
  <2> QED
    BY <1>1, <2>1, <2>2, <2>3, StartVarsKeep, TypeParts DEF Inv
<1>3. CASE Next
  <2>1. ListenTypeOK'
    BY <1>1, <1>3, ListenKeepsType
  <2>2. ASSUME Main PROVE StartTypeOK' /\ StartInv' /\ ConnInv'
    BY <1>1, <2>2, MainKeepsStart, MainKeepsType, MainKeepsConns DEF Main
  <2>3. ASSUME NEW c \in Conns, NEW ip \in Addresses, NEW cert \in Certs \cup {NoCert},
               FullHandshake(c, ip, cert) \/ ResumedHandshake(c, ip, cert)
        PROVE  StartTypeOK' /\ StartInv' /\ ConnInv'
    <3>1. UNCHANGED startVars
      BY <2>3 DEF FullHandshake, ResumedHandshake
    <3> QED
      BY <1>1, <2>3, <3>1, StartVarsKeep, HandshakeKeepsConns
  <2>4. ASSUME NEW cert \in Certs, SessionEnds(cert) \/ CertExpires(cert)
        PROVE  StartTypeOK' /\ StartInv' /\ ConnInv'
    <3>1. UNCHANGED startVars
      BY <2>4 DEF SessionEnds, CertExpires
    <3> QED
      BY <1>1, <2>4, <3>1, StartVarsKeep, SessionKeepsConns
  <2>5. ASSUME NEW c \in Conns, BypassRequest(c) \/ Close(c)
        PROVE  StartTypeOK' /\ StartInv' /\ ConnInv'
    <3>1. UNCHANGED startVars
      BY <2>5 DEF BypassRequest, Close
    <3> QED
      BY <1>1, <2>5, <3>1, StartVarsKeep, RequestKeepsConns
  <2>6. ASSUME NEW g \in Restarts, Restart(g)
        PROVE  StartTypeOK' /\ StartInv' /\ ConnInv'
    BY <2>6, RestartKeeps
  <2>7. StartTypeOK' /\ StartInv' /\ ConnInv'
    BY <1>3, <2>2, <2>3, <2>4, <2>5, <2>6 DEF Next
  <2>8. TypeOK'
    BY <2>1, <2>7, TypeParts
  <2> QED
    BY <2>7, <2>8 DEF Inv
<1> QED
  BY <1>2, <1>3

LEMMA Invariance == Spec => []Inv
BY InitInv, NextInv, PTL DEF Spec

-----------------------------------------------------------------------------
(* What follows.                                                           *)

\* The place main() has reached, the step that ended it and what it printed,
\* and everything the listener keeps, are of their types in every reachable
\* state (main.rs, mtls.rs).
THEOREM TypeCorrect == Spec => []TypeOK
<1>1. Inv => TypeOK
  BY DEF Inv
<1> QED
  BY <1>1, Invariance, PTL

LEMMA OpenNotClosed ==
  ASSUME NEW d, d.open \/ d.bypassed
  PROVE  d # Closed
BY DEF Closed

\* With client authentication on, whatever else is open was verified against
\* the store, which is the bundle client_ca named.
LEMMA OpenIsVerified ==
  ASSUME Inv, NEW c \in Conns, conn[c] # Closed, ctl.mtls.on
  PROVE  /\ pc = "serving" /\ ctl.verify_peer /\ ctl.store = ctl.mtls.cas
         /\ conn[c].cert \in verified
         /\ ChainsTo(conn[c].cert.issuer, ctl.store)
         /\ conn[c].id = ClientCert(conn[c].cert)
<1>1. pc = "serving"
  BY DEF Inv, ConnInv
<1>2. ctl.verify_peer /\ ctl.store = ctl.mtls.cas
  BY <1>1 DEF Inv, StartInv, StoreFilled
<1>3. /\ conn[c].cert \in verified
      /\ conn[c].id = IF conn[c].cert # NoCert
                      THEN ClientCert(conn[c].cert) ELSE NoIdentity
  BY DEF Inv, ConnInv, OneConn
<1>4. conn[c].cert # NoCert /\ ChainsTo(conn[c].cert.issuer, ctl.store)
  BY <1>2, <1>3 DEF Inv, ConnInv
<1> QED
  BY <1>1, <1>2, <1>3, <1>4

\* mTLS across resumption and restarts: no handshake path, full or resumed,
\* in any run, leaves an open connection whose identity this run's CA has not
\* verified (mtls.rs, main.rs).
THEOREM IdentitiesAreVerified == Spec => []IdentityVerifiedThisRun
<1>1. Inv => IdentityVerifiedThisRun
  BY OpenNotClosed, OpenIsVerified DEF IdentityVerifiedThisRun
<1> QED
  BY <1>1, Invariance, PTL

\* The overlap check of main() keeps users and machines apart for as long as
\* the proxy serves, as far as it goes: every connection and every session rests
\* on a chain to a root of the client bundle that is no machine CA, whatever CAs
\* certify each other (main.rs, mtls.rs).  A machine CA that such a root has
\* certified is not kept out.
THEOREM CasNeverMixed == Spec => []IdentitiesApart
<1>1. Inv => IdentitiesApart
  <2> SUFFICES ASSUME Inv, ctl.mtls.on, ctl.machine.on, pc = "serving",
                      NEW cert, \/ \E c \in Conns : conn[c].open /\ cert = conn[c].cert
                                \/ cert \in tickets
               PROVE  ChainsTo(cert.issuer, ctl.store \ ctl.machine.cas)
    BY DEF IdentitiesApart
  <2>1. /\ ctl.mtls.cas \cap ctl.machine.cas = {} /\ ctl.verify_peer
        /\ ctl.store = ctl.mtls.cas
    BY DEF Inv, StartInv, CasApart, StoreFilled
  <2>2. cert \in verified
    BY OpenNotClosed, OpenIsVerified DEF Inv, ConnInv
  <2>3. ChainsTo(cert.issuer, ctl.store)
    BY <2>1, <2>2 DEF Inv, ConnInv
  <2>4. ctl.store \ ctl.machine.cas = ctl.store
    BY <2>1
  <2> QED
    BY <2>3, <2>4, Zenon
<1> QED
  BY <1>1, Invariance, PTL

\* Attestation is skipped for nobody the policy of this run does not list: the
\* address is in range and a certificate this run verified carries a listed
\* name, and client authentication is on (passthrough.rs, main.rs).
THEOREM BypassIsEarned == Spec => []BypassOnlyListed
<1>1. Inv => BypassOnlyListed
  <2> SUFFICES ASSUME Inv, NEW c \in Conns, conn[c].bypassed
               PROVE  /\ ctl.bypass.on /\ ctl.mtls.on
                      /\ InRange(conn[c].ip, ctl.bypass.ranges)
                      /\ conn[c].cert \in verified
                      /\ (CommonName(conn[c].cert.subject) \cup
                            {conn[c].cert.san[i] : i \in DOMAIN conn[c].cert.san})
                           \cap ctl.bypass.subjects # {}
    BY DEF BypassOnlyListed
  <2>1. conn[c] # Closed
    BY OpenNotClosed
  <2>2. pc = "serving"
    BY <2>1 DEF Inv, ConnInv
  <2>3. Authorizes(ctl.bypass, conn[c].ip, conn[c].id)
    BY <2>1 DEF Inv, ConnInv, OneConn
  <2>4. /\ ctl.bypass.on /\ InRange(conn[c].ip, ctl.bypass.ranges)
        /\ Matched(conn[c].id, ctl.bypass.subjects)
    BY <2>3 DEF Authorizes
  <2>5. ctl.mtls.on
    BY <2>2, <2>4 DEF Inv, StartInv, BypassNeedsMtls
  <2>6. conn[c].cert \in verified /\ conn[c].id = ClientCert(conn[c].cert)
    BY <2>1, <2>5, OpenIsVerified
  <2>7. /\ conn[c].id.cn = CommonName(conn[c].cert.subject)
        /\ conn[c].id.san = conn[c].cert.san
    BY <2>6 DEF ClientCert
  <2> QED
    BY <2>4, <2>5, <2>6, <2>7 DEF Matched
<1> QED
  BY <1>1, Invariance, PTL

-----------------------------------------------------------------------------
(* What main() was given, and what it makes of it.                         *)

\* main() works on one of the starts, and what Config::load printed about it
\* quotes nothing it should not.
GivenInv ==
  /\ pc \in StepNames => given \in Starts \cup Restarts
  /\ ErrorsQuoteNothing

LEMMA SecretIs ==
  \A k : k \in DOMAIN SecretSettings <=> k = "tls_key_passphrase"
BY DEF SecretSettings

\* What Config::load prints about a start is the error of its file, or quotes
\* nothing it should not.
LEMMA ReportsAreDiscreet ==
  ASSUME NEW g \in Starts \cup Restarts, NEW e \in LoadErrors(g), e.setting # "file"
  PROVE  /\ e.setting = "tls_key_passphrase" => e.names = <<>>
         /\ e.names # <<>> => IsValidName(e.names)
<1>0. e \in ExpandErrors(g)
  BY DEF LoadErrors
<1>1. PICK k \in StringSettings : \E t \in Strings(g, k) : e = Report(g, k, t)
  BY <1>0 DEF ExpandErrors
<1>2. PICK t \in Strings(g, k) : e = Report(g, k, t)
  BY <1>1
<1>3. t \in Seq(Char) /\ g.env.value \in Seq(Char)
  BY TextsAssumption
<1>4. PICK secret \in BOOLEAN : secret <=> k = "tls_key_passphrase"
  OBVIOUS
<1>5. Expand(g, k, t) = ExpandStr(t, g.env, secret)
  <2>1. secret = (k \in DOMAIN SecretSettings)
    BY <1>4, SecretIs
  <2> QED
    BY <2>1, Zenon DEF Expand
<1>6. e.setting = k /\ e.names = ExpandStr(t, g.env, secret).names
  BY <1>2, <1>5 DEF Report
<1>7. e.names # <<>> => IsValidName(e.names) /\ ~secret
  BY <1>3, <1>6, ErrorsNameVariables
<1> QED
  BY <1>4, <1>6, <1>7

\* The steps of main() after the first print nothing more, and go on with the
\* same start until the proxy serves.
LEMMA MainKeepsGiven ==
  ASSUME StartNext
  PROVE  \/ Load
         \/ errors' = errors /\ given' = given /\ pc \in StepNames
         \/ errors' = errors /\ pc' = "serving"
BY StepNamesAre
   DEF StartNext, Step, LogInit, ValidateProxy, LoadUpstreamTls, LoadVerifier,
     LoadRateLimiter, LoadMtls, LoadMachine, CheckCaOverlap, LoadBypass, NewProxy,
     LoadTlsKey, BuildTls, RequireClientCerts, RunForever

LEMMA GivenInvariance == Spec => []GivenInv
<1>1. Init => GivenInv
  BY DEF Init, StartInit, GivenInv, ErrorsQuoteNothing
<1>2. ASSUME GivenInv, [Next]_vars PROVE GivenInv'
  <2>1. CASE UNCHANGED <<pc, given, errors>>
    BY <1>2, <2>1 DEF GivenInv, ErrorsQuoteNothing, StepNames
  <2>2. CASE StartNext
    <3>1. CASE Load
      <4>1. pc \in StepNames /\ given' = given /\ errors' = LoadErrors(given)
        BY <3>1, StepNamesAre DEF Load, Step
      <4>2. given \in Starts \cup Restarts
        BY <1>2, <4>1 DEF GivenInv
      <4> QED
        BY <4>1, <4>2, ReportsAreDiscreet DEF GivenInv, ErrorsQuoteNothing
    <3>2. CASE errors' = errors /\ given' = given /\ pc \in StepNames
      BY <1>2, <3>2 DEF GivenInv, ErrorsQuoteNothing
    <3>3. CASE errors' = errors /\ pc' = "serving"
      BY <1>2, <3>3, StepNamesAre DEF GivenInv, ErrorsQuoteNothing, StepNames
    <3> QED
      BY <2>2, <3>1, <3>2, <3>3, MainKeepsGiven
  <2>3. CASE \E g \in Restarts : Restart(g)
    BY <2>3 DEF Restart, GivenInv, ErrorsQuoteNothing
  <2> QED
    BY <1>2, <2>1, <2>2, <2>3
       DEF Next, Main, FullHandshake, ResumedHandshake, SessionEnds, CertExpires,
         BypassRequest, Close, startVars, vars
<1> QED
  BY <1>1, <1>2, PTL DEF Spec

\* However the file and the environment look, what a start prints about a string
\* that fails to expand is at most a variable's name, and nothing of a secret
\* (config/env.rs).  The typed parse and the later validations do quote the file.
THEOREM ErrorsAreDiscreet == Spec => []ErrorsQuoteNothing
<1>1. GivenInv => ErrorsQuoteNothing
  BY DEF GivenInv
<1> QED
  BY <1>1, GivenInvariance, PTL

\* The text settings of a start are texts.
LEMMA TextIs ==
  ASSUME NEW g \in Starts \cup Restarts, NEW k \in TextSettings
  PROVE  /\ Strings(g, k) = {g[k]} /\ k \in StringSettings
         /\ g[k] \in Seq(Char) /\ g.env.value \in Seq(Char)
<1>1. Strings(g, k) = {g[k]} /\ k \in StringSettings
  BY TextsAreNoLists DEF Strings, StringSettings
<1> QED
  BY <1>1, TextsAssumption

\* One text of the start main() loads is a text, and so is the variable's value.
LEMMA GivenTexts ==
  ASSUME GivenInv, pc = "load"
  PROVE  Text \in Seq(Char) /\ given.env.value \in Seq(Char)
<1>1. given \in Starts \cup Restarts
  BY StepNamesAre DEF GivenInv
<1>2. "upstream_ca" \in TextSettings
  BY DEF TextSettings, ProxySettings
<1> QED
  BY <1>1, <1>2, TextIs DEF Text

\* Expansion does what the documentation says, for every text and every
\* environment: escaped literals come out as meant, a reference is replaced by half
\* the dollars before it and the value, or fails the text with the error for it,
\* and errors of expansion quote nothing (config/env.rs).
THEOREM ExpansionAsDocumented == Spec => []ExpansionIsExact
<1>1. GivenInv => LiteralsRoundTrip
  <2> SUFFICES ASSUME GivenInv, pc = "load" PROVE Value(Escaped(Text)) = Expanded(Text)
    BY DEF LiteralsRoundTrip
  <2>1. PICK t, env : t = Text /\ t \in Seq(Char) /\ env = given.env /\ env.value \in Seq(Char)
    BY GivenTexts
  <2>2. ExpandStr(Escaped(t), env, FALSE) = Expanded(t)
    BY <2>1, LiteralsSurvive
  <2> QED
    BY <2>1, <2>2, Zenon DEF Value
<1>2. GivenInv => ReferencesInsertValues
  <2> SUFFICES ASSUME GivenInv, pc = "load", NEW e \in DOMAIN Text, NEW j \in 1..e - 1,
                      IsReference(Text, j, e)
               PROVE  Replaced(Text, j, e, given.env, FALSE)
    BY DEF ReferencesInsertValues
  <2>1. Text \in Seq(Char) /\ given.env.value \in Seq(Char)
    BY GivenTexts
  <2> QED
    BY <2>1, ReferencesInsert
<1>3. GivenInv => ExpansionIsExact
  BY <1>1, <1>2 DEF ExpansionIsExact, GivenInv
<1> QED
  BY <1>3, GivenInvariance, PTL

-----------------------------------------------------------------------------
(* A proxy that listens.                                                   *)

\* What main() has established when it reaches run_forever.
LEMMA ListeningIs ==
  ASSUME Inv, pc = "listening"
  PROVE  /\ LoadDone /\ LoggingDone /\ UpstreamTlsDone /\ VerifierDone
         /\ RateLimiterDone /\ MtlsDone /\ MachineDone /\ BypassDone
         /\ StoreFilled /\ ctl.key = "pair"
BY DEF Inv, StartInv

LEMMA ListeningHasControls ==
  ASSUME Inv, GivenInv
  PROVE  ControlsBuilt
<1> SUFFICES ASSUME pc = "listening"
             PROVE  /\ ctl.verifier /\ ctl.key = "pair"
                    /\ given.mtls_enabled =>
                         ctl.verify_peer /\ ctl.store # {} /\ ctl.store = ctl.mtls.cas
                    /\ given.machine_enabled =>
                         /\ ctl.machine.on /\ ctl.machine.cas # {}
                         /\ given.machine_required => ctl.machine_required
                    /\ given.rate_enabled => ctl.rate = "limits"
                    /\ ~given.insecure_upstream => ctl.upstream.verify
                    /\ ctl.bypass.on =>
                         /\ given.bypass_enabled /\ ctl.verify_peer
                         /\ ctl.bypass.ranges # {} /\ ctl.bypass.subjects # {}
  BY DEF ControlsBuilt
<1>1. /\ cfg.mtls_enabled = given.mtls_enabled
      /\ cfg.machine_enabled = given.machine_enabled
      /\ cfg.machine_required = given.machine_required
      /\ cfg.rate_enabled = given.rate_enabled
      /\ cfg.bypass_enabled = given.bypass_enabled
  BY ListeningIs, ParsedSettings DEF LoadDone
<1>2. ctl.verifier /\ ctl.key = "pair"
  BY ListeningIs DEF VerifierDone
<1>3. cfg.mtls_enabled =>
        /\ ctl.mtls.on /\ ctl.mtls.cas # {}
        /\ ctl.verify_peer /\ ctl.store = ctl.mtls.cas
  BY ListeningIs DEF MtlsDone, StoreFilled, Usable, On
<1>4. cfg.machine_enabled => /\ ctl.machine.on /\ ctl.machine.cas # {}
                             /\ cfg.machine_required => ctl.machine_required
  BY ListeningIs DEF MachineDone, Usable, On
<1>5. cfg.rate_enabled => ctl.rate = "limits"
  BY ListeningIs DEF RateLimiterDone, RateLimits
<1>6. ~given.insecure_upstream => ctl.upstream.verify
  BY ListeningIs DEF UpstreamTlsDone
<1>7. ctl.bypass.on => /\ cfg.bypass_enabled /\ ctl.verify_peer
                       /\ ctl.bypass.ranges # {} /\ ctl.bypass.subjects # {}
  BY ListeningIs DEF BypassDone, StoreFilled
<1> QED
  BY <1>1, <1>2, <1>3, <1>4, <1>5, <1>6, <1>7

LEMMA ListeningNotSilent ==
  ASSUME Inv
  PROVE  SilentOnlyOnPurpose
<1> SUFFICES ASSUME pc = "listening", ctl.filter = "nothing", IsBlank(given.RUST_LOG)
             PROVE  Trim(Parsed(given).level) = OffWord
  BY DEF SilentOnlyOnPurpose
<1>1. PICK level : level = Trim(cfg.level)
  OBVIOUS
<1>2. EnvFilter(level).filter = "nothing"
  BY <1>1, ListeningIs DEF LoggingDone, BuildFilter
<1>3. ~IsList(level) /\ level # Info
  BY <1>2 DEF EnvFilter
<1>4. IsList(level) \/ level \in LogLevels
  BY <1>1, ListeningIs DEF LoggingDone, LoggingValid
<1>5. level = OffWord
  BY <1>3, <1>4 DEF LogLevels
<1> QED
  BY <1>1, <1>5, ListeningIs DEF LoadDone

\* No variable expands a setting to nothing: what is off was written off.
LEMMA ListeningNotOff ==
  ASSUME Inv, GivenInv
  PROVE  NeverSilentlyOff
<1> SUFFICES ASSUME pc = "listening"
             PROVE  /\ ~ctl.upstream.roots.on => given.upstream_ca = <<>>
                    /\ ~ctl.log_file => IsBlank(given.dir)
  BY DEF NeverSilentlyOff
<1>1. given \in Starts \cup Restarts
  BY StepNamesAre DEF GivenInv
<1>2. ASSUME NEW k \in {"upstream_ca", "dir"}
      PROVE  /\ cfg[k] \in Seq(Char)
             /\ cfg[k] = given[k] \/ Solid(cfg[k])
  <2>1. k \in TextSettings /\ k \notin DOMAIN SecretSettings
    BY <1>2, SecretIs DEF TextSettings, ProxySettings
  <2>2. /\ given[k] \in Seq(Char) /\ given.env.value \in Seq(Char)
        /\ given[k] \in Strings(given, k) /\ k \in StringSettings
    BY <1>1, <2>1, TextIs
  <2>3. Expand(given, k, given[k]) = ExpandStr(given[k], given.env, FALSE)
    <3>1. (k \in DOMAIN SecretSettings) = FALSE
      BY <2>1
    <3> QED
      BY <3>1, Zenon DEF Expand
  <2>4. cfg[k] = Expand(given, k, given[k]).text
    BY <1>2, <2>1, ListeningIs, ParsedSettings DEF LoadDone
  <2>5. Expand(given, k, given[k]).err = "none"
    <3>1. LoadErrors(given) = {}
      BY ListeningIs DEF LoadDone
    <3>2. ExpandErrors(given) = {}
      BY <3>1 DEF LoadErrors
    <3>3. PICK e : e = Report(given, k, given[k])
      OBVIOUS
    <3>4. e.kind = "none"
      BY <2>2, <3>2, <3>3 DEF ExpandErrors
    <3> QED
      BY <3>3, <3>4 DEF Report
  <2> QED
    BY <2>2, <2>3, <2>4, <2>5, NothingVanishes
<1>3. ~Solid(<<>>)
  BY DEF Solid
<1>4. ~ctl.upstream.roots.on => given.upstream_ca = <<>>
  BY <1>2, <1>3, ListeningIs DEF UpstreamTlsDone
<1>5. ~ctl.log_file => IsBlank(given.dir)
  BY <1>2, ListeningIs DEF LoggingDone, FileEnabled, IsBlank, Solid
<1> QED
  BY <1>4, <1>5

\* Whatever the file, the command line, the environment and the disk hold, a
\* proxy that listens has every control it was asked for, on material that can
\* do its work, and nothing is off or silent by accident (main.rs and the
\* from_config of every part).
THEOREM NeverLessThanAsked == Spec => []ControlsInForce
<1>1. Inv /\ GivenInv => ControlsInForce
  BY ListeningHasControls, ListeningNotSilent, ListeningNotOff DEF ControlsInForce
<1> QED
  BY <1>1, Invariance, GivenInvariance, PTL

-----------------------------------------------------------------------------
(* The subjects in audit records.                                          *)

\* The subject that the records of a connection carry identifies the attributes
\* and decoded values of its certificate's subject, for subjects of any length, as
\* long as it was not cut; and no control character is recorded
\* (distinguished_name and escape_dn_value, mtls.rs; bounded, audit.rs).
THEOREM SubjectsAreUnambiguous == Spec => []SubjectsUnambiguous
<1>1. Inv => SubjectsUnambiguous
  <2> SUFFICES ASSUME Inv PROVE SubjectsUnambiguous
    OBVIOUS
  <2>1. ASSUME NEW c \in Conns, conn[c].id # NoIdentity
        PROVE  /\ conn[c].cert.subject \in Seq(SubjectEntry)
               /\ conn[c].id.subject_dn = DistinguishedName(conn[c].cert.subject)
    <3>1. conn[c] # Closed
      BY <2>1 DEF Closed
    <3>2. conn[c].id = ClientCert(conn[c].cert) /\ conn[c].cert # NoCert
      BY <2>1, <3>1 DEF Inv, ConnInv, OneConn
    <3>3. conn[c].cert \in Certs
      BY <3>2, TypeParts DEF Inv, ListenTypeOK, ConnRecords
    <3> QED
      BY <3>2, <3>3, CertsAssumption DEF ClientCert
  <2>2. ASSUME NEW c \in Conns, conn[c].id # NoIdentity,
               NEW d \in Conns, conn[d].id # NoIdentity
        PROVE  LET record == Bounded(conn[c].id.subject_dn)
               IN /\ /\ record = Bounded(conn[d].id.subject_dn)
                     /\ Len(record) <= MaxDn
                     => Entries(conn[c].cert.subject) = Entries(conn[d].cert.subject)
                  /\ \A i \in DOMAIN record : record[i] # "NL"
    <3>1. PICK m, n : /\ m = conn[c].cert.subject /\ n = conn[d].cert.subject
                      /\ m \in Seq(SubjectEntry) /\ n \in Seq(SubjectEntry)
                      /\ conn[c].id.subject_dn = DistinguishedName(m)
                      /\ conn[d].id.subject_dn = DistinguishedName(n)
      BY <2>1, <2>2
    <3>2. LET record == Bounded(DistinguishedName(m))
          IN /\ /\ record = Bounded(DistinguishedName(n))
                /\ Len(record) <= MaxDn
                => Entries(m) = Entries(n)
             /\ \A i \in DOMAIN record : record[i] # "NL"
      BY <3>1, NamesReadBack
    <3> QED
      BY <3>1, <3>2, Zenon
  <2> QED
    BY <2>2, Zenon DEF SubjectsUnambiguous
<1> QED
  BY <1>1, Invariance, PTL
=============================================================================
