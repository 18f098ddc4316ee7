------------------------------ MODULE Startup ------------------------------
(***************************************************************************)
(* main(): from the configuration file to a listening proxy.  Every step   *)
(* either puts one control in force or ends the process; nothing is served *)
(* before the last one.  The files are taken not to change during a start. *)
(***************************************************************************)
EXTENDS ProxyConfig

VARIABLES
  given,    \* what main() was given: file, command line, environment, disk
  cfg,      \* the parsed configuration
  pc,       \* the next step of main()
  ctl,      \* the controls in force
  errors,   \* what a failed Config::load prints
  died      \* the step that ended the process, "no" while it lives

startVars == <<given, cfg, pc, ctl, errors, died>>

Base ==
  [ listen |-> Endpoint, upstream |-> Endpoint, upstream_ca |-> Path,
    tls_cert |-> Path, tls_key |-> Path, tls_key_passphrase_file |-> Path,
    tls_key_passphrase |-> Blank, private_key |-> Path, rate_enabled |-> TRUE,
    rate_window_secs |-> 1, rate_max_requests |-> 1, rate_rules |-> <<>>,
    mtls_enabled |-> TRUE, client_ca |-> Path, machine_enabled |-> TRUE,
    machine_ca |-> Path, machine_required |-> TRUE,
    allowed_hostnames |-> {Host}, bypass_enabled |-> TRUE,
    allowed_ip_ranges |-> {Inside}, allowed_subjects |-> {Service},
    dir |-> Path, file_prefix |-> Path, level |-> Info,
    rotation |-> Daily, stderr |-> TRUE, config |-> "ok",
    insecure_upstream |-> FALSE, env |-> Set(Path), RUST_LOG |-> Blank,
    upstream_ca_pem |-> Bundle({OtherCA}), private_key_pem |-> "ok",
    client_ca_pem |-> Bundle({UserCA}), machine_ca_pem |-> Bundle({MachineCA}),
    tls_cert_pem |-> "ok", tls_key_pem |-> Key("ok", Word, TRUE),
    passphrase_lines |-> <<"/", "LF">>, log_dir |-> "ok" ]

Deviations(g) == UNION { {[g EXCEPT ![k] = v] : v \in Inputs[k]} : k \in DOMAIN Inputs }

\* The steps of main() in the order of the source.
Steps == <<"load", "logging", "proxy", "upstream_tls", "verifier", "rate_limiter",
           "mtls", "machine", "ca_overlap", "bypass", "new", "tls_key", "tls",
           "client_auth", "listening">>

Off == [on |-> FALSE, cas |-> {}]
On(cas) == [on |-> TRUE, cas |-> cas]

NoControls ==
  [ filter |-> "all", log_file |-> FALSE,
    upstream |-> [verify |-> TRUE, roots |-> Off], verifier |-> FALSE,
    rate |-> "off", mtls |-> Off, machine |-> Off, machine_required |-> FALSE,
    bypass |-> [on |-> FALSE, ranges |-> {}, subjects |-> {}],
    key |-> "none", verify_peer |-> FALSE, store |-> {} ]

\* A step of main(): the next one, or process::exit.
Step(here, ok) ==
  /\ pc = here
  /\ IF ok THEN /\ pc' = Steps[1 + CHOOSE i \in DOMAIN Steps : Steps[i] = here]
                /\ UNCHANGED died
           ELSE /\ pc' = "exited"
                /\ died' = here

\* Puts a control in force when the step succeeds.
Sets(ok, c) == ctl' = IF ok THEN c ELSE ctl

StartInit(g) ==
  /\ given = g
  /\ cfg = <<>>
  /\ pc = "load"
  /\ ctl = NoControls
  /\ errors = {}
  /\ died = "no"

-----------------------------------------------------------------------------
\* What Config::load prints when it fails: the error of the read, that of the
\* typed parse, which shows the offending line of the file, or what expansion
\* reports.
LoadErrors(g) ==
  LET FileError(kind) == {[setting |-> "file", kind |-> kind, names |-> <<>>]}
  IN CASE g.config = "unreadable" -> FileError("read")
       [] g.config = "mistyped" -> FileError("parse")
       [] OTHER -> ExpandErrors(g)

\* Fault: settings that fail to expand are reported and left as they are.
LoadReportsOnly ==
  LET ok == given.config = "ok"
  IN /\ Step("load", ok)
     /\ errors' = LoadErrors(given)
     /\ cfg' = IF ok THEN Parsed(given) ELSE cfg
     /\ UNCHANGED <<given, ctl>>

\* Config::load.  Its failure predates the logger and goes to stderr.
Load ==
  LET found == LoadErrors(given)
      ok == found = {}
  IN /\ Step("load", ok)
     /\ errors' = found
     /\ cfg' = IF ok THEN Parsed(given) ELSE cfg
     /\ UNCHANGED <<given, ctl>>

\* EnvFilter::try_new as given, untrimmed: a padded word names a target that
\* nothing logs to, as does any bare word that is no level.  What a directive list
\* lets through is not modelled.
EnvFilter(text) ==
  [ok |-> \A i \in DOMAIN text : text[i] \notin {"$", "{", "}"},
   filter |-> IF IsList(text) THEN "list" ELSE IF text = Info THEN "all" ELSE "nothing"]

\* build_filter: RUST_LOG if it is not blank, else the trimmed level.
BuildFilter(c, rustLog) == EnvFilter(IF IsBlank(rustLog) THEN Trim(c.level) ELSE rustLog)

\* build_file_writer: the directory is created and the first file opened now.
FileWriterBuilt == given.log_dir = "ok"

\* logging::init.
LogInit ==
  LET built == BuildFilter(cfg, given.RUST_LOG)
      ok == /\ LoggingValid(cfg)
            /\ built.ok
            /\ FileEnabled(cfg) => FileWriterBuilt
  IN /\ Step("logging", ok)
     /\ Sets(ok, [ctl EXCEPT !.filter = built.filter, !.log_file = FileEnabled(cfg)])
     /\ UNCHANGED <<given, cfg, errors>>

ValidateProxy ==
  /\ Step("proxy", ProxyValid(cfg))
  /\ UNCHANGED <<given, cfg, ctl, errors>>

Usable(pem) == pem.state = "ok" /\ pem.cas # {}

\* UpstreamTls::from_config and apply: the bundle is checked even when
\* verification is off, and replaces the default roots.
LoadUpstreamTls ==
  LET custom == cfg.upstream_ca # <<>>
      ok == custom => Usable(given.upstream_ca_pem)
  IN /\ Step("upstream_tls", ok)
     /\ Sets(ok, [ctl EXCEPT !.upstream =
                    [verify |-> ~given.insecure_upstream,
                     roots |-> IF custom THEN On(given.upstream_ca_pem.cas) ELSE Off]])
     /\ UNCHANGED <<given, cfg, errors>>

\* Verifier::from_config.
LoadVerifier ==
  LET ok == cfg.private_key # <<>> /\ given.private_key_pem = "ok"
  IN /\ Step("verifier", ok)
     /\ Sets(ok, [ctl EXCEPT !.verifier = TRUE])
     /\ UNCHANGED <<given, cfg, errors>>

\* RateLimiter::from_config: zero switches the universal cap off, but a limiter
\* without any limit is refused.
RateLimits(c) ==
  LET universal == c.rate_window_secs > 0 /\ c.rate_max_requests > 0
      Good(r) == r.window_secs > 0 /\ r.max_requests > 0 /\ IsGlob(r.pattern)
      rules == {c.rate_rules[i] : i \in DOMAIN c.rate_rules}
  IN CASE ~c.rate_enabled -> "off"
       [] c.rate_enabled /\ (\E r \in rules : ~Good(r)) -> "invalid"
       [] c.rate_enabled /\ (\A r \in rules : Good(r)) ->
            IF universal \/ rules # {} THEN "limits" ELSE "invalid"

LoadRateLimiter ==
  LET ok == RateLimits(cfg) # "invalid"
  IN /\ Step("rate_limiter", ok)
     /\ Sets(ok, [ctl EXCEPT !.rate = RateLimits(cfg)])
     /\ UNCHANGED <<given, cfg, errors>>

\* Mtls::from_config.
LoadMtls ==
  LET ok == cfg.mtls_enabled =>
              /\ cfg.client_ca # <<>>
              /\ Usable(given.client_ca_pem)
  IN /\ Step("mtls", ok)
     /\ Sets(ok, [ctl EXCEPT !.mtls =
                    IF cfg.mtls_enabled THEN On(given.client_ca_pem.cas) ELSE Off])
     /\ UNCHANGED <<given, cfg, errors>>

\* MachineIdentity::from_config.
LoadMachine ==
  LET ok == cfg.machine_enabled =>
              /\ cfg.machine_ca # <<>>
              /\ Usable(given.machine_ca_pem)
              /\ \A p \in cfg.allowed_hostnames : IsGlob(p)
  IN /\ Step("machine", ok)
     /\ Sets(ok, [ctl EXCEPT
                    !.machine = IF cfg.machine_enabled THEN On(given.machine_ca_pem.cas)
                                                       ELSE Off,
                    !.machine_required = cfg.machine_enabled /\ cfg.machine_required])
     /\ UNCHANGED <<given, cfg, errors>>

\* Fault: only bundles that are equal as a whole are refused.
CaOverlapEqualOnly ==
  /\ Step("ca_overlap", ~(ctl.mtls.on /\ ctl.machine.on /\ ctl.mtls.cas = ctl.machine.cas))
  /\ UNCHANGED <<given, cfg, ctl, errors>>

\* main(): no certificate of one client CA bundle may be in the other.
CheckCaOverlap ==
  /\ Step("ca_overlap", ctl.mtls.on /\ ctl.machine.on
                          => ctl.mtls.cas \cap ctl.machine.cas = {})
  /\ UNCHANGED <<given, cfg, ctl, errors>>

\* passthrough::from_config.
LoadBypass ==
  LET ok == cfg.bypass_enabled =>
              /\ ctl.mtls.on
              /\ cfg.allowed_ip_ranges # {}
              /\ \A t \in cfg.allowed_ip_ranges : IsCidr(t)
              /\ cfg.allowed_subjects # {}
  IN /\ Step("bypass", ok)
     /\ Sets(ok, IF cfg.bypass_enabled
                 THEN [ctl EXCEPT !.bypass = [on |-> TRUE, ranges |-> cfg.allowed_ip_ranges,
                                              subjects |-> cfg.allowed_subjects]]
                 ELSE ctl)
     /\ UNCHANGED <<given, cfg, errors>>

\* DenBrowserProxy::new: upstream is split at its last colon, the port parsed.
HostAndPort(t) ==
  LET colons == {i \in DOMAIN t : t[i] = "/"}
      port == SubSeq(t, Max(colons) + 1, Len(t))
  IN /\ colons # {}
     /\ port # <<>>
     /\ \A i \in DOMAIN port : port[i] = "1"

NewProxy ==
  /\ Step("new", HostAndPort(cfg.upstream))
  /\ UNCHANGED <<given, cfg, ctl, errors>>

\* tls_key::passphrase: inline, or the first line of the file without its
\* line ending; "none" when neither is set.
FirstLine(c) ==
  LET line == SubSeq(c, 1, Find(c, "LF", 1) - 1)
  IN IF line # <<>> /\ line[Len(line)] = "CR" THEN SubSeq(line, 1, Len(line) - 1) ELSE line

Passphrase(c, lines) ==
  CASE c.tls_key_passphrase # <<>> -> [ok |-> TRUE, pass |-> c.tls_key_passphrase]
    [] c.tls_key_passphrase = <<>> /\ c.tls_key_passphrase_file = <<>> ->
         [ok |-> TRUE, pass |-> <<>>]
    [] OTHER -> [ok |-> lines # <<"unreadable">> /\ FirstLine(lines) # <<>>,
                 pass |-> FirstLine(lines)]

\* Fault: OpenSSL asks on the terminal for a passphrase that is not set.
LoadTlsKeyPrompts ==
  LET pem == given.tls_key_pem
      phrase == Passphrase(cfg, given.passphrase_lines)
      ok == pem.state = "ok" /\ phrase.ok /\ pem.pass \in {<<>>, phrase.pass}
  IN /\ Step("tls_key", ok)
     /\ pem.pass = <<>> \/ phrase.pass # <<>>
     /\ Sets(ok, [ctl EXCEPT !.key = "loaded"])
     /\ UNCHANGED <<given, cfg, errors>>

\* tls_key::load.  A passphrase for a plain key is only reported.
LoadTlsKey ==
  LET pem == given.tls_key_pem
      phrase == Passphrase(cfg, given.passphrase_lines)
      ok == /\ pem.state = "ok"
            /\ phrase.ok
            /\ pem.pass = <<>> \/ pem.pass = phrase.pass
  IN /\ Step("tls_key", ok)
     /\ Sets(ok, [ctl EXCEPT !.key = "loaded"])
     /\ UNCHANGED <<given, cfg, errors>>

\* The acceptor: certificate chain, then the key and check_private_key.
BuildTls ==
  LET ok == given.tls_cert_pem = "ok" /\ given.tls_key_pem.pair
  IN /\ Step("tls", ok)
     /\ Sets(ok, [ctl EXCEPT !.key = "pair"])
     /\ UNCHANGED <<given, cfg, errors>>

\* set_ca_file reads the bundle again, into the store handshakes verify with;
\* then PEER | FAIL_IF_NO_PEER_CERT, and the session-id context.
RequireClientCerts ==
  LET ok == ctl.mtls.on => given.client_ca_pem.state = "ok"
  IN /\ Step("client_auth", ok)
     /\ Sets(ok, [ctl EXCEPT
                    !.store = IF ctl.mtls.on THEN given.client_ca_pem.cas ELSE {},
                    !.verify_peer = ctl.mtls.on])
     /\ UNCHANGED <<given, cfg, errors>>

\* run_forever.  Nothing reads the configuration after this.
RunForever ==
  /\ pc = "listening"
  /\ pc' = "serving"
  /\ given' = <<>>
  /\ cfg' = <<>>
  /\ UNCHANGED <<ctl, errors, died>>

StartNext ==
  \/ Load \/ LogInit \/ ValidateProxy \/ LoadUpstreamTls \/ LoadVerifier
  \/ LoadRateLimiter \/ LoadMtls \/ LoadMachine \/ CheckCaOverlap \/ LoadBypass
  \/ NewProxy \/ LoadTlsKey \/ BuildTls \/ RequireClientCerts \/ RunForever

-----------------------------------------------------------------------------
\* One text of the file, expanded in the environment it is given.
Text == given.upstream_ca
Value(s) == ExpandStr(s, given.env, FALSE)

\* Any literal text can be written in the file, with the escapes the
\* documentation gives, and comes out of expand_str as it was meant, whatever
\* the environment holds.
LiteralsRoundTrip ==
  pc = "load" => Value(Escaped(Text)) = Expanded(Text)

\* expand_str replaces every reference by half the dollars in front of it and its
\* variable's value, as data: text around it expands as if it stood alone, the
\* value is not scanned again, and a reference that is never closed, has no valid
\* name or has a value that may not be inserted fails the whole text with the
\* error for that.
ReferencesInsertValues ==
  pc = "load" =>
    \A e \in DOMAIN Text : \A j \in 1..e - 1 :
      IsReference(Text, j, e) => Replaced(Text, j, e, given.env, FALSE)

\* What Config::load prints about a failed expansion is at most a variable's
\* name, never other text of the file, and for a secret setting not even that.
\* (The typed parse before it and the validations after it do quote the file.)
ErrorsQuoteNothing ==
  \A e \in errors :
    e.setting # "file" =>
      /\ e.setting = "tls_key_passphrase" => e.names = <<>>
      /\ e.names # <<>> => IsValidName(e.names)

\* Expansion of ${NAME} does what the documentation says: escaped text, references
\* after any run of dollars, and errors (config/env.rs).
ExpansionIsExact == LiteralsRoundTrip /\ ReferencesInsertValues /\ ErrorsQuoteNothing

\* Each control that the file asks for exists and rests on material that can do
\* its work.
ControlsBuilt ==
  pc = "listening" =>
    /\ ctl.verifier /\ ctl.key = "pair"
    /\ given.mtls_enabled => ctl.verify_peer /\ ctl.store # {} /\ ctl.store = ctl.mtls.cas
    /\ given.machine_enabled => /\ ctl.machine.on /\ ctl.machine.cas # {}
                                /\ given.machine_required => ctl.machine_required
    /\ given.rate_enabled => ctl.rate = "limits"
    /\ ~given.insecure_upstream => ctl.upstream.verify
    /\ ctl.bypass.on => /\ given.bypass_enabled /\ ctl.verify_peer
                        /\ ctl.bypass.ranges # {} /\ ctl.bypass.subjects # {}

\* Settings whose empty value means "off" are off only where the file writes
\* them empty: no variable can expand them to nothing (config/env.rs).
NeverSilentlyOff ==
  pc = "listening" =>
    /\ ~ctl.upstream.roots.on => given.upstream_ca = <<>>
    /\ ~ctl.log_file => IsBlank(given.dir)

\* A listening proxy whose filter drops everything, audit records included,
\* was told so: the level says "off", or RUST_LOG replaces it.  Empty and misspelt
\* levels do not get that far, padded ones are trimmed.
SilentOnlyOnPurpose ==
  pc = "listening" /\ ctl.filter = "nothing" =>
    Trim(Parsed(given).level) = OffWord \/ ~IsBlank(given.RUST_LOG)

\* main() never continues with less than it was asked for: a proxy that listens
\* has its controls, and nothing is off or silent by accident.
ControlsInForce == ControlsBuilt /\ NeverSilentlyOff /\ SilentOnlyOnPurpose
=============================================================================
