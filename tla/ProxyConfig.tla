---------------------------- MODULE ProxyConfig ----------------------------
(***************************************************************************)
(* What main() is given and how it judges it: the settings of the          *)
(* configuration file, section by section (config.rs), the command line,   *)
(* the environment and the files the settings name; and the validations    *)
(* that each part of the proxy applies to its section.                     *)
(*                                                                         *)
(* A setting is named by its path.  For each there is a set of choices     *)
(* that covers every case the code tells apart; every TOML string is a     *)
(* text of module Env, so that it can hold references.  Sizes and times    *)
(* that only tune a component are the constants of that component's own    *)
(* module.                                                                 *)
(***************************************************************************)
EXTENDS Env, TLC

CONSTANTS UserCA, OtherCA, MachineCA, IssuingCA

Blank    == <<>>
Padding  == <<" ">>
Path     == <<"/">>
Endpoint == <<"a", "/", "1">>          \* host, colon, port
Word     == <<"/">>                    \* the passphrase of the encrypted key

\* A PEM file: whether it can be read and parsed, and the certificates in it.
Bundle(cas) == [state |-> "ok", cas |-> cas]
Unreadable  == [state |-> "unreadable", cas |-> {}]
Garbage     == [state |-> "garbage", cas |-> {}]

\* A private key: the passphrase it is encrypted with (Blank for none) and
\* whether it belongs to the listener's certificate.
Key(state, pass, pair) == [state |-> state, pass |-> pass, pair |-> pair]

\* What the words of a setting stand for.  In a log filter `/' is the comma of a
\* directive list, and a brace or a dollar makes a directive that EnvFilter
\* refuses; in a pattern `/' is what makes it no glob, or not lowercase.
Info    == <<"a">>
OffWord == <<"a", "a">>
Daily   == <<"a">>
Host    == <<"a">>                     \* a pattern
Inside  == <<"1">>                     \* the range that holds the address "inside"
Service == <<"a">>                     \* a Common Name or DNS name

-----------------------------------------------------------------------------
\* The sections.  Module Startup's Base picks the choices of a proxy with every
\* control switched on.

ProxySettings ==
  [ listen |-> {Endpoint, Blank, Padding},
    upstream |-> {Endpoint, Blank, <<"a">>, <<"a", "/", "a">>},
    upstream_ca |-> {Blank, Path, Reference, Padding},
    tls_cert |-> {Path, Blank},
    tls_key |-> {Path, Blank},
    tls_key_passphrase_file |-> {Blank, Path} ]

\* The inline passphrase is a Secret: its errors and its Debug show nothing.
SecretSettings == [ tls_key_passphrase |-> {Blank, Word, <<"a">>, Reference} ]

AttestationSettings == [ private_key |-> {Path, Blank} ]

RateLimitSettings ==
  [ rate_enabled |-> BOOLEAN,
    rate_window_secs |-> {0, 1},
    rate_max_requests |-> {0, 1},
    rate_rules |-> {<<>>} \cup
      { <<[window_secs |-> w, max_requests |-> n, pattern |-> g]>> :
          w \in {0, 1}, n \in {0, 1}, g \in {Host, Path, Reference} } ]

MtlsSettings == [ mtls_enabled |-> BOOLEAN, client_ca |-> {Path, Blank, Padding} ]

MachineIdentitySettings ==
  [ machine_enabled |-> BOOLEAN,
    machine_ca |-> {Path, Blank},
    machine_required |-> BOOLEAN,
    allowed_hostnames |-> {{}, {Host}, {Host, Path}, {Reference}} ]

ProxyBypassSettings ==
  [ bypass_enabled |-> BOOLEAN,
    allowed_ip_ranges |-> {{Inside}, {}, {Inside, Path}, {Reference}},
    allowed_subjects |-> {{Service}, {}, {Reference}} ]

LogRotations == {Daily}
LogLevels == {Info, OffWord}

LoggingSettings ==
  [ dir |-> {Blank, Path, Padding, Reference},
    file_prefix |-> {Path, Blank},
    level |-> {Info, <<" ", "a">>, OffWord, <<"1">>, Blank, <<"/", " ">>, <<"a", "/", "1">>,
               <<"a", "/", "{">>, Reference, Reference \o <<"/", "a">>},
    rotation |-> {Daily, <<" ", "a">>, Reference},
    stderr |-> BOOLEAN ]

\* Args: --config names a file that may be unreadable or fail the typed parse;
\* --insecure-upstream switches verification of the backend off.
ArgSettings == [ config |-> {"ok", "unreadable", "mistyped"},
                 insecure_upstream |-> BOOLEAN ]

\* What the process finds on the machine.
HostSettings ==
  [ env |-> {Set(Path), Set(<<"a">>), Set(<<>>), Set(Padding), Set(<<" ", "/">>),
             Set(<<"/", " ">>), Set(Reference), NotPresent, NotUnicode},
    RUST_LOG |-> {Blank, Padding, Info, <<" ", "a">>, <<"1">>, <<"a", "/", "1">>, <<"{">>},
    upstream_ca_pem |-> {Bundle({OtherCA}), Bundle({}), Unreadable, Garbage},
    private_key_pem |-> {"ok", "unreadable", "garbage"},
    client_ca_pem |-> {Bundle({UserCA}), Bundle({OtherCA}), Bundle({MachineCA}),
                       Bundle({UserCA, MachineCA}), Bundle({IssuingCA}), Bundle({}),
                       Unreadable, Garbage},
    machine_ca_pem |-> {Bundle({MachineCA}), Bundle({IssuingCA}), Bundle({}),
                        Unreadable, Garbage},
    tls_cert_pem |-> {"ok", "garbage"},
    tls_key_pem |-> {Key("ok", Blank, TRUE), Key("ok", Word, TRUE),
                     Key("ok", Blank, FALSE), Key("unreadable", Blank, TRUE),
                     Key("garbage", Blank, TRUE)},
    passphrase_lines |-> {<<"/">>, <<"/", "LF">>, <<"/", "CR", "LF", "a">>,
                          <<"a">>, <<>>, <<"LF", "/">>, <<"CR", "LF">>, <<"unreadable">>},
    log_dir |-> {"ok", "no_create", "no_open"} ]

Settings == ProxySettings @@ SecretSettings @@ AttestationSettings
              @@ RateLimitSettings @@ MtlsSettings @@ MachineIdentitySettings
              @@ ProxyBypassSettings @@ LoggingSettings
Inputs == Settings @@ ArgSettings @@ HostSettings

\* The settings that are one TOML string, and those that are a list of them; the
\* rules of the rate limiter are tables with one string each.
TextSettings == (DOMAIN ProxySettings) \cup (DOMAIN SecretSettings)
                  \cup {"private_key", "client_ca", "machine_ca",
                        "dir", "file_prefix", "level", "rotation"}
ListSettings == {"allowed_hostnames", "allowed_ip_ranges", "allowed_subjects"}
StringSettings == TextSettings \cup ListSettings \cup {"rate_rules"}

\* Config: everything in the file, by its path.
SettingNames ==
  TextSettings \cup (DOMAIN RateLimitSettings) \cup (DOMAIN MtlsSettings)
    \cup (DOMAIN MachineIdentitySettings) \cup (DOMAIN ProxyBypassSettings)
    \cup (DOMAIN LoggingSettings)

-----------------------------------------------------------------------------
\* str::trim leaves nothing.  (The few invisible characters that is_padding has
\* beyond whitespace are not told apart from it.)
IsBlank(t) == \A i \in DOMAIN t : IsPadding(t[i])

Trim(t) ==
  LET solid == {i \in DOMAIN t : ~IsPadding(t[i])}
  IN IF solid = {} THEN <<>> ELSE SubSeq(t, Min(solid), Max(solid))

\* The strings at and below a setting.
Strings(given, k) ==
  CASE k \in TextSettings -> {given[k]}
    [] k \in ListSettings -> given[k]
    [] OTHER -> {given[k][i].pattern : i \in DOMAIN given[k]}

\* env::expand over the whole tree: every string that fails is reported, and one
\* in a secret setting without the name of its variable.
Expand(given, k, t) == ExpandStr(t, given.env, k \in DOMAIN SecretSettings)

Report(given, k, t) ==
  LET result == Expand(given, k, t)
  IN [setting |-> k, kind |-> result.err, names |-> result.names]

ExpandErrors(given) ==
  {e \in UNION {{Report(given, k, t) : t \in Strings(given, k)} : k \in StringSettings} :
     e.kind # "none"}

\* Config::parse: the typed parse first, then expansion of every string in it.
Parsed(given) ==
  [ k \in SettingNames |->
      LET text(t) == Expand(given, k, t).text IN
      CASE k \in TextSettings -> text(given[k])
        [] k \in ListSettings -> {text(t) : t \in given[k]}
        [] k = "rate_rules" -> [i \in DOMAIN given[k] |->
                                  [given[k][i] EXCEPT !.pattern = text(@)]]
        [] OTHER -> given[k] ]

\* ProxyConfig::validate.
ProxyValid(cfg) ==
  /\ \A k \in {"listen", "upstream", "tls_cert", "tls_key"} : ~IsBlank(cfg[k])
  /\ cfg.tls_key_passphrase = <<>> \/ cfg.tls_key_passphrase_file = <<>>

\* LoggingConfig::file_enabled.
FileEnabled(cfg) == ~IsBlank(cfg.dir)

\* A directive list, and one without any directive in it.
IsList(level) == \E i \in DOMAIN level : level[i] = "/"
HasNoDirective(level) == \A i \in DOMAIN level : level[i] = "/" \/ IsPadding(level[i])

\* LoggingConfig::validate.
LoggingValid(cfg) ==
  LET level == Trim(cfg.level)
  IN /\ cfg.rotation \in LogRotations
     /\ FileEnabled(cfg) => ~IsBlank(cfg.file_prefix)
     /\ ~HasNoDirective(level)
     /\ IsList(level) \/ level \in LogLevels

\* Glob::new accepts a pattern, IpNet::parse a range.
IsGlob(t) == \A i \in DOMAIN t : t[i] # "/"
IsCidr(t) == t # <<>> /\ \A i \in DOMAIN t : t[i] = "1"

=============================================================================
