------------------------------ MODULE Listener ------------------------------
(***************************************************************************)
(* The TLS listener in front of the request path: client authentication    *)
(* (mtls.rs), resumed sessions, and the attestation bypass that rests on   *)
(* the recorded identity (passthrough.rs), composed with main() and with   *)
(* restarts under another configuration.                                   *)
(*                                                                         *)
(* A certificate is its issuer, its subject and its SubjectAltName DNS     *)
(* entries.  CAs may be certified by others, and a client sends the chain  *)
(* above its certificate along.  The handshake and the session cache are   *)
(* OpenSSL's: a full handshake verifies the chain against the store main() *)
(* filled, a resumed one takes the certificate from the session, and the   *)
(* keys that protect sessions live as long as the process.                 *)
(***************************************************************************)
EXTENDS Startup, SubjectName

CONSTANTS
  Conns,       \* connections
  Certs,       \* client certificates
  Certified,   \* pairs of CAs: the second certifies the first, maybe through others
  Starts,      \* what the first start may be given
  Restarts,    \* what a later start may be given
  MaxRuns      \* bound on the number of starts

ASSUME RunsAssumption == MaxRuns \in Nat \ {0}

\* The strings of the file and the variable's value are texts.
ASSUME TextsAssumption ==
  \A g \in Starts \cup Restarts :
    /\ g.env.value \in Seq(Char)
    /\ \A k \in StringSettings : \A t \in Strings(g, k) : t \in Seq(Char)

ASSUME CertsAssumption == \A cert \in Certs : cert.subject \in Seq(SubjectEntry)

VARIABLES
  conn,        \* per connection: address, session certificate, identity, bypass
  tickets,     \* certificates of the sessions clients hold
  expired,     \* certificates past their notAfter
  verified,    \* history: certificates a full handshake of this run verified
  run          \* number of this start

listenVars == <<conn, tickets, expired, verified, run>>
vars == <<startVars, listenVars>>

NoCert == [issuer |-> "none", subject |-> <<>>, san |-> <<>>]
Addresses == {"inside", "outside"}

\* ClientCert as the Recorder attaches it to the connection; None without one.
ClientCert(cert) ==
  [subject_dn |-> DistinguishedName(cert.subject), cn |-> CommonName(cert.subject),
   san |-> cert.san]
NoIdentity == [subject_dn |-> <<>>, cn |-> {}, san |-> <<>>]
Closed == [open |-> FALSE, ip |-> "outside", cert |-> NoCert, id |-> NoIdentity,
           bypassed |-> FALSE]

-----------------------------------------------------------------------------
\* ClientCert::matched: Common Name first, then the DNS names.
Matched(id, allowed) ==
  \/ id.cn \cap allowed # {}
  \/ \E i \in DOMAIN id.san : id.san[i] \in allowed

InRange(ip, ranges) == ip = "inside" /\ Inside \in ranges

\* Fault: an address in range is enough.
AuthorizesByAddress(policy, ip, id) == policy.on /\ InRange(ip, policy.ranges)

\* BypassPolicy::authorizes.
Authorizes(policy, ip, id) ==
  /\ policy.on
  /\ InRange(ip, policy.ranges)
  /\ Matched(id, policy.subjects)

\* The CAs a chain above a certificate may run through, and the ones it may end
\* at: those that nothing certifies.
Above(ca) == {pair[2] : pair \in {p \in Certified : p[1] = ca}}
Vouchers(issuer) == {issuer} \cup Above(issuer)
IsRoot(ca) == Above(ca) = {}

\* A chain from a certificate of this issuer ends at a root in the store.  The
\* store of set_ca_file has no PARTIAL_CHAIN, which only the machine store may
\* have, so an issuing CA in it ends no chain.
ChainsTo(issuer, store) == \E root \in Vouchers(issuer) \cap store : IsRoot(root)

Init ==
  /\ \E g \in Starts : StartInit(g)
  /\ conn = [c \in Conns |-> Closed]
  /\ tickets = {}
  /\ expired = {}
  /\ verified = {}
  /\ run = 1

Main == StartNext /\ UNCHANGED listenVars

\* A connection whose handshake is complete; the Recorder is installed with
\* mTLS only.
Open(c, ip, cert) ==
  conn' = [conn EXCEPT ![c] =
             [open |-> TRUE, ip |-> ip, cert |-> cert,
              id |-> IF ctl.mtls.on /\ cert # NoCert THEN ClientCert(cert) ELSE NoIdentity,
              bypassed |-> FALSE]]

\* A full handshake.  With client authentication a certificate is required
\* that chains to the store and has not expired; the client may keep the
\* session.
FullHandshake(c, ip, cert) ==
  /\ pc = "serving"
  /\ ~conn[c].open
  /\ IF ctl.verify_peer
     THEN cert # NoCert /\ ChainsTo(cert.issuer, ctl.store) /\ cert \notin expired
     ELSE cert = NoCert
  /\ Open(c, ip, cert)
  /\ verified' = verified \cup {cert}
  /\ \E kept \in BOOLEAN : tickets' = IF kept THEN tickets \cup {cert} ELSE tickets
  /\ UNCHANGED <<startVars, expired, run>>

\* A resumed handshake: the certificate comes from the session and is not
\* verified again.
ResumedHandshake(c, ip, cert) ==
  /\ pc = "serving"
  /\ ~conn[c].open
  /\ cert \in tickets
  /\ Open(c, ip, cert)
  /\ UNCHANGED <<startVars, tickets, expired, verified, run>>

\* A session reaches the end of its lifetime, or its client drops it.
SessionEnds(cert) ==
  /\ pc = "serving"
  /\ cert \in tickets
  /\ tickets' = tickets \ {cert}
  /\ UNCHANGED <<startVars, conn, expired, verified, run>>

CertExpires(cert) ==
  /\ cert \notin expired
  /\ pc = "serving"
  /\ expired' = expired \cup {cert}
  /\ UNCHANGED <<startVars, conn, tickets, verified, run>>

\* request_filter's bypass branch; any miss goes on to attestation.
BypassRequest(c) ==
  /\ pc = "serving"
  /\ conn[c].open
  /\ conn[c].id # NoIdentity
  /\ Authorizes(ctl.bypass, conn[c].ip, conn[c].id)
  /\ conn' = [conn EXCEPT ![c].bypassed = TRUE]
  /\ UNCHANGED <<startVars, tickets, expired, verified, run>>

Close(c) ==
  /\ conn[c].open
  /\ conn' = [conn EXCEPT ![c] = Closed]
  /\ UNCHANGED <<startVars, tickets, expired, verified, run>>

\* Fault: sessions outlive the process (a shared ticket key).
RestartKeepsTickets(g) ==
  /\ pc \in {"serving", "exited"}
  /\ run < MaxRuns
  /\ run' = run + 1
  /\ given' = g /\ cfg' = <<>> /\ pc' = "load" /\ ctl' = NoControls
  /\ errors' = {} /\ died' = "no"
  /\ conn' = [c \in Conns |-> Closed]
  /\ verified' = {}
  /\ UNCHANGED <<tickets, expired>>

\* The process ends, if it has not already, and is started again.
Restart(g) ==
  /\ pc \in {"serving", "exited"}
  /\ run < MaxRuns
  /\ run' = run + 1
  /\ given' = g /\ cfg' = <<>> /\ pc' = "load" /\ ctl' = NoControls
  /\ errors' = {} /\ died' = "no"
  /\ conn' = [c \in Conns |-> Closed]
  /\ tickets' = {}
  /\ verified' = {}
  /\ UNCHANGED expired

Next ==
  \/ Main
  \/ \E c \in Conns, ip \in Addresses, cert \in Certs \cup {NoCert} :
       FullHandshake(c, ip, cert) \/ ResumedHandshake(c, ip, cert)
  \/ \E cert \in Certs : SessionEnds(cert) \/ CertExpires(cert)
  \/ \E c \in Conns : BypassRequest(c) \/ Close(c)
  \/ \E g \in Restarts : Restart(g)

\* main() runs to its end: nothing in it waits for anyone.
Spec == Init /\ [][Next]_vars /\ WF_vars(Main)

-----------------------------------------------------------------------------
Identities == {NoIdentity} \cup {ClientCert(c) : c \in Certs}

TypeOK ==
  /\ pc \in {Steps[i] : i \in DOMAIN Steps} \cup {"serving", "exited"}
  /\ died \in {Steps[i] : i \in DOMAIN Steps} \cup {"no"}
  /\ (pc = "exited") = (died # "no")
  /\ errors # {} => died = "load"
  /\ conn \in [Conns -> [open : BOOLEAN, ip : Addresses, cert : Certs \cup {NoCert},
                         id : Identities, bypassed : BOOLEAN]]
  /\ tickets \subseteq Certs \cup {NoCert}
  /\ expired \subseteq Certs
  /\ run \in 1..MaxRuns

\* Users and machines are told apart by the roots that vouch for them: every
\* connection that is open, and every session kept, rests on a chain to a root of
\* the client bundle that is no machine CA, whatever the bundles of this start and
\* the ones before.  A machine certificate therefore passes only where its machine
\* CA is an issuing CA that such a root has certified: main() compares the two
\* bundles and looks at no chain.
IdentitiesApart ==
  ctl.mtls.on /\ ctl.machine.on /\ pc = "serving" =>
    \A cert \in {conn[c].cert : c \in {d \in Conns : conn[d].open}} \cup tickets :
      ChainsTo(cert.issuer, ctl.store \ ctl.machine.cas)

\* mTLS across resumption and restarts: the identity of every open connection,
\* resumed ones included, was verified by a full handshake of this run, under
\* the CA this run was started with.
IdentityVerifiedThisRun ==
  \A c \in Conns :
    conn[c].open /\ ctl.mtls.on =>
      /\ conn[c].cert \in verified
      /\ ChainsTo(conn[c].cert.issuer, ctl.store)
      /\ conn[c].id = ClientCert(conn[c].cert)

\* Attestation is skipped only for an address in range and a verified
\* certificate that carries a listed name, under the policy of this run.
BypassOnlyListed ==
  \A c \in Conns :
    conn[c].bypassed =>
      /\ ctl.bypass.on /\ ctl.mtls.on
      /\ InRange(conn[c].ip, ctl.bypass.ranges)
      /\ conn[c].cert \in verified
      /\ (CommonName(conn[c].cert.subject) \cup
            {conn[c].cert.san[i] : i \in DOMAIN conn[c].cert.san})
           \cap ctl.bypass.subjects # {}

\* The subject that the records of a connection carry identifies what can be read
\* from its certificate's subject: two connections with the same recorded subject,
\* if it was not cut, have the same attributes and decoded values in the same
\* order; and no control character is recorded.  (How entries are grouped into
\* RDNs, and values that differ only in what cannot be decoded, are not told
\* apart.)
SubjectsUnambiguous ==
  LET Recorded(c) == Bounded(conn[c].id.subject_dn)
      Identified == {c \in Conns : conn[c].id # NoIdentity}
  IN \A c \in Identified :
       /\ \A i \in DOMAIN Recorded(c) : Recorded(c)[i] # "NL"
       /\ \A d \in Identified :
            Recorded(c) = Recorded(d) /\ Len(Recorded(c)) <= MaxDn =>
              Entries(conn[c].cert.subject) = Entries(conn[d].cert.subject)

\* Every start ends in a serving proxy or an exit; no step of main() waits (an
\* encrypted key without a passphrase used to prompt).
StartDecides == pc = "load" ~> pc \in {"serving", "exited"}
=============================================================================
