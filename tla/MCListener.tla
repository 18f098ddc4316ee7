----------------------------- MODULE MCListener -----------------------------
(***************************************************************************)
(* Starts: at most two inputs differ from those of a proxy with every      *)
(* control on; and every text of up to MaxText characters as upstream_ca,  *)
(* those with a dollar and a brace under every kind of variable.  Later    *)
(* starts change the client CA or the machine CA, or switch client         *)
(* authentication, machine identity or the bypass off.                     *)
(***************************************************************************)
EXTENDS Listener

CONSTANT MaxText

\* Longer texts with references after two to four dollars, side by side, and in
\* front of an open one.
Texts == UNION {[1..n -> {"$", "{", "}", "a", "/"}] : n \in 0..MaxText}
           \cup {Dollars(n) \o Reference : n \in 1..4}
           \cup {Reference \o Reference, <<"/">> \o Reference \o <<"$", "{">>}

MCStarts ==
  UNION {Deviations(g) : g \in Deviations(Base)}
    \cup {[Base EXCEPT !.upstream_ca = t] : t \in Texts}
    \cup {[Base EXCEPT !.upstream_ca = t, !.env = e] :
            t \in {u \in Texts : {"$", "{"} \subseteq Range(u)}, e \in Inputs.env}

MCRestarts ==
  { Base, [Base EXCEPT !.client_ca_pem = Bundle({MachineCA}), !.machine_enabled = FALSE],
    [Base EXCEPT !.machine_ca_pem = Bundle({IssuingCA})],
    [Base EXCEPT !.mtls_enabled = FALSE, !.bypass_enabled = FALSE],
    [Base EXCEPT !.bypass_enabled = FALSE] }

\* The user CA's root has certified an issuing CA.
MCCertified == {<<IssuingCA, UserCA>>}

Entry(rdn, type, value) == [rdn |-> rdn, type |-> type, value |-> value]

\* A value that looks like a second entry, and a name with that entry, which lists
\* the client by its Common Name; a client listed by a DNS name, whose subject is
\* long and has a multi-valued RDN and a Common Name that cannot be decoded.
MCCerts ==
  { [issuer |-> UserCA, san |-> <<<<"a", "a">>>>,
     subject |-> <<Entry(1, <<"a">>, <<Comma, "a", "=", "a">>)>>],
    [issuer |-> IssuingCA, san |-> <<>>,
     subject |-> <<Entry(1, <<"a">>, Service), Entry(2, <<"a">>, <<"\\">>)>>],
    [issuer |-> MachineCA, san |-> <<<<"a", "a">>, Service>>,
     subject |-> <<Entry(1, <<"a">>, <<Undecodable>>), Entry(1, <<"a">>, Service),
                   Entry(2, <<"0">>, <<"NL", "#", Space>>)>>] }
=============================================================================
