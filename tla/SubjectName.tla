---------------------------- MODULE SubjectName ----------------------------
(***************************************************************************)
(* How the subject of a certificate is written into an audit record        *)
(* (distinguished_name and escape_dn_value, mtls.rs; bounded, audit.rs).   *)
(* Texts are sequences of the characters RFC 4514 tells apart: Comma       *)
(* stands for all that take a backslash wherever they are, "0" for the     *)
(* characters of a hexadecimal or OID number, "a" for every other letter,  *)
(* "NL" for a control character, "?" for the replacement character that    *)
(* lossy decoding puts for what is no UTF-8.                               *)
(*                                                                         *)
(* A subject is the sequence of its entries as OpenSSL keeps them, each    *)
(* with the number of the RDN it belongs to: entries of a multi-valued RDN *)
(* share theirs.                                                           *)
(***************************************************************************)
EXTENDS Naturals, Sequences, SequencesExt, FiniteSetsExt

CONSTANT MaxDn       \* MAX_DN_CHARS

ASSUME MaxDnAssumption == MaxDn \in Nat

Comma == ","
Space == " "

DnChar == {"a", "0", Comma, "\\", "#", Space, "NL", "=", "?"}
Undecodable == "bad"

\* An attribute's type is its short name or its dotted OID.
DnType == Seq({"a", "0"})
CommonNameType == <<"a">>

SubjectEntry == [rdn : Nat, type : DnType, value : Seq(DnChar \cup {Undecodable})]

EscapedChar(v, i) ==
  CASE v[i] \in {Comma, "\\"} -> <<"\\", v[i]>>
    [] v[i] = "#" /\ i = 1 -> <<"\\", "#">>
    [] v[i] = Space /\ (i = 1 \/ i = Len(v)) -> <<"\\", Space>>
    [] v[i] = "NL" -> <<"\\", "0", "0">>
    [] OTHER -> <<v[i]>>

\* Fault: separators are escaped, backslashes are not.
EscapeDnValueNoBackslash(v) ==
  FlattenSeq([i \in DOMAIN v |-> IF v[i] = "\\" THEN <<v[i]>> ELSE EscapedChar(v, i)])

EscapeDnValue(v) == FlattenSeq([i \in DOMAIN v |-> EscapedChar(v, i)])

\* One entry; a comma parts it from the one before.
Rdn(entry, first) ==
  (IF first THEN <<>> ELSE <<Comma>>) \o entry.type \o <<"=">> \o EscapeDnValue(entry.value)

\* Entries as they are written: the most specific one first.
Rendered(name) ==
  FlattenSeq([j \in 1..Len(name) |-> Rdn(name[Len(name) + 1 - j], j = 1)])

\* What is written of a subject: its entries with their values decoded, lossily
\* where that fails.  Which RDN an entry belongs to is not.
Decoded(v) == [i \in DOMAIN v |-> IF v[i] = Undecodable THEN "?" ELSE v[i]]
Entries(subject) ==
  [i \in DOMAIN subject |-> [type |-> subject[i].type, value |-> Decoded(subject[i].value)]]

DistinguishedName(subject) == Rendered(Entries(subject))

\* The first Common Name, if there is one and it can be decoded.
CommonName(subject) ==
  LET named == {i \in DOMAIN subject : subject[i].type = CommonNameType}
      first == subject[Min(named)].value
  IN IF named # {} /\ \A i \in DOMAIN first : first[i] # Undecodable
     THEN {first} ELSE {}

\* audit.rs's bounded: cut at the limit, with a mark behind the cut.
Bounded(dn) == IF Len(dn) <= MaxDn THEN dn ELSE SubSeq(dn, 1, MaxDn) \o <<"...">>
=============================================================================
