------------------------------ MODULE OnceOnly ------------------------------
(***************************************************************************)
(* What the attestation verifier promises its caller: a gate that lets     *)
(* each token through at most once in a run of the proxy, and answers "Ok" *)
(* exactly when it lets one through.  It says nothing of clocks, windows   *)
(* or caches.                                                              *)
(***************************************************************************)
CONSTANT Token

VARIABLES
  admitted,   \* tokens let through in this run
  answer      \* what the last step answered

vars == <<admitted, answer>>

Init == admitted = {} /\ answer = "none"

Admit(t) ==
  /\ t \notin admitted
  /\ admitted' = admitted \cup {t}
  /\ answer' = "Ok"

\* Any other answer, or none: nothing is let through.
Refuse ==
  /\ answer' # "Ok"
  /\ UNCHANGED admitted

\* The proxy is restarted.
Forget ==
  /\ admitted' = {}
  /\ answer' = "none"

Next == (\E t \in Token : Admit(t)) \/ Refuse \/ Forget

Spec == Init /\ [][Next]_vars
=============================================================================
