----------------------------- MODULE MCMachine -----------------------------
(* Small instances of MachineIdentity.                                     *)
EXTENDS MachineIdentity, TLC

CONSTANTS r1, r2, h1, h2, a1, a2

\* A sound certificate for each name, and defective ones for h1.
MChostOf == [c \in Cert |-> IF c = "sound2" THEN h2 ELSE h1]
MCdefectsOf ==
  [c \in Cert |->
     CASE c = "garbled" -> {"NotBase64"}
       [] c = "foreign" -> {"HostnameNotAllowed", "UntrustedChain"}
       [] c = "expired" -> {"CertExpired"}
       [] OTHER -> {}]

Symmetry == Permutations(Request) \cup Permutations(Addr)
=============================================================================
