------------------------------ MODULE MCAttest ------------------------------
(* A small instance of Attest: windows of one second, two ticks a second.  *)
EXTENDS Attest, TLC

CONSTANTS r1, r2, n1, n2

\* t1 and t3 share a nonce, t2 is an unbound upload minted two seconds later.
MCtsOf == [t \in Token |-> CASE t = "t1" -> 3 [] t = "t2" -> 5 [] OTHER -> 6]
MCnonceOf == [t \in Token |-> IF t = "t2" THEN n2 ELSE n1]
MCbindingOf == [t \in Token |-> IF t = "t2" THEN "Unbound" ELSE "Hash"]

\* The wall clock is set forward by half a second or back by a second.
MCSteps == {1, -2}

MCBack == {-2}

RequestSymmetry == Permutations(Request)
=============================================================================
