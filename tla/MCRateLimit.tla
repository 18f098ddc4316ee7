---------------------------- MODULE MCRateLimit ----------------------------
(* A small instance of RateLimit: two overlapping rules.                   *)
EXTENDS RateLimit, TLC

CONSTANTS r1, r2, ip1, ip2

\* The first rule is the more specific; "news" matches the second only.
MCrules == <<{"secret"}, {"secret", "news"}>>

MCmax == [l \in 0 .. 2 |-> IF l = 0 THEN 2 ELSE 1]

Symmetry == Permutations(Request) \cup Permutations(Ip)
=============================================================================
