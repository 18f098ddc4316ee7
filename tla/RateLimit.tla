------------------------------ MODULE RateLimit ------------------------------
(***************************************************************************)
(* Per-address rate limiting (proxy/src/ratelimit.rs).  A request is       *)
(* charged to the universal limit and then to the first rule its target    *)
(* matches; the two charges are separate atomic operations on shared       *)
(* counters, between which other threads charge theirs and windows end.    *)
(*                                                                         *)
(* pingora_limits::Rate is external: a count-min sketch.  observe adds one *)
(* to the address's count in the current window and returns an estimate    *)
(* that is never below that count and exceeds it only by what addresses    *)
(* with colliding hashes were counted; windows end when Rate says so, each *)
(* limit's on its own.                                                     *)
(***************************************************************************)
EXTENDS Integers, Sequences

CONSTANTS
  Request, Ip, Target,
  rules,           \* the targets each rule's glob matches, in file order
  max,             \* the cap of the universal limit (0) and of each rule
  NoCharge,        \* the request is not being limited
  NoVerdict,
  MaxCount         \* bound of the exploration: requests per limit and window

Limits == 0 .. Len(rules)

\* What RateLimiter::from_config lets through.
ASSUME ConfigAssumption ==
  /\ rules \in Seq(SUBSET Target)
  /\ max \in [0 .. Len(rules) -> Nat \ {0}]

ASSUME BoundAssumption == MaxCount \in Nat

VARIABLES
  universal, \* there is a universal limit
  count,     \* count[l][ip]: what Rate has counted in l's current window
  total,     \* total[l]: the same for all addresses together
  charging,  \* the limit each request is charged to next, with its ip, target
  verdict,   \* what the last step decided
  passed,    \* history: requests l let pass in its current window, per ip
  burst      \* history: requests in the universal window that match a rule

vars == <<universal, count, total, charging, verdict, passed, burst>>

Charge == [ip : Ip, target : Target, limit : Limits]
Verdict == [ip : Ip, target : Target, limit : Limits, admit : BOOLEAN]

TypeOK ==
  /\ universal \in BOOLEAN
  /\ count \in [Limits -> [Ip -> Nat]]
  /\ total \in [Limits -> Nat]
  /\ charging \in [Request -> Charge \cup {NoCharge}]
  /\ verdict \in Verdict \cup {NoVerdict}
  /\ passed \in [Limits -> [Ip -> Nat]]
  /\ burst \in Nat

\* from_config refuses an enabled limiter with neither cap nor rule.
Init ==
  /\ universal \in BOOLEAN
  /\ universal \/ Len(rules) > 0
  /\ count = [l \in Limits |-> [ip \in Ip |-> 0]]
  /\ total = [l \in Limits |-> 0]
  /\ charging = [r \in Request |-> NoCharge]
  /\ verdict = NoVerdict
  /\ passed = [l \in Limits |-> [ip \in Ip |-> 0]]
  /\ burst = 0

-----------------------------------------------------------------------------

\* The rules whose glob matches the target.
Matching(target) == {i \in 1 .. Len(rules) : target \in rules[i]}

\* What observe may return for this request.
Estimates(l, ip) == count[l][ip] + 1 .. total[l] + 1

\* Fault: the count from before this request is compared.
WithinBefore(l, est) == est - 1 <= max[l]

\* Limit::admit: the estimate is compared with the cap.
Within(l, est) == est <= max[l]

Observe(l, ip, est) ==
  /\ total[l] < MaxCount
  /\ count' = [count EXCEPT ![l][ip] = @ + 1]
  /\ total' = [total EXCEPT ![l] = @ + 1]
  /\ UNCHANGED universal
  /\ passed' = IF Within(l, est) THEN [passed EXCEPT ![l][ip] = @ + 1]
               ELSE passed

\* The request leaves the limiter, decided by limit l.
Decide(r, c, admit) ==
  /\ charging' = [charging EXCEPT ![r] = NoCharge]
  /\ verdict' = [ip |-> c.ip, target |-> c.target, limit |-> c.limit,
                 admit |-> admit]

\* The request is charged to limit l next.
GoOn(r, c, l) ==
  /\ charging' = [charging EXCEPT ![r] = [c EXCEPT !.limit = l]]
  /\ verdict' = NoVerdict

\* Fault: the last matching rule is charged.
ToRulesLast(r, c) ==
  \/ Matching(c.target) = {} /\ Decide(r, c, TRUE)
  \/ \E i \in Matching(c.target) :
       (\A j \in Matching(c.target) : j <= i) /\ GoOn(r, c, i)

\* Fault: the rule after the first match is charged.
ToRulesNext(r, c) ==
  \/ Matching(c.target) = {} /\ Decide(r, c, TRUE)
  \/ \E i \in Matching(c.target) :
       (\A j \in Matching(c.target) : i <= j) /\ GoOn(r, c, i + 1)

\* Fault: the rules are not consulted.
ToRulesNever(r, c) == Decide(r, c, TRUE)

\* admit: the loop over the rules stops at the first match, if there is one.
ToRules(r, c) ==
  \/ Matching(c.target) = {} /\ Decide(r, c, TRUE)
  \/ \E i \in Matching(c.target) :
       (\A j \in Matching(c.target) : i <= j) /\ GoOn(r, c, i)

\* admit, when there is a universal cap: it is charged first, whether or not
\* the target matches a rule.
AdmitUniversal(r, ip, target, est) ==
  LET c == [ip |-> ip, target |-> target, limit |-> 0]
  IN /\ universal
     /\ charging[r] = NoCharge
     /\ Observe(0, ip, est)
     /\ burst' = IF Matching(target) # {} THEN burst + 1 ELSE burst
     /\ IF Within(0, est) THEN ToRules(r, c) ELSE Decide(r, c, FALSE)

AdmitNoUniversal(r, ip, target) ==
  /\ ~universal
  /\ charging[r] = NoCharge
  /\ ToRules(r, [ip |-> ip, target |-> target, limit |-> 0])
  /\ UNCHANGED <<universal, count, total, passed, burst>>

AdmitRule(r, est) ==
  LET c == charging[r]
  IN /\ Observe(c.limit, c.ip, est)
     /\ Decide(r, c, Within(c.limit, est))
     /\ UNCHANGED burst

\* A window of l ends: Rate starts counting afresh.
WindowEnds(l) ==
  /\ count' = [count EXCEPT ![l] = [ip \in Ip |-> 0]]
  /\ total' = [total EXCEPT ![l] = 0]
  /\ passed' = [passed EXCEPT ![l] = [ip \in Ip |-> 0]]
  /\ burst' = IF l = 0 THEN 0 ELSE burst
  /\ verdict' = NoVerdict
  /\ UNCHANGED <<universal, charging>>

Next ==
  \/ \E r \in Request, ip \in Ip, target \in Target :
       \/ \E est \in Estimates(0, ip) : AdmitUniversal(r, ip, target, est)
       \/ AdmitNoUniversal(r, ip, target)
  \/ \E r \in Request :
       /\ charging[r] # NoCharge
       /\ \E est \in Estimates(charging[r].limit, charging[r].ip) :
            AdmitRule(r, est)
  \/ \E l \in Limits : WindowEnds(l)

Spec == Init /\ [][Next]_vars

-----------------------------------------------------------------------------
(* Properties.                                                             *)

\* max = N lets at most N requests of one address pass per window, however
\* many threads are between their two charges and whenever windows end.
CapHolds ==
  \A l \in Limits, ip \in Ip : passed[l][ip] <= max[l]

\* A refusal is the universal cap's, when there is one, or the first matching
\* rule's, and that limit has counted more than its cap in this window.  Only
\* a collision can charge one address for another: an address that is alone at
\* the limit has had exactly the cap let through (ratelimit.rs:45-46, "permits
\* exactly N requests per window before the (N+1)th is rejected").
RefusalJustified ==
  verdict # NoVerdict /\ ~verdict.admit =>
    LET l == verdict.limit
        ip == verdict.ip
    IN /\ \/ l = 0 /\ universal
          \/ /\ l # 0 /\ verdict.target \in rules[l]
             /\ \A j \in 1 .. l - 1 : verdict.target \notin rules[j]
       /\ total[l] > max[l]
       /\ count[l][ip] = total[l] => passed[l][ip] = max[l]

\* An admitted request whose target matches a rule was charged to that rule:
\* no path through admit leaves a matching request uncounted.
MatchedIsCharged ==
  verdict # NoVerdict /\ verdict.admit /\ Matching(verdict.target) # {} =>
    /\ verdict.limit \in Matching(verdict.target)
    /\ passed[verdict.limit][verdict.ip] > 0

\* config.rs:197-199 says of the rules that "a burst against one pattern never
\* spends another pattern's (or the universal) budget": the universal cap would
\* refuse only once requests that match no rule have used it up.  admit charges
\* every request to the universal limit first, so this fails.
BurstSparesUniversal ==
  verdict # NoVerdict /\ ~verdict.admit /\ verdict.limit = 0 =>
    total[0] > burst + max[0]

-----------------------------------------------------------------------------
(* Why they hold: nothing passes without being counted, each address is    *)
(* part of the total, and an address alone at a limit is estimated exactly.*)

PassedWereCounted ==
  \A l \in Limits, ip \in Ip : passed[l][ip] <= count[l][ip]

CountedInTotal ==
  \A l \in Limits, ip \in Ip : count[l][ip] <= total[l]

AloneIsExact ==
  \A l \in Limits, ip \in Ip : count[l][ip] = total[l] =>
    passed[l][ip] = IF count[l][ip] <= max[l] THEN count[l][ip] ELSE max[l]
=============================================================================
