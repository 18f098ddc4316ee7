-------------------------- MODULE RateLimitProofs --------------------------
(* The caps of RateLimit hold for any number of addresses, rules and       *)
(* threads, and whatever addresses collide in Rate's sketch.               *)
EXTENDS RateLimit, TLAPS

\* The counts agree with each other and no cap is exceeded.
Caps == PassedWereCounted /\ CapHolds /\ CountedInTotal /\ AloneIsExact

\* The inductive invariant of the counters.
CountInv == TypeOK /\ Caps

\* What Caps says of one limit and one address.
CapsAt(counted, all, through, cap) ==
  /\ through <= counted /\ through <= cap /\ counted <= all
  /\ counted = all => through = IF counted <= cap THEN counted ELSE cap

\* Caps, limit by limit and address by address.
LEMMA CapsPointwise ==
  /\ Caps <=> \A m \in Limits, a \in Ip :
                CapsAt(count[m][a], total[m], passed[m][a], max[m])
  /\ Caps' <=> \A m \in Limits, a \in Ip :
                 CapsAt(count'[m][a], total'[m], passed'[m][a], max[m])
BY DEF Caps, CapsAt, PassedWereCounted, CapHolds, CountedInTotal, AloneIsExact

\* One more request, estimated between the address's count and the total and
\* let through if and only if the estimate is within the cap, keeps CapsAt.
LEMMA CapsAtStep ==
  ASSUME NEW counted \in Nat, NEW all \in Nat, NEW through \in Nat,
         NEW cap \in Nat, NEW est \in Nat, CapsAt(counted, all, through, cap),
         counted + 1 <= est, est <= all + 1
  PROVE  /\ est <= cap => CapsAt(counted + 1, all + 1, through + 1, cap)
         /\ ~(est <= cap) => CapsAt(counted + 1, all + 1, through, cap)
BY DEF CapsAt

\* What observe returns is a number from the address's count to the total.
LEMMA EstimateRange ==
  ASSUME TypeOK, NEW l \in Limits, NEW ip \in Ip, NEW est \in Estimates(l, ip)
  PROVE  est \in Nat /\ count[l][ip] + 1 <= est /\ est <= total[l] + 1
<1>1. count[l][ip] \in Nat /\ total[l] \in Nat
  BY DEF TypeOK
<1> QED
  BY <1>1 DEF Estimates

\* Charging one request to one limit keeps the counts and the caps.
LEMMA ObserveKeepsCaps ==
  ASSUME CountInv, NEW l \in Limits, NEW ip \in Ip, NEW est \in Estimates(l, ip),
         Observe(l, ip, est)
  PROVE  /\ count' \in [Limits -> [Ip -> Nat]]
         /\ total' \in [Limits -> Nat]
         /\ passed' \in [Limits -> [Ip -> Nat]]
         /\ Caps'
<1> USE ConfigAssumption
<1>1. /\ count \in [Limits -> [Ip -> Nat]] /\ passed \in [Limits -> [Ip -> Nat]]
      /\ total \in [Limits -> Nat]
  BY DEF CountInv, TypeOK
<1>2. /\ count' \in [Limits -> [Ip -> Nat]] /\ passed' \in [Limits -> [Ip -> Nat]]
      /\ total' \in [Limits -> Nat]
  BY <1>1 DEF Observe
<1>3. est \in Nat /\ count[l][ip] + 1 <= est /\ est <= total[l] + 1
  BY EstimateRange DEF CountInv
<1>4. ASSUME NEW m \in Limits, NEW a \in Ip
      PROVE  CapsAt(count'[m][a], total'[m], passed'[m][a], max[m])
  <2>1. /\ CapsAt(count[m][a], total[m], passed[m][a], max[m])
        /\ count[m][a] \in Nat /\ passed[m][a] \in Nat /\ max[m] \in Nat
        /\ total[m] \in Nat
    BY <1>1, CapsPointwise DEF CountInv, Limits
  <2>2. CASE m = l /\ a = ip
    <3>1. count'[m][a] = count[m][a] + 1 /\ total'[m] = total[m] + 1
      BY <1>1, <2>2 DEF Observe
    <3>2. CASE Within(l, est)
      <4>1. passed'[m][a] = passed[m][a] + 1
        BY <1>1, <2>2, <3>2 DEF Observe
      <4>2. CapsAt(count[m][a] + 1, total[m] + 1, passed[m][a] + 1, max[m])
        BY ONLY <1>3, <2>1, <2>2, <3>2, CapsAtStep DEF Within
      <4> QED
        BY ONLY <3>1, <4>1, <4>2
    <3>3. CASE ~Within(l, est)
      <4>1. passed'[m][a] = passed[m][a]
        BY <1>1, <2>2, <3>3 DEF Observe
      <4>2. CapsAt(count[m][a] + 1, total[m] + 1, passed[m][a], max[m])
        BY ONLY <1>3, <2>1, <2>2, <3>3, CapsAtStep DEF Within
      <4> QED
        BY ONLY <3>1, <4>1, <4>2
    <3> QED
      BY <3>2, <3>3
  <2>3. CASE m = l /\ a # ip
    <3>1. /\ count'[m][a] = count[m][a] /\ total'[m] = total[m] + 1
          /\ passed'[m][a] = passed[m][a]
      BY <1>1, <2>3 DEF Observe
    <3> QED
      BY <2>1, <3>1 DEF CapsAt
  <2>4. CASE m # l
    <3>1. /\ count'[m][a] = count[m][a] /\ total'[m] = total[m]
          /\ passed'[m][a] = passed[m][a]
      BY <1>1, <2>4 DEF Observe
    <3> QED
      BY <2>1, <3>1
  <2> QED
    BY <2>2, <2>3, <2>4
<1> QED
  BY <1>2, <1>4, CapsPointwise

\* Leaving the limiter, or going on to a rule, keeps the rest typed.
LEMMA RoutingIsTyped ==
  ASSUME TypeOK, NEW r \in Request, NEW c \in Charge,
         \/ ToRules(r, c)
         \/ \E admit \in BOOLEAN : Decide(r, c, admit)
  PROVE  /\ charging' \in [Request -> Charge \cup {NoCharge}]
         /\ verdict' \in Verdict \cup {NoVerdict}
<1>1. ASSUME NEW admit \in BOOLEAN, Decide(r, c, admit)
      PROVE  /\ charging' \in [Request -> Charge \cup {NoCharge}]
             /\ verdict' \in Verdict \cup {NoVerdict}
  BY <1>1 DEF Decide, TypeOK, Charge, Verdict
<1>2. ASSUME NEW i \in Matching(c.target), GoOn(r, c, i)
      PROVE  /\ charging' \in [Request -> Charge \cup {NoCharge}]
             /\ verdict' \in Verdict \cup {NoVerdict}
  <2>1. i \in Limits
    BY ConfigAssumption DEF Matching, Limits
  <2>2. [c EXCEPT !.limit = i] \in Charge
    BY <2>1 DEF Charge
  <2> QED
    BY <1>2, <2>2 DEF GoOn, TypeOK
<1> QED
  BY <1>1, <1>2 DEF ToRules

\* CountInv is inductive.
LEMMA CountInductive ==
  ASSUME CountInv, [Next]_vars
  PROVE  CountInv'
<1> USE ConfigAssumption
<1>1. TypeOK /\ 0 \in Limits /\ universal \in BOOLEAN
  BY DEF CountInv, TypeOK, Limits
<1>2. ASSUME NEW r \in Request, NEW ip \in Ip, NEW target \in Target,
             NEW est \in Estimates(0, ip), AdmitUniversal(r, ip, target, est)
      PROVE  CountInv'
  <2> DEFINE c == [ip |-> ip, target |-> target, limit |-> 0]
  <2>1. c \in Charge
    BY <1>1 DEF Charge
  <2>2. /\ Observe(0, ip, est) /\ universal' = universal
        /\ burst' \in Nat
    BY <1>1, <1>2 DEF AdmitUniversal, Observe, TypeOK
  <2>3. ToRules(r, c) \/ Decide(r, c, FALSE)
    BY <1>2 DEF AdmitUniversal
  <2>4. /\ charging' \in [Request -> Charge \cup {NoCharge}]
        /\ verdict' \in Verdict \cup {NoVerdict}
    BY <1>1, <2>1, <2>3, RoutingIsTyped
  <2> QED
    BY <1>1, <2>2, <2>4, ObserveKeepsCaps DEF CountInv, TypeOK
<1>3. ASSUME NEW r \in Request, NEW ip \in Ip, NEW target \in Target,
             AdmitNoUniversal(r, ip, target)
      PROVE  CountInv'
  <2> DEFINE c == [ip |-> ip, target |-> target, limit |-> 0]
  <2>1. c \in Charge
    BY <1>1 DEF Charge
  <2>2. /\ charging' \in [Request -> Charge \cup {NoCharge}]
        /\ verdict' \in Verdict \cup {NoVerdict}
    BY <1>1, <1>3, <2>1, RoutingIsTyped DEF AdmitNoUniversal
  <2> QED
    BY <1>3, <2>2 DEF AdmitNoUniversal, CountInv, TypeOK, Caps,
         PassedWereCounted, CapHolds, CountedInTotal, AloneIsExact
<1>4. ASSUME NEW r \in Request, charging[r] # NoCharge,
             NEW est \in Estimates(charging[r].limit, charging[r].ip),
             AdmitRule(r, est)
      PROVE  CountInv'
  <2> DEFINE c == charging[r]
  <2>1. c \in Charge /\ c.limit \in Limits /\ c.ip \in Ip
    BY <1>1, <1>4 DEF TypeOK, Charge
  <2>2. /\ Observe(c.limit, c.ip, est) /\ universal' = universal
        /\ burst' = burst
    BY <1>4 DEF AdmitRule, Observe
  <2>3. Decide(r, c, Within(c.limit, est))
    BY <1>4 DEF AdmitRule
  <2>4. Within(c.limit, est) \in BOOLEAN
    BY DEF Within
  <2>5. /\ charging' \in [Request -> Charge \cup {NoCharge}]
        /\ verdict' \in Verdict \cup {NoVerdict}
    BY <1>1, <2>1, <2>3, <2>4, RoutingIsTyped
  <2> QED
    BY <1>1, <1>4, <2>1, <2>2, <2>5, ObserveKeepsCaps DEF CountInv, TypeOK
<1>5. ASSUME NEW l \in Limits, WindowEnds(l)
      PROVE  CountInv'
  <2>1. TypeOK'
    BY <1>1, <1>5 DEF WindowEnds, TypeOK
  <2>2. ASSUME NEW m \in Limits, NEW a \in Ip
        PROVE  CapsAt(count'[m][a], total'[m], passed'[m][a], max[m])
    <3>1. max[m] \in Nat
      BY DEF Limits
    <3>2. CASE m = l
      <4>1. count'[m][a] = 0 /\ total'[m] = 0 /\ passed'[m][a] = 0
        BY <1>1, <1>5, <3>2 DEF WindowEnds, TypeOK
      <4> QED
        BY <3>1, <4>1 DEF CapsAt
    <3>3. CASE m # l
      <4>1. /\ count'[m][a] = count[m][a] /\ total'[m] = total[m]
            /\ passed'[m][a] = passed[m][a]
        BY <1>1, <1>5, <3>3 DEF WindowEnds, TypeOK
      <4> QED
        BY <4>1, CapsPointwise DEF CountInv
    <3> QED
      BY <3>2, <3>3
  <2> QED
    BY <2>1, <2>2, CapsPointwise DEF CountInv
<1>6. CASE UNCHANGED vars
  BY <1>6 DEF vars, CountInv, TypeOK, Caps, PassedWereCounted, CapHolds,
              CountedInTotal, AloneIsExact
<1> QED
  BY <1>2, <1>3, <1>4, <1>5, <1>6 DEF Next

-----------------------------------------------------------------------------
(* What a verdict means.                                                   *)

\* A request between its two charges is on its way to the first rule that its
\* target matches.
ChargingFirst ==
  \A r \in Request : charging[r] # NoCharge =>
    /\ charging[r].limit \in Matching(charging[r].target)
    /\ \A j \in Matching(charging[r].target) : charging[r].limit <= j

\* The inductive invariant behind the verdicts.
VerdictInv == ChargingFirst /\ RefusalJustified /\ MatchedIsCharged

\* The loop over the rules admits what no rule matches, or goes on to the
\* first match and decides nothing.
LEMMA ToRulesResult ==
  ASSUME NEW r \in Request, NEW c \in Charge, ToRules(r, c)
  PROVE  \/ Matching(c.target) = {} /\ Decide(r, c, TRUE)
         \/ \E i \in Nat : /\ i \in Matching(c.target)
                           /\ \A j \in Matching(c.target) : i <= j
                           /\ GoOn(r, c, i)
<1>1. Matching(c.target) \subseteq Nat
  BY ConfigAssumption DEF Matching
<1> QED
  BY <1>1 DEF ToRules

\* What a refusal by limit l says of the counters.
Exhausted(l, ip) ==
  /\ total[l] > max[l]
  /\ count[l][ip] = total[l] => passed[l][ip] = max[l]

\* An observation past the cap leaves a limit that has counted more than its
\* cap; one within the cap lets a request pass.
LEMMA ObserveVerdict ==
  ASSUME CountInv, NEW l \in Limits, NEW ip \in Ip, NEW est \in Estimates(l, ip),
         Observe(l, ip, est)
  PROVE  /\ ~Within(l, est) => Exhausted(l, ip)'
         /\ Within(l, est) => passed'[l][ip] > 0
<1>1. /\ count \in [Limits -> [Ip -> Nat]] /\ passed \in [Limits -> [Ip -> Nat]]
      /\ total \in [Limits -> Nat] /\ max[l] \in Nat
  BY ConfigAssumption DEF CountInv, TypeOK, Limits
<1>2. count'[l][ip] = count[l][ip] + 1 /\ total'[l] = total[l] + 1
  BY <1>1 DEF Observe
<1>3. Within(l, est) => passed'[l][ip] = passed[l][ip] + 1
  BY <1>1 DEF Observe
<1>4. count[l][ip] \in Nat /\ passed[l][ip] \in Nat /\ total[l] \in Nat
  BY <1>1
<1>5. est \in Nat /\ est <= total[l] + 1
  BY EstimateRange DEF CountInv
<1>6. CapsAt(count'[l][ip], total'[l], passed'[l][ip], max[l])
  BY ObserveKeepsCaps, CapsPointwise
<1>7. ~Within(l, est) => total'[l] > max[l]
  BY <1>1, <1>2, <1>4, <1>5 DEF Within
<1>8. ASSUME ~Within(l, est), count'[l][ip] = total'[l]
      PROVE  passed'[l][ip] = max[l]
  BY <1>1, <1>2, <1>4, <1>6, <1>7, <1>8 DEF CapsAt
<1> QED
  BY <1>1, <1>3, <1>4, <1>7, <1>8 DEF Exhausted

\* A step that decides request r, with a verdict that can be justified.
LEMMA DecideKeeps ==
  ASSUME TypeOK, VerdictInv, NEW r \in Request, NEW c \in Charge,
         NEW admit \in BOOLEAN, Decide(r, c, admit),
         ~admit => /\ \/ c.limit = 0 /\ universal'
                      \/ /\ c.limit \in Matching(c.target)
                         /\ \A j \in Matching(c.target) : c.limit <= j
                   /\ Exhausted(c.limit, c.ip)',
         admit /\ Matching(c.target) # {} =>
                   /\ c.limit \in Matching(c.target)
                   /\ passed'[c.limit][c.ip] > 0
  PROVE  VerdictInv'
<1>1. /\ verdict' = [ip |-> c.ip, target |-> c.target, limit |-> c.limit,
                     admit |-> admit]
      /\ charging' = [charging EXCEPT ![r] = NoCharge]
  BY DEF Decide
<1>2. ChargingFirst'
  BY <1>1 DEF VerdictInv, ChargingFirst, TypeOK, Matching
<1>3. MatchedIsCharged'
  BY <1>1 DEF MatchedIsCharged, Matching
<1>4. RefusalJustified'
  <2> SUFFICES ASSUME ~admit
               PROVE  /\ \/ c.limit = 0 /\ universal'
                         \/ /\ c.limit # 0 /\ c.target \in rules[c.limit]
                            /\ \A j \in 1 .. c.limit - 1 :
                                 c.target \notin rules[j]
                      /\ Exhausted(c.limit, c.ip)'
    BY <1>1 DEF RefusalJustified, Exhausted
  <2>1. CASE c.limit \in Matching(c.target)
    <3>1. /\ c.limit \in 1 .. Len(rules) /\ c.target \in rules[c.limit]
      BY <2>1 DEF Matching
    <3>2. Len(rules) \in Nat
      BY ConfigAssumption
    <3>3. CASE \A j \in Matching(c.target) : c.limit <= j
      <4>1. ASSUME NEW j \in 1 .. c.limit - 1 PROVE c.target \notin rules[j]
        BY <3>1, <3>2, <3>3 DEF Matching
      <4> QED
        BY <3>1, <4>1
    <3>4. CASE c.limit = 0 /\ universal'
      BY <3>4
    <3> QED
      BY <3>3, <3>4
  <2>2. CASE c.limit \notin Matching(c.target)
    BY <2>2
  <2> QED
    BY <2>1, <2>2
<1> QED
  BY <1>2, <1>3, <1>4 DEF VerdictInv

\* A step that sends request r on to its first matching rule.
LEMMA GoOnKeeps ==
  ASSUME TypeOK, VerdictInv, NEW r \in Request, NEW c \in Charge, NEW i \in Nat,
         i \in Matching(c.target), \A j \in Matching(c.target) : i <= j,
         GoOn(r, c, i)
  PROVE  VerdictInv'
<1>1. /\ verdict' = NoVerdict
      /\ charging' = [charging EXCEPT ![r] = [c EXCEPT !.limit = i]]
  BY DEF GoOn
<1>2. /\ [c EXCEPT !.limit = i].limit = i
      /\ [c EXCEPT !.limit = i].target = c.target
  BY DEF Charge
<1>3. ChargingFirst'
  BY <1>1, <1>2 DEF VerdictInv, ChargingFirst, TypeOK, Matching
<1> QED
  BY <1>1, <1>3 DEF VerdictInv, RefusalJustified, MatchedIsCharged

\* Every step keeps VerdictInv.
LEMMA VerdictStep ==
  ASSUME CountInv, VerdictInv, [Next]_vars
  PROVE  VerdictInv'
<1>1. 0 \in Limits /\ TypeOK
  BY ConfigAssumption DEF Limits, CountInv
<1>2. ASSUME NEW r \in Request, NEW c \in Charge, ToRules(r, c)
      PROVE  VerdictInv'
  <2>1. CASE Matching(c.target) = {} /\ Decide(r, c, TRUE)
    BY <1>1, <2>1, DecideKeeps
  <2>2. ASSUME NEW i \in Nat, i \in Matching(c.target),
               \A j \in Matching(c.target) : i <= j, GoOn(r, c, i)
        PROVE  VerdictInv'
    BY <1>1, <2>2, GoOnKeeps
  <2> QED
    BY <1>2, <2>1, <2>2, ToRulesResult
<1>3. ASSUME NEW r \in Request, NEW ip \in Ip, NEW target \in Target,
             NEW est \in Estimates(0, ip), AdmitUniversal(r, ip, target, est)
      PROVE  VerdictInv'
  <2> DEFINE c == [ip |-> ip, target |-> target, limit |-> 0]
  <2>1. c \in Charge /\ c.limit = 0 /\ c.ip = ip
    BY <1>1 DEF Charge
  <2>2. CASE Within(0, est)
    BY <1>2, <1>3, <2>1, <2>2 DEF AdmitUniversal
  <2>3. CASE ~Within(0, est)
    <3>1. Decide(r, c, FALSE)
      BY <1>3, <2>3 DEF AdmitUniversal
    <3>2. Exhausted(0, ip)' /\ universal'
      BY <1>1, <1>3, <2>3, ObserveVerdict DEF AdmitUniversal, Observe
    <3> HIDE DEF c
    <3> QED
      BY <1>1, <2>1, <3>1, <3>2, DecideKeeps
  <2> QED
    BY <2>2, <2>3
<1>4. ASSUME NEW r \in Request, NEW ip \in Ip, NEW target \in Target,
             AdmitNoUniversal(r, ip, target)
      PROVE  VerdictInv'
  <2>1. [ip |-> ip, target |-> target, limit |-> 0] \in Charge
    BY <1>1 DEF Charge
  <2> QED
    BY <1>2, <1>4, <2>1 DEF AdmitNoUniversal
<1>5. ASSUME NEW r \in Request, charging[r] # NoCharge,
             NEW est \in Estimates(charging[r].limit, charging[r].ip),
             AdmitRule(r, est)
      PROVE  VerdictInv'
  <2>0. PICK c \in Charge : c = charging[r]
    BY <1>1, <1>5 DEF TypeOK
  <2> DEFINE w == Within(c.limit, est)
  <2>1. c.limit \in Limits /\ c.ip \in Ip /\ est \in Estimates(c.limit, c.ip)
    BY <1>5, <2>0 DEF Charge
  <2>2. /\ c.limit \in Matching(c.target)
        /\ \A j \in Matching(c.target) : c.limit <= j
    BY <1>5, <2>0 DEF VerdictInv, ChargingFirst
  <2>3. Decide(r, c, w) /\ Observe(c.limit, c.ip, est)
    BY <1>5, <2>0 DEF AdmitRule
  <2>4. /\ ~w => Exhausted(c.limit, c.ip)'
        /\ w => passed'[c.limit][c.ip] > 0
    BY <2>1, <2>3, ObserveVerdict
  <2>5. w \in BOOLEAN
    BY DEF Within
  <2> HIDE DEF w
  <2> QED
    BY <1>1, <2>1, <2>2, <2>3, <2>4, <2>5, DecideKeeps
<1>6. ASSUME NEW l \in Limits, WindowEnds(l)
      PROVE  VerdictInv'
  BY <1>6 DEF WindowEnds, VerdictInv, ChargingFirst, RefusalJustified,
              MatchedIsCharged, Matching
<1>7. CASE UNCHANGED vars
  BY <1>7 DEF vars, VerdictInv, ChargingFirst, RefusalJustified,
              MatchedIsCharged, Matching
<1> QED
  BY <1>3, <1>4, <1>5, <1>6, <1>7 DEF Next

-----------------------------------------------------------------------------
(* The theorems.                                                           *)

\* The inductive invariant holds in every reachable state.
THEOREM Invariance == Spec => [](CountInv /\ VerdictInv)
<1>1. Init => CountInv
  <2> SUFFICES ASSUME Init PROVE CountInv
    OBVIOUS
  <2>1. TypeOK
    BY DEF Init, TypeOK, Limits
  <2>2. ASSUME NEW m \in Limits, NEW a \in Ip
        PROVE  CapsAt(count[m][a], total[m], passed[m][a], max[m])
    <3>1. count[m][a] = 0 /\ total[m] = 0 /\ passed[m][a] = 0
      BY DEF Init
    <3>2. max[m] \in Nat
      BY ConfigAssumption DEF Limits
    <3> QED
      BY <3>1, <3>2 DEF CapsAt
  <2> QED
    BY <2>1, <2>2, CapsPointwise DEF CountInv
<1>2. Init => VerdictInv
  BY DEF Init, VerdictInv, ChargingFirst, RefusalJustified, MatchedIsCharged
<1>3. CountInv /\ VerdictInv /\ [Next]_vars => (CountInv /\ VerdictInv)'
  BY CountInductive, VerdictStep
<1> QED
  BY <1>1, <1>2, <1>3, PTL DEF Spec

\* The limiter's state keeps its types, whatever threads do between their two
\* charges.
THEOREM TypeCorrect == Spec => []TypeOK
<1>1. CountInv => TypeOK
  BY DEF CountInv
<1> QED
  BY <1>1, Invariance, PTL

\* RateLimiter::admit: max = N lets at most N requests of one address pass
\* per window and limit, for every limiter from_config builds (a universal cap
\* without rules among them), any number of threads and any collisions in Rate.
THEOREM RateCaps == Spec => []CapHolds
<1>1. CountInv => CapHolds
  BY DEF CountInv, Caps
<1> QED
  BY <1>1, Invariance, PTL

\* RateLimiter::admit refuses only on behalf of a universal cap that is
\* configured or of the first rule in file order that matches, only when that
\* limit has counted more than its cap from all addresses together and, for an
\* address that is alone at the limit, only after exactly the cap was let
\* through.
THEOREM RefusalsJustified == Spec => []RefusalJustified
<1>1. VerdictInv => RefusalJustified
  BY DEF VerdictInv
<1> QED
  BY <1>1, Invariance, PTL

\* RateLimiter::admit never admits a request that a rule matches without having
\* charged it to a matching rule.
THEOREM MatchesCharged == Spec => []MatchedIsCharged
<1>1. VerdictInv => MatchedIsCharged
  BY DEF VerdictInv
<1> QED
  BY <1>1, Invariance, PTL
=============================================================================
