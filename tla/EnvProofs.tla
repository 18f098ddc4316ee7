----------------------------- MODULE EnvProofs -----------------------------
(***************************************************************************)
(* Proofs about Env: what expand_str can and cannot make of a text, for    *)
(* every text and every environment.  The loop is a recursive function; a  *)
(* smallest natural number stands for induction over it.                   *)
(***************************************************************************)
EXTENDS Env, SequenceTheorems, WellFoundedInduction, TLAPS

-----------------------------------------------------------------------------
(* Induction, first order.                                                 *)

LEMMA SmallestOf ==
  ASSUME NEW T \in SUBSET Nat, T # {}
  PROVE  \E m \in T : \A n \in T : m <= n
<1>1. PICK m \in T : \A n \in T : ~(<<n, m>> \in OpToRel(<, Nat))
  BY WFMin, NatLessThanWellFounded, Zenon
<1>2. \A n \in T : ~(n < m)
  BY <1>1 DEF OpToRel
<1> QED
  BY <1>2

\* A set that holds a position whenever it holds all the later ones holds all.
LEMMA FromTheEnd ==
  ASSUME NEW L \in Nat, NEW T,
         \A i \in 1..L + 1 : (\A j \in i + 1..L + 1 : j \in T) => i \in T
  PROVE  1..L + 1 \subseteq T
<1> DEFINE Left == {n \in 0..L : L + 1 - n \notin T}
<1> SUFFICES ASSUME Left # {} PROVE FALSE
  <2>1. ASSUME NEW i \in 1..L + 1, i \notin T PROVE L + 1 - i \in Left
    BY <2>1
  <2> QED
    BY <2>1
<1>0. Left \in SUBSET Nat
  OBVIOUS
<1>1. PICK m \in Left : \A n \in Left : m <= n
  <2> HIDE DEF Left
  <2> QED
    BY <1>0, SmallestOf
<1>2. ASSUME NEW j \in L + 1 - m + 1..L + 1 PROVE j \in T
  <2>1. L + 1 - j \in 0..L /\ L + 1 - j < m /\ L + 1 - (L + 1 - j) = j
    BY <1>2
  <2> QED
    BY <1>1, <2>1
<1> QED
  BY <1>1, <1>2

\* A set that holds a and, with each number below b, the next one holds a..b.
LEMMA FromTheStart ==
  ASSUME NEW a \in Nat, NEW b \in Nat, NEW T, a \in T,
         \A n \in a..b - 1 : n \in T => n + 1 \in T
  PROVE  a..b \subseteq T
<1> DEFINE Left == {n \in a..b : n \notin T}
<1> SUFFICES ASSUME Left # {} PROVE FALSE
  OBVIOUS
<1>1. Left \in SUBSET Nat
  OBVIOUS
<1>2. PICK m \in Left : \A n \in Left : m <= n
  <2> HIDE DEF Left
  <2> QED
    BY <1>1, SmallestOf
<1>3. m # a /\ m - 1 \in a..b - 1
  BY <1>2
<1>4. m - 1 \in T
  BY <1>2, <1>3
<1> QED
  BY <1>2, <1>3, <1>4

LEMMA MinIs ==
  ASSUME NEW T \in SUBSET Nat, T # {}
  PROVE  Min(T) \in T /\ \A n \in T : Min(T) <= n
BY SmallestOf DEF Min

-----------------------------------------------------------------------------
(* Positions.                                                              *)

LEMMA FindIs ==
  ASSUME NEW s \in Seq(Char), NEW c, NEW i \in 1..Len(s) + 1
  PROVE  /\ Find(s, c, i) \in i..Len(s) + 1
         /\ Find(s, c, i) <= Len(s) => s[Find(s, c, i)] = c
         /\ \A k \in i..Find(s, c, i) - 1 : s[k] # c
<1> DEFINE T == {k \in i..Len(s) : s[k] = c} \cup {Len(s) + 1}
<1>1. Len(s) \in Nat
  OBVIOUS
<1>2. T \in SUBSET Nat /\ T # {}
  BY <1>1
<1>3. Find(s, c, i) = Min(T)
  BY DEF Find
<1>4. Min(T) \in T /\ \A n \in T : Min(T) <= n
  <2> HIDE DEF T
  <2> QED
    BY <1>2, MinIs
<1> HIDE DEF Find
<1>5. PICK m \in T : m = Min(T) /\ \A n \in T : m <= n
  BY <1>4
<1>6. m \in i..Len(s) + 1 /\ (m <= Len(s) => s[m] = c)
  BY <1>1, <1>5
<1>7. \A k \in i..m - 1 : s[k] # c
  BY <1>1, <1>5, <1>6
<1> QED
  BY <1>3, <1>5, <1>6, <1>7

LEMMA RunEndIs ==
  ASSUME NEW s \in Seq(Char), NEW i \in 1..Len(s), s[i] = "$"
  PROVE  RunEnd(s, i) \in i + 1..Len(s) + 1
<1> DEFINE T == {k \in i..Len(s) : s[k] # "$"} \cup {Len(s) + 1}
<1>1. Len(s) \in Nat
  OBVIOUS
<1>2. T \in SUBSET Nat /\ T # {} /\ i \notin T
  BY <1>1
<1>3. RunEnd(s, i) = Min(T)
  BY DEF RunEnd
<1>4. Min(T) \in T
  <2> HIDE DEF T
  <2> QED
    BY <1>2, MinIs
<1>5. \A k \in T : k \in i + 1..Len(s) + 1
  BY <1>1, <1>2
<1> QED
  BY <1>3, <1>4, <1>5

-----------------------------------------------------------------------------
(* Texts that are not blank.                                               *)

\* A text of which something other than padding can be seen.
Solid(t) == \E k \in DOMAIN t : ~IsPadding(t[k])

LEMMA SolidConcat ==
  ASSUME NEW a \in Seq(Char), NEW b \in Seq(Char), Solid(a) \/ Solid(b)
  PROVE  Solid(a \o b)
<1>1. /\ a \o b \in Seq(Char) /\ Len(a \o b) = Len(a) + Len(b)
      /\ Len(a) \in Nat /\ Len(b) \in Nat
  OBVIOUS
<1>2. CASE Solid(a)
  <2>1. PICK k \in 1..Len(a) : ~IsPadding(a[k])
    BY <1>2 DEF Solid
  <2>2. (a \o b)[k] = a[k] /\ k \in 1..Len(a \o b)
    BY <1>1
  <2> QED
    BY <1>1, <2>1, <2>2 DEF Solid
<1>3. CASE Solid(b)
  <2>1. PICK k \in 1..Len(b) : ~IsPadding(b[k])
    BY <1>3 DEF Solid
  <2>2. (a \o b)[Len(a) + k] = b[k] /\ Len(a) + k \in 1..Len(a \o b)
    BY <1>1
  <2> QED
    BY <1>1, <2>1, <2>2 DEF Solid
<1> QED
  BY <1>2, <1>3

LEMMA DollarsAre ==
  ASSUME NEW n \in Nat
  PROVE  Dollars(n) \in Seq(Char) /\ (n > 0 => Solid(Dollars(n)))
<1>1. Dollars(n) \in Seq(Char) /\ DOMAIN Dollars(n) = 1..n
  BY DEF Dollars, Char
<1>2. n > 0 => 1 \in 1..n /\ Dollars(n)[1] = "$"
  BY DEF Dollars
<1> QED
  BY <1>1, <1>2 DEF Solid, IsPadding

\* env.rs inserts no value that is blank.
LEMMA InsertedIsSolid ==
  ASSUME NEW answer, ValueError(answer) = "none"
  PROVE  Solid(answer.value)
BY DEF ValueError, Solid

-----------------------------------------------------------------------------
(* One turn of the loop.                                                   *)

\* The three things a turn can come to, whatever the later turns give: the rest
\* of the text as it is; something solid in front of a later turn; an error.
Copies(s, env, secret, i) ==
  /\ \A k \in i..Len(s) : s[k] # "$"
  /\ \A more : Turn(s, env, secret, i, more) = Expanded(SubSeq(s, i, Len(s)))
Continues(s, env, secret, i, p, pre) ==
  /\ p \in i + 1..Len(s) + 1 /\ pre \in Seq(Char) /\ Solid(pre)
  /\ \A more : Turn(s, env, secret, i, more) = Prefixed(pre, more[p])
Fails(s, env, secret, i, kind, name) ==
  /\ kind # "none"
  /\ name # <<>> => IsValidName(name) /\ ~secret
  /\ \A more : Turn(s, env, secret, i, more) = Failed(kind, name)

LEMMA TurnIs ==
  ASSUME NEW s \in Seq(Char), NEW env, env.value \in Seq(Char),
         NEW secret \in BOOLEAN, NEW i \in 1..Len(s) + 1
  PROVE  \/ Copies(s, env, secret, i)
         \/ \E p, pre : Continues(s, env, secret, i, p, pre)
         \/ \E kind, name : Fails(s, env, secret, i, kind, name)
<1>a. PICK start : start = Find(s, "$", i)
  OBVIOUS
<1>b. PICK copied : copied = SubSeq(s, i, start - 1)
  OBVIOUS
<1>c. PICK after : after = RunEnd(s, start)
  OBVIOUS
<1>d. PICK run : run = after - start
  OBVIOUS
<1>e. PICK close, end : close = "}" /\ end = Find(s, close, after + 1)
  BY Zenon
<1>f. PICK name : name = SubSeq(s, after + 1, end - 1)
  OBVIOUS
<1>g. PICK answer : answer = Lookup(env, name)
  OBVIOUS
<1> DEFINE brace == after <= Len(s) /\ s[after] = "{"
<1>1. \A more : Turn(s, env, secret, i, more) =
        CASE start > Len(s) -> Expanded(copied)
          [] start <= Len(s) /\ ~brace ->
               Prefixed(copied \o Dollars(run), more[after])
          [] start <= Len(s) /\ brace /\ run % 2 = 0 ->
               Prefixed(copied \o Dollars(run \div 2), more[after])
          [] OTHER ->
               CASE end > Len(s) -> Failed("unterminated", <<>>)
                 [] end <= Len(s) /\ ~IsValidName(name) ->
                      Failed("invalid_name", <<>>)
                 [] OTHER ->
                      IF ValueError(answer) # "none"
                      THEN Failed(ValueError(answer), IF secret THEN <<>> ELSE name)
                      ELSE Prefixed(copied \o Dollars(run \div 2)
                                      \o answer.value, more[end + 1])
  BY <1>a, <1>b, <1>c, <1>d, <1>e, <1>f, <1>g, Zenon DEF Turn
<1>h. (brace => after <= Len(s)) /\ brace \in BOOLEAN
  BY Zenon
<1>i. end = Find(s, close, after + 1)
  BY <1>e, Zenon
<1> HIDE DEF brace
<1>2. Len(s) \in Nat
  OBVIOUS
<1>3. /\ start \in i..Len(s) + 1
      /\ start <= Len(s) => s[start] = "$"
      /\ \A k \in i..start - 1 : s[k] # "$"
  BY <1>a, FindIs
<1>4. start <= Len(s) => after \in start + 1..Len(s) + 1
  BY <1>2, <1>3, <1>c, RunEndIs
<1>5. start <= Len(s) /\ brace => end \in after + 1..Len(s) + 1
  <2>1. ASSUME start <= Len(s), brace PROVE after + 1 \in 1..Len(s) + 1
    BY <1>2, <1>3, <1>4, <2>1, <1>h
  <2> QED
    BY <2>1, <1>i, FindIs
<1>6. copied \in Seq(Char)
  <2>1. i \in Nat /\ start - 1 \in Nat /\ start - 1 <= Len(s) /\ i >= 1
    BY <1>2, <1>3
  <2> QED
    BY <2>1, <1>b
<1>7. answer.value \in Seq(Char)
  BY <1>g DEF Lookup, NotPresent
<1>8. CASE start > Len(s)
  <2>1. start = Len(s) + 1
    BY <1>2, <1>3, <1>8
  <2>2. copied = SubSeq(s, i, Len(s)) /\ \A k \in i..Len(s) : s[k] # "$"
    BY <1>2, <1>3, <2>1, <1>b
  <2>3. \A more : Turn(s, env, secret, i, more) = Expanded(copied)
    BY <1>1, <1>2, <1>3, <1>8
  <2> QED
    BY <2>2, <2>3 DEF Copies
<1>9. CASE start <= Len(s) /\ ~brace
  <2>1. run \in Nat /\ run > 0 /\ after \in i + 1..Len(s) + 1
    BY <1>2, <1>3, <1>4, <1>9, <1>d
  <2>2. Dollars(run) \in Seq(Char) /\ Solid(Dollars(run))
    BY <2>1, DollarsAre
  <2>3. copied \o Dollars(run) \in Seq(Char) /\ Solid(copied \o Dollars(run))
    BY <1>6, <2>2, SolidConcat
  <2>4. \A more : Turn(s, env, secret, i, more)
                    = Prefixed(copied \o Dollars(run), more[after])
    BY <1>1, <1>2, <1>3, <1>9
  <2> QED
    BY <2>1, <2>3, <2>4 DEF Continues
<1>10. CASE start <= Len(s) /\ brace /\ run % 2 = 0
  <2>1. run \in Nat /\ run > 0 /\ after \in i + 1..Len(s) + 1
    BY <1>2, <1>3, <1>4, <1>10, <1>d
  <2>2. run \div 2 \in Nat /\ run \div 2 > 0
    BY <1>10, <2>1
  <2>3. Dollars(run \div 2) \in Seq(Char) /\ Solid(Dollars(run \div 2))
    BY <2>2, DollarsAre
  <2>4. /\ copied \o Dollars(run \div 2) \in Seq(Char)
        /\ Solid(copied \o Dollars(run \div 2))
    BY <1>6, <2>3, SolidConcat
  <2>5. \A more : Turn(s, env, secret, i, more)
                    = Prefixed(copied \o Dollars(run \div 2), more[after])
    BY <1>1, <1>2, <1>3, <1>10
  <2> QED
    BY <2>1, <2>4, <2>5 DEF Continues
<1>11. CASE start <= Len(s) /\ brace /\ run % 2 # 0
  <2>0. \A more : Turn(s, env, secret, i, more) =
          CASE end > Len(s) -> Failed("unterminated", <<>>)
            [] end <= Len(s) /\ ~IsValidName(name) ->
                 Failed("invalid_name", <<>>)
            [] OTHER ->
                 IF ValueError(answer) # "none"
                 THEN Failed(ValueError(answer), IF secret THEN <<>> ELSE name)
                 ELSE Prefixed(copied \o Dollars(run \div 2)
                                 \o answer.value, more[end + 1])
    BY <1>1, <1>2, <1>3, <1>11
  <2>1. end \in after + 1..Len(s) + 1 /\ after \in start + 1..Len(s) + 1
    BY <1>4, <1>5, <1>11
  <2>2. CASE end > Len(s)
    <3>1. \A more : Turn(s, env, secret, i, more) = Failed("unterminated", <<>>)
      BY <1>2, <2>0, <2>1, <2>2
    <3> QED
      BY <3>1 DEF Fails
  <2>3. CASE end <= Len(s) /\ ~IsValidName(name)
    <3>1. \A more : Turn(s, env, secret, i, more) = Failed("invalid_name", <<>>)
      BY <1>2, <2>0, <2>1, <2>3
    <3> QED
      BY <3>1 DEF Fails
  <2>4. CASE end <= Len(s) /\ IsValidName(name) /\ ValueError(answer) # "none"
    <3> DEFINE shown == IF secret THEN <<>> ELSE name
    <3>1. \A more : Turn(s, env, secret, i, more) = Failed(ValueError(answer), shown)
      BY <1>2, <2>0, <2>1, <2>4
    <3>2. shown # <<>> => IsValidName(shown) /\ ~secret
      BY <2>4
    <3> HIDE DEF shown
    <3> QED
      BY <2>4, <3>1, <3>2 DEF Fails
  <2>5. CASE end <= Len(s) /\ IsValidName(name) /\ ValueError(answer) = "none"
    <3> DEFINE pre == copied \o Dollars(run \div 2) \o answer.value
    <3>1. \A more : Turn(s, env, secret, i, more) = Prefixed(pre, more[end + 1])
      BY <1>2, <2>0, <2>1, <2>5
    <3>2. run \in Nat /\ run \div 2 \in Nat /\ end + 1 \in i + 1..Len(s) + 1
      BY <1>2, <1>3, <2>1, <2>5, <1>d
    <3>3. Dollars(run \div 2) \in Seq(Char)
      BY <3>2, DollarsAre
    <3>4. answer.value \in Seq(Char) /\ Solid(answer.value)
      BY <1>7, <2>5, InsertedIsSolid
    <3>5. copied \o Dollars(run \div 2) \in Seq(Char)
      BY <1>6, <3>3
    <3>6. pre \in Seq(Char)
      BY <3>4, <3>5
    <3>7. Solid(pre)
      BY <3>4, <3>5, SolidConcat
    <3> HIDE DEF pre
    <3> QED
      BY <3>1, <3>2, <3>6, <3>7 DEF Continues
  <2> QED
    BY <1>2, <2>1, <2>2, <2>3, <2>4, <2>5
<1> QED
  BY <1>2, <1>3, <1>8, <1>9, <1>10, <1>11, <1>h

-----------------------------------------------------------------------------
(* The loop.                                                               *)

\* A turn looks only at later turns.
LEMMA TurnLooksAhead ==
  ASSUME NEW s \in Seq(Char), NEW env, env.value \in Seq(Char),
         NEW secret \in BOOLEAN, NEW i \in 1..Len(s) + 1, NEW g, NEW h,
         \A j \in i + 1..Len(s) + 1 : g[j] = h[j]
  PROVE  Turn(s, env, secret, i, g) = Turn(s, env, secret, i, h)
<1>1. CASE Copies(s, env, secret, i)
  BY <1>1 DEF Copies
<1>2. ASSUME NEW p, NEW pre, Continues(s, env, secret, i, p, pre)
      PROVE  Turn(s, env, secret, i, g) = Turn(s, env, secret, i, h)
  BY <1>2 DEF Continues
<1>3. ASSUME NEW kind, NEW name, Fails(s, env, secret, i, kind, name)
      PROVE  Turn(s, env, secret, i, g) = Turn(s, env, secret, i, h)
  BY <1>3 DEF Fails
<1> QED
  BY <1>1, <1>2, <1>3, TurnIs

\* The loop is well defined: there is a function that satisfies its recursion.
LEMMA PassExists ==
  ASSUME NEW s \in Seq(Char), NEW env, env.value \in Seq(Char), NEW secret \in BOOLEAN
  PROVE  \E g : g = [i \in 1..Len(s) + 1 |-> Turn(s, env, secret, i, g)]
<1> DEFINE L == Len(s)
           T == {n \in 1..L + 1 :
                   \E g : g = [k \in n..L + 1 |-> Turn(s, env, secret, k, g)]}
<1>1. L \in Nat
  OBVIOUS
<1>2. ASSUME NEW i \in 1..L + 1, \A j \in i + 1..L + 1 : j \in T
      PROVE  i \in T
  <2>1. \E g : g = [k \in i + 1..L + 1 |-> Turn(s, env, secret, k, g)]
    <3>1. CASE i + 1 \in 1..L + 1
      BY <1>1, <1>2, <3>1
    <3>2. CASE i = L + 1
      <4>1. i + 1..L + 1 = {}
        BY <1>1, <3>2
      <4> WITNESS [k \in i + 1..L + 1 |-> Turn(s, env, secret, k, <<>>)]
      <4> QED
        BY <4>1
    <3> QED
      BY <1>1, <3>1, <3>2
  <2>2. PICK g : g = [k \in i + 1..L + 1 |-> Turn(s, env, secret, k, g)]
    BY <2>1
  <2> DEFINE h == [k \in i..L + 1 |-> IF k = i THEN Turn(s, env, secret, i, g) ELSE g[k]]
  <2>3. ASSUME NEW k \in 1..L + 1, k >= i
        PROVE  h[k] = Turn(s, env, secret, k, h)
    <3>1. k \in i..L + 1 /\ \A j \in k + 1..L + 1 : g[j] = h[j]
      BY <1>1, <2>3
    <3>2. Turn(s, env, secret, k, g) = Turn(s, env, secret, k, h)
      <4> HIDE DEF h, T
      <4> QED
        BY <1>1, <3>1, TurnLooksAhead
    <3>3. h[k] = Turn(s, env, secret, k, g)
      <4>1. k # i => k \in i + 1..L + 1 /\ h[k] = g[k]
        BY <1>1, <3>1
      <4>2. \A m \in i + 1..L + 1 : g[m] = Turn(s, env, secret, m, g)
        BY <2>2
      <4>3. k = i => h[k] = Turn(s, env, secret, k, g)
        BY <3>1
      <4> QED
        BY <4>1, <4>2, <4>3
    <3> QED
      BY <3>2, <3>3
  <2>4. h = [k \in i..L + 1 |-> Turn(s, env, secret, k, h)]
    <3>1. h = [k \in i..L + 1 |-> h[k]]
      OBVIOUS
    <3>2. \A k \in i..L + 1 : k \in 1..L + 1 /\ k >= i
      BY <1>1
    <3> HIDE DEF h
    <3> QED
      BY <2>3, <3>1, <3>2
  <2> HIDE DEF h
  <2> QED
    BY <2>4
<1>3. 1..L + 1 \subseteq T
  <2> HIDE DEF T
  <2> QED
    BY <1>1, <1>2, FromTheEnd
<1>4. 1 \in 1..L + 1
  BY <1>1
<1> QED
  BY <1>3, <1>4

\* What the loop gives for the text from i on: it is copied as it is, or
\* something other than padding is written; an error mentions nothing but the
\* name of a variable, and a secret's not even that.
Honest(s, secret, i, r) ==
  /\ r.text \in Seq(Char)
  /\ r.err = "none" => r.text = SubSeq(s, i, Len(s)) \/ Solid(r.text)
  /\ r.names # <<>> => IsValidName(r.names) /\ ~secret

LEMMA PrefixedIsHonest ==
  ASSUME NEW s, NEW secret, NEW i, NEW p, NEW pre \in Seq(Char), Solid(pre),
         NEW r, Honest(s, secret, p, r)
  PROVE  Honest(s, secret, i, Prefixed(pre, r))
<1>1. CASE r.err = "none"
  <2>1. /\ Prefixed(pre, r).text = pre \o r.text
        /\ Prefixed(pre, r).names = <<>>
    BY <1>1 DEF Prefixed, Expanded
  <2>2. pre \o r.text \in Seq(Char) /\ Solid(pre \o r.text)
    BY SolidConcat DEF Honest
  <2> QED
    BY <2>1, <2>2 DEF Honest
<1>2. CASE r.err # "none"
  BY <1>2 DEF Prefixed, Honest
<1> QED
  BY <1>1, <1>2

\* The function that expand_str's loop computes.
PassOf(s, env, secret) ==
  CHOOSE g : g = [i \in 1..Len(s) + 1 |-> Turn(s, env, secret, i, g)]

LEMMA PassIs ==
  ASSUME NEW s \in Seq(Char), NEW env, env.value \in Seq(Char), NEW secret \in BOOLEAN
  PROVE  /\ ExpandStr(s, env, secret) = PassOf(s, env, secret)[1]
         /\ \A i \in 1..Len(s) + 1 :
              PassOf(s, env, secret)[i] = Turn(s, env, secret, i, PassOf(s, env, secret))
<1> DEFINE Fits(g) == g = [i \in 1..Len(s) + 1 |-> Turn(s, env, secret, i, g)]
<1>1. \E g : Fits(g)
  BY PassExists
<1>2. PassOf(s, env, secret) = CHOOSE g : Fits(g)
  BY DEF PassOf
<1>3. Fits(PassOf(s, env, secret))
  <2> HIDE DEF Fits
  <2> QED
    BY <1>1, <1>2
<1>4. ExpandStr(s, env, secret) = PassOf(s, env, secret)[1]
  BY DEF ExpandStr, PassOf
<1>5. PICK Pass : Pass = PassOf(s, env, secret)
  OBVIOUS
<1>6. \A i \in 1..Len(s) + 1 : Pass[i] = Turn(s, env, secret, i, Pass)
  BY <1>3, <1>5
<1> QED
  BY <1>4, <1>5, <1>6

LEMMA PassIsHonest ==
  ASSUME NEW s \in Seq(Char), NEW env, env.value \in Seq(Char), NEW secret \in BOOLEAN,
         NEW i \in 1..Len(s) + 1
  PROVE  Honest(s, secret, i, PassOf(s, env, secret)[i])
<1>3. PICK Pass : /\ Pass = PassOf(s, env, secret)
                  /\ \A j \in 1..Len(s) + 1 : Pass[j] = Turn(s, env, secret, j, Pass)
  BY PassIs
<1> DEFINE L == Len(s)
           T == {x \in 1..L + 1 : Honest(s, secret, x, Pass[x])}
<1>4. L \in Nat /\ 1 \in 1..L + 1
  OBVIOUS
<1>5. ASSUME NEW n \in 1..L + 1, \A j \in n + 1..L + 1 : j \in T
      PROVE  Honest(s, secret, n, Pass[n])
  <2>1. Pass[n] = Turn(s, env, secret, n, Pass)
    BY <1>3
  <2>2. CASE Copies(s, env, secret, n)
    <3>1. Pass[n] = Expanded(SubSeq(s, n, Len(s)))
      BY <2>1, <2>2 DEF Copies
    <3>2. SubSeq(s, n, Len(s)) \in Seq(Char)
      <4>1. n \in Nat /\ n >= 1 /\ Len(s) \in Nat
        BY <1>4
      <4> QED
        BY ONLY <4>1, s \in Seq(Char)
    <3>3. Pass[n].text = SubSeq(s, n, Len(s)) /\ Pass[n].names = <<>>
      BY <3>1 DEF Expanded
    <3> QED
      BY <3>2, <3>3, Zenon DEF Honest
  <2>3. ASSUME NEW p, NEW pre, Continues(s, env, secret, n, p, pre)
        PROVE  Honest(s, secret, n, Pass[n])
    <3>1. Pass[n] = Prefixed(pre, Pass[p]) /\ p \in T
      BY <1>5, <2>1, <2>3 DEF Continues
    <3> QED
      BY <2>3, <3>1, PrefixedIsHonest DEF Continues
  <2>4. ASSUME NEW kind, NEW name, Fails(s, env, secret, n, kind, name)
        PROVE  Honest(s, secret, n, Pass[n])
    <3>1. Pass[n] = Failed(kind, name)
      BY <2>1, <2>4 DEF Fails
    <3>2. kind # "none" /\ (name # <<>> => IsValidName(name) /\ ~secret)
      BY <2>4 DEF Fails
    <3> QED
      BY <3>1, <3>2 DEF Failed, Honest
  <2> QED
    BY <1>5, <2>2, <2>3, <2>4, TurnIs
<1>6. 1..L + 1 \subseteq T
  <2>1. \A n \in 1..L + 1 : (\A j \in n + 1..L + 1 : j \in T) => n \in T
    BY <1>5
  <2> HIDE DEF T
  <2> QED
    BY <1>4, <2>1, FromTheEnd
<1> QED
  BY <1>3, <1>4, <1>6

LEMMA ExpandIsHonest ==
  ASSUME NEW s \in Seq(Char), NEW env, env.value \in Seq(Char), NEW secret \in BOOLEAN
  PROVE  Honest(s, secret, 1, ExpandStr(s, env, secret))
<1>1. 1 \in 1..Len(s) + 1
  OBVIOUS
<1> QED
  BY <1>1, PassIs, PassIsHonest

\* No environment makes a text vanish: what expand_str accepts either stands as
\* it was written, or shows something other than padding (config/env.rs).
THEOREM NothingVanishes ==
  ASSUME NEW s \in Seq(Char), NEW env, env.value \in Seq(Char), NEW secret \in BOOLEAN,
         ExpandStr(s, env, secret).err = "none"
  PROVE  /\ ExpandStr(s, env, secret).text \in Seq(Char)
         /\ \/ ExpandStr(s, env, secret).text = s
            \/ Solid(ExpandStr(s, env, secret).text)
<1>1. SubSeq(s, 1, Len(s)) = s
  OBVIOUS
<1> QED
  BY <1>1, ExpandIsHonest DEF Honest

\* An error of expand_str mentions at most the name of a variable, never other
\* text of the file, and nothing at all for a secret (config/env.rs).
THEOREM ErrorsNameVariables ==
  ASSUME NEW s \in Seq(Char), NEW env, env.value \in Seq(Char), NEW secret \in BOOLEAN,
         ExpandStr(s, env, secret).names # <<>>
  PROVE  IsValidName(ExpandStr(s, env, secret).names) /\ ~secret
BY ExpandIsHonest DEF Honest

-----------------------------------------------------------------------------
(* FlattenSeq: where the parts stand in the whole.                         *)

\* A place within a part is a place within the whole.
LEMMA Within ==
  ASSUME NEW a \in Nat, NEW b \in Nat, NEW k \in 1..b
  PROVE  a + k \in 1..a + b
OBVIOUS

\* What concatenation keeps of its two parts.
LEMMA Concat ==
  ASSUME NEW S, NEW a \in Seq(S), NEW b \in Seq(S)
  PROVE  /\ a \o b \in Seq(S) /\ Len(a \o b) = Len(a) + Len(b)
         /\ Len(a) \in Nat /\ Len(b) \in Nat
         /\ \A k \in 1..Len(a) : (a \o b)[k] = a[k]
         /\ \A k \in 1..Len(b) : (a \o b)[Len(a) + k] = b[k]
OBVIOUS

\* Part i of q ends at position o[i] of t, and stands there as it is.
Layout(q, t, o) ==
  /\ o \in [0..Len(q) -> 0..Len(t)] /\ o[0] = 0 /\ o[Len(q)] = Len(t)
  /\ \A i \in 1..Len(q) : o[i] = o[i - 1] + Len(q[i])
  /\ \A i \in 1..Len(q) : \A k \in 1..Len(q[i]) : t[o[i - 1] + k] = q[i][k]

\* FlattenSeq's recursion has a solution.
LEMMA FlattenExists ==
  ASSUME NEW q, NEW n \in Nat
  PROVE  \E g : g = [i \in 1..n |-> IF i = 1 THEN q[i] ELSE g[i - 1] \o q[i]]
<1> DEFINE R(g, m) == g = [i \in 1..m |-> IF i = 1 THEN q[i] ELSE g[i - 1] \o q[i]]
           T == {m \in 0..n : \E g : R(g, m)}
<1>1. 0 \in T
  <2>1. R([i \in 1..0 |-> <<>>], 0)
    OBVIOUS
  <2> HIDE DEF R
  <2> QED
    BY <2>1
<1>2. ASSUME NEW m \in 0..n - 1, m \in T PROVE m + 1 \in T
  <2>1. PICK g : R(g, m)
    BY <1>2
  <2> DEFINE next == IF m = 0 THEN q[1] ELSE g[m] \o q[m + 1]
             h == [i \in 1..m + 1 |-> IF i <= m THEN g[i] ELSE next]
  <2>2. \A i \in 1..m : g[i] = IF i = 1 THEN q[i] ELSE g[i - 1] \o q[i]
    BY <2>1
  <2>3. \A i \in 1..m : h[i] = g[i]
    OBVIOUS
  <2>4. h[m + 1] = next
    OBVIOUS
  <2>5. DOMAIN h = 1..m + 1 /\ h = [i \in 1..m + 1 |-> h[i]]
    OBVIOUS
  <2> HIDE DEF h
  <2>6. ASSUME NEW i \in 1..m + 1
        PROVE  h[i] = IF i = 1 THEN q[i] ELSE h[i - 1] \o q[i]
    <3>1. CASE i <= m
      <4>1. i \in 1..m /\ (i # 1 => i - 1 \in 1..m)
        BY <3>1
      <4> QED
        BY <2>2, <2>3, <4>1
    <3>2. CASE i = m + 1
      <4>1. i # 1 => i - 1 = m /\ m \in 1..m /\ h[i - 1] = g[m]
        BY <2>3, <3>2
      <4>2. i = 1 => m = 0
        BY <3>2
      <4> QED
        BY <2>4, <3>2, <4>1, <4>2
    <3> QED
      BY <3>1, <3>2
  <2>7. R(h, m + 1)
    BY <2>5, <2>6
  <2> HIDE DEF R
  <2> QED
    BY <2>7
<1> HIDE DEF T
<1>3. 0..n \subseteq T
  BY <1>1, <1>2, FromTheStart
<1>4. n \in T
  BY <1>3
<1> QED
  BY <1>4 DEF T

\* The text t begins with u, and goes on with v.
Begins(t, u) == Len(u) <= Len(t) /\ \A k \in 1..Len(u) : t[k] = u[k]
Follows(t, u, v) ==
  /\ Len(t) = Len(u) + Len(v) /\ Len(u) \in Nat /\ Len(v) \in Nat
  /\ \A k \in 1..Len(v) : t[Len(u) + k] = v[k]

LEMMA ConcatBegins ==
  ASSUME NEW S, NEW a \in Seq(S), NEW b \in Seq(S), NEW c \in Seq(S), Begins(b, a)
  PROVE  Begins(b \o c, a) /\ Follows(b \o c, b, c) /\ b \o c \in Seq(S)
<1>1. Len(a) \in Nat
  OBVIOUS
<1> QED
  BY Concat, <1>1 DEF Begins, Follows

LEMMA BeginsItself ==
  ASSUME NEW S, NEW a \in Seq(S)
  PROVE  Begins(a, a) /\ Follows(a, <<>>, a)
BY DEF Begins, Follows

\* The texts g[i] made of the first i parts of q.
LEMMA FlattenGrows ==
  ASSUME NEW S, NEW n \in Nat, NEW q, \A i \in 1..n : q[i] \in Seq(S),
         NEW g, g[0] = <<>>, \A i \in 0..n - 1 : g[i + 1] = g[i] \o q[i + 1]
  PROVE  /\ \A i \in 0..n : g[i] \in Seq(S)
         /\ \A i \in 0..n - 1 : Follows(g[i + 1], g[i], q[i + 1])
         /\ \A i \in 0..n : \A j \in i..n : Begins(g[j], g[i])
<1>0. ASSUME NEW i \in 0..n - 1
      PROVE  g[i + 1] = g[i] \o q[i + 1] /\ q[i + 1] \in Seq(S) /\ i + 1 \in 0..n
  <2>1. i + 1 \in 1..n /\ i + 1 \in 0..n
    OBVIOUS
  <2> QED
    BY <2>1
<1>1. \A i \in 0..n : g[i] \in Seq(S)
  <2> DEFINE T == {x \in 0..n : g[x] \in Seq(S)}
  <2>0. <<>> \in Seq(S) /\ 0 \in 0..n
    OBVIOUS
  <2>1. 0 \in T
    BY <2>0
  <2>2. ASSUME NEW i \in 0..n - 1, i \in T PROVE i + 1 \in T
    <3>1. g[i] \in Seq(S)
      BY <2>2
    <3>2. g[i + 1] \in Seq(S)
      BY <1>0, <3>1, Concat, Zenon
    <3> QED
      BY <1>0, <3>2
  <2> HIDE DEF T
  <2>3. 0..n \subseteq T
    BY <2>1, <2>2, FromTheStart
  <2> QED
    BY <2>3 DEF T
<1>2. ASSUME NEW i \in 0..n - 1 PROVE Follows(g[i + 1], g[i], q[i + 1])
  <2>1. g[i] \in Seq(S)
    BY <1>1
  <2> QED
    BY <1>0, <2>1, BeginsItself, ConcatBegins, Zenon
<1>3. ASSUME NEW i \in 0..n PROVE \A j \in i..n : Begins(g[j], g[i])
  <2> DEFINE T == {x \in i..n : Begins(g[x], g[i])}
  <2>0. i \in Nat
    OBVIOUS
  <2>1. i \in T
    BY <1>1, BeginsItself
  <2>2. ASSUME NEW j \in i..n - 1, j \in T PROVE j + 1 \in T
    <3>1. Begins(g[j], g[i])
      BY <2>2
    <3>2. j \in 0..n - 1 /\ j + 1 \in i..n /\ j \in 0..n
      OBVIOUS
    <3>3. g[i] \in Seq(S) /\ g[j] \in Seq(S)
      BY <1>1, <3>2
    <3>4. Begins(g[j + 1], g[i])
      BY <1>0, <3>1, <3>2, <3>3, ConcatBegins, Zenon
    <3> QED
      BY <3>2, <3>4
  <2> HIDE DEF T
  <2>3. i..n \subseteq T
    BY <2>0, <2>1, <2>2, FromTheStart
  <2> QED
    BY <2>3 DEF T
<1> QED
  BY <1>1, <1>2, <1>3

\* FlattenSeq is well defined: it lays out the parts one after the other.
LEMMA FlattenLayout ==
  ASSUME NEW S, NEW q \in Seq(Seq(S))
  PROVE  FlattenSeq(q) \in Seq(S) /\ \E o : Layout(q, FlattenSeq(q), o)
<1>0. PICK n \in Nat : n = Len(q)
  OBVIOUS
<1>q. \A i \in 1..n : q[i] \in Seq(S)
  BY <1>0
<1>1. PICK g : /\ g[0] = <<>>
               /\ \A i \in 0..n - 1 : g[i + 1] = g[i] \o q[i + 1]
               /\ FlattenSeq(q) = g[n]
  <2> DEFINE R(h) == h = [i \in 1..n |-> IF i = 1 THEN q[i] ELSE h[i - 1] \o q[i]]
  <2>1. n # 0 => FlattenSeq(q) = (CHOOSE h : R(h))[n]
    BY <1>0 DEF FlattenSeq
  <2>2. \E h : R(h)
    BY FlattenExists
  <2>3. PICK h : R(h) /\ (n # 0 => FlattenSeq(q) = h[n])
    <3> HIDE DEF R
    <3> QED
      BY <2>1, <2>2
  <2>4. \A i \in 1..n : h[i] = IF i = 1 THEN q[i] ELSE h[i - 1] \o q[i]
    BY <2>3
  <2>5. n = 0 => FlattenSeq(q) = <<>>
    <3>1. n = 0 => q = <<>>
      BY <1>0, EmptySeq
    <3>2. n = 0 => FlattenSeq(q) = q
      BY <1>0 DEF FlattenSeq
    <3> QED
      BY <3>1, <3>2
  <2> HIDE DEF R
  <2> DEFINE g == [i \in 0..n |-> IF i = 0 THEN <<>> ELSE h[i]]
  <2>6. g[0] = <<>> /\ \A i \in 1..n : g[i] = h[i]
    OBVIOUS
  <2>7. FlattenSeq(q) = g[n]
    BY <2>3, <2>5, <2>6
  <2> HIDE DEF g
  <2>8. ASSUME NEW i \in 0..n - 1 PROVE g[i + 1] = g[i] \o q[i + 1]
    <3>1. i + 1 \in 1..n /\ (i + 1) - 1 = i /\ g[i + 1] = h[i + 1]
      BY <2>6
    <3>2. CASE i = 0
      <4>1. h[i + 1] = q[i + 1] /\ q[i + 1] \in Seq(S) /\ g[i] = <<>>
        BY <1>q, <2>4, <2>6, <3>1, <3>2
      <4> QED
        BY <3>1, <4>1
    <3>3. CASE i # 0
      <4>1. i \in 1..n /\ i + 1 # 1
        BY <3>3
      <4> QED
        BY <2>4, <2>6, <3>1, <4>1
    <3> QED
      BY <3>2, <3>3
  <2> QED
    BY <2>6, <2>7, <2>8
<1>2. /\ \A i \in 0..n : g[i] \in Seq(S)
      /\ \A i \in 0..n - 1 : Follows(g[i + 1], g[i], q[i + 1])
      /\ \A i \in 0..n : \A j \in i..n : Begins(g[j], g[i])
  BY <1>1, <1>q, FlattenGrows
<1>3. PICK t : t = g[n]
  OBVIOUS
<1>4. \A i \in 0..n : Begins(t, g[i]) /\ Len(g[i]) \in Nat
  BY <1>2, <1>3
<1>5. PICK o : o = [i \in 0..n |-> Len(g[i])]
  OBVIOUS
<1>6. o \in [0..n -> 0..Len(t)] /\ o[0] = 0 /\ o[n] = Len(t)
  BY <1>1, <1>3, <1>4, <1>5 DEF Begins
<1>7. ASSUME NEW i \in 1..n
      PROVE  /\ o[i] = o[i - 1] + Len(q[i])
             /\ \A k \in 1..Len(q[i]) : t[o[i - 1] + k] = q[i][k]
  <2>1. i - 1 \in 0..n - 1 /\ (i - 1) + 1 = i /\ i - 1 \in 0..n
    OBVIOUS
  <2>2. Follows(g[i], g[i - 1], q[i]) /\ Begins(t, g[i])
    BY <1>2, <1>4, <2>1
  <2>3. o[i] = Len(g[i]) /\ o[i - 1] = Len(g[i - 1])
    BY <1>5, <2>1
  <2>4. /\ Len(g[i]) = Len(g[i - 1]) + Len(q[i])
        /\ Len(g[i - 1]) \in Nat /\ Len(q[i]) \in Nat
        /\ \A k \in 1..Len(q[i]) : g[i][Len(g[i - 1]) + k] = q[i][k]
    BY <2>2, Zenon DEF Follows
  <2>5. \A k \in 1..Len(g[i]) : t[k] = g[i][k]
    BY <2>2, Zenon DEF Begins
  <2>6. ASSUME NEW k \in 1..Len(q[i]) PROVE t[o[i - 1] + k] = q[i][k]
    <3>1. Len(g[i - 1]) + k \in 1..Len(g[i])
      BY <2>4, Within, Zenon
    <3>2. t[Len(g[i - 1]) + k] = g[i][Len(g[i - 1]) + k]
      BY <2>5, <3>1, Zenon
    <3> QED
      BY <2>3, <2>4, <3>2
  <2> QED
    BY <2>3, <2>4, <2>6, Zenon
<1>8. Layout(q, t, o)
  BY <1>0, <1>6, <1>7, Zenon DEF Layout
<1>9. t \in Seq(S) /\ FlattenSeq(q) = t
  BY <1>1, <1>2, <1>3
<1> QED
  BY <1>8, <1>9

-----------------------------------------------------------------------------
(* What the loop gives at each position, one character or run at a time.   *)

LBrace == "{"
RBrace == "}"

LEMMA BracesApart ==
  /\ LBrace # "$" /\ RBrace # "$" /\ LBrace # "a" /\ RBrace # "a" /\ LBrace # RBrace
  /\ LBrace \in Char /\ RBrace \in Char /\ "$" \in Char /\ "a" \in Char
BY Zenon DEF LBrace, RBrace, Char

\* The dollars from i on end before position after.
RunTo(s, i, after) ==
  /\ i \in 1..Len(s) /\ after \in i + 1..Len(s) + 1
  /\ \A k \in i..after - 1 : s[k] = "$"
  /\ after <= Len(s) => s[after] # "$"

Opens(s, after) == after <= Len(s) /\ s[after] = LBrace

\* The reference opened at position after is closed at position end, or never.
ClosedAt(s, after, end) ==
  /\ end \in after + 1..Len(s) /\ s[end] = RBrace
  /\ \A k \in after + 1..end - 1 : s[k] # RBrace
Unclosed(s, after) == \A k \in after + 1..Len(s) : s[k] # RBrace

\* Find is the one position that fits its description.
LEMMA FindOnly ==
  ASSUME NEW s \in Seq(Char), NEW c, NEW i \in 1..Len(s) + 1, NEW p \in i..Len(s) + 1,
         p <= Len(s) => s[p] = c, \A k \in i..p - 1 : s[k] # c
  PROVE  Find(s, c, i) = p
<1>0. Len(s) \in Nat
  OBVIOUS
<1>1. PICK f : f = Find(s, c, i)
  OBVIOUS
<1>2. /\ f \in i..Len(s) + 1 /\ (f <= Len(s) => s[f] = c)
      /\ \A k \in i..f - 1 : s[k] # c
  BY <1>1, FindIs
<1>3. ~(f < p)
  BY <1>0, <1>2
<1>4. ~(p < f)
  BY <1>0, <1>2
<1> QED
  BY <1>0, <1>1, <1>2, <1>3, <1>4

\* RunEnd is the one position that fits its description.
LEMMA RunEndOnly ==
  ASSUME NEW s \in Seq(Char), NEW i, NEW after, RunTo(s, i, after)
  PROVE  RunEnd(s, i) = after
<1> DEFINE T == {k \in i..Len(s) : s[k] # "$"} \cup {Len(s) + 1}
<1>0. /\ Len(s) \in Nat /\ i \in 1..Len(s) /\ after \in i + 1..Len(s) + 1
      /\ \A k \in i..after - 1 : s[k] = "$"
      /\ after <= Len(s) => s[after] # "$"
  BY DEF RunTo
<1>1. T \in SUBSET Nat /\ T # {}
  BY <1>0
<1>2. RunEnd(s, i) = Min(T)
  BY DEF RunEnd
<1>3. after \in T
  BY <1>0
<1>4. \A n \in T : n >= after
  BY <1>0
<1> HIDE DEF T
<1>5. Min(T) \in T /\ Min(T) <= after
  BY <1>1, <1>3, MinIs
<1>6. Min(T) \in Nat /\ Min(T) >= after
  BY <1>1, <1>4, <1>5
<1> QED
  BY <1>0, <1>2, <1>5, <1>6

\* Every dollar starts a run.
LEMMA RunExists ==
  ASSUME NEW s \in Seq(Char), NEW i \in 1..Len(s), s[i] = "$"
  PROVE  \E after : RunTo(s, i, after)
<1> DEFINE T == {k \in i..Len(s) : s[k] # "$"} \cup {Len(s) + 1}
<1>0. Len(s) \in Nat
  OBVIOUS
<1>1. T \in SUBSET Nat /\ T # {}
  BY <1>0
<1>2. PICK m \in T : \A n \in T : m <= n
  <2> HIDE DEF T
  <2> QED
    BY <1>1, SmallestOf
<1>3. m \in i + 1..Len(s) + 1 /\ (m <= Len(s) => s[m] # "$")
  BY <1>0, <1>2
<1>4. \A k \in i..m - 1 : s[k] = "$"
  BY <1>0, <1>2, <1>3
<1>5. RunTo(s, i, m)
  BY <1>3, <1>4 DEF RunTo
<1> QED
  BY <1>5

\* A reference that is not unclosed is closed somewhere.
LEMMA CloseExists ==
  ASSUME NEW s \in Seq(Char), NEW after \in 1..Len(s), ~Unclosed(s, after)
  PROVE  \E end : ClosedAt(s, after, end)
<1>0. Len(s) \in Nat /\ after + 1 \in 1..Len(s) + 1
  OBVIOUS
<1>1. PICK end : end = Find(s, RBrace, after + 1)
  OBVIOUS
<1>2. /\ end \in after + 1..Len(s) + 1 /\ (end <= Len(s) => s[end] = RBrace)
      /\ \A k \in after + 1..end - 1 : s[k] # RBrace
  BY <1>0, <1>1, FindIs
<1>3. end <= Len(s)
  <2> SUFFICES ASSUME end = Len(s) + 1 PROVE FALSE
    BY <1>0, <1>2
  <2>1. \A k \in after + 1..Len(s) : s[k] # RBrace
    BY <1>0, <1>2
  <2> QED
    BY <2>1 DEF Unclosed
<1>4. ClosedAt(s, after, end)
  BY <1>0, <1>2, <1>3 DEF ClosedAt
<1> QED
  BY <1>4

\* A turn of the loop, in the parts the proofs look at one by one: after an odd
\* dollar before the brace at `after', and from the dollar at `start' on.
Refers(s, env, secret, after, written, more) ==
  LET end    == Find(s, RBrace, after + 1)
      name   == SubSeq(s, after + 1, end - 1)
      answer == Lookup(env, name)
  IN CASE end > Len(s) -> Failed("unterminated", <<>>)
       [] end <= Len(s) /\ ~IsValidName(name) -> Failed("invalid_name", <<>>)
       [] OTHER ->
            IF ValueError(answer) # "none"
            THEN Failed(ValueError(answer), IF secret THEN <<>> ELSE name)
            ELSE Prefixed(written \o answer.value, more[end + 1])

Resumes(s, env, secret, start, copied, more) ==
  LET after == RunEnd(s, start)
      run   == after - start
  IN CASE start > Len(s) -> Expanded(copied)
       [] start <= Len(s) /\ ~Opens(s, after) ->
            Prefixed(copied \o Dollars(run), more[after])
       [] start <= Len(s) /\ Opens(s, after) /\ run % 2 = 0 ->
            Prefixed(copied \o Dollars(run \div 2), more[after])
       [] OTHER -> Refers(s, env, secret, after, copied \o Dollars(run \div 2), more)

\* A turn copies up to the next dollar and resumes there.
LEMMA TurnResumes ==
  ASSUME NEW s, NEW env, NEW secret, NEW i, NEW more
  PROVE  Turn(s, env, secret, i, more) =
           Resumes(s, env, secret, Find(s, "$", i), SubSeq(s, i, Find(s, "$", i) - 1), more)
BY Zenon DEF Turn, Resumes, Refers, Opens, LBrace, RBrace

-----------------------------------------------------------------------------
(* Results, and texts written in front of them.                            *)

LEMMA ConcatChars ==
  \A a, b \in Seq(Char) : a \o b \in Seq(Char)
BY Concat

LEMMA ConcatGroups ==
  \A a, b, c \in Seq(Char) : (a \o b) \o c = a \o (b \o c)
BY ConcatAssociative

\* Texts in front of a result.
Shaped(r) == r.text \in Seq(Char) /\ (r.err = "none" => r = Expanded(r.text))

\* Two texts in front of a result are one.
LEMMA PrefixedTwice ==
  ASSUME NEW a \in Seq(Char), NEW b \in Seq(Char), NEW r, r.text \in Seq(Char)
  PROVE  Prefixed(a, Prefixed(b, r)) = Prefixed(a \o b, r)
<1>1. CASE r.err = "none"
  <2>1. Prefixed(b, r) = Expanded(b \o r.text)
    BY <1>1 DEF Prefixed
  <2>2. Expanded(b \o r.text).err = "none" /\ Expanded(b \o r.text).text = b \o r.text
    BY DEF Expanded
  <2>3. Prefixed(a, Prefixed(b, r)) = Expanded(a \o (b \o r.text))
    BY <2>1, <2>2, Zenon DEF Prefixed
  <2>4. Prefixed(a \o b, r) = Expanded((a \o b) \o r.text)
    BY <1>1 DEF Prefixed
  <2>5. a \o (b \o r.text) = (a \o b) \o r.text
    BY ConcatGroups, Zenon
  <2> QED
    BY <2>3, <2>4, <2>5, Zenon
<1>2. CASE r.err # "none"
  BY <1>2, Zenon DEF Prefixed
<1> QED
  BY <1>1, <1>2

LEMMA PrefixedParts ==
  ASSUME NEW a \in Seq(Char), NEW b \in Seq(Char), NEW c \in Seq(Char),
         NEW r, r.text \in Seq(Char)
  PROVE  Prefixed((a \o b) \o c, r) = Prefixed(a, Prefixed(b \o c, r))
<1>1. (a \o b) \o c = a \o (b \o c)
  BY ConcatGroups, Zenon
<1>2. b \o c \in Seq(Char)
  BY ConcatChars, Zenon
<1>3. PICK d \in Seq(Char) : d = b \o c
  BY <1>2
<1>4. Prefixed(a, Prefixed(d, r)) = Prefixed(a \o d, r)
  BY PrefixedTwice
<1> QED
  BY <1>1, <1>3, <1>4, Zenon

LEMMA PrefixedNothing ==
  ASSUME NEW r, Shaped(r)
  PROVE  Prefixed(<<>>, r) = r
<1>1. CASE r.err = "none"
  <2>1. <<>> \o r.text = r.text
    BY ConcatEmptySeq, Zenon DEF Shaped
  <2> QED
    BY <1>1, <2>1, Zenon DEF Prefixed, Shaped
<1>2. CASE r.err # "none"
  BY <1>2, Zenon DEF Prefixed
<1> QED
  BY <1>1, <1>2

LEMMA ResultFields ==
  ASSUME NEW t, NEW kind, NEW name
  PROVE  /\ Expanded(t).err = "none" /\ Expanded(t).text = t
         /\ Failed(kind, name).err = kind /\ Failed(kind, name).text = <<>>
BY DEF Expanded, Failed

LEMMA PrefixedFields ==
  ASSUME NEW pre, NEW r
  PROVE  /\ Prefixed(pre, r).err = r.err
         /\ r.err = "none" => Prefixed(pre, r).text = pre \o r.text
         /\ r.err # "none" => Prefixed(pre, r) = r
         /\ Prefixed(pre, Failed("unterminated", <<>>)) = Failed("unterminated", <<>>)
         /\ Prefixed(pre, Failed("invalid_name", <<>>)) = Failed("invalid_name", <<>>)
         /\ \A kind, name : kind # "none" =>
              Prefixed(pre, Failed(kind, name)) = Failed(kind, name)
<1>1. \A kind, name : kind # "none" =>
              Prefixed(pre, Failed(kind, name)) = Failed(kind, name)
  BY ResultFields, Zenon DEF Prefixed
<1>2. "unterminated" # "none" /\ "invalid_name" # "none"
  OBVIOUS
<1>3. r.err = "none" => Prefixed(pre, r).err = r.err /\ Prefixed(pre, r).text = pre \o r.text
  BY ResultFields, Zenon DEF Prefixed
<1>4. r.err # "none" => Prefixed(pre, r) = r
  BY Zenon DEF Prefixed
<1> QED
  BY <1>1, <1>2, <1>3, <1>4, Zenon

LEMMA PrefixedShaped ==
  ASSUME NEW pre \in Seq(Char), NEW r, r.text \in Seq(Char)
  PROVE  Shaped(Prefixed(pre, r))
<1>1. CASE r.err = "none"
  <2>1. pre \o r.text \in Seq(Char)
    BY Concat, Zenon
  <2> QED
    BY <1>1, <2>1, ResultFields, Zenon DEF Prefixed, Shaped
<1>2. CASE r.err # "none"
  BY <1>2, Zenon DEF Prefixed, Shaped
<1> QED
  BY <1>1, <1>2

\* A result without an error carries nothing but its text.
LEMMA PassShaped ==
  ASSUME NEW s \in Seq(Char), NEW env, env.value \in Seq(Char), NEW secret \in BOOLEAN,
         NEW i \in 1..Len(s) + 1
  PROVE  Shaped(PassOf(s, env, secret)[i])
<1>1. PICK Pass : /\ Pass = PassOf(s, env, secret)
                  /\ Pass[i] = Turn(s, env, secret, i, Pass)
                  /\ \A j \in 1..Len(s) + 1 : Honest(s, secret, j, Pass[j])
  BY PassIs, PassIsHonest
<1>0. \A j \in 1..Len(s) + 1 : Pass[j].text \in Seq(Char)
  BY <1>1, Zenon DEF Honest
<1>2. CASE Copies(s, env, secret, i)
  <2>1. Pass[i] = Expanded(SubSeq(s, i, Len(s)))
    BY <1>1, <1>2 DEF Copies
  <2> QED
    BY <1>0, <1>1, <2>1, ResultFields, Zenon DEF Shaped
<1>3. ASSUME NEW p, NEW pre, Continues(s, env, secret, i, p, pre)
      PROVE  Shaped(PassOf(s, env, secret)[i])
  <2>1. Pass[i] = Prefixed(pre, Pass[p]) /\ p \in i + 1..Len(s) + 1 /\ pre \in Seq(Char)
    BY <1>1, <1>3, Zenon DEF Continues
  <2>2. Pass[p].text \in Seq(Char)
    BY <1>0, <2>1
  <2> QED
    BY <1>1, <2>1, <2>2, PrefixedShaped, Zenon
<1>4. ASSUME NEW kind, NEW name, Fails(s, env, secret, i, kind, name)
      PROVE  Shaped(PassOf(s, env, secret)[i])
  <2>1. Pass[i] = Failed(kind, name) /\ kind # "none"
    BY <1>1, <1>4, Zenon DEF Fails
  <2>e. Failed(kind, name).err = kind
    BY DEF Failed
  <2>2. Pass[i].err # "none" /\ Pass[i].text \in Seq(Char)
    BY <1>0, <2>1, <2>e
  <2> QED
    BY <1>1, <2>2, Zenon DEF Shaped
<1> QED
  BY <1>2, <1>3, <1>4, TurnIs, Zenon

\* At the end of the text nothing is left to write.
LEMMA PassEnd ==
  ASSUME NEW s \in Seq(Char), NEW env, env.value \in Seq(Char), NEW secret \in BOOLEAN
  PROVE  PassOf(s, env, secret)[Len(s) + 1] = Expanded(<<>>)
<1>1. Len(s) \in Nat /\ Len(s) + 1 \in 1..Len(s) + 1
  OBVIOUS
<1>2. PICK start : start = Find(s, "$", Len(s) + 1)
  OBVIOUS
<1>3. start = Len(s) + 1
  BY <1>1, <1>2, FindIs
<1>4. SubSeq(s, Len(s) + 1, start - 1) = <<>>
  BY <1>1, <1>3
<1>5. start > Len(s)
  BY <1>1, <1>3
<1>6. \A more : Resumes(s, env, secret, start, <<>>, more) = Expanded(<<>>)
  BY <1>1, <1>3 DEF Resumes
<1>7. \A more : Turn(s, env, secret, Len(s) + 1, more) = Expanded(<<>>)
  BY <1>2, <1>4, <1>6, TurnResumes, Zenon
<1>8. PICK Pass : /\ Pass = PassOf(s, env, secret)
                  /\ \A i \in 1..Len(s) + 1 : Pass[i] = Turn(s, env, secret, i, Pass)
  BY PassIs
<1>9. Pass[Len(s) + 1] = Turn(s, env, secret, Len(s) + 1, Pass)
  BY <1>1, <1>8
<1> QED
  BY <1>7, <1>8, <1>9, Zenon

\* Text written before a turn goes on stands in front of its result.
LEMMA ResumesWith ==
  ASSUME NEW s \in Seq(Char), NEW env, env.value \in Seq(Char), NEW secret \in BOOLEAN,
         NEW start \in 1..Len(s) + 1, start <= Len(s) => s[start] = "$",
         NEW a \in Seq(Char), NEW copied \in Seq(Char), NEW more,
         \A j \in 1..Len(s) + 1 : more[j].text \in Seq(Char)
  PROVE  Resumes(s, env, secret, start, a \o copied, more) =
           Prefixed(a, Resumes(s, env, secret, start, copied, more))
<1>g. \A d \in Seq(Char) : (a \o copied) \o d = a \o (copied \o d)
  BY ConcatGroups, Zenon
<1>0. Len(s) \in Nat
  OBVIOUS
<1>1. CASE start > Len(s)
  <2>1. \A t : Resumes(s, env, secret, start, t, more) = Expanded(t)
    BY <1>0, <1>1 DEF Resumes
  <2>2. Prefixed(a, Expanded(copied)) = Expanded(a \o copied)
    BY ResultFields, Zenon DEF Prefixed
  <2> QED
    BY <2>1, <2>2, Zenon
<1>2. CASE start <= Len(s)
  <2>1. PICK after : after = RunEnd(s, start)
    OBVIOUS
  <2>2. after \in start + 1..Len(s) + 1 /\ after \in 1..Len(s) + 1
    BY <1>0, <1>2, <2>1, RunEndIs
  <2>3. more[after].text \in Seq(Char)
    BY <2>2
  <2>4. PICK run \in Nat : run = after - start
    BY <2>2
  <2>5. run \div 2 \in Nat
    BY <2>4
  <2>6. Dollars(run) \in Seq(Char) /\ Dollars(run \div 2) \in Seq(Char)
    BY <2>4, <2>5, DollarsAre, Zenon
  <2>8. \A t : Resumes(s, env, secret, start, t, more) =
          CASE start > Len(s) -> Expanded(t)
            [] start <= Len(s) /\ ~Opens(s, after) ->
                 Prefixed(t \o Dollars(run), more[after])
            [] start <= Len(s) /\ Opens(s, after) /\ run % 2 = 0 ->
                 Prefixed(t \o Dollars(run \div 2), more[after])
            [] OTHER -> Refers(s, env, secret, after, t \o Dollars(run \div 2), more)
    BY <2>1, <2>4, Zenon DEF Resumes
  <2>9. CASE ~Opens(s, after)
    <3>1. \A t : Resumes(s, env, secret, start, t, more) =
                   Prefixed(t \o Dollars(run), more[after])
      BY <1>0, <1>2, <2>8, <2>9
    <3>2. Prefixed((a \o copied) \o Dollars(run), more[after]) =
            Prefixed(a, Prefixed(copied \o Dollars(run), more[after]))
      BY <2>3, <2>6, PrefixedParts
    <3> QED
      BY <3>1, <3>2, Zenon
  <2>10. CASE Opens(s, after) /\ run % 2 = 0
    <3>1. \A t : Resumes(s, env, secret, start, t, more) =
                   Prefixed(t \o Dollars(run \div 2), more[after])
      BY <1>0, <1>2, <2>8, <2>10
    <3>2. Prefixed((a \o copied) \o Dollars(run \div 2), more[after]) =
            Prefixed(a, Prefixed(copied \o Dollars(run \div 2), more[after]))
      BY <2>3, <2>6, PrefixedParts
    <3> QED
      BY <3>1, <3>2, Zenon
  <2>11. CASE Opens(s, after) /\ run % 2 # 0
    <3>1. \A t : Resumes(s, env, secret, start, t, more) =
                   Refers(s, env, secret, after, t \o Dollars(run \div 2), more)
      BY <1>0, <1>2, <2>8, <2>11
    <3>2. PICK half \in Seq(Char) : half = copied \o Dollars(run \div 2)
      BY <2>6, ConcatChars
    <3>a. (a \o copied) \o Dollars(run \div 2) = a \o half
      <4>1. PICK d \in Seq(Char) : d = Dollars(run \div 2)
        BY <2>6
      <4>2. (a \o copied) \o d = a \o (copied \o d)
        BY <1>g
      <4> QED
        BY <3>2, <4>1, <4>2, Zenon
    <3>3. Refers(s, env, secret, after, a \o half, more) =
            Prefixed(a, Refers(s, env, secret, after, half, more))
      <4>1. PICK end : end = Find(s, RBrace, after + 1)
        OBVIOUS
      <4>2. after + 1 \in 1..Len(s) + 1
        BY <1>0, <2>2, <2>11 DEF Opens
      <4>3. end \in after + 1..Len(s) + 1
        BY <4>1, <4>2, FindIs
      <4>4. PICK name : name = SubSeq(s, after + 1, end - 1)
        OBVIOUS
      <4>5. PICK answer : answer = Lookup(env, name)
        OBVIOUS
      <4>6. answer.value \in Seq(Char)
        BY <4>5 DEF Lookup, NotPresent
      <4>7. \A t : Refers(s, env, secret, after, t, more) =
              CASE end > Len(s) -> Failed("unterminated", <<>>)
                [] end <= Len(s) /\ ~IsValidName(name) -> Failed("invalid_name", <<>>)
                [] OTHER ->
                     IF ValueError(answer) # "none"
                     THEN Failed(ValueError(answer), IF secret THEN <<>> ELSE name)
                     ELSE Prefixed(t \o answer.value, more[end + 1])
        BY <4>1, <4>4, <4>5, Zenon DEF Refers
      <4>8. CASE end > Len(s)
        <5>1. \A t : Refers(s, env, secret, after, t, more) = Failed("unterminated", <<>>)
          BY <1>0, <4>3, <4>7, <4>8
        <5> QED
          BY <5>1, PrefixedFields, Zenon
      <4>9. CASE end <= Len(s) /\ ~IsValidName(name)
        <5>1. \A t : Refers(s, env, secret, after, t, more) = Failed("invalid_name", <<>>)
          BY <1>0, <4>3, <4>7, <4>9
        <5> QED
          BY <5>1, PrefixedFields, Zenon
      <4>10. CASE end <= Len(s) /\ IsValidName(name) /\ ValueError(answer) # "none"
        <5>1. \A t : Refers(s, env, secret, after, t, more) =
                       Failed(ValueError(answer), IF secret THEN <<>> ELSE name)
          BY <1>0, <4>3, <4>7, <4>10
        <5>2. PICK shown : shown = IF secret THEN <<>> ELSE name
          OBVIOUS
        <5>3. Prefixed(a, Failed(ValueError(answer), shown)) =
                Failed(ValueError(answer), shown)
          BY <4>10, PrefixedFields
        <5> QED
          BY <5>1, <5>2, <5>3, Zenon
      <4>11. CASE end <= Len(s) /\ IsValidName(name) /\ ValueError(answer) = "none"
        <5>1. \A t : Refers(s, env, secret, after, t, more) =
                       Prefixed(t \o answer.value, more[end + 1])
          BY <1>0, <4>3, <4>7, <4>11
        <5>2. end + 1 \in 1..Len(s) + 1
          BY <1>0, <2>2, <4>3, <4>11
        <5>3. more[end + 1].text \in Seq(Char)
          BY <5>2
        <5>4. Prefixed((a \o half) \o answer.value, more[end + 1]) =
                Prefixed(a, Prefixed(half \o answer.value, more[end + 1]))
          BY <4>6, <5>3, PrefixedParts
        <5> QED
          BY <5>1, <5>4, Zenon
      <4> QED
        BY <1>0, <4>3, <4>8, <4>9, <4>10, <4>11
    <3> QED
      BY <3>1, <3>2, <3>a, <3>3, Zenon
  <2> QED
    BY <2>9, <2>10, <2>11
<1> QED
  BY <1>0, <1>1, <1>2

\* A character that is no dollar is copied.
LEMMA PassPlain ==
  ASSUME NEW s \in Seq(Char), NEW env, env.value \in Seq(Char), NEW secret \in BOOLEAN,
         NEW i \in 1..Len(s), s[i] # "$"
  PROVE  PassOf(s, env, secret)[i] = Prefixed(<<s[i]>>, PassOf(s, env, secret)[i + 1])
<1>0. Len(s) \in Nat /\ i \in 1..Len(s) + 1 /\ i + 1 \in 1..Len(s) + 1
  OBVIOUS
<1>1. PICK start : start = Find(s, "$", i + 1)
  OBVIOUS
<1>2. /\ start \in i + 1..Len(s) + 1 /\ (start <= Len(s) => s[start] = "$")
      /\ \A k \in i + 1..start - 1 : s[k] # "$"
  BY <1>0, <1>1, FindIs
<1>3. /\ start \in i..Len(s) + 1 /\ start \in 1..Len(s) + 1
      /\ \A k \in i..start - 1 : s[k] # "$"
  BY <1>0, <1>2
<1>4. Find(s, "$", i) = start
  BY <1>0, <1>2, <1>3, FindOnly
<1>5. PICK copied \in Seq(Char) : copied = SubSeq(s, i + 1, start - 1)
  <2>1. i + 1 \in Nat /\ start - 1 \in Nat /\ start - 1 <= Len(s) /\ i + 1 >= 1
    BY <1>0, <1>2
  <2>2. SubSeq(s, i + 1, start - 1) \in Seq(Char)
    BY <2>1
  <2> QED
    BY <2>2
<1>6. SubSeq(s, i, start - 1) = <<s[i]>> \o copied /\ <<s[i]>> \in Seq(Char)
  BY <1>0, <1>2, <1>5
<1>7. PICK Pass : /\ Pass = PassOf(s, env, secret)
                  /\ \A j \in 1..Len(s) + 1 : Pass[j] = Turn(s, env, secret, j, Pass)
                  /\ \A j \in 1..Len(s) + 1 : Shaped(Pass[j])
  BY PassIs, PassShaped
<1>8. \A j \in 1..Len(s) + 1 : Pass[j].text \in Seq(Char)
  BY <1>7, Zenon DEF Shaped
<1>9. Pass[i] = Resumes(s, env, secret, start, <<s[i]>> \o copied, Pass)
  BY <1>0, <1>4, <1>6, <1>7, TurnResumes, Zenon
<1>10. Pass[i + 1] = Resumes(s, env, secret, start, copied, Pass)
  BY <1>0, <1>1, <1>5, <1>7, TurnResumes, Zenon
<1>11. PICK a \in Seq(Char) : a = <<s[i]>>
  BY <1>6
<1>12. Resumes(s, env, secret, start, a \o copied, Pass) =
         Prefixed(a, Resumes(s, env, secret, start, copied, Pass))
  BY <1>2, <1>3, <1>8, ResumesWith
<1> QED
  BY <1>7, <1>9, <1>10, <1>11, <1>12, Zenon

\* At the first dollar of a run nothing is copied.
LEMMA PassDollar ==
  ASSUME NEW s \in Seq(Char), NEW env, env.value \in Seq(Char), NEW secret \in BOOLEAN,
         NEW i, NEW after, RunTo(s, i, after), NEW run, run = after - i
  PROVE  PassOf(s, env, secret)[i] =
           CASE ~Opens(s, after) ->
                  Prefixed(Dollars(run), PassOf(s, env, secret)[after])
             [] Opens(s, after) /\ run % 2 = 0 ->
                  Prefixed(Dollars(run \div 2), PassOf(s, env, secret)[after])
             [] OTHER ->
                  Refers(s, env, secret, after, Dollars(run \div 2), PassOf(s, env, secret))
<1>0. /\ Len(s) \in Nat /\ i \in 1..Len(s) /\ i \in 1..Len(s) + 1
      /\ after \in i + 1..Len(s) + 1 /\ s[i] = "$"
  BY DEF RunTo
<1>1. Find(s, "$", i) = i
  BY <1>0, FindOnly
<1>2. SubSeq(s, i, i - 1) = <<>>
  BY <1>0
<1>3. PICK Pass : /\ Pass = PassOf(s, env, secret)
                  /\ \A j \in 1..Len(s) + 1 : Pass[j] = Turn(s, env, secret, j, Pass)
  BY PassIs
<1>4. Pass[i] = Resumes(s, env, secret, i, <<>>, Pass)
  BY <1>0, <1>1, <1>2, <1>3, TurnResumes, Zenon
<1>5. run \in Nat /\ run \div 2 \in Nat
  BY <1>0
<1>6. Dollars(run) \in Seq(Char) /\ Dollars(run \div 2) \in Seq(Char)
  BY <1>5, DollarsAre
<1>7. <<>> \o Dollars(run) = Dollars(run) /\ <<>> \o Dollars(run \div 2) = Dollars(run \div 2)
  BY <1>6, ConcatEmptySeq, Zenon
<1>8. RunEnd(s, i) = after
  BY RunEndOnly
<1>9. Resumes(s, env, secret, i, <<>>, Pass) =
          CASE i > Len(s) -> Expanded(<<>>)
            [] i <= Len(s) /\ ~Opens(s, after) ->
                 Prefixed(Dollars(run), Pass[after])
            [] i <= Len(s) /\ Opens(s, after) /\ run % 2 = 0 ->
                 Prefixed(Dollars(run \div 2), Pass[after])
            [] OTHER -> Refers(s, env, secret, after, Dollars(run \div 2), Pass)
  BY <1>7, <1>8, Zenon DEF Resumes
<1>10. Resumes(s, env, secret, i, <<>>, Pass) =
          CASE ~Opens(s, after) -> Prefixed(Dollars(run), Pass[after])
            [] Opens(s, after) /\ run % 2 = 0 ->
                 Prefixed(Dollars(run \div 2), Pass[after])
            [] OTHER -> Refers(s, env, secret, after, Dollars(run \div 2), Pass)
  BY <1>0, <1>9
<1> QED
  BY <1>3, <1>4, <1>10, Zenon

\* A run that does not stand before a brace is literal.
LEMMA PassRun ==
  ASSUME NEW s \in Seq(Char), NEW env, env.value \in Seq(Char), NEW secret \in BOOLEAN,
         NEW i, NEW after, RunTo(s, i, after), ~Opens(s, after)
  PROVE  PassOf(s, env, secret)[i] =
           Prefixed(Dollars(after - i), PassOf(s, env, secret)[after])
BY PassDollar

\* Before a brace an even run is half as many dollars.
LEMMA PassEscape ==
  ASSUME NEW s \in Seq(Char), NEW env, env.value \in Seq(Char), NEW secret \in BOOLEAN,
         NEW i, NEW after, RunTo(s, i, after), Opens(s, after), (after - i) % 2 = 0
  PROVE  PassOf(s, env, secret)[i] =
           Prefixed(Dollars((after - i) \div 2), PassOf(s, env, secret)[after])
BY PassDollar

\* Before a brace the last dollar of an odd run opens a reference.
LEMMA PassReference ==
  ASSUME NEW s \in Seq(Char), NEW env, env.value \in Seq(Char), NEW secret \in BOOLEAN,
         NEW i, NEW after, RunTo(s, i, after), Opens(s, after), (after - i) % 2 # 0
  PROVE  PassOf(s, env, secret)[i] =
           Refers(s, env, secret, after, Dollars((after - i) \div 2), PassOf(s, env, secret))
BY PassDollar

\* A reference that is never closed is an error.
LEMMA RefersUnclosed ==
  ASSUME NEW s \in Seq(Char), NEW env, NEW secret, NEW after \in 1..Len(s),
         Unclosed(s, after), NEW written, NEW more
  PROVE  Refers(s, env, secret, after, written, more) = Failed("unterminated", <<>>)
<1>0. Len(s) \in Nat /\ after + 1 \in 1..Len(s) + 1 /\ Len(s) + 1 \in after + 1..Len(s) + 1
  OBVIOUS
<1>1. \A k \in after + 1..(Len(s) + 1) - 1 : s[k] # RBrace
  BY <1>0 DEF Unclosed
<1>2. Find(s, RBrace, after + 1) = Len(s) + 1
  BY <1>0, <1>1, FindOnly
<1>3. Find(s, RBrace, after + 1) > Len(s) /\ ~(Find(s, RBrace, after + 1) <= Len(s))
  BY <1>0, <1>2
<1> QED
  BY <1>3 DEF Refers

\* What the name in a closed reference makes of it.
Inserts(env, secret, name, written, rest) ==
  IF ~IsValidName(name) THEN Failed("invalid_name", <<>>)
  ELSE IF ValueError(Lookup(env, name)) # "none"
       THEN Failed(ValueError(Lookup(env, name)), IF secret THEN <<>> ELSE name)
       ELSE Prefixed(written \o Lookup(env, name).value, rest)

\* A closed reference is decided by its name and its value.
LEMMA RefersClosed ==
  ASSUME NEW s \in Seq(Char), NEW env, NEW secret, NEW after \in 1..Len(s),
         NEW end, ClosedAt(s, after, end), NEW written, NEW more
  PROVE  Refers(s, env, secret, after, written, more) =
           Inserts(env, secret, SubSeq(s, after + 1, end - 1), written, more[end + 1])
<1>0. /\ Len(s) \in Nat /\ after + 1 \in 1..Len(s) + 1 /\ end \in after + 1..Len(s)
      /\ end \in after + 1..Len(s) + 1 /\ s[end] = RBrace
      /\ \A k \in after + 1..end - 1 : s[k] # RBrace
  BY DEF ClosedAt
<1>1. Find(s, RBrace, after + 1) = end
  BY <1>0, FindOnly
<1>2. end <= Len(s) /\ ~(end > Len(s))
  BY <1>0
<1>3. PICK name, answer : name = SubSeq(s, after + 1, end - 1) /\ answer = Lookup(env, name)
  OBVIOUS
<1>4. Refers(s, env, secret, after, written, more) =
        CASE end > Len(s) -> Failed("unterminated", <<>>)
          [] end <= Len(s) /\ ~IsValidName(name) -> Failed("invalid_name", <<>>)
          [] OTHER ->
               IF ValueError(answer) # "none"
               THEN Failed(ValueError(answer), IF secret THEN <<>> ELSE name)
               ELSE Prefixed(written \o answer.value, more[end + 1])
  BY <1>1, <1>3, Zenon DEF Refers
<1>5. Refers(s, env, secret, after, written, more) =
        IF ~IsValidName(name) THEN Failed("invalid_name", <<>>)
        ELSE IF ValueError(answer) # "none"
             THEN Failed(ValueError(answer), IF secret THEN <<>> ELSE name)
             ELSE Prefixed(written \o answer.value, more[end + 1])
  BY <1>2, <1>4
<1> QED
  BY <1>3, <1>5, Zenon DEF Inserts

-----------------------------------------------------------------------------
(* The text after a reference.                                             *)

\* A text as it stands at the end of another, d characters on.
EndsIn(s, d, a) ==
  /\ d \in Nat /\ Len(s) = d + Len(a)
  /\ \A k \in 1..Len(a) : a[k] = s[d + k]

\* Texts alike over a range have the same subsequence there.
LEMMA SubSeqAlike ==
  ASSUME NEW s \in Seq(Char), NEW t \in Seq(Char), NEW d \in Nat, Len(s) <= d + Len(t),
         NEW p \in 1..Len(s) + 1, NEW q \in p - 1..Len(s),
         NEW m, NEW n, m = d + p, n = d + q, n <= Len(t),
         \A k \in p..q : s[k] = t[d + k]
  PROVE  SubSeq(s, p, q) = SubSeq(t, m, n)
<1>0. Len(s) \in Nat /\ Len(t) \in Nat /\ p \in Int /\ q \in Int /\ m \in Int /\ n \in Int
  OBVIOUS
<1>1. PICK x : x = SubSeq(s, p, q)
  OBVIOUS
<1>2. PICK y : y = SubSeq(t, m, n)
  OBVIOUS
<1>3. /\ x \in Seq(Char) /\ Len(x) = q - p + 1
      /\ \A k \in 1..q - p + 1 : x[k] = s[p + k - 1]
  BY <1>0, <1>1
<1>4. /\ y \in Seq(Char) /\ Len(y) = n - m + 1
      /\ \A k \in 1..n - m + 1 : y[k] = t[m + k - 1]
  BY <1>0, <1>2
<1>5. ASSUME NEW k \in 1..q - p + 1 PROVE x[k] = y[k]
  <2>1. p + k - 1 \in p..q /\ m + k - 1 = d + (p + k - 1) /\ k \in 1..n - m + 1
    BY <1>0
  <2> QED
    BY <1>3, <1>4, <2>1
<1>6. q - p + 1 = n - m + 1 /\ Len(x) = Len(y)
  BY <1>0, <1>3, <1>4
<1> QED
  BY <1>1, <1>2, <1>3, <1>4, <1>5, <1>6, SeqEqual

\* Runs and references of a text are runs and references of one that ends in it.
LEMMA EndsInAlike ==
  ASSUME NEW s \in Seq(Char), NEW a \in Seq(Char), NEW d, EndsIn(s, d, a)
  PROVE  /\ \A i, after : RunTo(a, i, after) =>
              /\ RunTo(s, d + i, d + after) /\ (d + after) - (d + i) = after - i
              /\ Opens(a, after) <=> Opens(s, d + after)
              /\ i \in 1..Len(a) /\ after \in i + 1..Len(a) + 1
         /\ \A after \in 1..Len(a) : Unclosed(a, after) => Unclosed(s, d + after)
         /\ \A after \in 1..Len(a) : \A end : ClosedAt(a, after, end) =>
              /\ ClosedAt(s, d + after, d + end)
              /\ SubSeq(a, after + 1, end - 1) = SubSeq(s, d + after + 1, (d + end) - 1)
              /\ end \in after + 1..Len(a)
<1>0. /\ d \in Nat /\ Len(a) \in Nat /\ Len(s) = d + Len(a)
      /\ \A k \in 1..Len(a) : a[k] = s[d + k]
  BY DEF EndsIn
<1>s. \A m \in d + 1..Len(s) : s[m] = a[m - d] /\ m - d \in 1..Len(a)
  BY <1>0
<1>1. ASSUME NEW i, NEW after, RunTo(a, i, after)
      PROVE  /\ RunTo(s, d + i, d + after) /\ (d + after) - (d + i) = after - i
             /\ Opens(a, after) <=> Opens(s, d + after)
             /\ i \in 1..Len(a) /\ after \in i + 1..Len(a) + 1
  <2>1. /\ i \in 1..Len(a) /\ after \in i + 1..Len(a) + 1
        /\ \A k \in i..after - 1 : a[k] = "$"
        /\ after <= Len(a) => a[after] # "$"
    BY <1>1 DEF RunTo
  <2>2. d + i \in 1..Len(s) /\ d + after \in d + i + 1..Len(s) + 1
    BY <1>0, <2>1
  <2>3. \A m \in d + i..d + after - 1 : s[m] = "$"
    <3> SUFFICES ASSUME NEW m \in d + i..d + after - 1 PROVE s[m] = "$"
      OBVIOUS
    <3>1. m - d \in i..after - 1 /\ m \in d + 1..Len(s)
      BY <1>0, <2>1
    <3> QED
      BY <1>s, <2>1, <3>1
  <2>4. /\ d + after <= Len(s) <=> after <= Len(a)
        /\ after <= Len(a) => s[d + after] = a[after]
    BY <1>0, <2>1
  <2>5. RunTo(s, d + i, d + after)
    <3>1. PICK m, n : m = d + i /\ n = d + after
      OBVIOUS
    <3>2. /\ m \in 1..Len(s) /\ n \in m + 1..Len(s) + 1
          /\ \A k \in m..n - 1 : s[k] = "$"
          /\ n <= Len(s) => s[n] # "$"
      BY <1>0, <2>1, <2>2, <2>3, <2>4, <3>1
    <3> QED
      BY <3>1, <3>2 DEF RunTo
  <2>6. Opens(a, after) <=> Opens(s, d + after)
    BY <2>4 DEF Opens
  <2>7. (d + after) - (d + i) = after - i
    BY <1>0, <2>1
  <2> QED
    BY <2>1, <2>5, <2>6, <2>7
<1>2. ASSUME NEW after \in 1..Len(a), Unclosed(a, after)
      PROVE  Unclosed(s, d + after)
  <2>1. ASSUME NEW m \in d + after + 1..Len(s) PROVE s[m] # RBrace
    <3>1. m - d \in after + 1..Len(a) /\ m \in d + 1..Len(s)
      BY <1>0
    <3> QED
      BY <1>2, <1>s, <3>1 DEF Unclosed
  <2> QED
    BY <2>1 DEF Unclosed
<1>3. ASSUME NEW after \in 1..Len(a), NEW end, ClosedAt(a, after, end)
      PROVE  /\ ClosedAt(s, d + after, d + end)
             /\ SubSeq(a, after + 1, end - 1) = SubSeq(s, d + after + 1, (d + end) - 1)
             /\ end \in after + 1..Len(a)
  <2>1. /\ end \in after + 1..Len(a) /\ a[end] = RBrace
        /\ \A k \in after + 1..end - 1 : a[k] # RBrace
    BY <1>3 DEF ClosedAt
  <2>2. d + end \in d + after + 1..Len(s) /\ s[d + end] = RBrace
    BY <1>0, <2>1
  <2>3. ASSUME NEW m \in d + after + 1..d + end - 1 PROVE s[m] # RBrace
    <3>1. m - d \in after + 1..end - 1 /\ m \in d + 1..Len(s)
      BY <1>0, <2>1
    <3> QED
      BY <1>s, <2>1, <3>1
  <2>4. ClosedAt(s, d + after, d + end)
    <3>1. PICK m, n : m = d + after /\ n = d + end
      OBVIOUS
    <3>2. /\ n \in m + 1..Len(s) /\ s[n] = RBrace
          /\ \A k \in m + 1..n - 1 : s[k] # RBrace
      BY <1>0, <2>1, <2>2, <2>3, <3>1
    <3> QED
      BY <3>1, <3>2 DEF ClosedAt
  <2>5. SubSeq(a, after + 1, end - 1) = SubSeq(s, d + after + 1, (d + end) - 1)
    <3>1. PICK p, q, m, n : /\ p = after + 1 /\ q = end - 1
                            /\ m = d + after + 1 /\ n = (d + end) - 1
      OBVIOUS
    <3>2. /\ p \in 1..Len(a) + 1 /\ q \in p - 1..Len(a) /\ m = d + p /\ n = d + q
          /\ n <= Len(s) /\ \A k \in p..q : a[k] = s[d + k]
      BY <1>0, <2>1, <3>1
    <3>3. SubSeq(a, p, q) = SubSeq(s, m, n)
      BY <1>0, <3>2, SubSeqAlike
    <3> QED
      BY <3>1, <3>3
  <2> QED
    BY <2>1, <2>4, <2>5
<1> QED
  BY <1>1, <1>2, <1>3

\* The loop gives for the end of a text what it gives for that end alone.
LEMMA PassOfEnd ==
  ASSUME NEW s \in Seq(Char), NEW env, env.value \in Seq(Char), NEW secret \in BOOLEAN,
         NEW a \in Seq(Char), NEW d, EndsIn(s, d, a)
  PROVE  \A j \in 1..Len(a) + 1 :
           PassOf(a, env, secret)[j] = PassOf(s, env, secret)[d + j]
<1>1. PICK A, P : A = PassOf(a, env, secret) /\ P = PassOf(s, env, secret)
  OBVIOUS
<1>0. /\ d \in Nat /\ Len(a) \in Nat /\ Len(s) = d + Len(a)
      /\ \A k \in 1..Len(a) : a[k] = s[d + k]
  BY DEF EndsIn
<1> DEFINE T == {x \in 1..Len(a) + 1 : A[x] = P[d + x]}
<1>2. ASSUME NEW j \in 1..Len(a) + 1, \A m \in j + 1..Len(a) + 1 : m \in T
      PROVE  A[j] = P[d + j]
  <2>1. CASE j = Len(a) + 1
    <3>1. d + j = Len(s) + 1
      BY <1>0, <2>1
    <3> QED
      BY <1>1, <2>1, <3>1, PassEnd, Zenon
  <2>2. CASE j # Len(a) + 1 /\ a[j] # "$"
    <3>1. j \in 1..Len(a) /\ d + j \in 1..Len(s) /\ a[j] = s[d + j] /\ j + 1 \in T
          /\ d + j + 1 = d + (j + 1)
      BY <1>0, <1>2, <2>2
    <3>2. A[j] = Prefixed(<<a[j]>>, A[j + 1])
      BY <1>1, <2>2, <3>1, PassPlain
    <3>3. P[d + j] = Prefixed(<<s[d + j]>>, P[d + j + 1])
      BY <1>1, <2>2, <3>1, PassPlain
    <3>4. A[j + 1] = P[d + j + 1]
      BY <3>1
    <3> QED
      BY <3>1, <3>2, <3>3, <3>4, Zenon
  <2>3. CASE j # Len(a) + 1 /\ a[j] = "$"
    <3>1. PICK after : RunTo(a, j, after)
      <4>1. j \in 1..Len(a)
        BY <1>0, <2>3
      <4> QED
        BY <2>3, <4>1, RunExists
    <3>2. /\ RunTo(s, d + j, d + after) /\ (d + after) - (d + j) = after - j
          /\ Opens(a, after) <=> Opens(s, d + after)
          /\ j \in 1..Len(a) /\ after \in j + 1..Len(a) + 1
      BY <3>1, EndsInAlike, Zenon
    <3>a. PICK j2, after2 : /\ j2 = d + j /\ after2 = d + after
                            /\ RunTo(s, j2, after2) /\ after2 - j2 = after - j
                            /\ Opens(a, after) <=> Opens(s, after2)
      BY <3>2, Zenon
    <3>3. A[after] = P[d + after]
      BY <1>2, <3>2
    <3>4. CASE ~Opens(a, after)
      <4>1. A[j] = Prefixed(Dollars(after - j), A[after])
        BY <1>1, <3>1, <3>4, PassRun
      <4>2. P[d + j] = Prefixed(Dollars((d + after) - (d + j)), P[d + after])
        BY <1>1, <3>2, <3>4, PassRun
      <4> QED
        BY <3>2, <3>3, <4>1, <4>2, Zenon
    <3>5. CASE Opens(a, after) /\ (after - j) % 2 = 0
      <4>1. A[j] = Prefixed(Dollars((after - j) \div 2), A[after])
        BY <1>1, <3>1, <3>5, PassEscape
      <4>2. P[j2] = Prefixed(Dollars((after2 - j2) \div 2), P[after2])
        BY <1>1, <3>a, <3>5, PassEscape
      <4> QED
        BY <3>a, <3>3, <4>1, <4>2, Zenon
    <3>6. CASE Opens(a, after) /\ (after - j) % 2 # 0
      <4>0. after \in 1..Len(a) /\ d + after \in 1..Len(s)
        BY <1>0, <3>2, <3>6 DEF Opens
      <4>1. PICK half : half = Dollars((after - j) \div 2)
        OBVIOUS
      <4>2. A[j] = Refers(a, env, secret, after, half, A)
        BY <1>1, <3>1, <3>6, <4>1, PassReference, Zenon
      <4>3. P[j2] = Refers(s, env, secret, after2, half, P)
        BY <1>1, <3>a, <3>6, <4>1, PassReference
      <4>4. CASE Unclosed(a, after)
        <5>1. Unclosed(s, after2) /\ after2 \in 1..Len(s)
          BY <3>a, <4>0, <4>4, EndsInAlike, Zenon
        <5>2. A[j] = Failed("unterminated", <<>>) /\ P[j2] = Failed("unterminated", <<>>)
          BY <4>0, <4>2, <4>3, <4>4, <5>1, RefersUnclosed, Zenon
        <5> QED
          BY <3>a, <5>2, Zenon
      <4>5. CASE ~Unclosed(a, after)
        <5>1. PICK end : ClosedAt(a, after, end)
          BY <4>0, <4>5, CloseExists
        <5>2. /\ ClosedAt(s, d + after, d + end)
              /\ SubSeq(a, after + 1, end - 1) = SubSeq(s, d + after + 1, (d + end) - 1)
              /\ end \in after + 1..Len(a)
          BY <4>0, <5>1, EndsInAlike, Zenon
        <5>3. end + 1 \in j + 1..Len(a) + 1 /\ d + end + 1 = d + (end + 1)
          BY <1>0, <3>2, <5>2
        <5>4. A[end + 1] = P[d + end + 1]
          BY <1>2, <5>3
        <5>5. A[j] = Inserts(env, secret, SubSeq(a, after + 1, end - 1), half, A[end + 1])
          BY <4>0, <4>2, <5>1, RefersClosed
        <5>6. PICK end2 : end2 = d + end /\ ClosedAt(s, after2, end2) /\ after2 \in 1..Len(s)
          BY <3>a, <4>0, <5>2, Zenon
        <5>7. P[j2] = Inserts(env, secret, SubSeq(s, after2 + 1, end2 - 1), half, P[end2 + 1])
          BY <4>3, <5>6, RefersClosed
        <5>8. SubSeq(s, after2 + 1, end2 - 1) = SubSeq(a, after + 1, end - 1)
          <6>1. after2 = d + after /\ end2 = d + end
            BY <3>a, <5>6, Zenon
          <6>2. SubSeq(a, after + 1, end - 1) = SubSeq(s, d + after + 1, (d + end) - 1)
            BY <5>2, Zenon
          <6> QED
            BY <6>1, <6>2, Zenon
        <5>9. P[end2 + 1] = A[end + 1]
          BY <5>4, <5>6, Zenon
        <5> QED
          BY <3>a, <5>5, <5>7, <5>8, <5>9, Zenon
      <4> QED
        BY <4>4, <4>5
    <3> QED
      BY <3>4, <3>5, <3>6
  <2> QED
    BY <2>1, <2>2, <2>3
<1>3. \A j \in 1..Len(a) + 1 : (\A m \in j + 1..Len(a) + 1 : m \in T) => j \in T
  BY <1>2
<1> HIDE DEF T
<1>4. 1..Len(a) + 1 \subseteq T
  BY <1>0, <1>3, FromTheEnd
<1> QED
  BY <1>1, <1>4 DEF T

-----------------------------------------------------------------------------
(* The text before a reference.                                            *)

\* A run of dollars starts at position n + 1 of s, and b is the text before it.
CutAt(s, n, b) ==
  /\ n \in Nat /\ n + 1 <= Len(s) /\ s[n + 1] = "$"
  /\ n # 0 => s[n] # "$"
  /\ Len(b) = n /\ \A k \in 1..n : b[k] = s[k]

\* Runs of the text before a dollar are runs of the whole; a reference left open
\* there is closed behind the dollar, around no valid name, or nowhere.
LEMMA BeforeAlike ==
  ASSUME NEW s \in Seq(Char), NEW b \in Seq(Char), NEW n, CutAt(s, n, b)
  PROVE  /\ \A i, after : RunTo(b, i, after) =>
              /\ RunTo(s, i, after) /\ i \in 1..n /\ after \in i + 1..n
              /\ Opens(b, after) <=> Opens(s, after)
         /\ \A after \in 1..n : \A end : Unclosed(b, after) /\ ClosedAt(s, after, end) =>
              ~IsValidName(SubSeq(s, after + 1, end - 1))
         /\ \A after \in 1..n : \A end : ClosedAt(b, after, end) =>
              /\ ClosedAt(s, after, end) /\ end \in after + 1..n
              /\ SubSeq(b, after + 1, end - 1) = SubSeq(s, after + 1, end - 1)
<1>0. /\ n \in Nat /\ Len(s) \in Nat /\ n + 1 <= Len(s) /\ s[n + 1] = "$"
      /\ n # 0 => s[n] # "$"
      /\ Len(b) = n /\ \A k \in 1..n : b[k] = s[k]
  BY DEF CutAt
<1>1. ASSUME NEW i, NEW after, RunTo(b, i, after)
      PROVE  /\ RunTo(s, i, after) /\ i \in 1..n /\ after \in i + 1..n
             /\ Opens(b, after) <=> Opens(s, after)
  <2>1. /\ i \in 1..n /\ after \in i + 1..n + 1
        /\ \A k \in i..after - 1 : b[k] = "$"
        /\ after <= n => b[after] # "$"
    BY <1>0, <1>1 DEF RunTo
  <2>2. after # n + 1
    <3> SUFFICES ASSUME after = n + 1 PROVE FALSE
      OBVIOUS
    <3>1. n \in i..after - 1 /\ n \in 1..n /\ n # 0
      BY <1>0, <2>1
    <3> QED
      BY <1>0, <2>1, <3>1
  <2>3. after \in i + 1..n /\ after \in 1..n
    BY <1>0, <2>1, <2>2
  <2>4. RunTo(s, i, after)
    BY <1>0, <2>1, <2>3 DEF RunTo
  <2>5. Opens(b, after) <=> Opens(s, after)
    BY <1>0, <2>3 DEF Opens
  <2> QED
    BY <2>1, <2>3, <2>4, <2>5
<1>2. ASSUME NEW after \in 1..n, NEW end, Unclosed(b, after), ClosedAt(s, after, end)
      PROVE  ~IsValidName(SubSeq(s, after + 1, end - 1))
  <2>1. \A k \in after + 1..n : s[k] # RBrace
    BY <1>0, <1>2 DEF Unclosed
  <2>2. end \in after + 1..Len(s) /\ s[end] = RBrace
    BY <1>2 DEF ClosedAt
  <2>3. end > n + 1
    <3>1. end \notin after + 1..n /\ end # n + 1
      BY <1>0, <2>1, <2>2, BracesApart
    <3> QED
      BY <1>0, <2>2, <3>1
  <2>4. PICK name, k : name = SubSeq(s, after + 1, end - 1) /\ k = (n + 1) - after
    OBVIOUS
  <2>5. k \in DOMAIN name /\ name[k] = "$"
    <3>1. after + 1 \in Int /\ end - 1 \in Int /\ after + 1 >= 1 /\ end - 1 <= Len(s)
          /\ k \in 1..(end - 1) - (after + 1) + 1 /\ (after + 1) + k - 1 = n + 1
      BY <1>0, <2>2, <2>3, <2>4
    <3>2. DOMAIN name = 1..(end - 1) - (after + 1) + 1
      BY <1>0, <2>4, <3>1
    <3>3. name[k] = s[(after + 1) + k - 1]
      BY <1>0, <2>4, <3>1
    <3> QED
      BY <1>0, <3>1, <3>2, <3>3
  <2>6. ~IsValidName(name)
    BY <2>5 DEF IsValidName
  <2> QED
    BY <2>4, <2>6
<1>3. ASSUME NEW after \in 1..n, NEW end, ClosedAt(b, after, end)
      PROVE  /\ ClosedAt(s, after, end) /\ end \in after + 1..n
             /\ SubSeq(b, after + 1, end - 1) = SubSeq(s, after + 1, end - 1)
  <2>1. /\ end \in after + 1..n /\ b[end] = RBrace
        /\ \A k \in after + 1..end - 1 : b[k] # RBrace
    BY <1>0, <1>3 DEF ClosedAt
  <2>2. ClosedAt(s, after, end)
    BY <1>0, <2>1 DEF ClosedAt
  <2>3. PICK p, q : p = after + 1 /\ q = end - 1
    OBVIOUS
  <2>4. PICK d, x, y : d \in Nat /\ d = 0 /\ x = d + p /\ y = d + q
    OBVIOUS
  <2>5. /\ p \in 1..Len(b) + 1 /\ q \in p - 1..Len(b)
        /\ y <= Len(s) /\ Len(b) <= d + Len(s) /\ x = p /\ y = q
    BY <1>0, <2>1, <2>3, <2>4
  <2>6. \A k \in p..q : b[k] = s[d + k]
    BY <1>0, <2>1, <2>3, <2>4
  <2>7. SubSeq(b, p, q) = SubSeq(s, x, y)
    BY <2>4, <2>5, <2>6, SubSeqAlike
  <2> QED
    BY <2>1, <2>2, <2>3, <2>5, <2>7
<1> QED
  BY <1>1, <1>2, <1>3

\* What the loop gives at y is what it gave for x alone, in front of z.
Carried(x, y, z) == IF x.err = "none" THEN y = Prefixed(x.text, z) ELSE y.err # "none"

\* Text in front of both sides changes nothing about how they compare.
LEMMA CarriedPrefixed ==
  ASSUME NEW pre \in Seq(Char), NEW x, x.text \in Seq(Char), NEW y,
         NEW z, z.text \in Seq(Char), Carried(x, y, z)
  PROVE  Carried(Prefixed(pre, x), Prefixed(pre, y), z)
<1>1. CASE x.err = "none"
  <2>1. Prefixed(pre, x).err = "none" /\ Prefixed(pre, x).text = pre \o x.text
    BY <1>1, PrefixedFields, Zenon
  <2>2. y = Prefixed(x.text, z)
    BY <1>1 DEF Carried
  <2>3. PICK t \in Seq(Char) : t = x.text
    OBVIOUS
  <2>4. Prefixed(pre, Prefixed(t, z)) = Prefixed(pre \o t, z)
    BY PrefixedTwice
  <2> QED
    BY <2>1, <2>2, <2>3, <2>4, Zenon DEF Carried
<1>2. CASE x.err # "none"
  <2>1. Prefixed(pre, x).err # "none"
    BY <1>2, PrefixedFields, Zenon
  <2>2. Prefixed(pre, y).err # "none"
    BY <1>2, PrefixedFields, Zenon DEF Carried
  <2> QED
    BY <2>1, <2>2, Zenon DEF Carried
<1> QED
  BY <1>1, <1>2

\* Up to the dollar the loop does what it does for the text before it alone.
LEMMA PassBefore ==
  ASSUME NEW s \in Seq(Char), NEW env, env.value \in Seq(Char), NEW secret \in BOOLEAN,
         NEW b \in Seq(Char), NEW n, CutAt(s, n, b)
  PROVE  \A j \in 1..n + 1 :
           Carried(PassOf(b, env, secret)[j], PassOf(s, env, secret)[j],
                   PassOf(s, env, secret)[n + 1])
<1>1. PICK B, P : B = PassOf(b, env, secret) /\ P = PassOf(s, env, secret)
  OBVIOUS
<1>0. /\ n \in Nat /\ Len(s) \in Nat /\ n + 1 <= Len(s)
      /\ Len(b) = n /\ \A k \in 1..n : b[k] = s[k]
  BY DEF CutAt
<1>b. \A j \in 1..n + 1 : Shaped(B[j]) /\ B[j].text \in Seq(Char)
  BY <1>0, <1>1, PassShaped DEF Shaped
<1>z. PICK z : z = P[n + 1] /\ Shaped(z) /\ z.text \in Seq(Char)
  <2>1. n + 1 \in 1..Len(s) + 1
    BY <1>0
  <2> QED
    BY <1>1, <2>1, PassShaped DEF Shaped
<1> DEFINE T == {x \in 1..n + 1 : Carried(B[x], P[x], z)}
<1>2. ASSUME NEW j \in 1..n + 1, \A m \in j + 1..n + 1 : m \in T
      PROVE  Carried(B[j], P[j], z)
  <2>c. ASSUME NEW pre \in Seq(Char), NEW m \in j + 1..n + 1
        PROVE  Carried(Prefixed(pre, B[m]), Prefixed(pre, P[m]), z)
    <3>1. m \in 1..n + 1 /\ m \in T
      BY <1>0, <1>2
    <3>2. B[m].text \in Seq(Char) /\ Carried(B[m], P[m], z)
      BY <1>b, <3>1
    <3> QED
      BY <1>z, <3>2, CarriedPrefixed
  <2>f. ASSUME NEW kind, NEW name, NEW y, kind # "none", y.err # "none"
        PROVE  Carried(Failed(kind, name), y, z)
    BY <2>f, ResultFields, Zenon DEF Carried
  <2>e. ASSUME NEW kind, NEW name, kind # "none"
        PROVE  Carried(Failed(kind, name), Failed(kind, name), z)
    BY <2>e, ResultFields, Zenon DEF Carried
  <2> HIDE DEF T
  <2>1. CASE j = n + 1
    <3>1. B[j] = Expanded(<<>>)
      BY <1>0, <1>1, <2>1, PassEnd, Zenon
    <3>2. P[j] = Prefixed(<<>>, z)
      BY <1>z, <2>1, PrefixedNothing, Zenon
    <3> QED
      BY <3>1, <3>2, ResultFields, Zenon DEF Carried
  <2>2. CASE j # n + 1 /\ s[j] # "$"
    <3>1. j \in 1..Len(b) /\ j \in 1..Len(s) /\ b[j] = s[j] /\ j + 1 \in j + 1..n + 1
      BY <1>0, <2>2
    <3>2. B[j] = Prefixed(<<b[j]>>, B[j + 1])
      BY <1>1, <2>2, <3>1, PassPlain
    <3>3. P[j] = Prefixed(<<s[j]>>, P[j + 1])
      BY <1>1, <2>2, <3>1, PassPlain
    <3>a. <<s[j]>> \in Seq(Char)
      BY <3>1
    <3>4. PICK pre \in Seq(Char) : pre = <<s[j]>>
      BY <3>a
    <3> QED
      BY <2>c, <3>1, <3>2, <3>3, <3>4, Zenon
  <2>3. CASE j # n + 1 /\ s[j] = "$"
    <3>1. PICK after : RunTo(b, j, after)
      <4>1. j \in 1..Len(b) /\ b[j] = "$"
        BY <1>0, <2>3
      <4> QED
        BY <4>1, RunExists
    <3>2. /\ RunTo(s, j, after) /\ j \in 1..n /\ after \in j + 1..n
          /\ Opens(b, after) <=> Opens(s, after)
      BY <3>1, BeforeAlike, Zenon
    <3>3. PICK run \in Nat : run = after - j
      BY <1>0, <3>2
    <3>4. Dollars(run) \in Seq(Char) /\ Dollars(run \div 2) \in Seq(Char)
          /\ after \in j + 1..n + 1 /\ after \in 1..Len(b) /\ after \in 1..Len(s)
          /\ after \in 1..n
      <4>1. run \div 2 \in Nat
        BY <3>3
      <4>2. after \in j + 1..n + 1 /\ after \in 1..Len(b) /\ after \in 1..Len(s)
            /\ after \in 1..n
        BY <1>0, <3>2
      <4> QED
        BY <3>3, <4>1, <4>2, DollarsAre
    <3>5. CASE ~Opens(b, after)
      <4>1. B[j] = Prefixed(Dollars(run), B[after])
        BY <1>1, <3>1, <3>3, <3>5, PassRun
      <4>2. P[j] = Prefixed(Dollars(run), P[after])
        BY <1>1, <3>2, <3>3, <3>5, PassRun
      <4> QED
        BY <2>c, <3>4, <4>1, <4>2, Zenon
    <3>6. CASE Opens(b, after) /\ run % 2 = 0
      <4>1. B[j] = Prefixed(Dollars(run \div 2), B[after])
        BY <1>1, <3>1, <3>3, <3>6, PassEscape
      <4>a. Opens(s, after) /\ RunTo(s, j, after)
        BY <3>2, <3>6, Zenon
      <4>2. P[j] = Prefixed(Dollars(run \div 2), P[after])
        BY <1>1, <3>3, <3>6, <4>a, PassEscape
      <4> QED
        BY <2>c, <3>4, <4>1, <4>2, Zenon
    <3>7. CASE Opens(b, after) /\ run % 2 # 0
      <4>1. PICK half \in Seq(Char) : half = Dollars(run \div 2)
        BY <3>4
      <4>2. B[j] = Refers(b, env, secret, after, half, B)
        BY <1>1, <3>1, <3>3, <3>7, <4>1, PassReference
      <4>a. Opens(s, after) /\ RunTo(s, j, after)
        BY <3>2, <3>7, Zenon
      <4>3. P[j] = Refers(s, env, secret, after, half, P)
        BY <1>1, <3>3, <3>7, <4>1, <4>a, PassReference
      <4>4. CASE Unclosed(b, after)
        <5>1. B[j] = Failed("unterminated", <<>>)
          BY <3>4, <4>2, <4>4, RefersUnclosed
        <5>2. P[j].err # "none"
          <6>1. CASE Unclosed(s, after)
            <7>1. P[j] = Failed("unterminated", <<>>)
              BY <3>4, <4>3, <6>1, RefersUnclosed
            <7> QED
              BY <7>1, ResultFields
          <6>2. CASE ~Unclosed(s, after)
            <7>1. PICK end : ClosedAt(s, after, end)
              BY <3>4, <6>2, CloseExists
            <7>2. ~IsValidName(SubSeq(s, after + 1, end - 1))
              BY <3>4, <4>4, <7>1, BeforeAlike, Zenon
            <7>3. P[j] = Inserts(env, secret, SubSeq(s, after + 1, end - 1), half, P[end + 1])
              BY <3>4, <4>3, <7>1, RefersClosed
            <7>4. P[j] = Failed("invalid_name", <<>>)
              BY <7>2, <7>3, Zenon DEF Inserts
            <7> QED
              BY <7>4, ResultFields
          <6> QED
            BY <6>1, <6>2
        <5>3. "unterminated" # "none"
          OBVIOUS
        <5> QED
          BY <2>f, <5>1, <5>2, <5>3, Zenon
      <4>5. CASE ~Unclosed(b, after)
        <5>1. PICK end : ClosedAt(b, after, end)
          BY <3>4, <4>5, CloseExists
        <5>2. PICK name : /\ name = SubSeq(b, after + 1, end - 1)
                          /\ name = SubSeq(s, after + 1, end - 1)
                          /\ ClosedAt(s, after, end) /\ end \in after + 1..n
          <6>1. after \in 1..n
            BY <3>4, Zenon
          <6>2. /\ ClosedAt(s, after, end) /\ end \in after + 1..n
                /\ SubSeq(b, after + 1, end - 1) = SubSeq(s, after + 1, end - 1)
            BY <5>1, <6>1, BeforeAlike
          <6> QED
            BY <6>2, Zenon
        <5>3. end + 1 \in j + 1..n + 1
          BY <1>0, <3>2, <5>2
        <5>4. B[j] = Inserts(env, secret, name, half, B[end + 1])
          BY <3>4, <4>2, <5>1, <5>2, RefersClosed
        <5>5. P[j] = Inserts(env, secret, name, half, P[end + 1])
          <6>1. P[j] = Inserts(env, secret, SubSeq(s, after + 1, end - 1), half, P[end + 1])
            BY <3>4, <4>3, <5>2, RefersClosed
          <6> QED
            BY <5>2, <6>1, Zenon
        <5>6. CASE ~IsValidName(name)
          <6>1. B[j] = Failed("invalid_name", <<>>) /\ P[j] = Failed("invalid_name", <<>>)
            BY <5>4, <5>5, <5>6, Zenon DEF Inserts
          <6>2. "invalid_name" # "none"
            OBVIOUS
          <6> QED
            BY <2>e, <6>1, <6>2, Zenon
        <5>7. CASE IsValidName(name) /\ ValueError(Lookup(env, name)) # "none"
          <6>1. PICK kind, shown : /\ kind = ValueError(Lookup(env, name))
                                   /\ shown = IF secret THEN <<>> ELSE name
            OBVIOUS
          <6>2. B[j] = Failed(kind, shown) /\ P[j] = Failed(kind, shown)
            BY <5>4, <5>5, <5>7, <6>1, Zenon DEF Inserts
          <6> QED
            BY <2>e, <5>7, <6>1, <6>2, Zenon
        <5>8. CASE IsValidName(name) /\ ValueError(Lookup(env, name)) = "none"
          <6>1. Lookup(env, name).value \in Seq(Char)
            BY DEF Lookup, NotPresent
          <6>2. PICK pre \in Seq(Char) : pre = half \o Lookup(env, name).value
            BY <6>1, ConcatChars
          <6>3. B[j] = Prefixed(pre, B[end + 1]) /\ P[j] = Prefixed(pre, P[end + 1])
            BY <5>4, <5>5, <5>8, <6>2, Zenon DEF Inserts
          <6> QED
            BY <2>c, <5>3, <6>3, Zenon
        <5> QED
          BY <5>6, <5>7, <5>8
      <4> QED
        BY <4>4, <4>5
    <3> QED
      BY <3>5, <3>6, <3>7
  <2> QED
    BY <2>1, <2>2, <2>3
<1>3. \A j \in 1..n + 1 : (\A m \in j + 1..n + 1 : m \in T) => j \in T
  BY <1>2
<1> HIDE DEF T
<1>4. 1..n + 1 \subseteq T
  BY <1>0, <1>3, FromTheEnd
<1> QED
  BY <1>1, <1>z, <1>4 DEF T

-----------------------------------------------------------------------------
(* The reference.                                                          *)

\* ReferenceError, and Replaced, of a reference whose brace is at e.
FailsWith(s, e, end, env, bad) ==
  bad = CASE end > Len(s) -> "unterminated"
          [] end <= Len(s) /\ ~IsValidName(SubSeq(s, e + 1, end - 1)) -> "invalid_name"
          [] OTHER -> ValueError(Lookup(env, SubSeq(s, e + 1, end - 1)))

ReplacedBy(before, bad, inserted, after, whole) ==
  /\ before.err # "none" => whole.err # "none"
  /\ before.err = "none" /\ bad # "none" => whole.err = bad
  /\ before.err = "none" /\ bad = "none" =>
       /\ whole.err = after.err
       /\ after.err = "none" => whole.text = before.text \o inserted \o after.text

LEMMA ReplacedIs ==
  ASSUME NEW s, NEW j, NEW e, NEW env, NEW secret, NEW end, end = Find(s, RBrace, e + 1),
         NEW bad, FailsWith(s, e, end, env, bad),
         ReplacedBy(ExpandStr(SubSeq(s, 1, j - 1), env, secret), bad,
                    Dollars((e - j) \div 2) \o Lookup(env, SubSeq(s, e + 1, end - 1)).value,
                    ExpandStr(SubSeq(s, end + 1, Len(s)), env, secret),
                    ExpandStr(s, env, secret))
  PROVE  Replaced(s, j, e, env, secret)
<1>1. bad = ReferenceError(s, e, env)
  BY Zenon DEF FailsWith, ReferenceError, RBrace
<1> QED
  BY <1>1, Zenon DEF Replaced, ReplacedBy, RBrace

\* A reference starts after the text before it, with an odd run before its brace.
LEMMA ReferenceIs ==
  ASSUME NEW s \in Seq(Char), NEW e \in DOMAIN s, NEW j \in 1..e - 1, IsReference(s, j, e)
  PROVE  /\ RunTo(s, j, e) /\ Opens(s, e) /\ (e - j) % 2 # 0
         /\ j \in 1..Len(s) /\ e \in 1..Len(s) /\ e - j \in Nat
         /\ SubSeq(s, 1, j - 1) \in Seq(Char)
         /\ CutAt(s, j - 1, SubSeq(s, 1, j - 1))
<1>0. Len(s) \in Nat /\ e \in 1..Len(s) /\ j \in 1..Len(s) /\ j < e
  OBVIOUS
<1>1. /\ j = 1 \/ s[j - 1] # "$"
      /\ \A k \in j..e - 1 : s[k] = "$"
      /\ s[e] = LBrace
      /\ (e - j) % 2 = 1
  BY Zenon DEF IsReference, LBrace
<1>2. RunTo(s, j, e) /\ Opens(s, e)
  BY <1>0, <1>1, BracesApart DEF RunTo, Opens
<1>3. (e - j) % 2 # 0 /\ e - j \in Nat
  BY <1>0, <1>1
<1>4. PICK n \in Nat : n = j - 1 /\ j = n + 1 /\ n <= Len(s) /\ n + 1 <= Len(s)
  BY <1>0
<1>5. PICK b \in Seq(Char) : /\ b = SubSeq(s, 1, j - 1)
                             /\ Len(b) = n /\ \A k \in 1..n : b[k] = s[k]
  <2>1. SubSeq(s, 1, n) \in Seq(Char) /\ Len(SubSeq(s, 1, n)) = n
    BY <1>0, <1>4
  <2>2. \A k \in 1..n : SubSeq(s, 1, n)[k] = s[k]
    BY <1>0, <1>4
  <2> QED
    BY <1>4, <2>1, <2>2
<1>6. s[n + 1] = "$" /\ (n # 0 => s[n] # "$")
  BY <1>0, <1>1, <1>4
<1>7. CutAt(s, n, b)
  BY <1>4, <1>5, <1>6 DEF CutAt
<1> QED
  BY <1>0, <1>2, <1>3, <1>4, <1>5, <1>7

\* At a closed reference the loop writes half the dollars and the value, or fails
\* with the error for the name or the value.
AtReference(z, env, name, half, rest) ==
  /\ ~IsValidName(name) => z.err = "invalid_name"
  /\ IsValidName(name) /\ ValueError(Lookup(env, name)) # "none" =>
       z.err = ValueError(Lookup(env, name))
  /\ IsValidName(name) /\ ValueError(Lookup(env, name)) = "none" =>
       z = Prefixed(half \o Lookup(env, name).value, rest)

LEMMA PassAtReference ==
  ASSUME NEW s \in Seq(Char), NEW env, env.value \in Seq(Char), NEW secret \in BOOLEAN,
         NEW j, NEW e, RunTo(s, j, e), Opens(s, e), (e - j) % 2 # 0, e \in 1..Len(s),
         NEW end, ClosedAt(s, e, end)
  PROVE  AtReference(PassOf(s, env, secret)[j], env, SubSeq(s, e + 1, end - 1),
                     Dollars((e - j) \div 2), PassOf(s, env, secret)[end + 1])
<1>0. PICK name : name = SubSeq(s, e + 1, end - 1)
  OBVIOUS
<1>1. PICK P, half : P = PassOf(s, env, secret) /\ half = Dollars((e - j) \div 2)
  OBVIOUS
<1>2. P[j] = Refers(s, env, secret, e, half, P)
  BY <1>1, PassReference
<1>3. P[j] = Inserts(env, secret, name, half, P[end + 1])
  BY <1>0, <1>2, RefersClosed
<1>4. ASSUME ~IsValidName(name) PROVE P[j].err = "invalid_name"
  <2>1. P[j] = Failed("invalid_name", <<>>)
    BY <1>3, <1>4, Zenon DEF Inserts
  <2> QED
    BY <2>1, ResultFields
<1>5. ASSUME IsValidName(name), ValueError(Lookup(env, name)) # "none"
      PROVE  P[j].err = ValueError(Lookup(env, name))
  <2>1. PICK kind, shown : kind = ValueError(Lookup(env, name)) /\ P[j] = Failed(kind, shown)
    BY <1>3, <1>5, Zenon DEF Inserts
  <2>2. Failed(kind, shown).err = kind
    BY ResultFields
  <2> QED
    BY <2>1, <2>2, Zenon
<1>6. ASSUME IsValidName(name), ValueError(Lookup(env, name)) = "none"
      PROVE  P[j] = Prefixed(half \o Lookup(env, name).value, P[end + 1])
  BY <1>3, <1>6, Zenon DEF Inserts
<1> QED
  BY <1>0, <1>1, <1>4, <1>5, <1>6, Zenon DEF AtReference

\* What ReplacedBy says, from what the loop gives at the reference.
LEMMA CarriedReplaced ==
  ASSUME NEW x, x.text \in Seq(Char), NEW y, NEW z, NEW w,
         NEW ins \in Seq(Char), NEW bad, Carried(x, w, z),
         bad # "none" => z.err = bad,
         bad = "none" => z = Prefixed(ins, y) /\ y.text \in Seq(Char)
  PROVE  ReplacedBy(x, bad, ins, y, w)
<1>1. ASSUME x.err # "none" PROVE w.err # "none"
  BY <1>1 DEF Carried
<1>2. ASSUME x.err = "none" PROVE w = Prefixed(x.text, z)
  BY <1>2 DEF Carried
<1>3. ASSUME x.err = "none", bad # "none" PROVE w.err = bad
  BY <1>2, <1>3, PrefixedFields, Zenon
<1>4. ASSUME x.err = "none", bad = "none"
      PROVE  /\ w.err = y.err
             /\ y.err = "none" => w.text = x.text \o ins \o y.text
  <2>1. PICK t \in Seq(Char) : t = x.text
    OBVIOUS
  <2>2. w = Prefixed(t, Prefixed(ins, y))
    BY <1>2, <1>4, <2>1, Zenon
  <2>3. w = Prefixed(t \o ins, y)
    BY <1>4, <2>2, PrefixedTwice
  <2> QED
    BY <2>1, <2>3, PrefixedFields, Zenon
<1> QED
  BY <1>1, <1>3, <1>4, Zenon DEF ReplacedBy

\* Every reference is replaced by half the dollars in front of it and its
\* variable's value, as data: around it the text expands as if it stood alone and
\* the value is not scanned again; a reference that is never closed, has no valid
\* name or has a value that may not be inserted fails the whole text with the error
\* for that (config/env.rs).
THEOREM ReferencesInsert ==
  ASSUME NEW s \in Seq(Char), NEW env, env.value \in Seq(Char), NEW secret \in BOOLEAN,
         NEW e \in DOMAIN s, NEW j \in 1..e - 1, IsReference(s, j, e)
  PROVE  Replaced(s, j, e, env, secret)
<1>1. PICK b, n : /\ b \in Seq(Char) /\ n \in Nat
                  /\ b = SubSeq(s, 1, j - 1) /\ n = j - 1 /\ j = n + 1
                  /\ CutAt(s, n, b)
  <2>1. j - 1 \in Nat /\ j = (j - 1) + 1
    BY ReferenceIs
  <2> QED
    BY <2>1, ReferenceIs
<1>2. RunTo(s, j, e) /\ Opens(s, e) /\ (e - j) % 2 # 0 /\ e \in 1..Len(s) /\ e - j \in Nat
  BY ReferenceIs
<1>3. PICK P, x, z, w, half :
         /\ P = PassOf(s, env, secret) /\ z = P[j] /\ half = Dollars((e - j) \div 2)
         /\ x = ExpandStr(b, env, secret) /\ w = ExpandStr(s, env, secret)
  OBVIOUS
<1>4. w = P[1] /\ x = PassOf(b, env, secret)[1] /\ x.text \in Seq(Char)
  BY <1>1, <1>3, PassIs, ExpandIsHonest DEF Honest
<1>5. Carried(x, w, z)
  <2>1. 1 \in 1..n + 1
    BY <1>1
  <2> QED
    BY <1>1, <1>3, <1>4, <2>1, PassBefore
<1>6. half \in Seq(Char)
  <2>1. (e - j) \div 2 \in Nat
    BY <1>2
  <2> QED
    BY <1>3, <2>1, DollarsAre
<1>7. PICK end, name, a, y :
         /\ end = Find(s, RBrace, e + 1) /\ name = SubSeq(s, e + 1, end - 1)
         /\ a = SubSeq(s, end + 1, Len(s)) /\ y = ExpandStr(a, env, secret)
  OBVIOUS
<1>8. Len(s) \in Nat /\ e \in 1..Len(s) /\ e + 1 \in 1..Len(s) + 1
  BY <1>2
<1>9. end \in e + 1..Len(s) + 1
  BY <1>7, <1>8, FindIs
<1>10. PICK ins \in Seq(Char) : ins = half \o Lookup(env, name).value
  <2>1. Lookup(env, name).value \in Seq(Char)
    BY DEF Lookup, NotPresent
  <2> QED
    BY <1>6, <2>1, ConcatChars
<1>11. PICK bad : FailsWith(s, e, end, env, bad)
  BY Zenon DEF FailsWith
<1>14. CASE end > Len(s)
  <2>1. Unclosed(s, e)
    <3>1. \A k \in e + 1..end - 1 : s[k] # RBrace
      BY <1>7, <1>8, FindIs
    <3>2. end - 1 = Len(s)
      BY <1>8, <1>9, <1>14
    <3> QED
      BY <3>1, <3>2 DEF Unclosed
  <2>2. bad = "unterminated"
    <3>1. ~(end <= Len(s))
      BY <1>8, <1>9, <1>14
    <3> QED
      BY <1>11, <1>14, <3>1 DEF FailsWith
  <2>3. P[j] = Refers(s, env, secret, e, half, P)
    BY <1>2, <1>3, PassReference
  <2>4. z = Failed("unterminated", <<>>)
    BY <1>2, <1>3, <2>1, <2>3, RefersUnclosed
  <2>5. z.err = bad /\ bad # "none"
    BY <2>2, <2>4, ResultFields
  <2>6. ReplacedBy(x, bad, ins, y, w)
    BY <1>4, <1>5, <2>5, CarriedReplaced
  <2> QED
    BY <1>1, <1>3, <1>7, <1>10, <1>11, <2>6, ReplacedIs
<1>15. CASE end <= Len(s)
  <2>1. ClosedAt(s, e, end)
    <3>1. /\ s[end] = RBrace
          /\ \A k \in e + 1..end - 1 : s[k] # RBrace
      BY <1>7, <1>8, <1>15, FindIs
    <3>2. end \in e + 1..Len(s)
      BY <1>8, <1>9, <1>15
    <3> QED
      BY <3>1, <3>2 DEF ClosedAt
  <2>2. bad = IF IsValidName(name) THEN ValueError(Lookup(env, name)) ELSE "invalid_name"
    <3>1. ~(end > Len(s))
      BY <1>8, <1>9, <1>15
    <3> QED
      BY <1>7, <1>11, <1>15, <3>1 DEF FailsWith
  <2>3. AtReference(z, env, name, half, P[end + 1])
    <3>1. AtReference(PassOf(s, env, secret)[j], env, SubSeq(s, e + 1, end - 1),
                      Dollars((e - j) \div 2), PassOf(s, env, secret)[end + 1])
      BY <1>2, <2>1, PassAtReference
    <3> QED
      BY <1>3, <1>7, <3>1, Zenon
  <2>4. y = P[end + 1] /\ y.text \in Seq(Char)
    <3>a. PICK p \in 1..Len(s) + 1 : p = end + 1
      <4>1. end + 1 \in 1..Len(s) + 1
        BY <1>8, <1>9, <1>15
      <4> QED
        BY <4>1
    <3>0. a \in Seq(Char)
      BY <1>7, <1>8, <3>a
    <3>1. EndsIn(s, end, a)
      <4>0. /\ Len(a) = Len(s) - p + 1
            /\ \A k \in 1..Len(s) - p + 1 : a[k] = s[p + k - 1]
        <5>1. s \in Seq(Char) /\ a = SubSeq(s, p, Len(s))
          BY <1>7, <1>8, <3>a
        <5> QED
          BY ONLY <5>1, p \in 1..Len(s) + 1
      <4>1. /\ Len(a) = Len(s) - (end + 1) + 1
            /\ \A k \in 1..Len(s) - (end + 1) + 1 : a[k] = s[(end + 1) + k - 1]
        BY <3>a, <4>0
      <4>2. Len(s) = end + Len(a) /\ end \in Nat /\ Len(a) \in Nat
        <5>1. Len(a) = Len(s) - (end + 1) + 1
          BY <4>1
        <5>2. Len(s) \in Nat /\ end \in 1..Len(s)
          BY ONLY <1>8, <1>9, <1>15
        <5> QED
          BY ONLY <5>1, <5>2
      <4>3. \A k \in 1..Len(a) : a[k] = s[end + k]
        BY <1>8, <1>9, <4>1, <4>2
      <4> QED
        BY <4>2, <4>3 DEF EndsIn
    <3>2. 1 \in 1..Len(a) + 1
      BY <3>0
    <3>3. PassOf(a, env, secret)[1] = PassOf(s, env, secret)[end + 1]
      BY <3>0, <3>1, <3>2, PassOfEnd
    <3>4. y = PassOf(a, env, secret)[1]
      BY <1>7, <3>0, PassIs
    <3>5. y.text \in Seq(Char)
      BY <1>7, <3>0, ExpandIsHonest DEF Honest
    <3> QED
      BY <1>3, <3>3, <3>4, <3>5
  <2>5. bad # "none" => z.err = bad
    BY <2>2, <2>3 DEF AtReference
  <2>6. bad = "none" => z = Prefixed(ins, y) /\ y.text \in Seq(Char)
    BY <1>10, <2>2, <2>3, <2>4 DEF AtReference
  <2>7. ReplacedBy(x, bad, ins, y, w)
    BY <1>4, <1>5, <2>5, <2>6, CarriedReplaced
  <2> QED
    BY <1>1, <1>3, <1>7, <1>10, <1>11, <2>7, ReplacedIs
<1> QED
  BY <1>8, <1>9, <1>14, <1>15

-----------------------------------------------------------------------------
(* Literal text, written with its dollars doubled before a brace.          *)

\* The dollar at position i of t belongs to a run that stands before a brace.
Doubled(t, i) == t[i] = "$" /\ Opens(t, RunEnd(t, i))
Parts(t) == [i \in 1..Len(t) |-> IF Doubled(t, i) THEN <<"$", "$">> ELSE <<t[i]>>]

\* Character i of t is written up to position o[i] of e.
Written(t, e, o) ==
  /\ o \in [0..Len(t) -> 0..Len(e)] /\ o[0] = 0 /\ o[Len(t)] = Len(e)
  /\ \A i \in 1..Len(t) :
       IF Doubled(t, i)
       THEN o[i] = o[i - 1] + 2 /\ e[o[i - 1] + 1] = "$" /\ e[o[i - 1] + 2] = "$"
       ELSE o[i] = o[i - 1] + 1 /\ e[o[i - 1] + 1] = t[i]

\* Escaped writes each character once, or twice when it is doubled.
LEMMA EscapedIsWritten ==
  ASSUME NEW t \in Seq(Char)
  PROVE  Escaped(t) \in Seq(Char) /\ \E o : Written(t, Escaped(t), o)
<1>0. PICK L \in Nat : L = Len(t) /\ DOMAIN t = 1..L
  OBVIOUS
<1>1. Escaped(t) = FlattenSeq(Parts(t))
  <2>1. Escaped(t) = FlattenSeq([i \in DOMAIN t |->
                       IF Doubled(t, i) THEN <<"$", "$">> ELSE <<t[i]>>])
    BY Zenon DEF Escaped, Doubled, Opens, LBrace
  <2> QED
    BY <1>0, <2>1, Zenon DEF Parts
<1>2. PICK q : q = Parts(t)
  OBVIOUS
<1>3. ASSUME NEW i \in 1..L
      PROVE  /\ q[i] \in Seq(Char)
             /\ Doubled(t, i) => Len(q[i]) = 2 /\ q[i][1] = "$" /\ q[i][2] = "$"
             /\ ~Doubled(t, i) => Len(q[i]) = 1 /\ q[i][1] = t[i]
  <2>1. q[i] = IF Doubled(t, i) THEN <<"$", "$">> ELSE <<t[i]>>
    BY <1>0, <1>2 DEF Parts
  <2>2. t[i] \in Char /\ "$" \in Char
    BY <1>0, BracesApart
  <2>3. CASE Doubled(t, i)
    <3>1. q[i] = <<"$", "$">>
      BY <2>1, <2>3
    <3> QED
      BY <2>2, <2>3, <3>1
  <2>4. CASE ~Doubled(t, i)
    <3>1. q[i] = <<t[i]>>
      BY <2>1, <2>4
    <3> QED
      BY <2>2, <2>4, <3>1
  <2> QED
    BY <2>3, <2>4
<1>4. q \in Seq(Seq(Char)) /\ Len(q) = L
  <2>1. DOMAIN q = 1..L /\ q = [i \in 1..L |-> q[i]]
    BY <1>0, <1>2 DEF Parts
  <2>2. PICK W : W = Seq(Char)
    OBVIOUS
  <2>3. q \in [1..L -> W]
    BY <1>3, <2>1, <2>2
  <2> QED
    BY <2>2, <2>3
<1>5. PICK e, o : e = Escaped(t) /\ e \in Seq(Char) /\ Layout(q, e, o)
  BY <1>1, <1>2, <1>4, FlattenLayout
<1>6. /\ o \in [0..L -> 0..Len(e)] /\ o[0] = 0 /\ o[L] = Len(e)
      /\ \A i \in 1..L : o[i] = o[i - 1] + Len(q[i])
      /\ \A i \in 1..L : \A k \in 1..Len(q[i]) : e[o[i - 1] + k] = q[i][k]
  BY <1>4, <1>5 DEF Layout
<1>7. ASSUME NEW i \in 1..L
      PROVE  IF Doubled(t, i)
             THEN o[i] = o[i - 1] + 2 /\ e[o[i - 1] + 1] = "$" /\ e[o[i - 1] + 2] = "$"
             ELSE o[i] = o[i - 1] + 1 /\ e[o[i - 1] + 1] = t[i]
  <2>1. /\ o[i] = o[i - 1] + Len(q[i])
        /\ \A k \in 1..Len(q[i]) : e[o[i - 1] + k] = q[i][k]
    BY <1>6
  <2>2. CASE Doubled(t, i)
    <3>1. Len(q[i]) = 2 /\ q[i][1] = "$" /\ q[i][2] = "$" /\ 1 \in 1..2 /\ 2 \in 1..2
      BY <1>3, <2>2
    <3> QED
      BY <2>1, <2>2, <3>1
  <2>3. CASE ~Doubled(t, i)
    <3>1. Len(q[i]) = 1 /\ q[i][1] = t[i] /\ 1 \in 1..1
      BY <1>3, <2>3
    <3> QED
      BY <2>1, <2>3, <3>1
  <2> QED
    BY <2>2, <2>3
<1>8. Written(t, e, o)
  BY <1>0, <1>6, <1>7 DEF Written
<1> QED
  BY <1>5, <1>8

\* A run of dollars of t is a run of e, of as many or of twice as many.
LEMMA RunIsWritten ==
  ASSUME NEW t \in Seq(Char), NEW e \in Seq(Char), NEW o, Written(t, e, o),
         NEW i, NEW after, RunTo(t, i, after)
  PROVE  /\ RunTo(e, o[i - 1] + 1, o[after - 1] + 1)
         /\ Opens(e, o[after - 1] + 1) <=> Opens(t, after)
         /\ o[after - 1] = o[i - 1] + (IF Opens(t, after) THEN 2 * (after - i) ELSE after - i)
         /\ o[i - 1] \in Nat
<1>0. PICK L \in Nat, M \in Nat : L = Len(t) /\ M = Len(e)
  OBVIOUS
<1>1. /\ i \in 1..L /\ after \in i + 1..L + 1
      /\ \A k \in i..after - 1 : t[k] = "$"
      /\ after <= L => t[after] # "$"
  BY <1>0 DEF RunTo
<1>2. /\ o \in [0..L -> 0..M] /\ o[0] = 0 /\ o[L] = M
      /\ \A k \in 1..L :
           IF Doubled(t, k)
           THEN o[k] = o[k - 1] + 2 /\ e[o[k - 1] + 1] = "$" /\ e[o[k - 1] + 2] = "$"
           ELSE o[k] = o[k - 1] + 1 /\ e[o[k - 1] + 1] = t[k]
  BY <1>0 DEF Written
<1>3. \A k \in 0..L : o[k] \in 0..M
  BY <1>2
<1>4. ASSUME NEW k \in i..after - 1 PROVE Doubled(t, k) <=> Opens(t, after)
  <2>1. RunTo(t, k, after)
    BY <1>0, <1>1 DEF RunTo
  <2>2. RunEnd(t, k) = after /\ t[k] = "$"
    BY <1>1, <2>1, RunEndOnly
  <2> QED
    BY <2>2 DEF Doubled
<1>5. PICK p, w : p = o[i - 1] /\ w = Opens(t, after)
  OBVIOUS
<1> DEFINE Far(k) == IF w THEN 2 * (k - i) ELSE k - i
           T == {x \in i..after : /\ o[x - 1] = p + Far(x)
                                  /\ \A m \in p + 1..o[x - 1] : e[m] = "$"}
<1>6. p \in 0..M
  <2>1. i - 1 \in 0..L
    BY <1>0, <1>1
  <2> QED
    BY <1>3, <1>5, <2>1
<1>7. i \in T
  <2>1. i \in i..after /\ Far(i) = 0
    BY <1>0, <1>1
  <2>2. p + 1..p = {}
    BY <1>6
  <2> QED
    BY <1>5, <1>6, <2>1, <2>2
<1>8. ASSUME NEW k \in i..after - 1, k \in T PROVE k + 1 \in T
  <2>0. k \in 1..L /\ k - 1 \in 0..L /\ k + 1 \in i..after /\ (k + 1) - 1 = k /\ k \in Int
    BY <1>0, <1>1
  <2>1. PICK c : c = o[k - 1] /\ c \in 0..M /\ c = p + Far(k)
                 /\ \A m \in p + 1..c : e[m] = "$"
    BY <1>3, <1>8, <2>0
  <2>2. t[k] = "$"
    BY <1>1
  <2>3. PICK d : d = o[k] /\ d \in 0..M
    BY <1>3, <2>0
  <2>4. CASE w
    <3>1. d = c + 2 /\ e[c + 1] = "$" /\ e[c + 2] = "$"
      BY <1>2, <1>4, <1>5, <2>0, <2>1, <2>3, <2>4
    <3>2. d = p + Far(k + 1)
      <4>1. c = p + 2 * (k - i) /\ i \in Int
        BY <1>1, <2>1, <2>4
      <4>2. d = p + 2 * ((k + 1) - i)
        BY <1>6, <2>0, <3>1, <4>1
      <4> QED
        BY <2>4, <4>2
    <3>3. \A m \in p + 1..d : e[m] = "$"
      <4> SUFFICES ASSUME NEW m \in p + 1..d PROVE e[m] = "$"
        OBVIOUS
      <4>1. m \in p + 1..c \/ m = c + 1 \/ m = c + 2
        <5>1. c \in Int /\ p \in Int /\ d = c + 2 /\ m \in p + 1..d
          BY <1>6, <2>1, <3>1
        <5> QED
          BY ONLY <5>1
      <4> QED
        BY <2>1, <3>1, <4>1
    <3> QED
      BY <2>0, <2>3, <3>2, <3>3
  <2>5. CASE ~w
    <3>1. d = c + 1 /\ e[c + 1] = "$"
      BY <1>2, <1>4, <1>5, <2>0, <2>1, <2>2, <2>3, <2>5
    <3>2. d = p + Far(k + 1)
      BY <1>1, <1>6, <2>0, <2>1, <2>5, <3>1
    <3>3. \A m \in p + 1..d : e[m] = "$"
      BY <1>6, <2>1, <3>1
    <3> QED
      BY <2>0, <2>3, <3>2, <3>3
  <2> QED
    BY <2>4, <2>5
<1>9. after \in T
  <2>1. i \in Nat /\ after \in Nat /\ after \in i..after
    BY <1>0, <1>1
  <2> HIDE DEF T
  <2> QED
    BY <1>7, <1>8, <2>1, FromTheStart
<1>10. PICK c : c = o[after - 1] /\ c = p + Far(after) /\ \A m \in p + 1..c : e[m] = "$"
  BY <1>9
<1>11. c \in 0..M /\ c > p
  <2>1. after - 1 \in 0..L
    BY <1>0, <1>1
  <2>2. Far(after) > 0 /\ Far(after) \in Nat
    BY <1>0, <1>1
  <2>3. c \in 0..M
    BY <1>3, <1>10, <2>1
  <2>4. PICK f : f = Far(after) /\ f > 0 /\ f \in Nat /\ c = p + f
    BY <1>10, <2>2
  <2> HIDE DEF Far
  <2> QED
    BY <1>6, <2>3, <2>4
<1>12. after <= L => c + 1 <= M /\ e[c + 1] = t[after]
  <2> SUFFICES ASSUME after <= L PROVE c + 1 <= M /\ e[c + 1] = t[after]
    OBVIOUS
  <2>1. after \in 1..L /\ after \in 0..L
    BY <1>0, <1>1
  <2>2. ~Doubled(t, after)
    BY <1>1 DEF Doubled
  <2>3. o[after] = c + 1 /\ e[c + 1] = t[after]
    BY <1>2, <1>10, <2>1, <2>2
  <2>4. o[after] \in 0..M
    BY <1>3, <2>1
  <2> QED
    BY <1>0, <2>3, <2>4
<1>13. after > L => c = M
  <2>1. after > L => after - 1 = L
    BY <1>0, <1>1
  <2> QED
    BY <1>2, <1>10, <2>1
<1>14. RunTo(e, p + 1, c + 1)
  <2>1. p + 1 \in 1..M /\ c + 1 \in (p + 1) + 1..M + 1
    BY <1>0, <1>6, <1>11
  <2>2. \A m \in p + 1..(c + 1) - 1 : e[m] = "$"
    BY <1>6, <1>10, <1>11
  <2>3. c + 1 <= M => e[c + 1] # "$"
    BY <1>0, <1>1, <1>11, <1>12, <1>13
  <2> QED
    BY <1>0, <2>1, <2>2, <2>3 DEF RunTo
<1>15. Opens(e, c + 1) <=> Opens(t, after)
  BY <1>0, <1>1, <1>11, <1>12, <1>13 DEF Opens
<1> QED
  BY <1>5, <1>6, <1>10, <1>14, <1>15

\* Any other character is written as it is.
LEMMA PlainIsWritten ==
  ASSUME NEW t \in Seq(Char), NEW e \in Seq(Char), NEW o, Written(t, e, o),
         NEW i \in 1..Len(t), t[i] # "$"
  PROVE  o[i - 1] + 1 \in 1..Len(e) /\ e[o[i - 1] + 1] = t[i] /\ o[i] = o[i - 1] + 1
<1>0. Len(t) \in Nat /\ Len(e) \in Nat /\ i - 1 \in 0..Len(t) /\ i \in 0..Len(t)
  OBVIOUS
<1>1. ~Doubled(t, i)
  BY DEF Doubled
<1>2. o[i] = o[i - 1] + 1 /\ e[o[i - 1] + 1] = t[i]
  BY <1>1 DEF Written
<1>3. o[i] \in 0..Len(e) /\ o[i - 1] \in 0..Len(e)
  BY <1>0 DEF Written
<1> QED
  BY <1>0, <1>2, <1>3

LEMMA PrefixedExpanded ==
  ASSUME NEW a, NEW b
  PROVE  Prefixed(a, Expanded(b)) = Expanded(a \o b)
BY ResultFields, Zenon DEF Prefixed

\* The text from i on is what stands from i to j - 1, and the text from j on.
LEMMA TextFrom ==
  ASSUME NEW t \in Seq(Char), NEW i \in 1..Len(t) + 1, NEW j \in i..Len(t) + 1,
         NEW u \in Seq(Char), Len(u) = j - i, \A k \in 1..j - i : u[k] = t[(i + k) - 1]
  PROVE  u \o SubSeq(t, j, Len(t)) = SubSeq(t, i, Len(t))
<1>a. Len(t) \in Nat
  OBVIOUS
<1>0. PICK L \in Nat : L = Len(t)
  BY <1>a
<1>1. PICK x, y : x = SubSeq(t, j, L) /\ y = SubSeq(t, i, L)
  OBVIOUS
<1>2. /\ x \in Seq(Char) /\ Len(x) = (L - j) + 1
      /\ \A k \in 1..(L - j) + 1 : x[k] = t[(j + k) - 1]
  BY <1>0, <1>1
<1>3. /\ y \in Seq(Char) /\ Len(y) = (L - i) + 1
      /\ \A k \in 1..(L - i) + 1 : y[k] = t[(i + k) - 1]
  BY <1>0, <1>1
<1>4. PICK z : z = u \o x
  OBVIOUS
<1>5. /\ z \in Seq(Char) /\ Len(z) = (j - i) + Len(x)
      /\ \A k \in 1..j - i : z[k] = u[k]
      /\ \A k \in 1..Len(x) : z[(j - i) + k] = x[k]
  <2>1. x \in Seq(Char)
    BY <1>2
  <2>2. /\ z \in Seq(Char) /\ Len(z) = Len(u) + Len(x)
        /\ \A k \in 1..Len(u) : z[k] = u[k]
        /\ \A k \in 1..Len(x) : z[Len(u) + k] = x[k]
    <3>1. /\ u \o x \in Seq(Char) /\ Len(u \o x) = Len(u) + Len(x)
          /\ \A k \in 1..Len(u) : (u \o x)[k] = u[k]
          /\ \A k \in 1..Len(x) : (u \o x)[Len(u) + k] = x[k]
      BY ONLY u \in Seq(Char), <2>1, Concat
    <3> QED
      BY <1>4, <3>1, Zenon
  <2> QED
    BY <2>2
<1>6. Len(z) = Len(y)
  <2>1. i \in Int /\ j \in Int
    BY <1>0
  <2>2. Len(z) = (j - i) + Len(x) /\ Len(x) = (L - j) + 1 /\ Len(y) = (L - i) + 1
    BY <1>2, <1>3, <1>5, Zenon
  <2> QED
    BY ONLY <2>1, <2>2, L \in Nat
<1>7. ASSUME NEW k \in 1..Len(z) PROVE z[k] = y[k]
  <2>0. k \in 1..(L - i) + 1
    BY <1>0, <1>3, <1>6
  <2>1. CASE k <= j - i
    <3>1. k \in 1..j - i
      BY <1>0, <2>0, <2>1
    <3> QED
      BY <1>3, <1>5, <2>0, <3>1
  <2>2. CASE k > j - i
    <3>1. PICK m : m = k - (j - i) /\ m \in 1..(L - j) + 1 /\ (j - i) + m = k
                   /\ (j + m) - 1 = (i + k) - 1
      BY <1>0, <2>0, <2>2
    <3>2. z[(j - i) + m] = x[m] /\ x[m] = t[(j + m) - 1]
      BY <1>2, <1>5, <3>1
    <3>3. y[k] = t[(i + k) - 1]
      BY <1>3, <2>0
    <3> QED
      BY <3>1, <3>2, <3>3
  <2> QED
    BY <1>0, <2>0, <2>1, <2>2
<1>8. z = y
  BY <1>3, <1>5, <1>6, <1>7, SeqEqual
<1> QED
  BY <1>0, <1>1, <1>4, <1>8
\* From each character of t on, the loop gives back the rest of t.
LEMMA PassOfWritten ==
  ASSUME NEW t \in Seq(Char), NEW env, env.value \in Seq(Char), NEW secret \in BOOLEAN,
         NEW e \in Seq(Char), NEW o, Written(t, e, o)
  PROVE  \A i \in 1..Len(t) + 1 :
           PassOf(e, env, secret)[o[i - 1] + 1] = Expanded(SubSeq(t, i, Len(t)))
<1>0. PICK L : L = Len(t) /\ L \in Nat
  OBVIOUS
<1>1. PICK P : P = PassOf(e, env, secret)
  OBVIOUS
<1> DEFINE T == {x \in 1..L + 1 : P[o[x - 1] + 1] = Expanded(SubSeq(t, x, L))}
<1>2. ASSUME NEW i \in 1..L + 1, \A m \in i + 1..L + 1 : m \in T
      PROVE  P[o[i - 1] + 1] = Expanded(SubSeq(t, i, L))
  <2>h. ASSUME NEW m \in i + 1..L + 1
        PROVE  P[o[m - 1] + 1] = Expanded(SubSeq(t, m, L))
    BY <1>2
  <2> HIDE DEF T
  <2>1. CASE i = L + 1
    <3>1. o[i - 1] + 1 = Len(e) + 1
      BY <1>0, <2>1 DEF Written
    <3>2. SubSeq(t, i, L) = <<>>
      BY <1>0, <2>1
    <3> QED
      BY <1>1, <3>1, <3>2, PassEnd
  <2>2. CASE i # L + 1 /\ t[i] # "$"
    <3>1. i \in 1..Len(t) /\ i + 1 \in i + 1..L + 1 /\ (i + 1) - 1 = i
          /\ i \in 1..Len(t) + 1 /\ i + 1 \in i..Len(t) + 1 /\ (i + 1) - i = 1
      BY <1>0, <2>2
    <3>2. PICK p : /\ p = o[i - 1] + 1 /\ p \in 1..Len(e) /\ e[p] = t[i] /\ o[i] = p
      BY <2>2, <3>1, PlainIsWritten
    <3>3. P[p] = Prefixed(<<t[i]>>, P[p + 1])
      BY <1>1, <2>2, <3>2, PassPlain
    <3>4. P[p + 1] = Expanded(SubSeq(t, i + 1, L))
      BY <2>h, <3>1, <3>2
    <3>5. P[p] = Expanded(<<t[i]>> \o SubSeq(t, i + 1, L))
      BY <3>3, <3>4, PrefixedExpanded, Zenon
    <3>6. PICK u \in Seq(Char) : u = <<t[i]>> /\ Len(u) = 1 /\ u[1] = t[i]
      <4>1. PICK c \in Char : c = t[i]
        BY <3>1
      <4>2. <<c>> \in Seq(Char) /\ Len(<<c>>) = 1 /\ <<c>>[1] = c
        OBVIOUS
      <4> QED
        BY <4>1, <4>2
    <3>7. \A k \in 1..1 : u[k] = t[(i + k) - 1]
      BY <1>0, <3>6
    <3>8. u \o SubSeq(t, i + 1, L) = SubSeq(t, i, L)
      BY <1>0, <3>1, <3>6, <3>7, TextFrom
    <3> QED
      BY <3>2, <3>5, <3>6, <3>8, Zenon
  <2>3. CASE i # L + 1 /\ t[i] = "$"
    <3>0. i \in 1..Len(t) /\ i \in 1..Len(t) + 1
      BY <1>0, <2>3
    <3>1. PICK after : RunTo(t, i, after)
      BY <2>3, <3>0, RunExists
    <3>2. /\ after \in i + 1..L + 1 /\ after \in i..Len(t) + 1
          /\ \A k \in i..after - 1 : t[k] = "$"
      BY <1>0, <3>0, <3>1 DEF RunTo
    <3>3. PICK p, c : /\ p = o[i - 1] + 1 /\ c = o[after - 1] + 1
                      /\ RunTo(e, p, c) /\ (Opens(e, c) <=> Opens(t, after))
                      /\ Opens(t, after) => c - p = 2 * (after - i)
                      /\ ~Opens(t, after) => c - p = after - i
      <4>1. /\ RunTo(e, o[i - 1] + 1, o[after - 1] + 1)
            /\ Opens(e, o[after - 1] + 1) <=> Opens(t, after)
            /\ o[after - 1] = o[i - 1] + (IF Opens(t, after) THEN 2 * (after - i) ELSE after - i)
            /\ o[i - 1] \in Nat
        BY <3>1, RunIsWritten
      <4> QED
        BY <1>0, <3>2, <4>1
    <3>4. PICK n \in Nat : n = after - i
      BY <1>0, <3>2
    <3>5. P[p] = Prefixed(Dollars(n), P[c])
      <4>1. CASE Opens(t, after)
        <5>1. (c - p) % 2 = 0 /\ (c - p) \div 2 = n
          BY <3>3, <3>4, <4>1
        <5>2. RunTo(e, p, c) /\ Opens(e, c)
          BY <3>3, <4>1, Zenon
        <5>3. PassOf(e, env, secret)[p] =
                Prefixed(Dollars((c - p) \div 2), PassOf(e, env, secret)[c])
          BY <5>1, <5>2, PassEscape
        <5> QED
          BY <1>1, <5>1, <5>3, Zenon
      <4>2. CASE ~Opens(t, after)
        <5>1. c - p = n
          BY <3>3, <3>4, <4>2
        <5> QED
          BY <1>1, <3>3, <4>2, <5>1, PassRun
      <4> QED
        BY <4>1, <4>2
    <3>6. P[c] = Expanded(SubSeq(t, after, L))
      BY <2>h, <3>2, <3>3
    <3>7. P[p] = Expanded(Dollars(n) \o SubSeq(t, after, L))
      BY <3>5, <3>6, PrefixedExpanded, Zenon
    <3>8. PICK u \in Seq(Char) : /\ u = Dollars(n) /\ Len(u) = after - i
                                 /\ \A k \in 1..after - i : u[k] = "$"
      <4>1. Dollars(n) \in Seq(Char)
        BY DollarsAre
      <4>2. DOMAIN Dollars(n) = 1..n /\ \A k \in 1..n : Dollars(n)[k] = "$"
        BY DEF Dollars
      <4>3. Len(Dollars(n)) = n
        BY <4>1, <4>2
      <4> QED
        BY <3>4, <4>1, <4>2, <4>3
    <3>9. ASSUME NEW k \in 1..after - i PROVE u[k] = t[(i + k) - 1]
      <4>1. (i + k) - 1 \in i..after - 1
        BY <1>0, <3>2
      <4> QED
        BY <3>2, <3>8, <4>1
    <3>10. u \o SubSeq(t, after, L) = SubSeq(t, i, L)
      BY <1>0, <3>0, <3>2, <3>8, <3>9, TextFrom
    <3> QED
      BY <3>3, <3>7, <3>8, <3>10, Zenon
  <2> QED
    BY <2>1, <2>2, <2>3
<1>3. \A i \in 1..L + 1 : (\A m \in i + 1..L + 1 : m \in T) => i \in T
  BY <1>2
<1> HIDE DEF T
<1>4. 1..L + 1 \subseteq T
  BY <1>0, <1>3, FromTheEnd
<1> QED
  BY <1>0, <1>1, <1>4 DEF T

\* Any literal text can be written with the documented escapes and comes out of
\* expand_str as it was meant, whatever the environment holds (config/env.rs).
THEOREM LiteralsSurvive ==
  ASSUME NEW t \in Seq(Char), NEW env, env.value \in Seq(Char), NEW secret \in BOOLEAN
  PROVE  ExpandStr(Escaped(t), env, secret) = Expanded(t)
<1>1. PICK e, o : e = Escaped(t) /\ e \in Seq(Char) /\ Written(t, e, o)
  BY EscapedIsWritten
<1>2. 1 \in 1..Len(t) + 1 /\ SubSeq(t, 1, Len(t)) = t /\ 1 - 1 = 0 /\ 0 + 1 = 1
  OBVIOUS
<1>3. o[0] = 0
  BY <1>1 DEF Written
<1>4. PassOf(e, env, secret)[o[1 - 1] + 1] = Expanded(SubSeq(t, 1, Len(t)))
  BY <1>1, <1>2, PassOfWritten
<1>5. PassOf(e, env, secret)[1] = Expanded(t)
  BY <1>2, <1>3, <1>4
<1>6. ExpandStr(e, env, secret) = PassOf(e, env, secret)[1]
  BY <1>1, PassIs
<1> QED
  BY <1>1, <1>5, <1>6
=============================================================================
