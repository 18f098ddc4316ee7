--------------------------- MODULE SubjectProofs ---------------------------
(***************************************************************************)
(* Proofs about SubjectName: what an audit record holds of a subject can   *)
(* be read back, for subjects of any number of entries, with any types and *)
(* values, as far as it was decoded and not cut.  What stands at one place *)
(* of the text can be the escape of one character only, so two values, two *)
(* entries and two names that stand at the same place agree from the start *)
(* on; an escape never begins with the comma that ends an entry, so        *)
(* neither goes on when the other ends.                                    *)
(***************************************************************************)
EXTENDS SubjectName, EnvProofs

-----------------------------------------------------------------------------
(* How a character is written.                                             *)

\* What can stand in a written name: every character but a control character.
Printed == DnChar \ {"NL"}

\* The characters that separate and escape are different ones, and all are printed.
LEMMA CharsApart ==
  /\ Comma # "\\" /\ Comma # "#" /\ Comma # "0" /\ Comma # "a" /\ Comma # "=" /\ Comma # "NL"
  /\ Space # "\\" /\ Space # "#" /\ Space # "0" /\ Space # "NL" /\ Space # Comma
  /\ "\\" \in Printed /\ "0" \in Printed /\ "#" \in Printed /\ Comma \in Printed
  /\ Space \in Printed /\ "=" \in Printed /\ "a" \in Printed
BY Zenon DEF Comma, Space, Printed, DnChar

\* A character of a value is written as it is, or escaped with a backslash: the
\* first or the second character then tells which it was.
Plain(c, a) == a = <<c>> /\ c # "\\" /\ c # Comma /\ c # "NL"
Quoted(c, a) == a = <<"\\", c>> /\ c # "0" /\ c # "NL"
Coded(c, a) == a = <<"\\", "0", "0">> /\ c = "NL"

\* EscapedChar writes a character in one of these three ways.
LEMMA EscapedCharIs ==
  ASSUME NEW v \in Seq(DnChar), NEW i \in 1..Len(v)
  PROVE  Plain(v[i], EscapedChar(v, i)) \/ Quoted(v[i], EscapedChar(v, i))
           \/ Coded(v[i], EscapedChar(v, i))
<1>1. PICK c, a : c = v[i] /\ a = EscapedChar(v, i)
  OBVIOUS
<1>2. CASE c = Comma \/ c = "\\"
  <2>1. a = <<"\\", c>>
    BY <1>1, <1>2, CharsApart DEF EscapedChar
  <2> QED
    BY <1>1, <1>2, <2>1, CharsApart DEF Quoted
<1>3. CASE c # Comma /\ c # "\\" /\ c = "#"
  <2>1. a = <<"\\", c>> \/ a = <<c>>
    BY <1>1, <1>3, CharsApart DEF EscapedChar
  <2> QED
    BY <1>1, <1>3, <2>1 DEF Quoted, Plain
<1>4. CASE c # Comma /\ c # "\\" /\ c = Space
  <2>1. a = <<"\\", c>> \/ a = <<c>>
    BY <1>1, <1>4, CharsApart DEF EscapedChar
  <2> QED
    BY <1>1, <1>4, <2>1, CharsApart DEF Quoted, Plain
<1>5. CASE c = "NL"
  <2>1. a = <<"\\", "0", "0">>
    BY <1>1, <1>5, CharsApart DEF EscapedChar
  <2> QED
    BY <1>1, <1>5, <2>1 DEF Coded
<1>6. CASE c \notin {Comma, "\\", "#", Space, "NL"}
  <2>1. a = <<c>>
    BY <1>1, <1>6 DEF EscapedChar
  <2> QED
    BY <1>1, <1>6, <2>1 DEF Plain
<1> QED
  BY <1>2, <1>3, <1>4, <1>5, <1>6

\* The shape of an escape: its length, and what its characters say.
LEMMA EscapeShape ==
  ASSUME NEW c \in DnChar, NEW a, Plain(c, a) \/ Quoted(c, a) \/ Coded(c, a)
  PROVE  /\ a \in Seq(Printed) /\ a[1] # Comma
         /\ \/ Len(a) = 1 /\ a[1] = c /\ c # "\\"
            \/ Len(a) = 2 /\ a[1] = "\\" /\ a[2] = c /\ c # "0"
            \/ Len(a) = 3 /\ a[1] = "\\" /\ a[2] = "0" /\ c = "NL"
<1>1. CASE Plain(c, a)
  <2>1. a = <<c>> /\ c \in Printed /\ c # Comma /\ c # "\\"
    BY <1>1 DEF Plain, Printed
  <2> QED
    BY <2>1
<1>2. CASE Quoted(c, a)
  <2>1. a = <<"\\", c>> /\ c \in Printed /\ c # "0"
    BY <1>2 DEF Quoted, Printed
  <2>2. "\\" \in Printed /\ "\\" # Comma
    BY CharsApart
  <2> QED
    BY <2>1, <2>2
<1>3. CASE Coded(c, a)
  <2>1. a = <<"\\", "0", "0">> /\ c = "NL"
    BY <1>3 DEF Coded
  <2>2. "\\" \in Printed /\ "0" \in Printed /\ "\\" # Comma
    BY CharsApart
  <2> QED
    BY <2>1, <2>2
<1> QED
  BY <1>1, <1>2, <1>3

\* The same, of a character of a value.
LEMMA EscapedCharShape ==
  ASSUME NEW v \in Seq(DnChar), NEW i \in 1..Len(v), NEW a, a = EscapedChar(v, i)
  PROVE  /\ a \in Seq(Printed) /\ a[1] # Comma
         /\ \/ Len(a) = 1 /\ a[1] = v[i] /\ v[i] # "\\"
            \/ Len(a) = 2 /\ a[1] = "\\" /\ a[2] = v[i] /\ v[i] # "0"
            \/ Len(a) = 3 /\ a[1] = "\\" /\ a[2] = "0" /\ v[i] = "NL"
<1>1. PICK c \in DnChar : c = v[i]
  OBVIOUS
<1>2. Plain(c, a) \/ Quoted(c, a) \/ Coded(c, a)
  BY <1>1, EscapedCharIs
<1>3. /\ a \in Seq(Printed) /\ a[1] # Comma
      /\ \/ Len(a) = 1 /\ a[1] = c /\ c # "\\"
         \/ Len(a) = 2 /\ a[1] = "\\" /\ a[2] = c /\ c # "0"
         \/ Len(a) = 3 /\ a[1] = "\\" /\ a[2] = "0" /\ c = "NL"
  BY <1>2, EscapeShape
<1> QED
  BY <1>1, <1>3

-----------------------------------------------------------------------------
(* Where the escapes of a value stand.                                     *)

\* The escapes of the characters of v stand in d from position q + 1 on, the one
\* of character i up to q + o[i].
Places(v, o, d, q) ==
  /\ o \in [0..Len(v) -> Nat] /\ o[0] = 0 /\ q \in Nat /\ Len(d) \in Nat
  /\ \A i \in 0..Len(v) : q + o[i] <= Len(d)
  /\ \A i \in 1..Len(v) :
       /\ o[i] = o[i - 1] + Len(EscapedChar(v, i))
       /\ \A k \in 1..Len(EscapedChar(v, i)) :
            d[(q + o[i - 1]) + k] = EscapedChar(v, i)[k]

\* The text t stands in d from position q + 1 on.
Stands(t, d, q) ==
  /\ q \in Nat /\ Len(d) \in Nat /\ q + Len(t) <= Len(d)
  /\ \A k \in 1..Len(t) : d[q + k] = t[k]

\* An escaped value is printable, and is the escapes of its characters in turn.
LEMMA EscapedValue ==
  ASSUME NEW v \in Seq(DnChar)
  PROVE  /\ EscapeDnValue(v) \in Seq(Printed)
         /\ \A d, q : Stands(EscapeDnValue(v), d, q) =>
              \E o : Places(v, o, d, q) /\ o[Len(v)] = Len(EscapeDnValue(v))
<1>0. PICK n \in Nat : n = Len(v) /\ DOMAIN v = 1..n
  OBVIOUS
<1>1. PICK p : p = [i \in 1..n |-> EscapedChar(v, i)]
  OBVIOUS
<1>2. ASSUME NEW i \in 1..n PROVE p[i] = EscapedChar(v, i) /\ p[i] \in Seq(Printed)
  <2>1. p[i] = EscapedChar(v, i) /\ i \in 1..Len(v)
    BY <1>0, <1>1
  <2> QED
    BY <2>1, EscapedCharShape
<1>3. p \in Seq(Seq(Printed)) /\ Len(p) = n
  <2>1. PICK W : W = Seq(Printed)
    OBVIOUS
  <2>2. p \in [1..n -> W]
    BY <1>1, <1>2, <2>1
  <2> QED
    BY <2>1, <2>2
<1>4. PICK e : e = EscapeDnValue(v) /\ e = FlattenSeq(p)
  BY <1>0, <1>1, Zenon DEF EscapeDnValue
<1>5. PICK o : e \in Seq(Printed) /\ Layout(p, e, o)
  BY <1>3, <1>4, FlattenLayout
<1>6. /\ o \in [0..n -> 0..Len(e)] /\ o[0] = 0 /\ o[n] = Len(e) /\ Len(e) \in Nat
      /\ \A i \in 1..n : o[i] = o[i - 1] + Len(p[i])
      /\ \A i \in 1..n : \A k \in 1..Len(p[i]) : e[o[i - 1] + k] = p[i][k]
  BY <1>3, <1>5 DEF Layout
<1>7. ASSUME NEW d, NEW q, Stands(e, d, q)
      PROVE  Places(v, o, d, q) /\ o[Len(v)] = Len(e)
  <2>1. /\ q \in Nat /\ Len(d) \in Nat /\ q + Len(e) <= Len(d)
        /\ \A k \in 1..Len(e) : d[q + k] = e[k]
    BY <1>7 DEF Stands
  <2>2. o \in [0..n -> Nat] /\ \A i \in 0..n : o[i] \in 0..Len(e)
    BY <1>6
  <2>3. ASSUME NEW i \in 0..n PROVE q + o[i] <= Len(d)
    BY <1>6, <2>1, <2>2
  <2>4. ASSUME NEW i \in 1..n
        PROVE  /\ o[i] = o[i - 1] + Len(EscapedChar(v, i))
               /\ \A k \in 1..Len(EscapedChar(v, i)) :
                    d[(q + o[i - 1]) + k] = EscapedChar(v, i)[k]
    <3>1. /\ o[i] = o[i - 1] + Len(p[i]) /\ p[i] \in Seq(Printed) /\ Len(p[i]) \in Nat
          /\ \A k \in 1..Len(p[i]) : e[o[i - 1] + k] = p[i][k]
      BY <1>2, <1>6
    <3>2. o[i - 1] \in Nat /\ o[i] \in 0..Len(e)
      BY <1>0, <2>2
    <3>3. ASSUME NEW k \in 1..Len(p[i]) PROVE d[(q + o[i - 1]) + k] = p[i][k]
      <4>0. PICK a, b, l, x : a = o[i - 1] /\ b = o[i] /\ l = Len(p[i]) /\ x = Len(e)
        OBVIOUS
      <4>a. a \in Nat /\ b \in 0..x /\ x \in Nat /\ b = a + l /\ k \in 1..l /\ l \in Nat
        BY <1>6, <3>1, <3>2, <4>0
      <4>b. a + k \in 1..x
        BY ONLY <4>a
      <4>1. o[i - 1] + k \in 1..Len(e)
        BY <4>0, <4>b, Zenon
      <4>2. d[q + (o[i - 1] + k)] = e[o[i - 1] + k]
        BY <2>1, <4>1
      <4>3. q + (o[i - 1] + k) = (q + o[i - 1]) + k
        BY <2>1, <3>1, <3>2
      <4> QED
        BY <3>1, <4>2, <4>3
    <3> QED
      BY <1>2, <3>1, <3>3
  <2> QED
    BY <1>0, <1>6, <2>1, <2>2, <2>3, <2>4 DEF Places
<1> QED
  BY <1>4, <1>5, <1>7

-----------------------------------------------------------------------------
(* A value is read back.                                                   *)

\* The characters of a follow position p of d.
At(a, d, p) == \A k \in 1..Len(a) : d[p + k] = a[k]

\* Two escapes that stand at the same place are escapes of the same character.
LEMMA EscapeRead ==
  ASSUME NEW v \in Seq(DnChar), NEW i \in 1..Len(v), NEW w \in Seq(DnChar), NEW j \in 1..Len(w),
         NEW a, a = EscapedChar(v, i), NEW b, b = EscapedChar(w, j), NEW d, NEW p,
         At(a, d, p), At(b, d, p)
  PROVE  v[i] = w[j] /\ Len(a) = Len(b)
<1>1. PICK x, y, s, t : x = v[i] /\ y = w[j] /\ s = d[p + 1] /\ t = d[p + 2]
  OBVIOUS
<1>2. \/ Len(a) = 1 /\ a[1] = x /\ x # "\\"
      \/ Len(a) = 2 /\ a[1] = "\\" /\ a[2] = x /\ x # "0"
      \/ Len(a) = 3 /\ a[1] = "\\" /\ a[2] = "0" /\ x = "NL"
  BY <1>1, EscapedCharShape
<1>3. \/ Len(b) = 1 /\ b[1] = y /\ y # "\\"
      \/ Len(b) = 2 /\ b[1] = "\\" /\ b[2] = y /\ y # "0"
      \/ Len(b) = 3 /\ b[1] = "\\" /\ b[2] = "0" /\ y = "NL"
  BY <1>1, EscapedCharShape
<1>4. 1 \in 1..Len(a) /\ 1 \in 1..Len(b) /\ (Len(a) # 1 => 2 \in 1..Len(a))
      /\ (Len(b) # 1 => 2 \in 1..Len(b))
  BY <1>2, <1>3
<1>5. s = a[1] /\ s = b[1] /\ (Len(a) # 1 => t = a[2]) /\ (Len(b) # 1 => t = b[2])
  BY <1>1, <1>4 DEF At
<1> QED
  BY <1>1, <1>2, <1>3, <1>5

\* Nothing of an escape looks like the comma between two entries.
LEMMA EscapeNoComma ==
  ASSUME NEW v \in Seq(DnChar), NEW o, NEW d, NEW q, Places(v, o, d, q), NEW i \in 1..Len(v)
  PROVE  q + o[i - 1] < Len(d) /\ d[(q + o[i - 1]) + 1] # Comma
<1>1. PICK a : /\ a = EscapedChar(v, i) /\ Len(a) \in 1..3 /\ a[1] # Comma
  BY EscapedCharShape
<1>2. /\ o[i - 1] \in Nat /\ q \in Nat /\ Len(d) \in Nat
      /\ q + o[i] <= Len(d) /\ o[i] = o[i - 1] + Len(a)
      /\ \A k \in 1..Len(a) : d[(q + o[i - 1]) + k] = a[k]
  <2>1. i - 1 \in 0..Len(v) /\ i \in 0..Len(v)
    OBVIOUS
  <2> QED
    BY <1>1, <2>1 DEF Places
<1>3. 1 \in 1..Len(a) /\ Len(a) >= 1
  BY <1>1
<1>4. d[(q + o[i - 1]) + 1] # Comma
  BY <1>1, <1>2, <1>3
<1>5. PICK l, c, f, x : l = Len(a) /\ c = o[i - 1] /\ f = o[i] /\ x = Len(d)
  OBVIOUS
<1>6. q + c < x
  <2>1. c \in Nat /\ q \in Nat /\ l \in 1..3 /\ f = c + l /\ q + f <= x /\ x \in Nat
    BY <1>1, <1>2, <1>5
  <2> QED
    BY <2>1
<1> QED
  BY <1>4, <1>5, <1>6

\* Values that stand at the same place agree as far as the shorter one goes.
LEMMA ValuesAgree ==
  ASSUME NEW v \in Seq(DnChar), NEW w \in Seq(DnChar), NEW d, NEW q, NEW o, NEW r,
         Places(v, o, d, q), Places(w, r, d, q), Len(v) <= Len(w)
  PROVE  \A n \in 0..Len(v) : o[n] = r[n] /\ \A k \in 1..n : v[k] = w[k]
<1>0. PICK L \in Nat, M \in Nat : L = Len(v) /\ M = Len(w) /\ L <= M
  OBVIOUS
<1> DEFINE T == {x \in 0..L : o[x] = r[x] /\ \A k \in 1..x : v[k] = w[k]}
<1>1. 0 \in T
  <2>1. o[0] = r[0]
    BY DEF Places
  <2> QED
    BY <1>0, <2>1
<1>2. ASSUME NEW n \in 0..L - 1, n \in T PROVE n + 1 \in T
  <2>1. n + 1 \in 1..Len(v) /\ n + 1 \in 1..Len(w) /\ (n + 1) - 1 = n /\ n + 1 \in 0..L
    BY <1>0
  <2>2. o[n] = r[n] /\ \A k \in 1..n : v[k] = w[k]
    BY <1>2
  <2>3. PICK i, p : i = n + 1 /\ p = q + o[n] /\ i \in 1..Len(v) /\ i \in 1..Len(w)
    BY <2>1
  <2>a. i - 1 = n
    BY <2>1, <2>3
  <2>4. /\ o[i] = o[n] + Len(EscapedChar(v, i))
        /\ \A k \in 1..Len(EscapedChar(v, i)) : d[p + k] = EscapedChar(v, i)[k]
    <3>1. /\ o[i] = o[i - 1] + Len(EscapedChar(v, i))
          /\ \A k \in 1..Len(EscapedChar(v, i)) : d[(q + o[i - 1]) + k] = EscapedChar(v, i)[k]
      BY <2>3, Zenon DEF Places
    <3> QED
      BY <2>3, <2>a, <3>1, Zenon
  <2>5. /\ r[i] = r[n] + Len(EscapedChar(w, i))
        /\ \A k \in 1..Len(EscapedChar(w, i)) : d[p + k] = EscapedChar(w, i)[k]
    <3>1. /\ r[i] = r[i - 1] + Len(EscapedChar(w, i))
          /\ \A k \in 1..Len(EscapedChar(w, i)) : d[(q + r[i - 1]) + k] = EscapedChar(w, i)[k]
      BY <2>3, Zenon DEF Places
    <3> QED
      BY <2>2, <2>3, <2>a, <3>1, Zenon
  <2>6. v[i] = w[i] /\ Len(EscapedChar(v, i)) = Len(EscapedChar(w, i))
    <3>1. i \in 1..Len(v) /\ i \in 1..Len(w)
      BY <2>3
    <3>2. PICK a, b : a = EscapedChar(v, i) /\ b = EscapedChar(w, i)
      OBVIOUS
    <3>3. At(a, d, p) /\ At(b, d, p)
      BY <2>4, <2>5, <3>2, Zenon DEF At
    <3>4. v[i] = w[i] /\ Len(a) = Len(b)
      BY <3>1, <3>2, <3>3, EscapeRead
    <3> QED
      BY <3>2, <3>4, Zenon
  <2>7. o[i] = r[i]
    BY <2>2, <2>4, <2>5, <2>6, Zenon
  <2>8. \A k \in 1..n + 1 : v[k] = w[k]
    BY <2>2, <2>3, <2>6
  <2> QED
    BY <2>1, <2>3, <2>7, <2>8
<1> HIDE DEF T
<1>3. 0..L \subseteq T
  BY <1>1, <1>2, FromTheStart
<1> QED
  BY <1>0, <1>3 DEF T

\* The text of a value ends where the whole ends, or a comma follows.
Ends(d, r) == r = Len(d) \/ d[r + 1] = Comma

\* The shorter of two values that stand at the same place is the whole other one.
LEMMA ShorterIsAll ==
  ASSUME NEW v \in Seq(DnChar), NEW w \in Seq(DnChar), NEW d, NEW q, NEW o, NEW r,
         Places(v, o, d, q), Places(w, r, d, q), Len(v) <= Len(w), Ends(d, q + o[Len(v)])
  PROVE  v = w
<1>0. PICK L \in Nat, M \in Nat : L = Len(v) /\ M = Len(w) /\ L <= M
  OBVIOUS
<1>1. o[L] = r[L] /\ \A k \in 1..L : v[k] = w[k]
  <2>1. L \in 0..Len(v)
    BY <1>0
  <2> QED
    BY <1>0, <2>1, ValuesAgree
<1>2. L = M
  <2> SUFFICES ASSUME L < M PROVE FALSE
    BY <1>0
  <2>1. PICK i : i = L + 1 /\ i \in 1..Len(w) /\ i - 1 = L
    BY <1>0
  <2>2. q + r[i - 1] < Len(d) /\ d[(q + r[i - 1]) + 1] # Comma
    BY <2>1, EscapeNoComma
  <2>3. q + o[L] = Len(d) \/ d[(q + o[L]) + 1] = Comma
    BY <1>0 DEF Ends
  <2>4. PICK m, x : m = q + o[L] /\ x = Len(d) /\ m \in Nat
    <3>1. L \in 0..Len(v)
      BY <1>0
    <3>2. o \in [0..Len(v) -> Nat] /\ q \in Nat
      BY DEF Places
    <3>3. q + o[L] \in Nat
      BY <3>1, <3>2
    <3> QED
      BY <3>3
  <2> QED
    BY <1>1, <2>1, <2>2, <2>3, <2>4
<1> QED
  BY <1>0, <1>1, <1>2, SeqEqual

\* A value is read back from the text it stands in.
LEMMA ValueRead ==
  ASSUME NEW v \in Seq(DnChar), NEW w \in Seq(DnChar), NEW d, NEW q,
         Stands(EscapeDnValue(v), d, q), Ends(d, q + Len(EscapeDnValue(v))),
         Stands(EscapeDnValue(w), d, q), Ends(d, q + Len(EscapeDnValue(w)))
  PROVE  v = w
<1>1. PICK o : Places(v, o, d, q) /\ o[Len(v)] = Len(EscapeDnValue(v))
  BY EscapedValue, Zenon
<1>2. PICK r : Places(w, r, d, q) /\ r[Len(w)] = Len(EscapeDnValue(w))
  BY EscapedValue, Zenon
<1>3. Ends(d, q + o[Len(v)]) /\ Ends(d, q + r[Len(w)])
  BY <1>1, <1>2, Zenon
<1>4. Len(v) <= Len(w) \/ Len(w) <= Len(v)
  <2>1. Len(v) \in Nat /\ Len(w) \in Nat
    OBVIOUS
  <2> QED
    BY <2>1
<1> QED
  BY <1>1, <1>2, <1>3, <1>4, ShorterIsAll

-----------------------------------------------------------------------------
(* An entry is read back.                                                  *)

\* An entry of a name: any type, any value.
DnEntry == [type : DnType, value : Seq(DnChar)]

\* The parts of a text that stands in d stand one after the other.
LEMMA StandsApart ==
  ASSUME NEW S, NEW a \in Seq(S), NEW b \in Seq(S), NEW d, NEW q, Stands(a \o b, d, q)
  PROVE  /\ Stands(a, d, q) /\ Stands(b, d, q + Len(a))
         /\ Len(a \o b) = Len(a) + Len(b) /\ Len(a) \in Nat /\ Len(b) \in Nat
<1>1. PICK l, m, x : l = Len(a) /\ m = Len(b) /\ x = Len(d)
  OBVIOUS
<1>2. PICK t : t = a \o b
  OBVIOUS
<1>3. /\ Len(t) = l + m /\ l \in Nat /\ m \in Nat
      /\ \A k \in 1..l : t[k] = a[k]
      /\ \A k \in 1..m : t[l + k] = b[k]
  BY <1>1, <1>2, Concat
<1>4. /\ q \in Nat /\ x \in Nat /\ q + (l + m) <= x
      /\ \A k \in 1..l + m : d[q + k] = t[k]
  BY <1>1, <1>2, <1>3 DEF Stands
<1>5. Stands(a, d, q)
  <2>1. q + l <= x
    BY <1>3, <1>4
  <2>2. \A k \in 1..l : d[q + k] = a[k]
    BY <1>3, <1>4
  <2> QED
    BY <1>1, <1>4, <2>1, <2>2 DEF Stands
<1>6. Stands(b, d, q + l)
  <2>1. q + l \in Nat /\ (q + l) + m <= x
    BY <1>3, <1>4
  <2>2. ASSUME NEW k \in 1..m PROVE d[(q + l) + k] = b[k]
    <3>1. l + k \in 1..l + m /\ (q + l) + k = q + (l + k)
      BY <1>3, <1>4
    <3>2. d[q + (l + k)] = t[l + k]
      BY <1>4, <3>1
    <3>3. t[l + k] = b[k]
      BY <1>3
    <3> QED
      BY <3>1, <3>2, <3>3
  <2> QED
    BY <1>1, <1>4, <2>1, <2>2 DEF Stands
<1> QED
  BY <1>1, <1>2, <1>3, <1>5, <1>6

\* A type ends at the first equals sign.
LEMMA TypeRead ==
  ASSUME NEW t \in DnType, NEW u \in DnType, NEW d, NEW q,
         Stands(t, d, q), d[(q + Len(t)) + 1] = "=",
         Stands(u, d, q), d[(q + Len(u)) + 1] = "="
  PROVE  t = u
<1>a. Len(t) \in Nat /\ Len(u) \in Nat
  BY DEF DnType
<1>0. PICK l, m : l = Len(t) /\ m = Len(u) /\ l \in Nat /\ m \in Nat
  BY <1>a
<1>1. /\ \A k \in 1..l : t[k] # "="
      /\ \A k \in 1..m : u[k] # "="
  BY <1>0 DEF DnType
<1>2. /\ q \in Nat /\ \A k \in 1..l : d[q + k] = t[k]
      /\ \A k \in 1..m : d[q + k] = u[k]
  BY <1>0 DEF Stands
<1>3. d[q + (l + 1)] = "=" /\ d[q + (m + 1)] = "="
  <2>1. (q + l) + 1 = q + (l + 1) /\ (q + m) + 1 = q + (m + 1)
    BY <1>0, <1>2
  <2> QED
    BY <1>0, <2>1
<1>4. ~(l < m)
  <2> SUFFICES ASSUME l < m PROVE FALSE
    OBVIOUS
  <2>1. l + 1 \in 1..m
    BY <1>0
  <2> QED
    BY <1>1, <1>2, <1>3, <2>1
<1>5. ~(m < l)
  <2> SUFFICES ASSUME m < l PROVE FALSE
    OBVIOUS
  <2>1. m + 1 \in 1..l
    BY <1>0
  <2> QED
    BY <1>1, <1>2, <1>3, <2>1
<1>6. l = m
  BY <1>0, <1>4, <1>5
<1>7. \A k \in 1..l : t[k] = u[k]
  BY <1>2, <1>6
<1> QED
  BY <1>0, <1>6, <1>7, SeqEqual DEF DnType

\* The length of what parts an entry from the one before.
Lead(first) == IF first THEN 0 ELSE 1

\* An entry stands in d as its type, an equals sign and its escaped value.
LEMMA RdnIs ==
  ASSUME NEW x \in DnEntry, NEW first \in BOOLEAN
  PROVE  /\ Rdn(x, first) \in Seq(Printed)
         /\ Len(Rdn(x, first)) =
              ((Lead(first) + Len(x.type)) + 1) + Len(EscapeDnValue(x.value))
         /\ Len(x.type) \in Nat /\ Len(EscapeDnValue(x.value)) \in Nat
         /\ \A d, p : Stands(Rdn(x, first), d, p) =>
              /\ ~first => d[p + 1] = Comma
              /\ Stands(x.type, d, p + Lead(first))
              /\ d[((p + Lead(first)) + Len(x.type)) + 1] = "="
              /\ Stands(EscapeDnValue(x.value), d, ((p + Lead(first)) + Len(x.type)) + 1)
<1>0. x.type \in DnType /\ x.value \in Seq(DnChar)
  BY DEF DnEntry
<1>1. PICK lead, t, e, c : /\ lead = (IF first THEN <<>> ELSE <<Comma>>)
                           /\ t = x.type /\ e = EscapeDnValue(x.value) /\ c = Lead(first)
  OBVIOUS
<1>2. lead \in Seq(Printed) /\ Len(lead) = c /\ (~first => lead = <<Comma>>)
  BY <1>1, CharsApart DEF Lead
<1>3. t \in Seq(Printed)
  <2>1. "a" \in Printed /\ "0" \in Printed
    BY CharsApart
  <2> QED
    BY <1>0, <1>1, <2>1 DEF DnType
<1>4. e \in Seq(Printed)
  BY <1>0, <1>1, EscapedValue
<1>5. PICK f, g, eq : f = lead \o t /\ g = f \o eq /\ eq = <<"=">>
  OBVIOUS
<1>6. f \in Seq(Printed) /\ Len(f) = c + Len(t)
  BY <1>2, <1>3, <1>5, Concat
<1>7. eq \in Seq(Printed) /\ Len(eq) = 1 /\ eq[1] = "="
  <2>1. "=" \in Printed
    BY CharsApart
  <2> QED
    BY <1>5, <2>1
<1>8. g \in Seq(Printed) /\ Len(g) = Len(f) + 1
  BY <1>5, <1>6, <1>7, Concat
<1>9. Rdn(x, first) = g \o e
  BY <1>1, <1>5, Zenon DEF Rdn
<1>10. g \o e \in Seq(Printed) /\ Len(g \o e) = Len(g) + Len(e)
  BY <1>4, <1>8, Concat
<1>11. Len(t) \in Nat /\ Len(e) \in Nat /\ c \in 0..1
  BY <1>1, <1>3, <1>4 DEF Lead
<1>12. ASSUME NEW d, NEW p, Stands(g \o e, d, p)
       PROVE  /\ ~first => d[p + 1] = Comma
              /\ Stands(t, d, p + c)
              /\ d[((p + c) + Len(t)) + 1] = "="
              /\ Stands(e, d, ((p + c) + Len(t)) + 1)
  <2>0. p \in Nat
    BY <1>12 DEF Stands
  <2>1. Stands(g, d, p) /\ Stands(e, d, p + Len(g))
    BY <1>4, <1>8, <1>12, StandsApart
  <2>2. Stands(f, d, p) /\ Stands(eq, d, p + Len(f))
    BY <1>5, <1>6, <1>7, <2>1, StandsApart
  <2>3. Stands(lead, d, p) /\ Stands(t, d, p + Len(lead))
    BY <1>2, <1>3, <1>5, <2>2, StandsApart
  <2>4. p + Len(f) = (p + c) + Len(t) /\ p + Len(g) = ((p + c) + Len(t)) + 1
    BY <1>6, <1>8, <1>11, <2>0
  <2>5. d[(p + Len(f)) + 1] = "="
    BY <1>7, <2>2 DEF Stands
  <2>6. ~first => d[p + 1] = Comma
    <3> SUFFICES ASSUME ~first PROVE d[p + 1] = Comma
      OBVIOUS
    <3>1. lead = <<Comma>> /\ Len(lead) = 1 /\ lead[1] = Comma /\ 1 \in 1..1
      BY <1>2
    <3> QED
      BY <2>3, <3>1 DEF Stands
  <2> QED
    BY <1>2, <2>1, <2>3, <2>4, <2>5, <2>6
<1>13. Len(g \o e) = ((c + Len(t)) + 1) + Len(e)
  BY <1>6, <1>8, <1>10, <1>11
<1> QED
  BY <1>1, <1>9, <1>10, <1>11, <1>12, <1>13, Zenon

\* An entry is read back from the text it stands in.
LEMMA EntryRead ==
  ASSUME NEW x \in DnEntry, NEW y \in DnEntry, NEW first \in BOOLEAN, NEW d, NEW p,
         Stands(Rdn(x, first), d, p), Ends(d, p + Len(Rdn(x, first))),
         Stands(Rdn(y, first), d, p), Ends(d, p + Len(Rdn(y, first)))
  PROVE  x = y
<1>0. x.type \in DnType /\ x.value \in Seq(DnChar) /\ y.type \in DnType /\ y.value \in Seq(DnChar)
  BY DEF DnEntry
<1>p. p \in Nat /\ Lead(first) \in Nat
  BY DEF Stands, Lead
<1>1. PICK q : q = p + Lead(first)
  OBVIOUS
<1>2. /\ Stands(x.type, d, q) /\ d[(q + Len(x.type)) + 1] = "="
      /\ Stands(EscapeDnValue(x.value), d, (q + Len(x.type)) + 1)
  BY <1>1, RdnIs
<1>3. /\ Stands(y.type, d, q) /\ d[(q + Len(y.type)) + 1] = "="
      /\ Stands(EscapeDnValue(y.value), d, (q + Len(y.type)) + 1)
  BY <1>1, RdnIs
<1>4. x.type = y.type
  BY <1>0, <1>2, <1>3, TypeRead
<1>5. PICK r : r = (q + Len(x.type)) + 1
  OBVIOUS
<1>6. /\ p + Len(Rdn(x, first)) = r + Len(EscapeDnValue(x.value))
      /\ p + Len(Rdn(y, first)) = r + Len(EscapeDnValue(y.value))
  <2>1. /\ Len(Rdn(x, first)) =
             ((Lead(first) + Len(x.type)) + 1) + Len(EscapeDnValue(x.value))
        /\ Len(x.type) \in Nat /\ Len(EscapeDnValue(x.value)) \in Nat
    BY RdnIs, Zenon
  <2>2. /\ Len(Rdn(y, first)) =
             ((Lead(first) + Len(y.type)) + 1) + Len(EscapeDnValue(y.value))
        /\ Len(EscapeDnValue(y.value)) \in Nat
    BY RdnIs, Zenon
  <2>3. PICK c, l, a, b : /\ c = Lead(first) /\ l = Len(x.type)
                           /\ a = Len(EscapeDnValue(x.value)) /\ b = Len(EscapeDnValue(y.value))
    OBVIOUS
  <2>4. /\ p \in Nat /\ c \in Nat /\ l \in Nat /\ a \in Nat /\ b \in Nat
        /\ r = ((p + c) + l) + 1 /\ Len(Rdn(x, first)) = ((c + l) + 1) + a
        /\ Len(Rdn(y, first)) = ((c + l) + 1) + b
    BY <1>p, <1>1, <1>4, <1>5, <2>1, <2>2, <2>3, Zenon
  <2>5. /\ p + Len(Rdn(x, first)) = r + a /\ p + Len(Rdn(y, first)) = r + b
    BY ONLY <2>4
  <2> QED
    BY <2>3, <2>5, Zenon
<1>7. PICK v, w : v = x.value /\ w = y.value /\ v \in Seq(DnChar) /\ w \in Seq(DnChar)
  BY <1>0
<1>8. /\ Stands(EscapeDnValue(v), d, r) /\ Ends(d, r + Len(EscapeDnValue(v)))
      /\ Stands(EscapeDnValue(w), d, r) /\ Ends(d, r + Len(EscapeDnValue(w)))
  BY <1>2, <1>3, <1>4, <1>5, <1>6, <1>7, Zenon
<1>9. v = w
  BY <1>7, <1>8, ValueRead
<1>10. x.value = y.value
  BY <1>7, <1>9
<1> QED
  BY ONLY x \in DnEntry, y \in DnEntry, <1>4, <1>10 DEF DnEntry

-----------------------------------------------------------------------------
(* A name is read back.                                                    *)

\* The entry that is written j-th; it ends at position o[j] of d.
Nth(name, j) == name[Len(name) + 1 - j]
Lists(name, d, o) ==
  /\ Len(d) \in Nat /\ o \in [0..Len(name) -> 0..Len(d)] /\ o[0] = 0 /\ o[Len(name)] = Len(d)
  /\ \A j \in 1..Len(name) :
       /\ o[j] = o[j - 1] + Len(Rdn(Nth(name, j), j = 1))
       /\ Stands(Rdn(Nth(name, j), j = 1), d, o[j - 1])

\* Every entry of a name is written once.
LEMMA NthIs ==
  ASSUME NEW name \in Seq(DnEntry), NEW j \in 1..Len(name)
  PROVE  Nth(name, j) \in DnEntry /\ Len(name) + 1 - j \in 1..Len(name)
<1>1. Len(name) + 1 - j \in 1..Len(name)
  OBVIOUS
<1> QED
  BY <1>1 DEF Nth

\* A written name is printable, and lists the entries one after the other.
LEMMA NameIsListed ==
  ASSUME NEW name \in Seq(DnEntry)
  PROVE  Rendered(name) \in Seq(Printed)
           /\ \E o : Lists(name, Rendered(name), o)
<1>0. PICK N \in Nat : N = Len(name)
  OBVIOUS
<1>1. PICK p : p = [j \in 1..N |-> Rdn(Nth(name, j), j = 1)]
  OBVIOUS
<1>2. ASSUME NEW j \in 1..N
      PROVE  p[j] = Rdn(Nth(name, j), j = 1) /\ p[j] \in Seq(Printed)
  <2>1. p[j] = Rdn(Nth(name, j), j = 1)
    BY <1>1
  <2>2. PICK x \in DnEntry, first \in BOOLEAN : x = Nth(name, j) /\ first = (j = 1)
    BY <1>0, NthIs
  <2>3. Rdn(x, first) \in Seq(Printed)
    BY RdnIs
  <2> QED
    BY <2>1, <2>2, <2>3
<1>3. p \in Seq(Seq(Printed)) /\ Len(p) = N
  <2>1. PICK W : W = Seq(Printed)
    OBVIOUS
  <2>2. p \in [1..N -> W]
    BY <1>1, <1>2, <2>1
  <2> QED
    BY <2>1, <2>2
<1>4. PICK d : d = Rendered(name) /\ d = FlattenSeq(p)
  BY <1>0, <1>1, Zenon DEF Rendered, Nth
<1>5. PICK o : d \in Seq(Printed) /\ Layout(p, d, o)
  BY <1>3, <1>4, FlattenLayout
<1>6. /\ o \in [0..N -> 0..Len(d)] /\ o[0] = 0 /\ o[N] = Len(d) /\ Len(d) \in Nat
      /\ \A j \in 1..N : o[j] = o[j - 1] + Len(p[j])
      /\ \A j \in 1..N : \A k \in 1..Len(p[j]) : d[o[j - 1] + k] = p[j][k]
  BY <1>3, <1>5 DEF Layout
<1>7. ASSUME NEW j \in 1..N
      PROVE  /\ o[j] = o[j - 1] + Len(Rdn(Nth(name, j), j = 1))
             /\ Stands(Rdn(Nth(name, j), j = 1), d, o[j - 1])
  <2>1. o[j - 1] \in Nat /\ o[j] <= Len(d)
    BY <1>6
  <2>2. Stands(p[j], d, o[j - 1])
    BY <1>6, <2>1 DEF Stands
  <2> QED
    BY <1>2, <1>6, <2>2
<1>8. Lists(name, d, o)
  BY <1>0, <1>6, <1>7 DEF Lists
<1> QED
  BY <1>4, <1>5, <1>8

\* Every entry takes room, and ends where the whole ends or before a comma.
LEMMA ListEnds ==
  ASSUME NEW name \in Seq(DnEntry), NEW d, NEW o, Lists(name, d, o), NEW j \in 1..Len(name)
  PROVE  o[j - 1] < o[j] /\ o[j] \in Nat /\ o[j - 1] \in Nat /\ Ends(d, o[j])
<1>0. PICK N \in Nat : N = Len(name) /\ j \in 1..N
  OBVIOUS
<1>1. /\ Len(d) \in Nat /\ o \in [0..N -> 0..Len(d)] /\ o[N] = Len(d)
      /\ \A i \in 1..N :
           /\ o[i] = o[i - 1] + Len(Rdn(Nth(name, i), i = 1))
           /\ Stands(Rdn(Nth(name, i), i = 1), d, o[i - 1])
  BY <1>0 DEF Lists
<1>2. o[j] \in Nat /\ o[j - 1] \in Nat
  <2>1. j \in 0..N /\ j - 1 \in 0..N
    BY <1>0
  <2> QED
    BY <1>1, <2>1
<1>3. o[j - 1] < o[j]
  <2>1. PICK x \in DnEntry, first \in BOOLEAN : x = Nth(name, j) /\ first = (j = 1)
    BY NthIs
  <2>2. /\ Len(Rdn(x, first)) = ((Lead(first) + Len(x.type)) + 1) + Len(EscapeDnValue(x.value))
        /\ Len(x.type) \in Nat /\ Len(EscapeDnValue(x.value)) \in Nat
    BY RdnIs
  <2>3. Lead(first) \in Nat
    BY DEF Lead
  <2>4. Len(Rdn(x, first)) > 0 /\ Len(Rdn(x, first)) \in Nat
    BY <2>2, <2>3
  <2>5. o[j] = o[j - 1] + Len(Rdn(x, first))
    BY <1>0, <1>1, <2>1
  <2> QED
    BY <1>2, <2>4, <2>5
<1>4. ASSUME j = N PROVE Ends(d, o[j])
  BY <1>1, <1>4 DEF Ends
<1>5. ASSUME j # N PROVE Ends(d, o[j])
  <2>1. PICK i : i = j + 1 /\ i \in 1..N /\ i - 1 = j /\ i # 1 /\ i \in 1..Len(name)
    BY <1>0, <1>5
  <2>2. PICK x \in DnEntry, first \in BOOLEAN : x = Nth(name, i) /\ first = (i = 1)
    BY <2>1, NthIs
  <2>3. Stands(Rdn(x, first), d, o[j])
    BY <1>1, <2>1, <2>2
  <2>4. d[o[j] + 1] = Comma
    <3>1. ~first
      BY <2>1, <2>2
    <3> QED
      BY <2>3, <3>1, RdnIs
  <2> QED
    BY <2>4 DEF Ends
<1> QED
  BY <1>2, <1>3, <1>4, <1>5

\* Names listed in the same text agree as far as the shorter one goes.
LEMMA NamesAgree ==
  ASSUME NEW m \in Seq(DnEntry), NEW n \in Seq(DnEntry), NEW d, NEW o, NEW r,
         Lists(m, d, o), Lists(n, d, r), Len(m) <= Len(n)
  PROVE  \A j \in 0..Len(m) : o[j] = r[j] /\ \A k \in 1..j : Nth(m, k) = Nth(n, k)
<1>0. PICK L \in Nat, M \in Nat : L = Len(m) /\ M = Len(n) /\ L <= M
  OBVIOUS
<1> DEFINE T == {x \in 0..L : o[x] = r[x] /\ \A k \in 1..x : Nth(m, k) = Nth(n, k)}
<1>1. 0 \in T
  <2>1. o[0] = r[0]
    BY DEF Lists
  <2> QED
    BY <1>0, <2>1
<1>2. ASSUME NEW h \in 0..L - 1, h \in T PROVE h + 1 \in T
  <2>1. PICK j : j = h + 1 /\ j \in 1..Len(m) /\ j \in 1..Len(n) /\ j - 1 = h /\ j \in 0..L
    BY <1>0
  <2>2. o[h] = r[h] /\ \A k \in 1..h : Nth(m, k) = Nth(n, k)
    BY <1>2
  <2>3. PICK x, y, first, p : /\ x = Nth(m, j) /\ y = Nth(n, j) /\ first = (j = 1) /\ p = o[h]
                              /\ x \in DnEntry /\ y \in DnEntry /\ first \in BOOLEAN
    BY <2>1, NthIs
  <2>4. o[j] = p + Len(Rdn(x, first)) /\ Stands(Rdn(x, first), d, p)
    BY <2>1, <2>3, ZenonT(40) DEF Lists
  <2>5. r[j] = p + Len(Rdn(y, first)) /\ Stands(Rdn(y, first), d, p)
    BY <2>1, <2>2, <2>3, ZenonT(40) DEF Lists
  <2>6. Ends(d, o[j]) /\ Ends(d, r[j])
    BY <2>1, ListEnds
  <2>7. Ends(d, p + Len(Rdn(x, first))) /\ Ends(d, p + Len(Rdn(y, first)))
    BY <2>4, <2>5, <2>6, Zenon
  <2>8. x = y
    BY <2>3, <2>4, <2>5, <2>7, EntryRead
  <2>9. o[j] = r[j] /\ Nth(m, j) = Nth(n, j)
    BY <2>3, <2>4, <2>5, <2>8, Zenon
  <2>10. \A k \in 1..h + 1 : Nth(m, k) = Nth(n, k)
    BY <2>1, <2>2, <2>9
  <2> QED
    BY <2>1, <2>9, <2>10
<1> HIDE DEF T
<1>3. 0..L \subseteq T
  BY <1>1, <1>2, FromTheStart
<1> QED
  BY <1>0, <1>3 DEF T

\* The shorter of two names that are listed in the same text is the whole other one.
LEMMA ShorterNameIsAll ==
  ASSUME NEW m \in Seq(DnEntry), NEW n \in Seq(DnEntry), NEW d, NEW o, NEW r,
         Lists(m, d, o), Lists(n, d, r), Len(m) <= Len(n)
  PROVE  m = n
<1>0. PICK L \in Nat, M \in Nat : L = Len(m) /\ M = Len(n) /\ L <= M
  OBVIOUS
<1>1. o[L] = r[L] /\ \A k \in 1..L : Nth(m, k) = Nth(n, k)
  <2>1. L \in 0..Len(m)
    BY <1>0
  <2> QED
    BY <1>0, <2>1, NamesAgree
<1>2. L = M
  <2> SUFFICES ASSUME L < M PROVE FALSE
    BY <1>0
  <2>1. PICK j : j = L + 1 /\ j \in 1..Len(n) /\ j - 1 = L /\ j \in 0..M
    BY <1>0
  <2>2. r[L] < r[j] /\ r[j] \in Nat /\ r[L] \in Nat
    BY <2>1, ListEnds
  <2>3. o[L] = Len(d) /\ Len(d) \in Nat /\ r[j] \in 0..Len(d)
    BY <1>0, <2>1 DEF Lists
  <2> QED
    BY <1>1, <2>2, <2>3
<1>3. ASSUME NEW i \in 1..L PROVE m[i] = n[i]
  <2>a. (L + 1) - i \in 1..L /\ L + 1 - ((L + 1) - i) = i
    BY <1>0
  <2>1. PICK k : k = (L + 1) - i
    OBVIOUS
  <2>2. Nth(m, k) = m[i] /\ Nth(n, k) = n[i]
    BY <1>0, <1>2, <2>a, <2>1 DEF Nth
  <2> QED
    BY <1>1, <2>a, <2>1, <2>2
<1> QED
  BY <1>0, <1>2, <1>3, SeqEqual

\* Entries that are written alike are the same entries, and what is written of them
\* is printable.
LEMMA EntriesReadBack ==
  ASSUME NEW m \in Seq(DnEntry), NEW n \in Seq(DnEntry)
  PROVE  /\ Rendered(m) = Rendered(n) => m = n
         /\ Rendered(m) \in Seq(Printed)
<1>1. PICK d, o : d = Rendered(m) /\ d \in Seq(Printed) /\ Lists(m, d, o)
  BY NameIsListed
<1>2. ASSUME Rendered(m) = Rendered(n) PROVE m = n
  <2>1. PICK r : Lists(n, d, r)
    BY <1>1, <1>2, NameIsListed
  <2>2. Len(m) <= Len(n) \/ Len(n) <= Len(m)
    <3>1. Len(m) \in Nat /\ Len(n) \in Nat
      OBVIOUS
    <3> QED
      BY <3>1
  <2> QED
    BY <1>1, <2>1, <2>2, ShorterNameIsAll
<1> QED
  BY <1>1, <1>2

-----------------------------------------------------------------------------
(* From the certificate to the record: what is decoded, grouped and cut.   *)

\* Decoding leaves characters that can be escaped.
LEMMA DecodedIs ==
  ASSUME NEW v \in Seq(DnChar \cup {Undecodable})
  PROVE  Decoded(v) \in Seq(DnChar)
<1>1. PICK n \in Nat : n = Len(v) /\ DOMAIN v = 1..n
  OBVIOUS
<1>2. "?" \in DnChar
  BY Zenon DEF DnChar
<1>3. PICK w : w = Decoded(v)
  OBVIOUS
<1>4. w = [i \in 1..n |-> IF v[i] = Undecodable THEN "?" ELSE v[i]]
  BY <1>1, <1>3 DEF Decoded
<1>5. ASSUME NEW i \in 1..n PROVE w[i] \in DnChar
  <2>1. v[i] \in DnChar \cup {Undecodable}
    BY <1>1
  <2> QED
    BY <1>2, <1>4, <2>1
<1>6. w \in [1..n -> DnChar]
  BY <1>4, <1>5
<1> QED
  BY <1>3, <1>6

\* What is written of a subject is a sequence of entries.
LEMMA EntriesIs ==
  ASSUME NEW m \in Seq(SubjectEntry)
  PROVE  Entries(m) \in Seq(DnEntry)
<1>1. PICK n \in Nat : n = Len(m) /\ DOMAIN m = 1..n
  OBVIOUS
<1>2. PICK w : w = Entries(m)
  OBVIOUS
<1>3. w = [i \in 1..n |-> [type |-> m[i].type, value |-> Decoded(m[i].value)]]
  BY <1>1, <1>2 DEF Entries
<1>4. ASSUME NEW i \in 1..n PROVE w[i] \in DnEntry
  <2>1. m[i].type \in DnType /\ m[i].value \in Seq(DnChar \cup {Undecodable})
    <3>1. m[i] \in SubjectEntry
      BY <1>1
    <3> QED
      BY <3>1, Zenon DEF SubjectEntry
  <2>2. Decoded(m[i].value) \in Seq(DnChar)
    BY <2>1, DecodedIs
  <2> QED
    BY <1>3, <2>1, <2>2 DEF DnEntry
<1>5. w \in [1..n -> DnEntry]
  BY <1>3, <1>4
<1> QED
  BY <1>2, <1>5

\* A text that was not cut is as it was written; one that was is longer than the
\* limit; and the mark of a cut is no control character.
LEMMA BoundedIs ==
  ASSUME NEW d \in Seq(Printed)
  PROVE  /\ Len(Bounded(d)) <= MaxDn => Bounded(d) = d
         /\ \A i \in DOMAIN Bounded(d) : Bounded(d)[i] # "NL"
<1>1. PICK M \in Nat : M = MaxDn
  BY MaxDnAssumption
<1>2. \A i \in DOMAIN d : d[i] # "NL"
  BY DEF Printed
<1>3. CASE Len(d) <= M
  BY <1>1, <1>2, <1>3 DEF Bounded
<1>4. CASE ~(Len(d) <= M)
  <2>0. "..." # "NL"
    BY Zenon
  <2>1. PICK dots, h : dots = "..." /\ h = SubSeq(d, 1, M) /\ dots # "NL"
    BY <2>0, Zenon
  <2>2. /\ h \in Seq(Printed) /\ Len(h) = M
        /\ \A i \in 1..M : h[i] = d[i] /\ i \in DOMAIN d
    BY <1>4, <2>1
  <2>3. PICK b : b = h \o <<dots>> /\ b = Bounded(d)
    BY <1>1, <1>4, <2>1 DEF Bounded
  <2>4. /\ Len(b) = M + 1 /\ DOMAIN b = 1..M + 1 /\ b[M + 1] = dots
        /\ \A i \in 1..M : b[i] = h[i]
    BY <2>2, <2>3
  <2>5. ASSUME NEW i \in 1..M + 1 PROVE b[i] # "NL"
    <3>1. CASE i = M + 1
      BY <2>1, <2>4, <3>1
    <3>2. CASE i \in 1..M
      BY <1>2, <2>2, <2>4, <3>2
    <3> QED
      BY <3>1, <3>2
  <2> QED
    BY <1>1, <2>3, <2>4, <2>5
<1> QED
  BY <1>3, <1>4

\* The subject in an audit record can be read back: subjects that are recorded
\* alike, and not cut, have the same attributes and decoded values in the same
\* order, and no control character is recorded (distinguished_name, mtls.rs;
\* bounded, audit.rs).  The grouping into RDNs and undecodable bytes are lost.
THEOREM NamesReadBack ==
  ASSUME NEW m \in Seq(SubjectEntry), NEW n \in Seq(SubjectEntry)
  PROVE  LET record == Bounded(DistinguishedName(m))
         IN /\ /\ record = Bounded(DistinguishedName(n))
               /\ Len(record) <= MaxDn
               => Entries(m) = Entries(n)
            /\ \A i \in DOMAIN record : record[i] # "NL"
<1>1. PICK x \in Seq(DnEntry), y \in Seq(DnEntry) : x = Entries(m) /\ y = Entries(n)
  BY EntriesIs
<1>2. PICK d, e : /\ d = Rendered(x) /\ e = Rendered(y)
                  /\ d \in Seq(Printed) /\ e \in Seq(Printed)
  BY EntriesReadBack
<1>3. d = DistinguishedName(m) /\ e = DistinguishedName(n)
  BY <1>1, <1>2, Zenon DEF DistinguishedName
<1>4. /\ Len(Bounded(d)) <= MaxDn => Bounded(d) = d
      /\ Len(Bounded(e)) <= MaxDn => Bounded(e) = e
      /\ \A i \in DOMAIN Bounded(d) : Bounded(d)[i] # "NL"
  BY <1>2, BoundedIs
<1>5. ASSUME Bounded(d) = Bounded(e), Len(Bounded(d)) <= MaxDn PROVE x = y
  <2>1. d = e
    BY <1>4, <1>5, Zenon
  <2> QED
    BY <1>2, <2>1, EntriesReadBack
<1> QED
  BY <1>1, <1>3, <1>4, <1>5, Zenon
=============================================================================
