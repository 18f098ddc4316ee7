-------------------------------- MODULE Env --------------------------------
(***************************************************************************)
(* ${NAME} references in the string values of the configuration            *)
(* (config/env.rs).  A string is a sequence of characters, and characters  *)
(* are the classes the code tells apart: "$", "{", "}", "a" (a letter or   *)
(* an underscore), "1" (a digit), " " (padding: whitespace or an invisible *)
(* character) and "/" (anything else).                                     *)
(***************************************************************************)
EXTENDS Naturals, Sequences, FiniteSetsExt, SequencesExt

Char == {"$", "{", "}", "a", "1", " ", "/"}

IsPadding(c) == c = " "

IsValidName(name) ==
  /\ name # <<>>
  /\ name[1] = "a"
  /\ \A i \in DOMAIN name : name[i] \in {"a", "1"}

(***************************************************************************)
(* What std::env::var answers for a name: its value, or one of the two     *)
(* VarErrors.  The environment of the model sets one variable, `a'.        *)
(***************************************************************************)
Set(value) == [status |-> "set", value |-> value]
NotPresent == [status |-> "not_present", value |-> <<>>]
NotUnicode == [status |-> "not_unicode", value |-> <<>>]

Lookup(env, name) == IF name = <<"a">> THEN env ELSE NotPresent

(***************************************************************************)
(* The result of expanding one string: the text, or the kind of error and  *)
(* the variable name its message mentions (<<>> for none).                 *)
(***************************************************************************)
Expanded(text) == [err |-> "none", text |-> text, names |-> <<>>]
Failed(kind, name) == [err |-> kind, text |-> <<>>, names |-> name]

\* Fault: an empty value passes, as it would without the all-padding arm.
ValueErrorNoBlank(answer) ==
  LET v == answer.value IN
  CASE answer.status = "not_present" -> "not_set"
    [] answer.status = "not_unicode" -> "not_unicode"
    [] OTHER -> "none"

\* The error for a variable's answer, "none" when its value may be inserted.
ValueError(answer) ==
  LET v == answer.value IN
  CASE answer.status = "not_present" -> "not_set"
    [] answer.status = "not_unicode" -> "not_unicode"
    [] \A i \in DOMAIN v : IsPadding(v[i]) -> "blank"
    [] IsPadding(v[1]) \/ IsPadding(v[Len(v)]) -> "padded"
    [] OTHER -> "none"

\* The first position of c in s from i on, one past the end when there is none.
Find(s, c, i) == Min({k \in i..Len(s) : s[k] = c} \cup {Len(s) + 1})

\* Fault: dollars are taken one at a time.
RunEndOne(s, i) == i + 1

\* The end of the run of dollars that starts at i.
RunEnd(s, i) == Min({k \in i..Len(s) : s[k] # "$"} \cup {Len(s) + 1})

Dollars(n) == [k \in 1..n |-> "$"]

\* Text already written to `out', in front of what the rest expands to.
Prefixed(text, r) == IF r.err = "none" THEN Expanded(text \o r.text) ELSE r

(***************************************************************************)
(* One turn of expand_str's loop, with `rest' starting at position i and   *)
(* more[j] the result when it starts at j: everything up to the next `$'   *)
(* is copied; a run of dollars not followed by `{' is literal; before a    *)
(* `{' each pair is one dollar and an odd one opens a reference, whose     *)
(* value is inserted and not looked at again.                              *)
(***************************************************************************)
Turn(s, env, secret, i, more) ==
  LET start  == Find(s, "$", i)
      copied == SubSeq(s, i, start - 1)
      after  == RunEnd(s, start)
      run    == after - start
      brace  == after <= Len(s) /\ s[after] = "{"
      end    == Find(s, "}", after + 1)
      name   == SubSeq(s, after + 1, end - 1)
      answer == Lookup(env, name)
  IN CASE start > Len(s) -> Expanded(copied)
       [] start <= Len(s) /\ ~brace ->
            Prefixed(copied \o Dollars(run), more[after])
       [] start <= Len(s) /\ brace /\ run % 2 = 0 ->
            Prefixed(copied \o Dollars(run \div 2), more[after])
       [] OTHER ->
            CASE end > Len(s) -> Failed("unterminated", <<>>)
              [] end <= Len(s) /\ ~IsValidName(name) ->
                   Failed("invalid_name", <<>>)
              [] OTHER ->
                   IF ValueError(answer) # "none"
                   THEN Failed(ValueError(answer), IF secret THEN <<>> ELSE name)
                   ELSE Prefixed(copied \o Dollars(run \div 2)
                                   \o answer.value, more[end + 1])

\* expand_str: the loop from the first character on.
ExpandStr(s, env, secret) ==
  LET Pass[i \in 1..Len(s) + 1] == Turn(s, env, secret, i, Pass)
  IN Pass[1]

-----------------------------------------------------------------------------
(***************************************************************************)
(* The documented rules, stated without the loop.                          *)
(***************************************************************************)

\* A literal text as an operator has to write it: every dollar of a run that
\* stands directly before a `{' is doubled, all other text stays as it is.
Escaped(s) ==
  LET Opens(i) == LET e == RunEnd(s, i) IN e <= Len(s) /\ s[e] = "{"
  IN FlattenSeq([i \in DOMAIN s |->
       IF s[i] = "$" /\ Opens(i) THEN <<"$", "$">> ELSE <<s[i]>>])

Reference == <<"$", "{", "a", "}">>

\* A reference of s: the dollars from j on are all of their run, odd in number,
\* and stand directly before the `{' at e.
IsReference(s, j, e) ==
  /\ j = 1 \/ s[j - 1] # "$"
  /\ \A k \in j..e - 1 : s[k] = "$"
  /\ s[e] = "{"
  /\ (e - j) % 2 = 1

\* Why the reference whose `{' is at e cannot be replaced, "none" when it can.
ReferenceError(s, e, env) ==
  LET end  == Find(s, "}", e + 1)
      name == SubSeq(s, e + 1, end - 1)
  IN CASE end > Len(s) -> "unterminated"
       [] end <= Len(s) /\ ~IsValidName(name) -> "invalid_name"
       [] OTHER -> ValueError(Lookup(env, name))

\* The reference at j, with its brace at e, is replaced by a dollar for each pair
\* in front of it and its variable's value, between what the text before it and
\* the text after it expand to; or it fails the text with its own error.
Replaced(s, j, e, env, secret) ==
  LET end      == Find(s, "}", e + 1)
      inserted == Dollars((e - j) \div 2) \o Lookup(env, SubSeq(s, e + 1, end - 1)).value
      before   == ExpandStr(SubSeq(s, 1, j - 1), env, secret)
      after    == ExpandStr(SubSeq(s, end + 1, Len(s)), env, secret)
      whole    == ExpandStr(s, env, secret)
      bad      == ReferenceError(s, e, env)
  IN /\ before.err # "none" => whole.err # "none"
     /\ before.err = "none" /\ bad # "none" => whole.err = bad
     /\ before.err = "none" /\ bad = "none" =>
          /\ whole.err = after.err
          /\ after.err = "none" => whole.text = before.text \o inserted \o after.text
=============================================================================
