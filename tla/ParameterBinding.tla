-------------------------- MODULE ParameterBinding --------------------------
(***************************************************************************)
(* render_qmark and render_literal of the SQL connector (_params.py): the    *)
(* values of a statement are written into its text, each in the place of a   *)
(* `?` that is not inside a string, a quoted identifier or a comment.  A     *)
(* step is one round of the scanner's loop.                                 *)
(*                                                                         *)
(* Texts are sequences of characters.  Of a value only its characters matter *)
(* and whether it is a string; all others are plain, written as they read.   *)
(*                                                                         *)
(* An operator named Faulty... is its neighbour with one plausible bug; no  *)
(* action uses it.  It shows that a property would notice the bug.         *)
(***************************************************************************)
EXTENDS Naturals, Sequences, FiniteSets

CONSTANTS Alphabet,   \* the characters
          Texts,      \* bound: the SQL texts
          Parameters  \* bound: the sequences of values given with them

VARIABLES
  sql, parameters,  \* the arguments
  at,               \* i, counted from 1
  out,              \* what has been written
  bound,            \* pidx: the values used
  scan              \* "scanning" | "rendered" | "raised"

bindingVars == <<sql, parameters, at, out, bound, scan>>

BindingInit ==
  /\ sql \in Texts /\ parameters \in Parameters
  /\ at = 1 /\ out = <<>> /\ bound = 0 /\ scan = "scanning"

Quote == "'"
NameQuote == "\""
Newline == "\n"

\* The quote of a string value is written as it is.
FaultyLiteral(v) ==
  IF v.kind = "text" THEN <<Quote>> \o v.chars \o <<Quote>> ELSE v.chars

\* render_literal.  In a string each quote is doubled.
Literal(v) ==
  LET doubled[n \in 0..Len(v.chars)] ==
        IF n = 0 THEN <<>>
        ELSE doubled[n - 1] \o IF v.chars[n] = Quote THEN <<Quote, Quote>> ELSE <<v.chars[n]>>
  IN IF v.kind = "text" THEN <<Quote>> \o doubled[Len(v.chars)] \o <<Quote>> ELSE v.chars

-----------------------------------------------------------------------------
Last == Len(sql) + 1

\* Two characters of the text.
Pair(n, a, b) == n < Len(sql) /\ sql[n] = a /\ sql[n + 1] = b

\* Where what is quoted with q and begun before n ends.
AfterQuoted(q, n) ==
  LET after[k \in 1..Last] ==
        IF k = Last THEN Last
        ELSE IF Pair(k, q, q) THEN after[k + 2]
        ELSE IF sql[k] = q THEN k + 1 ELSE after[k + 1]
  IN after[n]

AfterLine(n) ==
  CHOOSE k \in n..Last : /\ k = Last \/ sql[k] = Newline
                         /\ \A j \in n..k - 1 : sql[j] # Newline

\* Where a block comment ends that begins at n.
AfterBlock(n) ==
  LET ends == {k \in n + 2..Last - 2 : Pair(k, "*", "/")}
  IN IF ends = {} THEN Last ELSE (CHOOSE k \in ends : \A j \in ends : k <= j) + 2

\* The text up to end is copied.
Copy(end) ==
  /\ out' = out \o SubSeq(sql, at, end - 1)
  /\ at' = end
  /\ UNCHANGED <<sql, parameters, bound, scan>>

Scanning == scan = "scanning" /\ at < Last

Quoted ==
  /\ Scanning /\ sql[at] \in {Quote, NameQuote}
  /\ Copy(AfterQuoted(sql[at], at + 1))

LineComment == Scanning /\ Pair(at, "-", "-") /\ Copy(AfterLine(at))

BlockComment == Scanning /\ Pair(at, "/", "*") /\ Copy(AfterBlock(at))

Placeholder ==
  /\ Scanning /\ sql[at] = "?"
  /\ IF bound = Len(parameters)
       THEN scan' = "raised" /\ UNCHANGED <<at, out, bound>>
       ELSE /\ out' = out \o Literal(parameters[bound + 1])
            /\ bound' = bound + 1 /\ at' = at + 1 /\ UNCHANGED scan
  /\ UNCHANGED <<sql, parameters>>

Plain ==
  /\ Scanning /\ sql[at] \notin {Quote, NameQuote, "?"}
  /\ ~Pair(at, "-", "-") /\ ~Pair(at, "/", "*")
  /\ Copy(at + 1)

\* Every value must have found its place.
Finished ==
  /\ scan = "scanning" /\ at = Last
  /\ scan' = (IF bound = Len(parameters) THEN "rendered" ELSE "raised")
  /\ UNCHANGED <<sql, parameters, at, out, bound>>

BindingNext == Quoted \/ LineComment \/ BlockComment \/ Placeholder \/ Plain \/ Finished

BindingSpec == BindingInit /\ [][BindingNext]_bindingVars

-----------------------------------------------------------------------------
\* How SQL reads a text, a character at a time and without looking back: what
\* encloses the character behind c, when in encloses c.  A doubled quote leaves a
\* string and enters it again.
Encloses(in, c, next) ==
  CASE in = "code"   -> (CASE c = Quote -> "string" [] c = NameQuote -> "name"
                           [] c = "-" /\ next = "-" -> "line"
                           [] c = "/" /\ next = "*" -> "opening"
                           [] OTHER -> "code")
    [] in = "string" -> IF c = Quote THEN "code" ELSE "string"
    [] in = "name"   -> IF c = NameQuote THEN "code" ELSE "name"
    [] in = "line"   -> IF c = Newline THEN "code" ELSE "line"
    [] in = "opening" -> "block"
    [] in = "block"  -> IF c = "*" THEN "star" ELSE "block"
    [] in = "star"   -> (CASE c = "/" -> "code" [] c = "*" -> "star" [] OTHER -> "block")

Reading(text) ==
  LET reading[n \in 1..Len(text) + 1] ==
        IF n = 1 THEN "code"
        ELSE Encloses(reading[n - 1], text[n - 1],
                      IF n <= Len(text) THEN text[n] ELSE Newline)
  IN reading

\* What render_literal makes of any value but a string reads as code to its end, and
\* makes no comment with what stands around it, but that a number may begin with "-".
StandsAlone(chars) ==
  /\ chars # <<>> /\ chars[1] # "*" /\ chars[Len(chars)] \notin {"-", "/"}
  /\ Reading(chars)[Len(chars) + 1] = "code"

ASSUME BindingAssumption ==
  /\ Quote \in Alphabet
  /\ Texts \subseteq Seq(Alphabet)
  /\ Parameters \subseteq Seq([kind : {"text", "plain"}, chars : Seq(Alphabet)])
  /\ \A values \in Parameters : \A n \in 1..Len(values) :
       values[n].kind = "plain" => StandsAlone(values[n].chars)

Places == LET reading == Reading(sql)
          IN {n \in 1..Len(sql) : sql[n] = "?" /\ reading[n] = "code"}

\* The first n characters, with a value in each place.
Expected(n) ==
  LET expected[k \in 0..Len(sql)] ==
        IF k = 0 THEN <<>>
        ELSE expected[k - 1] \o
             IF k \in Places THEN Literal(parameters[Cardinality({p \in Places : p <= k})])
                             ELSE <<sql[k]>>
  IN expected[n]

\* Each character of the text is read as it was before the values came in, and so
\* each value is read as one.
ReadsAlike ==
  \A n \in 0..Len(sql) : Reading(out)[Len(Expected(n)) + 1] = Reading(sql)[n + 1]

\* A place right behind a minus gets a negative number.
MinusMeetsMinus ==
  \E n \in Places : n > 1 /\ sql[n - 1] = "-" /\ out[Len(Expected(n - 1)) + 1] = "-"

-----------------------------------------------------------------------------
\* "`?` placeholders are only substituted when they appear at the top level, not
\* inside string literals, quoted identifiers, or comments", the count must fit, and
\* no value changes how the text around it is read (_params.py 7-10, 62-66), but for
\* a negative number behind a minus.
BoundAsWritten ==
  /\ scan = "rendered" =>
       /\ Len(parameters) = Cardinality(Places) /\ out = Expected(Len(sql))
       /\ MinusMeetsMinus \/ ReadsAlike
  /\ scan = "raised" => Len(parameters) # Cardinality(Places)

-----------------------------------------------------------------------------
\* What the repository says and the code does not do: TLC finds it violated.

\* "This is done safely: values are turned into typed SQL literals with proper
\* quoting/escaping" (_params.py 6-8): a value is read as a value.
ValuesStayValues == scan = "rendered" => ReadsAlike
=============================================================================
