--------------------------- MODULE QueryParameters ---------------------------
(***************************************************************************)
(* From the template to the parameters of the statement: format puts "?"   *)
(* for every variable, SQLite numbers the parameters it finds in the text, *)
(* and bindParams binds the value of variable i to parameter i.            *)
(*                                                                         *)
(* "a" is a letter here: the parameters "?1", "?2" of SQLite are left out. *)
(***************************************************************************)
EXTENDS QueryTemplate

(* Mutant: a variable stays in the text under its name. *)
NamedPlaceholder(v) == SubSeq(out, v.posStart, v.posEnd)

(* TemplateValueProvider::getValue *)
Placeholder(v) == <<"?">>

(* StringTemplate::format: the text up to and without each variable. *)
Formatted(count) ==
  LET from(i) == IF i = 1 THEN 1 ELSE variables[i - 1].posEnd + 1
      part(i) == SubSeq(out, from(i), variables[i].posStart - 1)
      upTo[i \in 0 .. Len(variables)] ==
        IF i = 0 THEN <<>> ELSE upTo[i - 1] \o part(i) \o Placeholder(variables[i])
  IN  upTo[count]

PreparedTemplate ==
  Formatted(Len(variables))
    \o (IF variables = <<>> THEN out ELSE SubSeq(out, Last(variables).posEnd + 1, Len(out)))

(* Where the placeholder of the variable i begins. *)
PlaceholderAt(i) == Len(Formatted(i)) - Len(Placeholder(variables[i])) + 1

-----------------------------------------------------------------------------
(* SQLite *)

(* Behind the parameter ":a" at p; "::" may be part of its name. *)
NameEnd(t, p) ==
  LET end[q \in 1 .. Len(t) + 1] ==
        IF q > Len(t) THEN q
        ELSE IF t[q] = "a" THEN end[q + 1]
        ELSE IF IsAtText(t, q, <<":", ":">>) THEN end[q + 2]
        ELSE q
  IN  end[p + 1]

(* The tokens that are parameters, in the order of the text; a string that *)
(* does not end is the last token, and an error.                           *)
ParameterTokens(t) ==
  LET Token(p, end) == <<[at |-> p, name |-> SubSeq(t, p, end - 1)]>>
      tokens[p \in 1 .. Len(t) + 1] ==
        IF p > Len(t) THEN <<>>
        ELSE CASE t[p] = "?" -> Token(p, p + 1) \o tokens[p + 1]
               [] t[p] = ":" -> Token(p, NameEnd(t, p)) \o tokens[NameEnd(t, p)]
               [] t[p] = "'" -> IF QuotesEnd(t, p) = Unterminated THEN <<>>
                                ELSE tokens[QuotesEnd(t, p)]
               [] OTHER      -> tokens[p + 1]
  IN  tokens[1]

(* A colon without a name is no token, and the text does not compile. *)
Compiles(tokens) ==
  \A token \in ToSet(tokens) : Head(token.name) = ":" => "a" \in ToSet(token.name)

(* The number of the k-th of the tokens: every "?" takes a new number, a   *)
(* name takes one when it is new.                                          *)
ParameterNumber(tokens, k) ==
  LET anonymous(j) == Cardinality({i \in 1 .. j : tokens[i].name = <<"?">>})
      names(j) == {tokens[i].name : i \in 1 .. j} \ {<<"?">>}
      first == Min({j \in 1 .. k : tokens[j].name = tokens[k].name})
      taken == IF tokens[k].name = <<"?">> THEN k ELSE first
  IN  anonymous(taken) + Cardinality(names(taken))

-----------------------------------------------------------------------------
(* The value of variable i goes to the "?" that stands for it, also when a *)
(* name occurs twice, exactly if the text has no parameter of its own      *)
(* before it: a "?" or, in a clean section, a ":a".  Those shift all the   *)
(* values behind them, and nobody is told.  As in VariablesFound, for      *)
(* texts without dollar quotes and glued sections.                         *)
BoundInPlace ==
  phase = "done" /\ "$" \notin ToSet(out) /\ (\A s \in ToSet(cleanSections) : ~Glued(s))
    => LET tokens == ParameterTokens(PreparedTemplate)
           own == {PlaceholderAt(i) : i \in DOMAIN variables}
       IN  Compiles(tokens) =>
             \A i \in DOMAIN variables :
               \E k \in DOMAIN tokens :
                 /\ tokens[k].at = PlaceholderAt(i)
                 /\ (ParameterNumber(tokens, k) = i) <=> (\A j \in 1 .. k : tokens[j].at \in own)
=============================================================================
