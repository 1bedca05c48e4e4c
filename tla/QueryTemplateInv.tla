---------------------------- MODULE QueryTemplateInv ----------------------------
(***************************************************************************)
(* The inductive invariant behind the properties of QueryTemplate.         *)
(***************************************************************************)
EXTENDS QueryTemplate

(* Where a string of out ends if nothing came behind it.                   *)
EndOf(s) == StringEnd(SubSeq(out, 1, s.posEnd), s.posStart)

Inside(p, s) == p \in s.posStart .. s.posEnd

(* The strings that were copied lie apart, hold all the quotes of out, and *)
(* each ends where its own quotes say; only the last may not end at all.   *)
StringsInv ==
  /\ \A s \in strings :
       /\ s.posStart \in DOMAIN out /\ s.posStart <= s.posEnd /\ s.posEnd <= Len(out)
       /\ out[s.posStart] \in {"'", "$"}
       /\ EndOf(s) = s.posEnd + 1 \/ (stopped /\ s.posEnd = Len(out) /\ EndOf(s) = Unterminated)
  /\ \A s, z \in strings : s = z \/ s.posEnd < z.posStart \/ z.posEnd < s.posStart
  /\ \A p \in DOMAIN out : out[p] \in {"'", "$"} => \E s \in strings : Inside(p, s)
  /\ stopped => \E s \in strings : EndOf(s) = Unterminated

(* A position that no string and no end of a string lies across. *)
Clear(p) ==
  \A s \in strings : p <= s.posStart \/ (s.posEnd < p /\ EndOf(s) # Unterminated)

(* Sections follow one another and cut no string.                          *)
SectionEnd(k) == cleanSections[k].position + cleanSections[k].size

SectionsInv ==
  /\ \A k \in DOMAIN cleanSections :
       /\ SectionEnd(k) <= (IF sectionStart = NoSection THEN Len(out) + 1 ELSE sectionStart)
       /\ Clear(cleanSections[k].position) /\ Clear(SectionEnd(k))
       /\ \A l \in DOMAIN cleanSections : k < l => SectionEnd(k) <= cleanSections[l].position
  /\ sectionStart # NoSection => sectionStart <= Len(out) + 1 /\ Clear(sectionStart)

(* The two loops stand between strings. *)
CaretInv ==
  /\ phase = "preprocess" =>
       /\ pos <= Len(text) + 1
       /\ stopped => pos = Len(text) + 1
       /\ currSection = 1 /\ variables = <<>>
  /\ phase # "preprocess" => pos <= Len(out) + 1
  /\ phase \in {"parse", "done"} => Clear(pos)
  /\ phase = "done" => pos = Len(out) + 1
  /\ phase = "failed" => stopped

(* An even number of quotes is before p. *)
Even(p) == Quotes(out, 1, p) % 2 = 0

NoDollars == "$" \notin ToSet(out)

ParityInv ==
  NoDollars =>
    /\ \A k \in DOMAIN cleanSections : Even(cleanSections[k].position) /\ Even(SectionEnd(k))
    /\ sectionStart # NoSection => Even(sectionStart)
    /\ phase = "preprocess" /\ ~stopped => Even(Len(out) + 1)
    /\ phase \in {"parse", "done"} => Even(pos)

(* The variables are those that VariablesFound means, as far as the second *)
(* loop has come; the sections that it has not skipped are before it.      *)
Starts(p) == out[p] = ":" /\ ~Quoted(p) /\ \A s \in ToSet(cleanSections) : ~Within(p, s)

VariableAt(p) ==
  [posStart |-> p, posEnd |-> Max({q \in p .. Len(out) : \A r \in p + 1 .. q : out[r] \in IdChar})]

NoneGlued == \A s \in ToSet(cleanSections) : ~Glued(s)

VariablesInv ==
  NoDollars /\ NoneGlued /\ phase \in {"parse", "done"} =>
    /\ \A k \in DOMAIN cleanSections :
         IF k < currSection THEN SectionEnd(k) <= pos ELSE pos <= cleanSections[k].position
    /\ ToSet(variables) = {VariableAt(p) : p \in {q \in 1 .. pos - 1 : Starts(q)}}
    /\ \A i, j \in DOMAIN variables : i < j => variables[i].posStart < variables[j].posStart

(* Every variable is a piece of out. *)
IdentifiersInv ==
  \A i \in DOMAIN variables :
    /\ 1 <= variables[i].posStart /\ variables[i].posStart <= variables[i].posEnd
    /\ variables[i].posEnd <= Len(out)

(* Between two turns of Parser's loops: what was copied, where strings and *)
(* sections are in it, and what was found so far fit one another; the      *)
(* second scan can meet no section inside a string.                        *)
ScanInv ==
  /\ TypeOK
  /\ OnlyMarkersRemoved
  /\ StringsInv
  /\ SectionsInv
  /\ CaretInv
  /\ ParityInv
  /\ VariablesInv
  /\ IdentifiersInv
=============================================================================
