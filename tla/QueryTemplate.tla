---------------------------- MODULE QueryTemplate ----------------------------
(***************************************************************************)
(* From the text of a query to the template that Executor prepares: Parser *)
(* scans the text twice.  preprocess takes out the markers <!! and !!> of  *)
(* clean sections and notes where the sections are; parseTemplate scans    *)
(* what is left, skips the sections and collects the variables.  One       *)
(* action is one turn of a loop.  parseQueryParameter is a function.       *)
(*                                                                         *)
(* A text is a sequence of characters; positions count from 1 here, from 0 *)
(* in the code.  Caret is the Oat++ scanner: an error stops its loop.      *)
(***************************************************************************)
EXTENDS Naturals, Sequences, SequencesExt, FiniteSetsExt, FiniteSets

CONSTANT Texts  \* the queries

(* "a" stands for every letter, digit and underscore, " " for every        *)
(* character that means nothing to the scanners.                           *)
Char == {"a", ".", " ", ":", "?", "'", "$", "<", "!", ">"}

ASSUME TextsAssumption == Texts \subseteq Seq(Char)

VARIABLES
  text,          \* the query
  phase,         \* which loop runs, or how parseTemplate ended
  pos,           \* the position of the caret
  out,           \* the text without its markers
  cleanSections, \* position and size of the clean sections in out
  sectionStart,  \* where in out the open section began, NoSection if none is
  currSection,   \* the section to skip next
  variables,     \* posStart and posEnd of the variables found in out
  strings,       \* history: the strings in out that the first loop has copied
  stopped        \* history: the last of them does not end

vars == <<text, phase, pos, out, cleanSections, sectionStart, currSection,
          variables, strings, stopped>>

NoSection == 0
Unterminated == 0

Interval == [posStart : Nat, posEnd : Nat]

TypeOK ==
  /\ text \in Seq(Char)
  /\ phase \in {"preprocess", "parse", "done", "failed"}
  /\ pos \in Nat \ {0}
  /\ out \in Seq(Char)
  /\ cleanSections \in Seq([position : Nat \ {0}, size : Nat])
  /\ sectionStart \in Nat
  /\ currSection \in 1 .. Len(cleanSections) + 1
  /\ variables \in Seq(Interval)
  /\ strings \subseteq Interval
  /\ stopped \in BOOLEAN

Init ==
  /\ text \in Texts
  /\ phase = "preprocess"
  /\ pos = 1
  /\ out = <<>>
  /\ cleanSections = <<>>
  /\ sectionStart = NoSection
  /\ currSection = 1
  /\ variables = <<>>
  /\ strings = {}
  /\ stopped = FALSE

-----------------------------------------------------------------------------
(* Caret *)

IsAtText(t, p, word) ==
  p + Len(word) <= Len(t) + 1 /\ SubSeq(t, p, p + Len(word) - 1) = word

FindChar(t, p, c) == Min({q \in p .. Len(t) : t[q] = c} \cup {Len(t) + 1})

(* The number of quotes from p to before q. *)
Quotes(t, p, q) == Cardinality({i \in p .. q - 1 : t[i] = "'"})

(* Behind the quoted strings at p; one that follows another at once is     *)
(* taken for the same string with a quote in it.                           *)
QuotesEnd(t, p) ==
  LET ends == {q \in p + 1 .. Len(t) + 1 :
                 /\ t[q - 1] = "'" /\ Quotes(t, p, q) % 2 = 0
                 /\ q > Len(t) \/ t[q] # "'"}
  IN  IF ends = {} THEN Unterminated ELSE Min(ends)

(* Behind the dollar quoted string at p, which ends at the next copy of    *)
(* the tag that it begins with.                                            *)
DollarsEnd(t, p) ==
  LET open == FindChar(t, p + 1, "$")
      tag  == SubSeq(t, p + 1, open)
      ends == {q \in open + 1 .. Len(t) : t[q] = "$" /\ IsAtText(t, q + 1, tag)}
  IN  IF open > Len(t) \/ ends = {} THEN Unterminated
      ELSE Min(ends) + 1 + Len(tag)

StringEnd(t, p) == IF t[p] = "'" THEN QuotesEnd(t, p) ELSE DollarsEnd(t, p)

-----------------------------------------------------------------------------
(* preprocess *)

OpenMark  == <<"<", "!", "!">>
CloseMark == <<"!", "!", ">">>

Opens  == sectionStart = NoSection /\ IsAtText(text, pos, OpenMark)
Closes == sectionStart # NoSection /\ IsAtText(text, pos, CloseMark)

Preprocessing == phase = "preprocess" /\ pos <= Len(text)

(* A string is copied as it is, in a section as outside.  When it does not *)
(* end, the caret is at the end of the text with an error that nobody      *)
(* looks at.                                                               *)
CopyString ==
  /\ Preprocessing
  /\ text[pos] \in {"'", "$"}
  /\ LET end  == StringEnd(text, pos)
         next == IF end = Unterminated THEN Len(text) + 1 ELSE end
     IN  /\ out' = out \o SubSeq(text, pos, next - 1)
         /\ pos' = next
         /\ strings' = strings \cup
                         {[posStart |-> Len(out) + 1, posEnd |-> Len(out) + next - pos]}
         /\ stopped' = (end = Unterminated)
  /\ UNCHANGED <<text, phase, cleanSections, sectionStart, currSection, variables>>

(* Mutant: a section is where the caret is in the text with the markers. *)
OpenSectionAtCaret ==
  /\ Preprocessing
  /\ Opens
  /\ sectionStart' = pos
  /\ pos' = pos + Len(OpenMark)
  /\ UNCHANGED <<text, phase, out, cleanSections, currSection, variables, strings, stopped>>

OpenSection ==
  /\ Preprocessing
  /\ Opens
  /\ sectionStart' = Len(out) + 1
  /\ pos' = pos + Len(OpenMark)
  /\ UNCHANGED <<text, phase, out, cleanSections, currSection, variables, strings, stopped>>

(* Mutant: the last character of a section is not counted. *)
CloseSectionShort ==
  /\ Preprocessing
  /\ Closes
  /\ cleanSections' = Append(cleanSections,
       [position |-> sectionStart, size |-> Len(out) - sectionStart])
  /\ sectionStart' = NoSection
  /\ pos' = pos + Len(CloseMark)
  /\ UNCHANGED <<text, phase, out, currSection, variables, strings, stopped>>

CloseSection ==
  /\ Preprocessing
  /\ Closes
  /\ cleanSections' = Append(cleanSections,
       [position |-> sectionStart, size |-> Len(out) + 1 - sectionStart])
  /\ sectionStart' = NoSection
  /\ pos' = pos + Len(CloseMark)
  /\ UNCHANGED <<text, phase, out, currSection, variables, strings, stopped>>

(* Mutant: a "!" that closes no section is not stepped over. *)
CopyCharWaits ==
  /\ Preprocessing
  /\ text[pos] \notin {"'", "$"}
  /\ ~Opens /\ ~Closes
  /\ text[pos] # "!"
  /\ out' = Append(out, text[pos])
  /\ pos' = pos + 1
  /\ UNCHANGED <<text, phase, cleanSections, sectionStart, currSection, variables, strings, stopped>>

CopyChar ==
  /\ Preprocessing
  /\ text[pos] \notin {"'", "$"}
  /\ ~Opens /\ ~Closes
  /\ out' = Append(out, text[pos])
  /\ pos' = pos + 1
  /\ UNCHANGED <<text, phase, cleanSections, sectionStart, currSection, variables, strings, stopped>>

(* A section that is still open is forgotten; a new caret has no error. *)
Preprocessed ==
  /\ phase = "preprocess" /\ pos > Len(text)
  /\ phase' = "parse"
  /\ pos' = 1
  /\ UNCHANGED <<text, out, cleanSections, sectionStart, currSection, variables, strings, stopped>>

-----------------------------------------------------------------------------
(* parseTemplate *)

Parsing == phase = "parse" /\ pos <= Len(out)

AtSection ==
  /\ currSection <= Len(cleanSections)
  /\ cleanSections[currSection].position = pos

(* Mutant: the next section is never looked for. *)
SkipSectionOnce ==
  /\ Parsing
  /\ AtSection
  /\ pos' = pos + cleanSections[currSection].size
  /\ currSection' = Len(cleanSections) + 1
  /\ UNCHANGED <<text, phase, out, cleanSections, sectionStart, variables, strings, stopped>>

SkipSection ==
  /\ Parsing
  /\ AtSection
  /\ pos' = pos + cleanSections[currSection].size
  /\ currSection' = currSection + 1
  /\ UNCHANGED <<text, phase, out, cleanSections, sectionStart, variables, strings, stopped>>

IdChar == {"a", "."}

IdentifierEnd(p) == Min({q \in p .. Len(out) : out[q] \notin IdChar} \cup {Len(out) + 1})

(* parseIdentifier; a name may be empty. *)
ParseIdentifier ==
  /\ Parsing /\ ~AtSection
  /\ out[pos] = ":"
  /\ LET end == IdentifierEnd(pos + 1)
     IN  /\ variables' = Append(variables, [posStart |-> pos, posEnd |-> end - 1])
         /\ pos' = end
  /\ UNCHANGED <<text, phase, out, cleanSections, sectionStart, currSection, strings, stopped>>

(* Mutant: a string that does not end is taken to the end of the text. *)
SkipStringToEnd ==
  /\ Parsing /\ ~AtSection
  /\ out[pos] \in {"'", "$"}
  /\ LET end == StringEnd(out, pos)
     IN  pos' = IF end = Unterminated THEN Len(out) + 1 ELSE end
  /\ UNCHANGED <<text, phase, out, cleanSections, sectionStart, currSection, variables, strings, stopped>>

(* A string that does not end is a ParsingError. *)
SkipString ==
  /\ Parsing /\ ~AtSection
  /\ out[pos] \in {"'", "$"}
  /\ LET end == StringEnd(out, pos)
     IN  \/ end = Unterminated /\ phase' = "failed" /\ UNCHANGED pos
         \/ end # Unterminated /\ pos' = end /\ UNCHANGED phase
  /\ UNCHANGED <<text, out, cleanSections, sectionStart, currSection, variables, strings, stopped>>

SkipChar ==
  /\ Parsing /\ ~AtSection
  /\ out[pos] \notin {":", "'", "$"}
  /\ pos' = pos + 1
  /\ UNCHANGED <<text, phase, out, cleanSections, sectionStart, currSection, variables, strings, stopped>>

Parsed ==
  /\ phase = "parse" /\ pos > Len(out)
  /\ phase' = "done"
  /\ UNCHANGED <<text, pos, out, cleanSections, sectionStart, currSection, variables, strings, stopped>>

Next ==
  \/ CopyString \/ OpenSection \/ CloseSection \/ CopyChar \/ Preprocessed
  \/ SkipSection \/ ParseIdentifier \/ SkipString \/ SkipChar \/ Parsed

(* The loops run on: nothing in them waits. *)
Spec == Init /\ [][Next]_vars /\ WF_vars(Next)

-----------------------------------------------------------------------------
(* parseQueryParameter *)

(* Mutant: the dot at the end of a property name is kept with the next. *)
PathKeepsDot(name, from) ==
  LET labels[p \in 1 .. Len(name) + 1] ==
        LET dot == FindChar(name, p + 1, ".")
        IN  <<SubSeq(name, p, dot - 1)>>
              \o (IF dot <= Len(name) THEN labels[dot] ELSE <<>>)
  IN labels[from]

Path(name, from) ==
  LET labels[p \in 1 .. Len(name) + 1] ==
        LET dot == FindChar(name, p, ".")
        IN  <<SubSeq(name, p, dot - 1)>>
              \o (IF dot <= Len(name) THEN labels[dot + 1] ELSE <<>>)
  IN labels[from]

QueryParameter(name) ==
  LET dot == FindChar(name, 1, ".")
  IN  [name |-> SubSeq(name, 1, dot - 1),
       propertyPath |-> IF dot < Len(name) THEN Path(name, dot + 1) ELSE <<>>]

-----------------------------------------------------------------------------
(* The markers that were taken out of the text, and where the j-th of them *)
(* would be put back into out.                                             *)
Marks == 2 * Len(cleanSections) + (IF sectionStart = NoSection THEN 0 ELSE 1)

MarkAt(j) ==
  LET k == (j + 1) \div 2
  IN  IF k > Len(cleanSections) THEN sectionStart
      ELSE cleanSections[k].position + (IF j % 2 = 1 THEN 0 ELSE cleanSections[k].size)

MarkOf(j) == IF j % 2 = 1 THEN OpenMark ELSE CloseMark

(* Nothing is lost and nothing is in the wrong place: the text read so far *)
(* is out with a marker at each end of each section, where the positions   *)
(* say, the last section being open perhaps (preprocess).                  *)
OnlyMarkersRemoved ==
  /\ Len(out) + 3 * Marks = IF phase = "preprocess" THEN pos - 1 ELSE Len(text)
  /\ \A j \in 1 .. Marks :
       /\ (IF j = 1 THEN 1 ELSE MarkAt(j - 1)) <= MarkAt(j) /\ MarkAt(j) <= Len(out) + 1
       /\ IsAtText(text, MarkAt(j) + 3 * (j - 1), MarkOf(j))
  /\ \A p \in DOMAIN out, j \in 0 .. Marks :
       (j = 0 \/ MarkAt(j) <= p) /\ (j = Marks \/ p < MarkAt(j + 1)) => out[p] = text[p + 3 * j]

(* preprocess drops the error of a string that does not end; parseTemplate *)
(* reports it nevertheless, and no other, although the two scan different  *)
(* texts.                                                                  *)
ErrorReported ==
  /\ phase = "done"   => ~stopped
  /\ phase = "failed" => stopped

(* A clean section is glued to what is before it where only its marker     *)
(* ended an identifier or a string.                                        *)
Glued(s) ==
  /\ s.position \in 2 .. Len(out)
  /\ \/ out[s.position - 1] \in IdChar \cup {":"} /\ out[s.position] \in IdChar
     \/ out[s.position - 1] = "'" /\ out[s.position] = "'"

Within(p, s) == p \in s.position .. s.position + s.size - 1

Quoted(p) == Quotes(out, 1, p) % 2 = 1

(* The variables are the colons outside of quotes and clean sections, each *)
(* with all the identifier behind it, in the order of the text, to which   *)
(* bindParams binds by index; for texts without dollar quotes or a section *)
(* that is glued to what is before it.                                     *)
VariablesFound ==
  phase = "done" /\ "$" \notin ToSet(out) /\ (\A s \in ToSet(cleanSections) : ~Glued(s))
    => LET starts == {p \in DOMAIN out : /\ out[p] = ":"
                                         /\ ~Quoted(p)
                                         /\ \A s \in ToSet(cleanSections) : ~Within(p, s)}
           end(p) == Max({q \in p .. Len(out) : \A r \in p + 1 .. q : out[r] \in IdChar})
       IN  /\ ToSet(variables) = {[posStart |-> p, posEnd |-> end(p)] : p \in starts}
           /\ \A i, j \in DOMAIN variables :
                i < j => variables[i].posStart < variables[j].posStart

(* The text of a clean section is left as it is: no variable is in it.     *)
SectionsAreRaw ==
  phase = "done" =>
    \A v \in ToSet(variables), s \in ToSet(cleanSections) : ~Within(v.posStart, s)

(* The number of dots from p to before q. *)
Dots(t, p, q) == Cardinality({i \in p .. q - 1 : t[i] = "."})

(* A parameter name and its property path are what is between the dots of  *)
(* the name of the variable, all of it and in its order, unless the first  *)
(* dot is the last character (parseQueryParameter, for bindParams).        *)
PathIsName ==
  phase = "done" =>
    \A v \in ToSet(variables) :
      LET name == SubSeq(out, v.posStart + 1, v.posEnd)
          param == QueryParameter(name)
          labels == <<param.name>> \o param.propertyPath
      IN  FindChar(name, 1, ".") # Len(name)
            => /\ Len(labels) = 1 + Dots(name, 1, Len(name) + 1)
               /\ \A p \in 1 .. Len(name) + 1 :
                    p = 1 \/ name[p - 1] = "." =>
                      labels[1 + Dots(name, 1, p)] = SubSeq(name, p, FindChar(name, p, ".") - 1)

(* Both loops come to an end, whatever the text. *)
ScanEnds == <>(phase \in {"done", "failed"})
=============================================================================
