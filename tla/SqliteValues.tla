----------------------------- MODULE SqliteValues -----------------------------
(***************************************************************************)
(* The values of SQLite as the type mapping meets them: what a bound value *)
(* becomes in a column of a given affinity, and what the sqlite3_column_   *)
(* functions make of it, the conversions in place included.                *)
(*                                                                         *)
(* Numbers are counted in halves, so that 2 is the number 1 and 3 is 1.5:  *)
(* whole numbers and fractions are all that conversions tell apart.  A     *)
(* text is a spelling of a number or a word.                               *)
(***************************************************************************)
EXTENDS Integers

CONSTANTS
  HalfInt64,  \* an integer is 64 bits wide: from -HalfInt64 to HalfInt64 - 1
  Float64     \* the numbers, in halves, that a double represents

(* "int" and "real" are the spellings that SQLite prints, "digits" and     *)
(* "decimal" are all others of whole numbers and of numbers with a point.  *)
Forms == {"word", "int", "digits", "real", "decimal"}
Text(form, num) == [form |-> form, num |-> num]
Word == Text("word", 0)

(* A Mem: the representations that are valid, MEM_Int, MEM_Real, MEM_Str,  *)
(* MEM_Blob, none for NULL.                                                *)
Mem(rep, num, text) == [rep |-> rep, num |-> num, text |-> text]
Null == Mem({}, 0, Word)
MemInt(num) == Mem({"int"}, num, Word)
MemReal(num) == Mem({"real"}, num, Word)
MemText(text) == Mem({"text"}, 0, text)
MemBlob(text) == Mem({"blob"}, 0, text)

Distance(a, b) == IF a < b THEN b - a ELSE a - b

(* The number of a format that is closest to num; a tie goes to one side. *)
Nearest(num, format) ==
  CHOOSE n \in format : \A o \in format : Distance(num, n) <= Distance(num, o)

-----------------------------------------------------------------------------
(* Storing *)

(* The text of a number. *)
Stringify(m) == Text(IF "int" \in m.rep THEN "int" ELSE "real", m.num)

(* A double that is a whole number, short of the two ends of the integers. *)
IntegerAffinity(num) ==
  IF num % 2 = 0 /\ -2 * HalfInt64 < num /\ num < 2 * (HalfInt64 - 1)
  THEN MemInt(num) ELSE MemReal(num)

(* A text that spells a number becomes that number. *)
NumberOf(text) ==
  IF /\ text.form \in {"int", "digits"}
     /\ -2 * HalfInt64 <= text.num /\ text.num <= 2 * (HalfInt64 - 1)
  THEN MemInt(text.num) ELSE IntegerAffinity(Nearest(text.num, Float64))

Numeric(m) ==
  IF "int" \in m.rep THEN m
  ELSE IF "real" \in m.rep THEN IntegerAffinity(m.num)
  ELSE IF "text" \in m.rep /\ m.text.form # "word" THEN NumberOf(m.text)
  ELSE m

Real(m) == IF "int" \in m.rep THEN MemReal(Nearest(m.num, Float64)) ELSE m

(* A value on its way into a column and out again: "BLOB" is a column of   *)
(* no type, "NUMERIC" stands for the affinity INTEGER as well.             *)
Affinities == {"BLOB", "TEXT", "NUMERIC", "REAL"}

Stored(m, affinity) ==
  CASE affinity = "BLOB"    -> m
    [] affinity = "TEXT"    -> IF m.rep \cap {"int", "real"} = {} THEN m
                               ELSE MemText(Stringify(m))
    [] affinity = "NUMERIC" -> Numeric(m)
    [] affinity = "REAL"    -> Real(Numeric(m))

-----------------------------------------------------------------------------
(* Reading *)

(* sqlite3_column_type: a number with a text is still a number, a blob     *)
(* that has been read as a text is a text.                                 *)
ColumnType(m) ==
  CASE m.rep = {}                                     -> "NULL"
    [] "int" \in m.rep                                -> "INTEGER"
    [] "real" \in m.rep /\ "int" \notin m.rep         -> "FLOAT"
    [] "text" \in m.rep /\ m.rep \cap {"int", "real"} = {} -> "TEXT"
    [] m.rep = {"blob"}                               -> "BLOB"

(* What sqlite3_column_text and sqlite3_column_blob leave in the cell. *)
WithText(m) ==
  Mem(m.rep \cup {"text"}, m.num,
      IF m.rep \cap {"text", "blob"} = {} THEN Stringify(m) ELSE m.text)

WithBlob(m) ==
  IF m.rep \cap {"text", "blob"} = {} THEN WithText(m)
  ELSE Mem(m.rep \cup {"blob"}, m.num, m.text)

Double(m) == Nearest(m.num, Float64)
=============================================================================
