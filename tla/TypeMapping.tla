------------------------------ MODULE TypeMapping ------------------------------
(***************************************************************************)
(* One row on its way from parameters to objects: Serializer binds the     *)
(* values of an INSERT, the columns store them by their affinity, and      *)
(* ResultMapper reads the row of a SELECT, column by column, through       *)
(* Deserializer into the fields of an object or the items of a collection. *)
(*                                                                         *)
(* A row that cannot be mapped stays the current row of its statement and  *)
(* may be fetched once more, as another type; the cells are by then what   *)
(* the first attempt has made of them.                                     *)
(*                                                                         *)
(* The integers keep their widths relative to each other, with far fewer   *)
(* bits: Half[c] is half of the number of values of the class c.           *)
(***************************************************************************)
EXTENDS SqliteValues, Sequences

CONSTANTS
  Half,     \* Half[c], for every integer class c
  Float32,  \* the numbers, in halves, that a float represents
  Rows,     \* the rows that are inserted
  Shapes    \* the types that a row is read as

Signed == {"Int8", "Int16", "Int32", "Int64"}
Unsigned == {"UInt8", "UInt16", "UInt32", "UInt64"}
IntClass == Signed \cup Unsigned

ASSUME WidthAssumption ==
  /\ HalfInt64 \in Nat \ {0}
  /\ Half \in [IntClass -> Nat \ {0}]
  /\ Half["Int64"] = HalfInt64 /\ Half["UInt64"] = HalfInt64
  /\ Half["UInt32"] = Half["Int32"] /\ 2 * Half["Int32"] <= HalfInt64
  /\ \A c \in {"Int8", "UInt8", "Int16", "UInt16"} : 2 * Half[c] <= Half["Int32"]
  /\ \A c \in IntClass : HalfInt64 % Half[c] = 0

(* "Any" is a value of any type, "Enum" and "NotNullEnum" are enums of the *)
(* Int32 values 0 and 1, "Custom" has an interpretation as String, and     *)
(* "Object" stands for the classes that have neither method nor            *)
(* interpretation.                                                         *)
Classes == IntClass \cup {"Boolean", "Float32", "Float64", "String", "Blob", "Any",
                          "Enum", "NotNullEnum", "Custom", "Object"}

(* A value of class c: its kind is "null", "number", "nan" or "text". *)
Value(c, kind, num, text) == [class |-> c, kind |-> kind, num |-> num, text |-> text]
NullOf(c) == Value(c, "null", 0, Word)
Number(c, num) == Value(c, "number", num, Word)
TextOf(c, text) == Value(c, "text", 0, text)

Lowest(c) == IF c \in Signed THEN -Half[c] ELSE 0
Highest(c) == IF c \in Signed THEN Half[c] - 1 ELSE 2 * Half[c] - 1

(* Does the number, in halves, fit into c? *)
Fits(num, c) == 2 * Lowest(c) <= num /\ num <= 2 * Highest(c)

(* An integer, in halves, is a whole number that fits its class. *)
IsInteger(value) == value.class \in IntClass /\ value.kind = "number"

ASSUME RowsAssumption ==
  \A r \in Rows :
    /\ Len(r) \in Nat /\ DOMAIN r = 1 .. Len(r)
    /\ \A i \in DOMAIN r :
         /\ r[i].affinity \in Affinities
         /\ r[i].value.class \in Classes
         /\ r[i].value.kind \in {"null", "nan", "number", "text"}
         /\ IsInteger(r[i].value) => /\ r[i].value.num \in Int /\ r[i].value.num % 2 = 0
                                    /\ Fits(r[i].value.num, r[i].value.class)

(* A value that a variable of its class can have. *)
IsValue(value) ==
  LET c == value.class IN
    \/ c \in Classes /\ value = NullOf(c)
    \/ value = Number(c, value.num) /\
         \/ c \in IntClass /\ value.num \in Int /\ value.num % 2 = 0 /\ Fits(value.num, c)
         \/ c \in {"Boolean", "Enum", "NotNullEnum"} /\ value.num \in {0, 2}
         \/ c = "Float32" /\ value.num \in Float32
         \/ c = "Float64" /\ value.num \in Float64
    \/ c \in {"Float32", "Float64"} /\ value = Value(c, "nan", 0, Word)
    \/ /\ c \in {"String", "Blob", "Custom"} /\ value = TextOf(c, value.text)
       /\ value.text = Text(value.text.form, value.text.num)
       /\ value.text.form \in Forms /\ value.text.num \in Int

ASSUME ValuesAssumption ==
  /\ Float32 \subseteq Float64 /\ Float64 \subseteq Int
  /\ \A r \in Rows : \A i \in DOMAIN r : IsValue(r[i].value)

(* The field that the selector of the polymorphic fields looks at has a    *)
(* type of its own.                                                        *)
ASSUME ShapesAssumption ==
  /\ Shapes # {}
  /\ \A s \in Shapes :
       IF s.kind = "object" THEN "tag" \in DOMAIN s.fields => s.fields["tag"] # "poly"
                            ELSE s.item \in Classes

VARIABLES
  row,     \* the columns: their values when they were bound, and affinities
  cells,   \* the columns as they stand in the row of the result
  phase,   \* "none", "refused", "stored", "reading" or "read"
  shape,   \* the type that the row is read as
  next,    \* the column that is read next
  later,   \* the columns of polymorphic fields, to be read in the end
  object,  \* what was read: a set of [col, as, poly, value]
  asText   \* the columns that held a blob and were read as String

vars == <<row, cells, phase, shape, next, later, object, asText>>

-----------------------------------------------------------------------------
(* Serializer *)

(* The C++ cast of an integer, in halves, to the class c. *)
Cast(num, c) == 2 * Lowest(c) + ((num - 2 * Lowest(c)) % (4 * Half[c]))

(* Any and custom classes have no method, NotNullEnum refuses null. *)
Refuses(value) ==
  \/ value.class \in {"Any", "Custom", "Object"}
  \/ value.class = "NotNullEnum" /\ value.kind = "null"

(* Mutant: UInt32 is bound with bind_int. *)
BoundAsNarrow(c) ==
  IF c \in {"Int64", "UInt64"} THEN "Int64" ELSE "Int32"

(* The integers of bind_int and bind_int64. *)
BoundAs(c) ==
  IF c \in {"UInt32", "Int64", "UInt64"} THEN "Int64" ELSE "Int32"

(* Mutant: a blob is bound as a text. *)
BindAllText(value) ==
  CASE value.kind \in {"null", "nan"} -> Null
    [] value.kind = "text" -> MemText(value.text)
    [] value.kind = "number" /\ value.class \in {"Float32", "Float64"} -> MemReal(value.num)
    [] value.kind = "number" /\ value.class \notin {"Float32", "Float64"} ->
         MemInt(Cast(value.num, BoundAs(value.class)))

(* sqlite3_bind_* of one value; a double that is no number is bound NULL. *)
Bind(value) ==
  CASE value.kind \in {"null", "nan"} -> Null
    [] value.kind = "text" /\ value.class = "Blob" -> MemBlob(value.text)
    [] value.kind = "text" /\ value.class # "Blob" -> MemText(value.text)
    [] value.kind = "number" /\ value.class \in {"Float32", "Float64"} -> MemReal(value.num)
    [] value.kind = "number" /\ value.class \notin {"Float32", "Float64"} ->
         MemInt(Cast(value.num, BoundAs(value.class)))

-----------------------------------------------------------------------------
(* Deserializer: each method gives the value and the cell it leaves. *)

Throw == Value("Void", "throw", 0, Word)

(* Mutant: the value is read with sqlite3_column_int. *)
IntegerOfInt(m, c) ==
  IF ColumnType(m) = "NULL" THEN NullOf(c)
  ELSE IF ColumnType(m) = "INTEGER" THEN Number(c, Cast(Cast(m.num, "Int32"), c)) ELSE Throw

(* deserializeInt *)
Integer(m, c) ==
  IF ColumnType(m) = "NULL" THEN NullOf(c)
  ELSE IF ColumnType(m) = "INTEGER" THEN Number(c, Cast(m.num, c)) ELSE Throw

(* deserializeInt of Boolean: the cast is a test for zero. *)
Boolean(m) ==
  IF ColumnType(m) = "NULL" THEN NullOf("Boolean")
  ELSE IF ColumnType(m) = "INTEGER" THEN Number("Boolean", IF m.num = 0 THEN 0 ELSE 2)
  ELSE Throw

(* deserializeFloat32 and deserializeFloat64 *)
Float(m, c) ==
  IF ColumnType(m) = "NULL" THEN NullOf(c)
  ELSE IF ColumnType(m) \in {"INTEGER", "FLOAT"}
  THEN Number(c, IF c = "Float32" THEN Nearest(Double(m), Float32) ELSE Double(m))
  ELSE Throw

(* deserializeString, deserializeBlob: NULL is a String for both. *)
Content(m, c) ==
  IF ColumnType(m) = "NULL" THEN NullOf("String") ELSE TextOf(c, WithText(m).text)

(* deserializeEnum *)
Enum(m, c) ==
  LET value == Integer(m, "Int32") IN
    IF value.kind = "null" THEN IF c = "NotNullEnum" THEN Throw ELSE NullOf(c)
    ELSE IF value.kind = "number" /\ value.num \in {0, 2} THEN Number(c, value.num)
    ELSE Throw

(* deserializeAny: the class that is read for a type of column. *)
AnyClass(m) ==
  CASE ColumnType(m) = "NULL"    -> "Any"
    [] ColumnType(m) = "TEXT"    -> "String"
    [] ColumnType(m) = "BLOB"    -> "Blob"
    [] ColumnType(m) = "INTEGER" -> "Int64"
    [] ColumnType(m) = "FLOAT"   -> "Float64"

(* The class whose method reads a cell as c. *)
MethodOf(m, c) ==
  CASE c = "Any"    -> AnyClass(m)
    [] c = "Custom" -> "String"
    [] OTHER        -> c

Method(m, c) ==
  CASE c \in IntClass                -> Integer(m, c)
    [] c = "Boolean"                 -> Boolean(m)
    [] c \in {"Float32", "Float64"}  -> Float(m, c)
    [] c \in {"String", "Blob"}      -> Content(m, c)
    [] c \in {"Enum", "NotNullEnum"} -> Enum(m, c)
    [] c = "Any"                     -> NullOf("Any")
    [] c = "Object"                  -> Throw

(* Deserializer::deserialize; fromInterpretation makes its own class of it. *)
Deserialize(m, c) ==
  LET value == Method(m, MethodOf(m, c))
  IN IF c = "Custom" THEN Value("Custom", value.kind, value.num, value.text) ELSE value

(* What is left of the cell. *)
Converted(m, c) ==
  IF ColumnType(m) = "NULL" THEN m
  ELSE IF MethodOf(m, c) = "String" THEN WithText(m)
  ELSE IF MethodOf(m, c) = "Blob" THEN WithBlob(m)
  ELSE m

-----------------------------------------------------------------------------
(* The row *)

TypeOK ==
  /\ row \in Rows \cup {<<>>}
  /\ DOMAIN cells \in {DOMAIN row, {}}
  /\ \A i \in DOMAIN cells : cells[i].rep \subseteq {"int", "real", "text", "blob"}
  /\ phase \in {"none", "refused", "stored", "reading", "read"}
  /\ shape \in Shapes
  /\ next \in 1 .. Len(row) + 1
  /\ later \in Seq(1 .. Len(row))
  /\ \A item \in object : /\ item.col \in 1 .. Len(row)
                          /\ item.as \in Classes
                          /\ item.value.class \in Classes
  /\ asText \subseteq 1 .. Len(row)

Init ==
  /\ row = <<>> /\ cells = <<>> /\ phase = "none"
  /\ shape = (CHOOSE s \in Shapes : TRUE)
  /\ next = 1 /\ later = <<>> /\ object = {} /\ asText = {}

(* bindParams and the step of an INSERT, and that of the SELECT behind it. *)
Insert(r) ==
  /\ phase = "none"
  /\ row' = r
  /\ IF \E i \in DOMAIN r : Refuses(r[i].value)
     THEN phase' = "refused" /\ cells' = <<>>
     ELSE /\ phase' = "stored"
          /\ cells' = [i \in DOMAIN r |-> Stored(Bind(r[i].value), r[i].affinity)]
  /\ UNCHANGED <<shape, next, later, object, asText>>

(* The row is done with. *)
Forget ==
  /\ phase \in {"refused", "read"}
  /\ row' = <<>> /\ cells' = <<>> /\ phase' = "none"
  /\ shape' = (CHOOSE s \in Shapes : TRUE)
  /\ next' = 1 /\ later' = <<>> /\ object' = {} /\ asText' = {}

(* readOneRow of the type s. *)
Begin(s) ==
  /\ phase = "stored"
  /\ phase' = "reading"
  /\ shape' = s
  /\ next' = 1 /\ later' = <<>> /\ object' = {}
  /\ UNCHANGED <<row, cells, asText>>

(* The class of the field, or of the items, for the column i; "poly" is an *)
(* Any field with a type selector, "none" an object without the field.     *)
ClassAt(i) ==
  IF shape.kind # "object" THEN shape.item
  ELSE IF row[i].name \in DOMAIN shape.fields THEN shape.fields[row[i].name] ELSE "none"

(* Mutant: the exception of a column is not passed on. *)
ReadAnyway(i, c, poly) ==
  LET value == Deserialize(cells[i], c) IN
    /\ phase' = phase
    /\ object' = object \cup {[col |-> i, as |-> c, poly |-> poly, value |-> value]}
    /\ cells' = [cells EXCEPT ![i] = Converted(@, c)]
    /\ asText' = IF cells[i].rep = {"blob"} /\ MethodOf(cells[i], c) = "String"
                 THEN asText \cup {i} ELSE asText

(* The column i is read as class c. *)
Read(i, c, poly) ==
  LET value == Deserialize(cells[i], c) IN
    /\ IF value = Throw THEN phase' = "stored" /\ object' = {}
       ELSE /\ phase' = phase
            /\ object' = object \cup {[col |-> i, as |-> c, poly |-> poly, value |-> value]}
    /\ cells' = [cells EXCEPT ![i] = Converted(@, c)]
    /\ asText' = IF cells[i].rep = {"blob"} /\ MethodOf(cells[i], c) = "String"
                 THEN asText \cup {i} ELSE asText

(* The value of a field: that of its last column, which sets it last. *)
Field(name) ==
  LET items == {item \in object : row[item.col].name = name}
  IN IF items = {} THEN NullOf("Any")
     ELSE (CHOOSE last \in items : \A item \in items : item.col <= last.col).value

(* External: the selector of the polymorphic fields looks at the field     *)
(* "tag" of the object.                                                    *)
SelectType == IF Field("tag").num > 0 THEN "String" ELSE "Int64"

(* Mutant: polymorphic fields are read in the order of the columns. *)
ReadColumnInOrder ==
  /\ phase = "reading"
  /\ next <= Len(row)
  /\ next' = next + 1
  /\ IF ClassAt(next) = "none"
     THEN phase' = "stored" /\ object' = {} /\ UNCHANGED <<cells, asText>>
     ELSE IF ClassAt(next) = "poly" THEN Read(next, SelectType, TRUE)
     ELSE Read(next, ClassAt(next), FALSE)
  /\ UNCHANGED <<row, shape, later>>

(* A turn of the loop over the columns, in readOneRowAsCollection, AsMap   *)
(* or AsObject.                                                            *)
ReadColumn ==
  /\ phase = "reading"
  /\ next <= Len(row)
  /\ next' = next + 1
  /\ \/ /\ ClassAt(next) = "none"
        /\ phase' = "stored" /\ object' = {}
        /\ UNCHANGED <<cells, later, asText>>
     \/ /\ ClassAt(next) = "poly"
        /\ later' = Append(later, next)
        /\ UNCHANGED <<cells, phase, object, asText>>
     \/ /\ ClassAt(next) \in Classes
        /\ Read(next, ClassAt(next), FALSE)
        /\ UNCHANGED later
  /\ UNCHANGED <<row, shape>>

(* A polymorphic field, read as the type that its selector finds in the    *)
(* object as it is then.                                                   *)
ReadLater ==
  /\ phase = "reading"
  /\ next > Len(row)
  /\ later # <<>>
  /\ later' = Tail(later)
  /\ Read(Head(later), SelectType, TRUE)
  /\ UNCHANGED <<row, shape, next>>

Finish ==
  /\ phase = "reading"
  /\ next > Len(row)
  /\ later = <<>>
  /\ phase' = "read"
  /\ UNCHANGED <<row, cells, shape, next, later, object, asText>>

Next ==
  \/ \E r \in Rows : Insert(r)
  \/ \E s \in Shapes : Begin(s)
  \/ ReadColumn \/ ReadLater \/ Finish \/ Forget

Spec == Init /\ [][Next]_vars

-----------------------------------------------------------------------------
Given(i) == row[i].value

(* A string that a column of numeric affinity makes a number of, and that  *)
(* SQLite would print otherwise.                                           *)
Respelled(given, affinity) ==
  /\ given.class = "String" /\ given.text.form # "word"
  /\ \/ affinity = "REAL"
     \/ affinity = "NUMERIC" /\ (given.text.form # "int" \/ ~Fits(given.text.num, "Int64"))

(* A value comes back as it was bound when it is read as its own class, or *)
(* the row throws; it never comes back as another value, whatever earlier  *)
(* attempts to map the row have read.  Excused are what SQLite changes,    *)
(* NaN and, in a column of numeric affinity, strings that spell a number   *)
(* otherwise than SQLite prints it or beyond 64 bits, and that             *)
(* deserializeBlob makes a String of NULL.                                 *)
RoundTrip ==
  \A item \in object :
    LET given    == Given(item.col)
        affinity == row[item.col].affinity
    IN item.as = given.class =>
         \/ item.value = given
         \/ given.kind = "nan" /\ item.value = NullOf(given.class)
         \/ given = NullOf("Blob") /\ item.value = NullOf("String")
         \/ Respelled(given, affinity)

(* An integer that is read as another class of integers is the same when   *)
(* it fits; one that does not is cut to the width of the class, and no one *)
(* is told (deserializeInt).                                               *)
IntegersThatFit ==
  \A item \in object :
    LET given == Given(item.col) IN
      IsInteger(given) /\ item.as \in IntClass =>
        item.value = Number(item.as, IF Fits(given.num, item.as) THEN given.num
                                     ELSE Cast(given.num, item.as))

(* Where a value is bound as and what Any makes of it. *)
StorageClass(c) ==
  IF c \in {"String", "Blob"} THEN c
  ELSE IF c \in {"Float32", "Float64"} THEN "Float64" ELSE "Int64"

(* Any finds the content of a column without affinity and the class it was *)
(* stored as: it forgets widths and signs, takes an UInt64 of 2^63 and     *)
(* more for negative, and takes a blob for a String when an earlier        *)
(* attempt to map the row has read it as one.                              *)
AnyKeepsContent ==
  \A item \in object :
    LET given == Given(item.col) IN
      /\ item.as = "Any" /\ ~item.poly /\ row[item.col].affinity = "BLOB"
      /\ given.kind \in {"number", "text"}
      => /\ item.value.class = (IF item.col \in asText THEN "String"
                                ELSE StorageClass(given.class))
         /\ item.value.kind = given.kind
         /\ item.value.text = given.text
         /\ (item.value.num = given.num \/ ~Fits(given.num, "Int64"))

(* A polymorphic field has the type that its selector finds in the whole   *)
(* object, wherever the columns of the two stand (readOneRowAsObject).     *)
SelectorSeesAll ==
  phase = "read" => \A item \in object : item.poly => item.as = SelectType

(* Integers of one class are in the same order in the file as in the       *)
(* program, where SQLite sorts and compares them; the exception is UInt64  *)
(* from 2^63 on, which comes before zero (serializeUInt64).                *)
OrderKept ==
  \A i, j \in DOMAIN cells :
    LET a == Given(i)
        b == Given(j)
    IN /\ IsInteger(a) /\ IsInteger(b) /\ a.class = b.class /\ a.num < b.num
       /\ {row[i].affinity, row[j].affinity} \subseteq {"BLOB", "NUMERIC"}
       => ((cells[i].num < cells[j].num) <=> (Fits(a.num, "Int64") <=> Fits(b.num, "Int64")))
=============================================================================
