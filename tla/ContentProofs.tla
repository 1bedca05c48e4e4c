----------------------------- MODULE ContentProofs -----------------------------
(***************************************************************************)
(* Values of every class come back as they were bound, and a polymorphic   *)
(* field has the type that its selector finds in the whole object: for all *)
(* widths of the integers, all formats of the floating point numbers, all  *)
(* rows and all types that they are read as, one after the other.          *)
(***************************************************************************)
EXTENDS TypeMappingProofs

-----------------------------------------------------------------------------
(* Numbers *)

(* A number of a format is not rounded. *)
LEMMA NearestSelf ==
  ASSUME NEW format, format \subseteq Int, NEW num \in format
  PROVE  Nearest(num, format) = num
<1> DEFINE P(n) == \A o \in format : Distance(num, n) <= Distance(num, o)
<1>1. Distance(num, num) = 0 /\ \A o \in format : 0 <= Distance(num, o)
  BY DEF Distance
<1>2. num \in format /\ P(num)
  BY <1>1
<1>3. Nearest(num, format) = CHOOSE n \in format : P(n)
  BY DEF Nearest
<1>4. Nearest(num, format) \in format /\ P(Nearest(num, format))
  BY <1>2, <1>3
<1> DEFINE n == Nearest(num, format)
<1> HIDE DEF n
<1>5. n \in Int /\ num \in Int /\ Distance(num, n) <= 0
  BY <1>1, <1>4 DEF n
<1>6. n = num
  BY <1>5 DEF Distance
<1>7. QED
  BY <1>6 DEF n

(* False and true, and the two values of the enum, fit every cast. *)
LEMMA CastOfTruth ==
  ASSUME NEW num \in {0, 2}, NEW c \in {"Int32", "Int64"}
  PROVE  Cast(num, c) = num
<1>1. c \in IntClass /\ "Int32" \in IntClass /\ "Int8" \in IntClass
  BY DEF IntClass, Signed
<1>2. /\ Half["Int8"] \in Nat \ {0} /\ 2 * Half["Int8"] <= Half["Int32"]
      /\ Half["Int32"] \in Nat \ {0} /\ 2 * Half["Int32"] <= HalfInt64
      /\ Half["Int64"] = HalfInt64 /\ HalfInt64 \in Nat
  BY <1>1, WidthAssumption
<1>3. Half[c] \in Nat /\ 2 <= Half[c]
  BY <1>2
<1>4. Lowest(c) = -Half[c] /\ Highest(c) = Half[c] - 1
  BY DEF Lowest, Highest, Signed
<1>5. Fits(num, c)
  BY <1>3, <1>4 DEF Fits
<1>6. num \in Int /\ num % 2 = 0
  OBVIOUS
<1>7. QED
  BY <1>1, <1>5, <1>6, CastOfFitting

-----------------------------------------------------------------------------
(* The values *)

(* The shapes of a value that is not refused. *)
LEMMA ValueCases ==
  ASSUME NEW value, IsValue(value), ~Refuses(value)
  PROVE  \/ value.kind \in {"null", "nan"}
         \/ /\ value.kind = "number" /\ value.class \in {"Float32", "Float64"}
            /\ value.num \in Float64 /\ value.num \in Int
            /\ value.class = "Float32" => value.num \in Float32
         \/ /\ value.kind = "number" /\ value.class \in IntClass
            /\ value.num \in Int /\ value.num % 2 = 0 /\ Fits(value.num, value.class)
         \/ /\ value.kind = "number" /\ value.class \in {"Boolean", "Enum", "NotNullEnum"}
            /\ value.num \in {0, 2}
         \/ /\ value.kind = "text" /\ value.class \in {"String", "Blob"}
            /\ value.text = Text(value.text.form, value.text.num)
            /\ value.text.form \in Forms /\ value.text.num \in Int
<1>1. IsValue(value)
  OBVIOUS
<1>2. CASE value = NullOf(value.class)
  BY <1>2 DEF NullOf, Value
<1>3. CASE value = Value(value.class, "nan", 0, Word)
  BY <1>3 DEF Value
<1>4. CASE value = TextOf(value.class, value.text) /\ value.class \in {"String", "Blob", "Custom"}
  BY <1>1, <1>4 DEF IsValue, TextOf, NullOf, Number, Value, Refuses
<1>5. CASE value = Number(value.class, value.num) /\ value.class \in {"Float32", "Float64"}
  BY <1>1, <1>5, ValuesAssumption
     DEF IsValue, TextOf, NullOf, Number, Value, IntClass, Signed, Unsigned
<1>6. CASE value = Number(value.class, value.num) /\ value.class \notin {"Float32", "Float64"}
  BY <1>1, <1>6 DEF IsValue, TextOf, NullOf, Number, Value, Refuses
<1>7. QED
  BY <1>1, <1>2, <1>3, <1>4, <1>5, <1>6 DEF IsValue

(* Numbers of class Boolean and of the enums, and integers, are bound as   *)
(* their 64 bits.                                                          *)
LEMMA BoundNumber ==
  ASSUME NEW value, IsValue(value), ~Refuses(value), value.kind = "number",
         value.class \notin {"Float32", "Float64"}
  PROVE  Bind(value) = MemInt(Cast(value.num, "Int64"))
<1>1. Bind(value) = MemInt(Cast(value.num, BoundAs(value.class)))
  BY DEF Bind
<1>2. CASE value.class \in IntClass
  BY <1>1, <1>2, ValueCases, BoundIsCast DEF IsInteger, IntClass, Signed, Unsigned
<1>3. CASE value.class \notin IntClass
  <2>1. value.num \in {0, 2} /\ value.class \notin {"UInt32", "Int64", "UInt64"}
    BY <1>3, ValueCases DEF IntClass, Signed, Unsigned
  <2>2. BoundAs(value.class) = "Int32"
    BY <2>1 DEF BoundAs
  <2>3. QED
    BY <1>1, <2>1, <2>2, CastOfTruth
<1>4. QED
  BY <1>2, <1>3

LEMMA StoredNumber ==
  ASSUME NEW num, NEW affinity \in Affinities
  PROVE  LET m == Stored(MemInt(num), affinity) IN
           /\ m.rep # {} /\ "blob" \notin m.rep
           /\ affinity = "BLOB" => "int" \in m.rep
           /\ "int" \in m.rep => "real" \notin m.rep /\ m.num = num
<1> DEFINE m == MemInt(num)
<1>1. m.rep = {"int"} /\ m.num = num
  BY DEF MemInt, Mem
<1> HIDE DEF m
<1>2. Numeric(m) = m /\ Real(m).rep = {"real"}
  BY <1>1 DEF Numeric, Real, MemReal, Mem
<1>3. affinity = "TEXT" => Stored(m, affinity).rep = {"text"}
  BY <1>1 DEF Stored, MemText, Mem
<1>4. affinity \in {"BLOB", "NUMERIC"} => Stored(m, affinity) = m
  BY <1>2 DEF Stored
<1>5. affinity = "REAL" => Stored(m, affinity).rep = {"real"}
  BY <1>2 DEF Stored
<1>6. QED
  BY <1>1, <1>3, <1>4, <1>5 DEF Affinities, m

LEMMA StoredDouble ==
  ASSUME NEW num \in Float64, NEW affinity \in Affinities
  PROVE  LET m == Stored(MemReal(num), affinity) IN
           /\ m.rep # {} /\ "blob" \notin m.rep
           /\ affinity = "BLOB" => m.rep = {"real"}
           /\ m.rep \cap {"int", "real"} # {} => m.num = num
<1> DEFINE m == MemReal(num)
<1>1. m.rep = {"real"} /\ m.num = num
  BY DEF MemReal, Mem
<1>2. IntegerAffinity(num).rep \in {{"int"}, {"real"}} /\ IntegerAffinity(num).num = num
  BY DEF IntegerAffinity, MemInt, MemReal, Mem
<1> HIDE DEF m
<1>3. Numeric(m).rep \in {{"int"}, {"real"}} /\ Numeric(m).num = num
  BY <1>1, <1>2 DEF Numeric
<1>4. Nearest(num, Float64) = num
  BY NearestSelf, ValuesAssumption
<1>5. Real(Numeric(m)).rep = {"real"} /\ Real(Numeric(m)).num = num
  BY <1>3, <1>4 DEF Real, MemReal, Mem
<1>6. affinity = "TEXT" => Stored(m, affinity).rep = {"text"}
  BY <1>1 DEF Stored, MemText, Mem
<1>7. affinity = "BLOB" => Stored(m, affinity) = m
  BY DEF Stored
<1>8. affinity = "NUMERIC" => Stored(m, affinity) = Numeric(m)
  BY DEF Stored
<1>9. affinity = "REAL" => Stored(m, affinity) = Real(Numeric(m))
  BY DEF Stored
<1>10. QED
  BY <1>1, <1>3, <1>5, <1>6, <1>7, <1>8, <1>9 DEF Affinities, m

(* A text of a column of numeric affinity either stays a text or is a      *)
(* number, and the integer that SQLite prints as this text if it is not    *)
(* respelled.                                                              *)
LEMMA StoredString ==
  ASSUME NEW given, given.class = "String", given.kind = "text",
         given.text = Text(given.text.form, given.text.num),
         given.text.form \in Forms, given.text.num \in Int,
         NEW affinity \in Affinities
  PROVE  LET m == Stored(MemText(given.text), affinity) IN
           /\ m.rep \in {{"text"}, {"int"}, {"real"}}
           /\ ~Respelled(given, affinity) =>
                \/ m.rep = {"text"} /\ m.text = given.text
                \/ m.rep = {"int"} /\ affinity # "BLOB" /\ given.text = Text("int", m.num)
<1> DEFINE t == given.text
           m == MemText(t)
<1>1. m.rep = {"text"} /\ m.text = t
  BY DEF MemText, Mem
<1>2. \A num : IntegerAffinity(num).rep \in {{"int"}, {"real"}}
  BY DEF IntegerAffinity, MemInt, MemReal, Mem
<1>3. NumberOf(t).rep \in {{"int"}, {"real"}}
  BY <1>2 DEF NumberOf, MemInt, Mem
<1>4. t.form = "int" /\ Fits(t.num, "Int64") => NumberOf(t).rep = {"int"} /\ NumberOf(t).num = t.num
  <2>1. /\ Lowest("Int64") = -HalfInt64 /\ Highest("Int64") = HalfInt64 - 1
        /\ HalfInt64 \in Nat
    BY WidthAssumption DEF Lowest, Highest, Signed
  <2>2. Fits(t.num, "Int64") => -2 * HalfInt64 <= t.num /\ t.num <= 2 * (HalfInt64 - 1)
    BY <2>1 DEF Fits
  <2>3. QED
    BY <2>2 DEF NumberOf, MemInt, Mem
<1> HIDE DEF m
<1>5. IF t.form = "word" THEN Numeric(m) = m ELSE Numeric(m) = NumberOf(t)
  BY <1>1 DEF Numeric
<1>6. affinity \in {"BLOB", "TEXT"} => Stored(m, affinity) = m
  BY <1>1 DEF Stored
<1>7. affinity = "NUMERIC" => Stored(m, affinity) = Numeric(m)
  BY DEF Stored
<1>8. affinity = "REAL" => Stored(m, affinity) = Real(Numeric(m))
  BY DEF Stored
<1>9. Real(m) = m /\ Real(NumberOf(t)).rep = {"real"}
  BY <1>1, <1>3 DEF Real, MemReal, Mem
<1>10. CASE affinity \in {"BLOB", "TEXT"}
  BY <1>1, <1>6, <1>10 DEF m
<1>11. CASE affinity = "NUMERIC"
  <2>1. ~Respelled(given, affinity) => t.form = "word" \/ (t.form = "int" /\ Fits(t.num, "Int64"))
    BY <1>11 DEF Respelled
  <2>2. QED
    BY <1>1, <1>3, <1>4, <1>5, <1>7, <1>11, <2>1 DEF m
<1>12. CASE affinity = "REAL"
  <2>1. ~Respelled(given, affinity) => t.form = "word"
    BY <1>12 DEF Respelled
  <2>2. QED
    BY <1>1, <1>5, <1>8, <1>9, <1>12, <2>1 DEF m
<1>13. QED
  BY <1>10, <1>11, <1>12 DEF Affinities

(* What a column stores is what a cell holds of the value.                 *)
LEMMA StoredHolds ==
  ASSUME NEW value, IsValue(value), ~Refuses(value), NEW affinity \in Affinities
  PROVE  Holds(Stored(Bind(value), affinity), value, affinity, FALSE)
<1> DEFINE m == Stored(Bind(value), affinity)
<1>1. CASE value.kind \in {"null", "nan"}
  <2>1. Bind(value) = Null
    BY <1>1 DEF Bind
  <2>2. Null.rep = {}
    BY DEF Null, Mem
  <2>3. Numeric(Null) = Null /\ Real(Null) = Null
    BY <2>2 DEF Numeric, Real
  <2>4. Stored(Null, affinity) = Null
    BY <2>2, <2>3 DEF Stored, Affinities
  <2>5. m.rep = {}
    BY <2>1, <2>2, <2>4
  <2> HIDE DEF m
  <2>6. QED
    BY <1>1, <2>5 DEF Holds, m
<1>2. CASE value.kind = "number" /\ value.class \in {"Float32", "Float64"}
  <2>1. Bind(value) = MemReal(value.num) /\ value.num \in Float64
    BY <1>2, ValueCases DEF Bind, IntClass, Signed, Unsigned
  <2>2. /\ m.rep # {} /\ "blob" \notin m.rep
        /\ affinity = "BLOB" => m.rep = {"real"}
        /\ m.rep \cap {"int", "real"} # {} => m.num = value.num
    BY <2>1, StoredDouble
  <2> HIDE DEF m
  <2>3. QED
    BY <1>2, <2>2 DEF Holds, m
<1>3. CASE value.kind = "number" /\ value.class \notin {"Float32", "Float64"}
  <2>1. Bind(value) = MemInt(Cast(value.num, "Int64"))
    BY <1>3, BoundNumber
  <2>2. value.class # "Blob"
    BY <1>3, ValueCases DEF IntClass, Signed, Unsigned
  <2>3. /\ m.rep # {} /\ "blob" \notin m.rep
        /\ affinity = "BLOB" => "int" \in m.rep
        /\ "int" \in m.rep => "real" \notin m.rep /\ m.num = Cast(value.num, "Int64")
    BY <2>1, StoredNumber
  <2> HIDE DEF m
  <2>4. QED
    BY <1>3, <2>2, <2>3 DEF Holds, m
<1>4. CASE value.kind = "text" /\ value.class = "Blob"
  <2>1. Bind(value) = MemBlob(value.text)
    BY <1>4 DEF Bind
  <2>2. MemBlob(value.text).rep = {"blob"} /\ MemBlob(value.text).text = value.text
    BY DEF MemBlob, Mem
  <2>3. Numeric(MemBlob(value.text)) = MemBlob(value.text)
    BY <2>2 DEF Numeric
  <2>4. Real(MemBlob(value.text)) = MemBlob(value.text)
    BY <2>2 DEF Real
  <2>5. m = MemBlob(value.text)
    BY <2>1, <2>2, <2>3, <2>4 DEF Stored, Affinities
  <2>6. m.rep = {"blob"} /\ m.text = value.text
    BY <2>2, <2>5
  <2> HIDE DEF m
  <2>7. QED
    BY <1>4, <2>6 DEF Holds, m
<1>5. CASE value.kind = "text" /\ value.class # "Blob"
  <2>1. /\ value.class = "String"
        /\ value.text = Text(value.text.form, value.text.num)
        /\ value.text.form \in Forms /\ value.text.num \in Int
    BY <1>5, ValueCases
  <2>2. Bind(value) = MemText(value.text)
    BY <1>5 DEF Bind
  <2>3. /\ m.rep \in {{"text"}, {"int"}, {"real"}}
        /\ ~Respelled(value, affinity) =>
             \/ m.rep = {"text"} /\ m.text = value.text
             \/ m.rep = {"int"} /\ affinity # "BLOB" /\ value.text = Text("int", m.num)
    BY <1>5, <2>1, <2>2, StoredString
  <2> HIDE DEF m
  <2>4. QED
    BY <1>5, <2>1, <2>3 DEF Holds, m
<1>6. QED
  BY <1>1, <1>2, <1>3, <1>4, <1>5, ValueCases

-----------------------------------------------------------------------------
(* The cells *)

LEMMA TypeOfColumn ==
  ASSUME NEW m, m.rep \in Reps
  PROVE  /\ ColumnType(m) = "NULL" <=> m.rep = {}
         /\ ColumnType(m) = "INTEGER" <=> "int" \in m.rep
         /\ ColumnType(m) = "FLOAT" <=> "real" \in m.rep /\ "int" \notin m.rep
         /\ ColumnType(m) = "TEXT" <=> "text" \in m.rep /\ m.rep \cap {"int", "real"} = {}
         /\ ColumnType(m) = "BLOB" <=> m.rep = {"blob"}
<1>1. CASE m.rep = {}
  BY <1>1 DEF ColumnType
<1>2. CASE "int" \in m.rep
  BY <1>2 DEF ColumnType
<1>3. CASE "real" \in m.rep /\ "int" \notin m.rep
  BY <1>3 DEF ColumnType
<1>4. CASE "text" \in m.rep /\ m.rep \cap {"int", "real"} = {}
  BY <1>4 DEF ColumnType
<1>5. CASE m.rep = {"blob"}
  BY <1>5 DEF ColumnType
<1>6. QED
  BY <1>1, <1>2, <1>3, <1>4, <1>5 DEF Reps

(* The forms of a cell that has been read. *)
LEMMA ConvertedCases ==
  ASSUME NEW m, m.rep \in Reps, NEW c
  PROVE  LET w == Converted(m, c) IN
           \/ w = m /\ ~(m.rep = {"blob"} /\ MethodOf(m, c) = "String")
           \/ /\ m.rep # {} /\ w.rep = m.rep \cup {"text"} /\ w.num = m.num
              /\ IF m.rep \cap {"text", "blob"} = {} THEN w.text = Stringify(m)
                 ELSE w.text = m.text /\ MethodOf(m, c) = "String"
           \/ /\ m.rep # {} /\ w.rep = m.rep \cup {"blob"} /\ w.num = m.num /\ w.text = m.text
              /\ m.rep \cap {"text", "blob"} # {} /\ MethodOf(m, c) # "String"
<1>1. m.rep \cap {"text", "blob"} = {} => m.rep # {"blob"}
  OBVIOUS
<1>2. CASE m.rep = {}
  BY <1>2, TypeOfColumn DEF Converted
<1>3. CASE m.rep # {} /\ MethodOf(m, c) = "String"
  BY <1>3, TypeOfColumn DEF Converted, WithText, Mem
<1>4. CASE m.rep # {} /\ MethodOf(m, c) = "Blob"
  BY <1>1, <1>4, TypeOfColumn DEF Converted, WithText, WithBlob, Mem
<1>5. CASE m.rep # {} /\ MethodOf(m, c) \notin {"String", "Blob"}
  BY <1>5, TypeOfColumn DEF Converted
<1>6. QED
  BY <1>2, <1>3, <1>4, <1>5

(* A cell holds its value whatever it is read as. *)
LEMMA ConvertedHolds ==
  ASSUME NEW m, m.rep \in Reps, NEW given, NEW affinity, NEW readAsText \in BOOLEAN, NEW c,
         IsValue(given), Holds(m, given, affinity, readAsText)
  PROVE  Holds(Converted(m, c), given, affinity,
               readAsText \/ (m.rep = {"blob"} /\ MethodOf(m, c) = "String"))
<1> DEFINE w == Converted(m, c)
           now == readAsText \/ (m.rep = {"blob"} /\ MethodOf(m, c) = "String")
<1> HIDE DEF w
<1>1. \/ w = m /\ ~(m.rep = {"blob"} /\ MethodOf(m, c) = "String")
      \/ /\ m.rep # {} /\ w.rep = m.rep \cup {"text"} /\ w.num = m.num
         /\ IF m.rep \cap {"text", "blob"} = {} THEN w.text = Stringify(m)
            ELSE w.text = m.text /\ MethodOf(m, c) = "String"
      \/ /\ m.rep # {} /\ w.rep = m.rep \cup {"blob"} /\ w.num = m.num /\ w.text = m.text
         /\ m.rep \cap {"text", "blob"} # {} /\ MethodOf(m, c) # "String"
  BY ConvertedCases DEF w
<1>2. m.rep \subseteq {"int", "real", "text", "blob"}
  BY DEF Reps
<1>3. /\ w.rep = {} <=> m.rep = {}
      /\ w.rep \cap {"int", "real"} = m.rep \cap {"int", "real"}
      /\ "int" \in w.rep <=> "int" \in m.rep
      /\ "real" \in w.rep <=> "real" \in m.rep
      /\ "text" \in m.rep => "text" \in w.rep
      /\ w.num = m.num
      /\ m.rep # {"blob"} => w.rep # {"blob"}
      /\ m.rep \cap {"text", "blob"} # {} => w.text = m.text
  BY <1>1, <1>2
<1>4. /\ ~Refuses(given)
      /\ m.rep = {} <=> given.kind \in {"null", "nan"}
      /\ given.class # "Blob" => m.rep # {"blob"}
      /\ readAsText <=> given.class = "Blob" /\ "text" \in m.rep
  BY DEF Holds
<1>5. given.class = "Blob" => given.kind \in {"null", "nan", "text"}
  BY <1>4, ValueCases DEF IntClass, Signed, Unsigned
<1>6. now <=> given.class = "Blob" /\ "text" \in w.rep
  <2>1. CASE given.class # "Blob"
    BY <1>4, <2>1
  <2>2. CASE given.class = "Blob" /\ m.rep = {}
    BY <1>3, <1>4, <2>2
  <2>3. CASE given.class = "Blob" /\ m.rep # {}
    <3>1. given.kind = "text"
      BY <1>4, <1>5, <2>3
    <3>2. m.rep \cap {"int", "real"} = {}
      BY <2>3, <3>1 DEF Holds
    <3>3. m.rep \cap {"text", "blob"} # {} /\ ("text" \notin m.rep => m.rep = {"blob"})
      BY <1>2, <2>3, <3>2
    <3>4. QED
      BY <1>1, <1>4, <2>3, <3>3
  <2>4. QED
    BY <2>1, <2>2, <2>3
<1>7. given.kind = "number" /\ given.class \in {"Float32", "Float64"} =>
        /\ w.rep \cap {"int", "real"} # {} => w.num = given.num
        /\ affinity = "BLOB" => w.rep \cap {"int", "real"} = {"real"}
  BY <1>3 DEF Holds
<1>8. given.kind = "number" /\ given.class \notin {"Float32", "Float64"} =>
        /\ "int" \in w.rep => "real" \notin w.rep /\ w.num = Cast(given.num, "Int64")
        /\ affinity = "BLOB" => "int" \in w.rep
  BY <1>3 DEF Holds
<1>9. given.kind = "text" /\ given.class = "Blob" =>
        w.rep \cap {"int", "real"} = {} /\ w.text = given.text
  <2> SUFFICES ASSUME given.kind = "text", given.class = "Blob"
               PROVE  w.rep \cap {"int", "real"} = {} /\ w.text = given.text
    OBVIOUS
  <2>1. m.rep \cap {"int", "real"} = {} /\ m.text = given.text /\ m.rep # {}
    BY DEF Holds
  <2>2. m.rep \cap {"text", "blob"} # {}
    BY <1>2, <2>1
  <2>3. QED
    BY <1>3, <2>1, <2>2
<1>10. given.kind = "text" /\ given.class = "String" /\ ~Respelled(given, affinity) =>
         \/ w.rep \cap {"int", "real"} = {} /\ "text" \in w.rep /\ w.text = given.text
         \/ /\ w.rep \cap {"int", "real"} = {"int"} /\ affinity # "BLOB"
            /\ given.text = Text("int", w.num)
            /\ w.rep \cap {"text", "blob"} # {} => w.text = given.text
  <2> SUFFICES ASSUME given.kind = "text", given.class = "String", ~Respelled(given, affinity)
               PROVE  \/ w.rep \cap {"int", "real"} = {} /\ "text" \in w.rep /\ w.text = given.text
                      \/ /\ w.rep \cap {"int", "real"} = {"int"} /\ affinity # "BLOB"
                         /\ given.text = Text("int", w.num)
                         /\ w.rep \cap {"text", "blob"} # {} => w.text = given.text
    OBVIOUS
  <2>1. CASE m.rep \cap {"int", "real"} = {} /\ "text" \in m.rep /\ m.text = given.text
    BY <1>3, <2>1
  <2>2. CASE /\ m.rep \cap {"int", "real"} = {"int"} /\ affinity # "BLOB"
             /\ given.text = Text("int", m.num)
             /\ m.rep \cap {"text", "blob"} # {} => m.text = given.text
    <3>1. Stringify(m) = given.text
      BY <2>2 DEF Stringify
    <3>2. w.rep \cap {"text", "blob"} # {} => w.text = given.text
      BY <1>1, <1>3, <2>2, <3>1
    <3>3. QED
      BY <1>3, <2>2, <3>2
  <2>3. QED
    BY <2>1, <2>2 DEF Holds
<1> HIDE DEF now
<1>11. Holds(w, given, affinity, now)
  BY <1>3, <1>4, <1>6, <1>7, <1>8, <1>9, <1>10 DEF Holds
<1>12. QED
  BY <1>11 DEF w, now

-----------------------------------------------------------------------------
(* What is read *)

(* The value of a cell, read as its own class, is what RoundTrip says. *)
LEMMA ReadBack ==
  ASSUME NEW m, m.rep \in Reps, NEW given, NEW affinity, NEW readAsText,
         IsValue(given), Holds(m, given, affinity, readAsText),
         Deserialize(m, given.class) # Throw
  PROVE  \/ Deserialize(m, given.class) = given
         \/ given.kind = "nan" /\ Deserialize(m, given.class) = NullOf(given.class)
         \/ given = NullOf("Blob") /\ Deserialize(m, given.class) = NullOf("String")
         \/ Respelled(given, affinity)
<1> DEFINE c == given.class
           value == Deserialize(m, c)
<1>1. ~Refuses(given) /\ (m.rep = {} <=> given.kind \in {"null", "nan"})
  BY DEF Holds
<1>2. c \notin {"Any", "Custom", "Object"} /\ value = Method(m, c)
  BY <1>1 DEF Refuses, Deserialize, MethodOf
<1>3. /\ ColumnType(m) = "NULL" <=> m.rep = {}
      /\ ColumnType(m) = "INTEGER" <=> "int" \in m.rep
      /\ ColumnType(m) = "FLOAT" <=> "real" \in m.rep /\ "int" \notin m.rep
  BY TypeOfColumn
<1>4. /\ c \in IntClass => value = Integer(m, c)
      /\ c = "Boolean" => value = Boolean(m)
      /\ c \in {"Float32", "Float64"} => value = Float(m, c)
      /\ c \in {"String", "Blob"} => value = Content(m, c)
      /\ c \in {"Enum", "NotNullEnum"} => value = Enum(m, c)
  BY <1>2 DEF Method, IntClass, Signed, Unsigned
<1>5. CASE given.kind = "null"
  <2>1. given = NullOf(c) /\ c \in Classes
    BY <1>5 DEF IsValue, NullOf, Number, TextOf, Value
  <2>2. ColumnType(m) = "NULL" /\ c # "NotNullEnum"
    BY <1>1, <1>3, <1>5 DEF Refuses
  <2>3. Integer(m, "Int32").kind = "null"
    BY <2>2 DEF Integer, NullOf, Value
  <2>4. QED
    BY <1>2, <1>4, <2>1, <2>2, <2>3 DEF Integer, Boolean, Float, Content, Enum, Classes
<1>6. CASE given.kind = "nan"
  <2>1. c \in {"Float32", "Float64"}
    BY <1>6 DEF IsValue, NullOf, Number, TextOf, Value
  <2>2. QED
    BY <1>1, <1>3, <1>4, <1>6, <2>1 DEF Float
<1>7. CASE given.kind = "number"
  <2>1. given = Number(c, given.num) /\ m.rep # {}
    BY <1>1, <1>7 DEF IsValue, NullOf, Number, TextOf, Value
  <2>2. CASE c \in IntClass
    <3>1. given.num \in Int /\ given.num % 2 = 0 /\ Fits(given.num, c)
      BY <1>1, <1>7, <2>2, ValueCases DEF IntClass, Signed, Unsigned
    <3>2. "int" \in m.rep => "real" \notin m.rep /\ m.num = Cast(given.num, "Int64")
      BY <1>7, <2>2 DEF Holds, IntClass, Signed, Unsigned
    <3>3. value = Number(c, given.num)
      BY <2>1, <2>2, <3>1, <3>2, ReadInteger
    <3>4. QED
      BY <2>1, <3>3
  <2>3. CASE c \in {"Boolean", "Enum", "NotNullEnum"}
    <3>1. given.num \in {0, 2}
      BY <1>1, <1>7, <2>3, ValueCases DEF IntClass, Signed, Unsigned
    <3>2. "int" \in m.rep => m.num = given.num
      BY <1>7, <2>3, <3>1, CastOfTruth DEF Holds
    <3>3. Integer(m, "Int32") \in {Throw, Number("Int32", given.num)}
      BY <1>3, <2>1, <3>1, <3>2, CastOfTruth DEF Integer
    <3>4. /\ Number("Int32", given.num).kind = "number" /\ Number("Int32", given.num).num = given.num
          /\ Throw.kind = "throw"
      BY DEF Number, Value, Throw
    <3>5. c # "Boolean" => value \in {Throw, Number(c, given.num)}
      BY <1>4, <2>3, <3>3, <3>4 DEF Enum
    <3>6. c = "Boolean" => value \in {Throw, Number(c, given.num)}
      BY <1>3, <1>4, <2>1, <3>1, <3>2 DEF Boolean
    <3>7. QED
      BY <2>1, <3>5, <3>6
  <2>4. CASE c \in {"Float32", "Float64"}
    <3>1. given.num \in Float64 /\ (c = "Float32" => given.num \in Float32)
      BY <1>1, <1>7, <2>4, ValueCases DEF IntClass, Signed, Unsigned
    <3>2. Nearest(given.num, Float64) = given.num
      BY <3>1, NearestSelf, ValuesAssumption
    <3>3. c = "Float32" => Nearest(given.num, Float32) = given.num
      BY <3>1, NearestSelf, ValuesAssumption
    <3>4. m.rep \cap {"int", "real"} # {} => m.num = given.num
      BY <1>7, <2>4 DEF Holds
    <3>5. value = Number(c, given.num)
      BY <1>3, <1>4, <2>1, <2>4, <3>2, <3>3, <3>4 DEF Float, Double
    <3>6. QED
      BY <2>1, <3>5
  <2>5. QED
    BY <1>1, <1>7, <2>2, <2>3, <2>4, ValueCases
<1>8. CASE given.kind = "text"
  <2>1. given = TextOf(c, given.text) /\ m.rep # {} /\ c \in {"String", "Blob"}
    BY <1>1, <1>2, <1>8 DEF IsValue, NullOf, Number, TextOf, Value
  <2>2. value = TextOf(c, WithText(m).text)
    BY <1>3, <1>4, <2>1 DEF Content
  <2>3. CASE c = "Blob"
    <3>1. m.rep \cap {"int", "real"} = {} /\ m.text = given.text
      BY <1>8, <2>3 DEF Holds
    <3>2. m.rep \cap {"text", "blob"} # {}
      BY <2>1, <3>1 DEF Reps
    <3>3. QED
      BY <2>1, <2>2, <3>1, <3>2 DEF WithText, Mem
  <2>4. CASE c = "String" /\ ~Respelled(given, affinity)
    <3>1. CASE "text" \in m.rep /\ m.text = given.text
      BY <2>1, <2>2, <3>1 DEF WithText, Mem
    <3>2. CASE /\ m.rep \cap {"int", "real"} = {"int"} /\ given.text = Text("int", m.num)
               /\ m.rep \cap {"text", "blob"} # {} => m.text = given.text
      <4>1. Stringify(m) = given.text
        BY <3>2 DEF Stringify
      <4>2. QED
        BY <2>1, <2>2, <3>2, <4>1 DEF WithText, Mem
    <3>3. QED
      BY <1>8, <2>4, <3>1, <3>2 DEF Holds
  <2>5. QED
    BY <2>1, <2>3, <2>4
<1>9. QED
  BY <1>1, <1>5, <1>6, <1>7, <1>8, ValueCases

(* Any reads a column of no affinity as AnyKeepsContent says. *)
LEMMA ReadAny ==
  ASSUME NEW m, m.rep \in Reps, NEW given, NEW readAsText,
         IsValue(given), Holds(m, given, "BLOB", readAsText),
         given.kind \in {"number", "text"}
  PROVE  LET value == Deserialize(m, "Any") IN
           /\ value.class = IF readAsText THEN "String" ELSE StorageClass(given.class)
           /\ value.kind = given.kind
           /\ value.text = given.text
           /\ value.num = given.num \/ ~Fits(given.num, "Int64")
           /\ ~(m.rep = {"blob"} /\ MethodOf(m, "Any") = "String")
<1> DEFINE value == Deserialize(m, "Any")
<1>1. /\ ~Refuses(given) /\ m.rep # {}
      /\ readAsText <=> given.class = "Blob" /\ "text" \in m.rep
      /\ given.class # "Blob" => m.rep # {"blob"}
  BY DEF Holds
<1>2. /\ ColumnType(m) = "NULL" <=> m.rep = {}
      /\ ColumnType(m) = "INTEGER" <=> "int" \in m.rep
      /\ ColumnType(m) = "FLOAT" <=> "real" \in m.rep /\ "int" \notin m.rep
      /\ ColumnType(m) = "TEXT" <=> "text" \in m.rep /\ m.rep \cap {"int", "real"} = {}
      /\ ColumnType(m) = "BLOB" <=> m.rep = {"blob"}
  BY TypeOfColumn
<1>3. MethodOf(m, "Any") = AnyClass(m) /\ value = Method(m, AnyClass(m))
  BY DEF Deserialize, MethodOf
<1>4. CASE given.kind = "number" /\ given.class \in {"Float32", "Float64"}
  <2>1. ColumnType(m) = "FLOAT" /\ m.num = given.num
    BY <1>2, <1>4 DEF Holds
  <2>2. given.num \in Float64 /\ given = Number(given.class, given.num)
    BY <1>1, <1>4, ValueCases
       DEF IntClass, Signed, Unsigned, IsValue, NullOf, Number, TextOf, Value
  <2>3. Nearest(given.num, Float64) = given.num
    BY <2>2, NearestSelf, ValuesAssumption
  <2>4. AnyClass(m) = "Float64"
    BY <2>1 DEF AnyClass
  <2>5. value = Number("Float64", given.num)
    BY <1>3, <2>1, <2>3, <2>4 DEF Method, Float, Double, IntClass, Signed, Unsigned
  <2>6. StorageClass(given.class) = "Float64"
    BY <1>4 DEF StorageClass
  <2>7. QED
    BY <1>1, <1>3, <1>4, <2>2, <2>4, <2>5, <2>6 DEF Number, Value
<1>5. CASE given.kind = "number" /\ given.class \notin {"Float32", "Float64"}
  <2>1. ColumnType(m) = "INTEGER" /\ m.num = Cast(given.num, "Int64")
    BY <1>2, <1>5 DEF Holds
  <2>2. given = Number(given.class, given.num) /\ given.class \notin {"String", "Blob"}
    BY <1>5 DEF IsValue, NullOf, Number, TextOf, Value, IntClass, Signed, Unsigned
  <2>3. given.num \in Int /\ given.num % 2 = 0
    BY <1>1, <1>5, ValueCases
  <2>4. AnyClass(m) = "Int64" /\ "Int64" \in IntClass
    BY <2>1 DEF AnyClass, IntClass, Signed
  <2>5. value = Number("Int64", Cast(given.num, "Int64"))
    BY <1>3, <2>1, <2>3, <2>4, IntegerMethod, CastTwice DEF Integer
  <2>6. Fits(given.num, "Int64") => Cast(given.num, "Int64") = given.num
    BY <2>3, <2>4, CastOfFitting
  <2>7. StorageClass(given.class) = "Int64"
    BY <1>5, <2>2 DEF StorageClass
  <2>8. QED
    BY <1>1, <1>3, <1>5, <2>2, <2>4, <2>5, <2>6, <2>7 DEF Number, Value
<1>6. CASE given.kind = "text"
  <2>1. given.class \in {"String", "Blob"} /\ given = TextOf(given.class, given.text)
    BY <1>1, <1>6, ValueCases DEF IsValue, NullOf, Number, TextOf, Value
  <2>2. m.rep \cap {"int", "real"} = {} /\ m.text = given.text
    BY <1>6, <2>1 DEF Holds, Respelled
  <2>3. m.rep \cap {"text", "blob"} # {}
    BY <1>1, <2>2 DEF Reps
  <2>4. WithText(m).text = given.text
    BY <2>2, <2>3 DEF WithText, Mem
  <2>5. given.class = "String" => "text" \in m.rep
    BY <1>6 DEF Holds, Respelled
  <2>6. AnyClass(m) = IF "text" \in m.rep THEN "String" ELSE "Blob"
    BY <1>2, <2>2, <2>3 DEF AnyClass, Reps
  <2>7. value = TextOf(AnyClass(m), given.text)
    BY <1>1, <1>2, <1>3, <2>4, <2>6 DEF Method, Content, IntClass, Signed, Unsigned
  <2>8. StorageClass(given.class) = given.class
    BY <2>1 DEF StorageClass
  <2>9. value.class = IF readAsText THEN "String" ELSE StorageClass(given.class)
    BY <1>1, <2>1, <2>5, <2>6, <2>7, <2>8 DEF TextOf, Value
  <2>10. value.kind = given.kind /\ value.text = given.text /\ value.num = given.num
    BY <2>1, <2>7 DEF TextOf, Value
  <2>11. QED
    BY <1>1, <1>3, <2>6, <2>9, <2>10
<1>7. QED
  BY <1>4, <1>5, <1>6

-----------------------------------------------------------------------------
(* The row *)

LEMMA Values ==
  ASSUME row \in Rows \cup {<<>>}
  PROVE  \A i \in DOMAIN row : row[i].affinity \in Affinities /\ IsValue(Given(i))
<1>1. CASE row = <<>>
  BY <1>1
<1>2. CASE row \in Rows
  BY <1>2, RowsAssumption, ValuesAssumption DEF Given
<1>3. QED
  BY <1>1, <1>2

(* The properties of one item of the object, given the columns that have   *)
(* been read as String.                                                    *)
RoundTripOf(item) ==
  item.as = Given(item.col).class =>
    \/ item.value = Given(item.col)
    \/ Given(item.col).kind = "nan" /\ item.value = NullOf(Given(item.col).class)
    \/ Given(item.col) = NullOf("Blob") /\ item.value = NullOf("String")
    \/ Respelled(Given(item.col), row[item.col].affinity)

AnyKeepsOf(item, strings) ==
  /\ item.as = "Any" /\ ~item.poly /\ row[item.col].affinity = "BLOB"
  /\ Given(item.col).kind \in {"number", "text"}
  => /\ item.value.class = (IF item.col \in strings THEN "String"
                            ELSE StorageClass(Given(item.col).class))
     /\ item.value.kind = Given(item.col).kind
     /\ item.value.text = Given(item.col).text
     /\ item.value.num = Given(item.col).num \/ ~Fits(Given(item.col).num, "Int64")

(* One column is read: the cells hold their values, and what is added to   *)
(* the object is what RoundTrip and AnyKeepsContent say.                   *)
LEMMA ReadHolds ==
  ASSUME ContentInv, phase = "reading", NEW i \in 1 .. Len(row), NEW c \in Classes,
         NEW poly \in BOOLEAN, Read(i, c, poly), row' = row,
         \A item \in object : item.as = "Any" /\ ~item.poly => item.col # i
  PROVE  /\ \A j \in DOMAIN cells' : CellHolds(j)'
         /\ RoundTrip' /\ AnyKeepsContent'
<1> DEFINE value == Deserialize(cells[i], c)
           new == [col |-> i, as |-> c, poly |-> poly, value |-> value]
           string == cells[i].rep = {"blob"} /\ MethodOf(cells[i], c) = "String"
<1>1. /\ DOMAIN cells = DOMAIN row /\ DOMAIN row = 1 .. Len(row) /\ i \in DOMAIN cells
      /\ \A j \in DOMAIN cells :
           /\ cells[j].rep \in Reps /\ CellHolds(j)
           /\ IsValue(Given(j)) /\ row[j].affinity \in Affinities
  BY Columns, Values DEF ContentInv, IInv, TypeOK, Reps
<1>2. /\ cells' = [cells EXCEPT ![i] = Converted(cells[i], c)]
      /\ asText' = IF string THEN asText \cup {i} ELSE asText
      /\ \/ object' = {}
         \/ value # Throw /\ object' = object \cup {new}
  BY DEF Read
<1>3. \A j : Given(j)' = Given(j) /\ row'[j] = row[j]
  BY DEF Given
<1>4. ASSUME NEW j \in DOMAIN cells' PROVE CellHolds(j)'
  <2>1. /\ j \in DOMAIN cells /\ cells[j].rep \in Reps /\ IsValue(Given(j))
        /\ Holds(cells[j], Given(j), row[j].affinity, j \in asText)
    BY <1>1, <1>2 DEF CellHolds
  <2>2. CASE j # i
    <3>1. cells'[j] = cells[j] /\ (j \in asText' <=> j \in asText)
      BY <1>2, <2>1, <2>2
    <3>2. (j \in asText') = (j \in asText)
      BY <3>1
    <3>3. QED
      BY <1>3, <2>1, <3>1, <3>2 DEF CellHolds
  <2>3. CASE j = i
    <3>1. cells'[j] = Converted(cells[j], c)
      BY <1>2, <2>1, <2>3
    <3>2. (j \in asText') = ((j \in asText) \/ (cells[j].rep = {"blob"} /\ MethodOf(cells[j], c) = "String"))
      BY <1>2, <2>3
    <3>3. Holds(Converted(cells[j], c), Given(j), row[j].affinity,
                (j \in asText) \/ (cells[j].rep = {"blob"} /\ MethodOf(cells[j], c) = "String"))
      <4> DEFINE m == cells[j]
                 given == Given(j)
                 affinity == row[j].affinity
                 was == j \in asText
      <4>1. m.rep \in Reps /\ IsValue(given) /\ Holds(m, given, affinity, was) /\ was \in BOOLEAN
        BY <2>1
      <4> HIDE DEF m, given, affinity, was
      <4>2. Holds(Converted(m, c), given, affinity, was \/ (m.rep = {"blob"} /\ MethodOf(m, c) = "String"))
        BY <4>1, ConvertedHolds
      <4>3. QED
        BY <4>2 DEF m, given, affinity, was
    <3>4. QED
      BY <1>3, <3>1, <3>2, <3>3 DEF CellHolds
  <2>4. QED
    BY <2>2, <2>3
<1>5. RoundTripOf(new) \/ value = Throw
  <2>1. new.as = c /\ new.col = i /\ new.value = value
    OBVIOUS
  <2>2. Holds(cells[i], Given(i), row[i].affinity, i \in asText)
    BY <1>1 DEF CellHolds
  <2> HIDE DEF new
  <2>3. QED
    BY <1>1, <2>1, <2>2, ReadBack DEF RoundTripOf
<1>6. AnyKeepsOf(new, asText')
  <2>1. new.as = c /\ new.col = i /\ new.value = value /\ new.poly = poly
    OBVIOUS
  <2>2. Holds(cells[i], Given(i), row[i].affinity, i \in asText)
    BY <1>1 DEF CellHolds
  <2> HIDE DEF new
  <2>3. ASSUME c = "Any", row[i].affinity = "BLOB", Given(i).kind \in {"number", "text"}
        PROVE  /\ value.class = IF i \in asText THEN "String" ELSE StorageClass(Given(i).class)
               /\ value.kind = Given(i).kind
               /\ value.text = Given(i).text
               /\ value.num = Given(i).num \/ ~Fits(Given(i).num, "Int64")
               /\ asText' = asText
    <3> DEFINE m == cells[i]
               given == Given(i)
               was == i \in asText
    <3>1. /\ m.rep \in Reps /\ IsValue(given) /\ Holds(m, given, "BLOB", was)
          /\ given.kind \in {"number", "text"}
      BY <1>1, <2>2, <2>3
    <3> HIDE DEF m, given, was
    <3>2. LET read == Deserialize(m, "Any") IN
            /\ read.class = IF was THEN "String" ELSE StorageClass(given.class)
            /\ read.kind = given.kind
            /\ read.text = given.text
            /\ read.num = given.num \/ ~Fits(given.num, "Int64")
            /\ ~(m.rep = {"blob"} /\ MethodOf(m, "Any") = "String")
      BY <3>1, ReadAny
    <3>3. QED
      BY <1>2, <2>3, <3>2 DEF m, given, was
  <2>4. QED
    BY <2>1, <2>3 DEF AnyKeepsOf
<1>7. \A item \in object : RoundTripOf(item) /\ AnyKeepsOf(item, asText')
  <2> SUFFICES ASSUME NEW item \in object
               PROVE  RoundTripOf(item) /\ AnyKeepsOf(item, asText')
    OBVIOUS
  <2>1. RoundTripOf(item)
    BY DEF ContentInv, RoundTrip, RoundTripOf
  <2>2. AnyKeepsOf(item, asText)
    BY DEF ContentInv, AnyKeepsContent, AnyKeepsOf
  <2>3. item.as = "Any" /\ ~item.poly => (item.col \in asText' <=> item.col \in asText)
    BY <1>2
  <2>4. QED
    BY <2>1, <2>2, <2>3 DEF AnyKeepsOf
<1> HIDE DEF value, new, string
<1>8. \A item \in object' : RoundTripOf(item) /\ AnyKeepsOf(item, asText')
  BY <1>2, <1>5, <1>6, <1>7
<1>9. RoundTrip'
  BY <1>3, <1>8 DEF RoundTrip, RoundTripOf
<1>10. AnyKeepsContent'
  BY <1>3, <1>8 DEF AnyKeepsContent, AnyKeepsOf
<1>11. QED
  BY <1>4, <1>9, <1>10

(* A polymorphic field is not the tag. *)
LEMMA PolyIsNotTag ==
  ASSUME shape \in Shapes, NEW i, ClassAt(i) = "poly"
  PROVE  row[i].name # "tag"
<1>1. shape.kind = "object"
  BY ShapesAssumption DEF ClassAt, Classes, IntClass, Signed, Unsigned
<1>2. row[i].name \in DOMAIN shape.fields /\ shape.fields[row[i].name] = "poly"
  BY <1>1 DEF ClassAt
<1>3. QED
  BY <1>1, <1>2, ShapesAssumption

(* The selector sees nothing but the columns of the tag. *)
LEMMA SelectorKept ==
  ASSUME row' = row, NEW new, object' = object \cup {new}, row[new.col].name # "tag"
  PROVE  SelectType' = SelectType
<1> DEFINE items == {item \in object : row[item.col].name = "tag"}
           now == {item \in object' : row'[item.col].name = "tag"}
<1>1. items = now
  OBVIOUS
<1>2. Field("tag") = IF items = {} THEN NullOf("Any")
        ELSE (CHOOSE last \in items : \A item \in items : item.col <= last.col).value
  BY DEF Field
<1>3. Field("tag")' = IF now = {} THEN NullOf("Any")
        ELSE (CHOOSE last \in now : \A item \in now : item.col <= last.col).value
  BY DEF Field
<1> HIDE DEF items, now
<1>4. Field("tag")' = Field("tag")
  BY <1>1, <1>2, <1>3
<1>5. QED
  BY <1>4 DEF SelectType

-----------------------------------------------------------------------------
(* The invariant *)

LEMMA InitContentInv == Init => ContentInv
<1> SUFFICES ASSUME Init PROVE ContentInv
  OBVIOUS
<1>1. object = {} /\ DOMAIN cells = {} /\ later = <<>>
  BY DEF Init
<1>2. QED
  BY <1>1, InitIInv DEF ContentInv, ReadInOrder, RoundTrip, AnyKeepsContent

LEMMA InsertContentInv == ASSUME ContentInv, NEW r \in Rows, Insert(r) PROVE ContentInv'
<1>1. phase = "none" /\ asText = {} /\ object = {} /\ later = <<>> /\ IInv
  BY DEF Insert, ContentInv, IInv
<1>2. row' = r /\ asText' = {} /\ object' = {} /\ later' = <<>>
  BY <1>1 DEF Insert
<1>3. IInv'
  BY <1>1, InsertIInv
<1>4. ASSUME NEW i \in DOMAIN cells' PROVE CellHolds(i)'
  <2>1. /\ \A j \in DOMAIN r : ~Refuses(r[j].value)
        /\ i \in DOMAIN r /\ cells'[i] = Stored(Bind(r[i].value), r[i].affinity)
    BY DEF Insert
  <2>2. IsValue(r[i].value) /\ r[i].affinity \in Affinities
    BY <2>1, RowsAssumption, ValuesAssumption
  <2>3. Holds(cells'[i], r[i].value, r[i].affinity, FALSE)
    BY <2>1, <2>2, StoredHolds
  <2>4. (i \in asText') = FALSE
    BY <1>2
  <2>5. QED
    BY <1>2, <2>3, <2>4 DEF CellHolds, Given
<1>5. QED
  BY <1>2, <1>3, <1>4 DEF ContentInv, ReadInOrder, RoundTrip, AnyKeepsContent

LEMMA BeginContentInv == ASSUME ContentInv, NEW s \in Shapes, Begin(s) PROVE ContentInv'
<1>1. row' = row /\ cells' = cells /\ asText' = asText /\ object' = {} /\ later' = <<>>
  BY DEF Begin
<1>2. IInv'
  BY BeginIInv DEF ContentInv
<1>3. \A i \in DOMAIN cells' : CellHolds(i)'
  BY <1>1 DEF ContentInv, CellHolds, Given
<1>4. QED
  BY <1>1, <1>2, <1>3 DEF ContentInv, ReadInOrder, RoundTrip, AnyKeepsContent

LEMMA ReadColumnContentInv == ASSUME ContentInv, ReadColumn PROVE ContentInv'
<1>1. /\ Len(row) \in Nat /\ DOMAIN row = 1 .. Len(row) /\ shape \in Shapes
      /\ next \in 1 .. Len(row) /\ later \in Seq(1 .. Len(row)) /\ phase = "reading"
  BY Columns DEF ReadColumn, ContentInv, IInv, TypeOK
<1>2. next' = next + 1 /\ row' = row /\ shape' = shape
  BY DEF ReadColumn
<1>3. IInv'
  BY ReadColumnIInv DEF ContentInv
<1>4. \A i : ClassAt(i)' = ClassAt(i)
  BY <1>2 DEF ClassAt
<1>5. \A item \in object : ~item.poly /\ item.col < next /\ ClassAt(item.col) = item.as
  BY <1>1 DEF ContentInv, ReadInOrder
<1>6. \A item \in object : item.col \in 1 .. Len(row)
  BY DEF ContentInv, IInv, TypeOK
<1>7. CASE phase' = "stored" /\ object' = {} /\ UNCHANGED <<cells, later, asText>>
  <2>1. \A i \in DOMAIN cells' : CellHolds(i)'
    BY <1>2, <1>7 DEF ContentInv, CellHolds, Given
  <2>2. QED
    BY <1>3, <1>4, <1>7, <2>1 DEF ContentInv, ReadInOrder, RoundTrip, AnyKeepsContent
<1>8. CASE /\ ClassAt(next) = "poly"
           /\ later' = Append(later, next)
           /\ UNCHANGED <<cells, phase, object, asText>>
  <2>1. \A i \in DOMAIN cells' : CellHolds(i)'
    BY <1>2, <1>8 DEF ContentInv, CellHolds, Given
  <2>2. \A k \in DOMAIN later' : ClassAt(later'[k]) = "poly"
    <3>1. DOMAIN later' = 1 .. Len(later) + 1 /\ Len(later) \in Nat
      BY <1>1, <1>8
    <3>2. \A k \in 1 .. Len(later) + 1 :
            later'[k] = IF k <= Len(later) THEN later[k] ELSE next
      BY <1>1, <1>8
    <3>3. \A k \in 1 .. Len(later) : ClassAt(later[k]) = "poly"
      BY <1>1 DEF ContentInv, ReadInOrder
    <3>4. QED
      BY <1>8, <3>1, <3>2, <3>3
  <2>3. ReadInOrder'
    BY <1>1, <1>2, <1>5, <1>6, <1>8, <2>2 DEF ReadInOrder, ClassAt
  <2>4. RoundTrip' /\ AnyKeepsContent'
    BY <1>2, <1>8 DEF ContentInv, RoundTrip, AnyKeepsContent, Given
  <2>5. QED
    BY <1>3, <2>1, <2>3, <2>4 DEF ContentInv
<1>9. CASE /\ ClassAt(next) \in Classes
           /\ Read(next, ClassAt(next), FALSE)
           /\ UNCHANGED later
  <2>1. \A item \in object : item.col # next
    BY <1>1, <1>5, <1>6
  <2>2. /\ \A j \in DOMAIN cells' : CellHolds(j)'
        /\ RoundTrip' /\ AnyKeepsContent'
    BY <1>1, <1>2, <1>9, <2>1, ReadHolds
  <2>3. ASSUME NEW item \in object'
        PROVE  ~item.poly /\ item.col < next' /\ ClassAt(item.col) = item.as
    <3>1. CASE item \in object
      BY <1>1, <1>2, <1>5, <1>6, <3>1
    <3>2. CASE item = [col |-> next, as |-> ClassAt(next), poly |-> FALSE,
                       value |-> Deserialize(cells[next], ClassAt(next))]
      BY <1>1, <1>2, <3>2
    <3>3. QED
      BY <1>9, <2>3, <3>1, <3>2 DEF Read
  <2>4. ReadInOrder'
    BY <1>4, <1>9, <2>3 DEF ReadInOrder, ContentInv
  <2>5. QED
    BY <1>3, <2>2, <2>4 DEF ContentInv
<1>10. QED
  BY <1>7, <1>8, <1>9 DEF ReadColumn

LEMMA ReadLaterContentInv == ASSUME ContentInv, ReadLater PROVE ContentInv'
<1> DEFINE first == Head(later)
           new == [col |-> first, as |-> SelectType, poly |-> TRUE,
                   value |-> Deserialize(cells[first], SelectType)]
<1>1. /\ Len(row) \in Nat /\ DOMAIN row = 1 .. Len(row) /\ shape \in Shapes
      /\ later \in Seq(1 .. Len(row)) /\ later # <<>> /\ phase = "reading" /\ next > Len(row)
  BY Columns DEF ReadLater, ContentInv, IInv, TypeOK
<1>2. row' = row /\ shape' = shape /\ next' = next /\ later' = Tail(later)
  BY DEF ReadLater
<1>3. IInv'
  BY ReadLaterIInv DEF ContentInv
<1>4. /\ first \in 1 .. Len(row) /\ ClassAt(first) = "poly"
      /\ \A k \in DOMAIN later' : ClassAt(later'[k]) = "poly"
  <2>1. /\ Len(later) \in Nat /\ Len(later) > 0 /\ first = later[1]
        /\ DOMAIN later = 1 .. Len(later)
        /\ DOMAIN later' = 1 .. Len(later) - 1
        /\ \A k \in 1 .. Len(later) - 1 : later'[k] = later[k + 1]
    BY <1>1, <1>2
  <2>2. \A k \in 1 .. Len(later) : ClassAt(later[k]) = "poly"
    BY <1>1 DEF ContentInv, ReadInOrder
  <2>3. ASSUME NEW k \in DOMAIN later' PROVE ClassAt(later'[k]) = "poly"
    <3>1. later'[k] = later[k + 1] /\ k + 1 \in 1 .. Len(later)
      BY <2>1, <2>3
    <3>2. QED
      BY <2>2, <3>1
  <2>4. first \in 1 .. Len(row) /\ ClassAt(first) = "poly"
    <3>1. 1 \in 1 .. Len(later)
      BY <2>1
    <3>2. later[1] \in 1 .. Len(row)
      BY <1>1, <3>1
    <3>3. QED
      BY <2>1, <2>2, <3>1, <3>2
  <2>5. QED
    BY <2>3, <2>4
<1>5. SelectType \in Classes
  BY DEF SelectType, Classes, IntClass, Signed
<1>6. row[first].name # "tag"
  BY <1>1, <1>4, PolyIsNotTag
<1>7. Read(first, SelectType, TRUE)
  BY DEF ReadLater
<1> HIDE DEF first
<1>8. \A item \in object : item.as = "Any" /\ ~item.poly => item.col # first
  BY <1>4 DEF ContentInv, ReadInOrder
<1>9. /\ \A j \in DOMAIN cells' : CellHolds(j)'
      /\ RoundTrip' /\ AnyKeepsContent'
  BY <1>1, <1>2, <1>4, <1>5, <1>7, <1>8, ReadHolds
<1>10. object' = {} \/ object' = object \cup {new}
  BY <1>7 DEF Read
<1>11. new.poly /\ new.col = first /\ new.as = SelectType
  OBVIOUS
<1> HIDE DEF new
<1>12. ReadInOrder'
  <2>1. CASE object' = {}
    BY <1>2, <1>4, <2>1 DEF ReadInOrder, ClassAt
  <2>2. CASE object' = object \cup {new}
    <3>1. SelectType' = SelectType
      BY <1>2, <1>6, <1>11, <2>2, SelectorKept
    <3>2. \A item \in object' :
            IF item.poly THEN /\ next > Len(row)
                              /\ row[item.col].name # "tag"
                              /\ item.as = SelectType
                         ELSE item.col < next /\ ClassAt(item.col) = item.as
      BY <1>1, <1>6, <1>11, <2>2 DEF ContentInv, ReadInOrder
    <3>3. QED
      BY <1>2, <1>4, <3>1, <3>2 DEF ReadInOrder, ClassAt
  <2>3. QED
    BY <1>10, <2>1, <2>2
<1>13. QED
  BY <1>3, <1>9, <1>12 DEF ContentInv

(* What does not touch the row, the cells and the object. *)
LEMMA IdleContentInv ==
  ASSUME ContentInv, UNCHANGED <<row, cells, shape, next, later, object, asText>>, IInv'
  PROVE  ContentInv'
<1>1. \A i \in DOMAIN cells' : CellHolds(i)'
  BY DEF ContentInv, CellHolds, Given
<1>2. SelectType' = SelectType /\ \A i : ClassAt(i)' = ClassAt(i)
  BY DEF SelectType, Field, ClassAt
<1>3. ReadInOrder'
  BY <1>2 DEF ContentInv, ReadInOrder
<1>4. RoundTrip' /\ AnyKeepsContent'
  BY DEF ContentInv, RoundTrip, AnyKeepsContent, Given
<1>5. QED
  BY <1>1, <1>3, <1>4 DEF ContentInv

LEMMA ForgetContentInv == ASSUME Forget PROVE ContentInv'
<1>1. object' = {} /\ DOMAIN cells' = {} /\ later' = <<>>
  BY DEF Forget
<1>2. QED
  BY <1>1, ForgetIInv DEF ContentInv, ReadInOrder, RoundTrip, AnyKeepsContent

LEMMA NextContentInv == ContentInv /\ [Next]_vars => ContentInv'
<1> SUFFICES ASSUME ContentInv, [Next]_vars PROVE ContentInv'
  OBVIOUS
<1>1. IInv'
  BY NextIInv DEF ContentInv
<1>2. ASSUME NEW r \in Rows, Insert(r) PROVE ContentInv'
  BY <1>2, InsertContentInv
<1>3. ASSUME NEW s \in Shapes, Begin(s) PROVE ContentInv'
  BY <1>3, BeginContentInv
<1>4. CASE ReadColumn
  BY <1>4, ReadColumnContentInv
<1>5. CASE ReadLater
  BY <1>5, ReadLaterContentInv
<1>6. CASE Finish
  BY <1>1, <1>6, IdleContentInv DEF Finish
<1>7. CASE Forget
  BY <1>7, ForgetContentInv
<1>8. CASE UNCHANGED vars
  BY <1>1, <1>8, IdleContentInv DEF vars
<1>9. QED
  BY <1>2, <1>3, <1>4, <1>5, <1>6, <1>7, <1>8 DEF Next

-----------------------------------------------------------------------------
(* ContentInv is inductive: a cell holds the value that was bound to it,   *)
(* whatever sqlite3_column_text and sqlite3_column_blob have made of it,   *)
(* and an object is what its cells hold.                                   *)
THEOREM ContentInvariance == Spec => []ContentInv
BY InitContentInv, NextContentInv, PTL DEF Spec

(* Serializer, SQLite and Deserializer give back the value of every class  *)
(* that is stored, or throw, for all widths, formats and rows.             *)
THEOREM ValuesComeBack == Spec => []RoundTrip
<1>1. ContentInv => RoundTrip
  BY DEF ContentInv
<1>2. QED
  BY <1>1, ContentInvariance, PTL

(* deserializeAny finds the content of a column without affinity, and the  *)
(* class it was stored as.                                                 *)
THEOREM AnyFindsContent == Spec => []AnyKeepsContent
<1>1. ContentInv => AnyKeepsContent
  BY DEF ContentInv
<1>2. QED
  BY <1>1, ContentInvariance, PTL

(* readOneRowAsObject reads the polymorphic fields when their selector     *)
(* sees all others, in whatever order the columns stand.                   *)
THEOREM SelectorsSeeAll == Spec => []SelectorSeesAll
<1>1. ContentInv => SelectorSeesAll
  BY DEF ContentInv, ReadInOrder, SelectorSeesAll
<1>2. QED
  BY <1>1, ContentInvariance, PTL
=============================================================================
