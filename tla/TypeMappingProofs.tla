--------------------------- MODULE TypeMappingProofs ---------------------------
(***************************************************************************)
(* An integer that fits a class of integers comes back as itself, one that *)
(* does not is cut to the class, and integers keep their order but for     *)
(* UInt64 from 2^63 on: for all widths and all rows, and however often and *)
(* as whatever types a row is read.                                        *)
(***************************************************************************)
EXTENDS TypeMappingInv, TLAPS

-----------------------------------------------------------------------------
(* Remainders *)

LEMMA Division ==
  ASSUME NEW b \in Nat \ {0}, NEW a \in Int
  PROVE  /\ a = b * (a \div b) + (a % b)
         /\ 0 <= a % b /\ a % b < b
         /\ a \div b \in Int /\ a % b \in Int
OBVIOUS

(* A remainder is determined by the quotient. *)
LEMMA Remainder ==
  ASSUME NEW b \in Nat \ {0}, NEW a \in Int, NEW q \in Int, NEW r \in Int,
         0 <= r, r < b, a = b * q + r
  PROVE  a % b = r
<1>1. /\ a = b * (a \div b) + (a % b)
      /\ 0 <= a % b /\ a % b < b
      /\ a \div b \in Int /\ a % b \in Int
  BY Division
<1> DEFINE p == a \div b
<1>2. b * (p - q) = r - (a % b)
  BY <1>1
<1>3. p - q < 1
  <2>1. SUFFICES ASSUME p - q >= 1 PROVE FALSE
    BY <1>1
  <2>2. b * (p - q) >= b
    BY <2>1, <1>1
  <2>3. QED
    BY <2>2, <1>2, <1>1
<1>4. p - q > -1
  <2>1. SUFFICES ASSUME p - q <= -1 PROVE FALSE
    BY <1>1
  <2>2. b * (p - q) <= -b
    BY <2>1, <1>1
  <2>3. QED
    BY <2>2, <1>2, <1>1
<1>5. QED
  BY <1>1, <1>3, <1>4

(* A multiple of the modulus makes no difference. *)
LEMMA RemainderShifted ==
  ASSUME NEW b \in Nat \ {0}, NEW y \in Int, NEW z \in Int,
         \E n \in Int : y = z + b * n
  PROVE  y % b = z % b
<1> DEFINE q == z \div b
           r == z % b
<1>1. z = b * q + r /\ 0 <= r /\ r < b /\ q \in Int /\ r \in Int
  BY Division
<1> HIDE DEF q, r
<1>2. PICK n \in Int : y = z + b * n
  OBVIOUS
<1>3. y = b * (q + n) + r /\ q + n \in Int
  BY <1>1, <1>2
<1>4. y % b = r
  BY <1>1, <1>3, Remainder
<1>5. QED
  BY <1>4 DEF r

-----------------------------------------------------------------------------
(* The cast *)

LEMMA Widths ==
  ASSUME NEW c \in IntClass
  PROVE  /\ Half[c] \in Nat \ {0} /\ 4 * Half[c] \in Nat \ {0}
         /\ Lowest(c) \in Int /\ Highest(c) \in Int
         /\ Highest(c) = Lowest(c) + 2 * Half[c] - 1
BY WidthAssumption DEF IntClass, Signed, Unsigned, Lowest, Highest

(* A number that fits is not changed. *)
LEMMA CastOfFitting ==
  ASSUME NEW c \in IntClass, NEW num \in Int, num % 2 = 0, Fits(num, c)
  PROVE  Cast(num, c) = num
<1>1. 0 <= num - 2 * Lowest(c) /\ num - 2 * Lowest(c) < 4 * Half[c]
  BY Widths DEF Fits
<1>2. (num - 2 * Lowest(c)) % (4 * Half[c]) = num - 2 * Lowest(c)
  BY <1>1, Widths
<1>3. QED
  BY <1>2, Widths DEF Cast

(* A cast to 64 bits on the way makes no difference. *)
LEMMA CastTwice ==
  ASSUME NEW c \in IntClass, NEW num \in Int
  PROVE  Cast(num, "Int64") \in Int /\ Cast(Cast(num, "Int64"), c) = Cast(num, c)
<1> DEFINE H == 4 * HalfInt64
           b == 4 * Half[c]
           k == HalfInt64 \div Half[c]
           h == 2 * HalfInt64
           l == 2 * Lowest(c)
           q == (num + h) \div H
           r == (num + h) % H
           n == -(k * q)
           y == Cast(num, "Int64") - l
           z == num - l
<1>1. /\ HalfInt64 \in Nat \ {0} /\ Half["Int64"] = HalfInt64 /\ "Int64" \in IntClass
      /\ Half[c] \in Nat \ {0} /\ HalfInt64 % Half[c] = 0
  BY WidthAssumption DEF IntClass, Signed
<1>2. Lowest("Int64") = -HalfInt64
  BY <1>1 DEF Lowest, Signed
<1>3. Cast(num, "Int64") = -h + r
  <2>1. num - 2 * Lowest("Int64") = num + h /\ 2 * Lowest("Int64") = -h
    BY <1>1, <1>2
  <2>2. QED
    BY <2>1, <1>1 DEF Cast
<1>4. HalfInt64 = Half[c] * k /\ k \in Int
  <2>1. HalfInt64 \in Int
    BY <1>1
  <2>2. HalfInt64 = Half[c] * k + (HalfInt64 % Half[c]) /\ k \in Int
    BY <2>1, <1>1, Division, Zenon
  <2> HIDE DEF k
  <2>3. QED
    BY <2>2, <1>1
<1> HIDE DEF k
<1>5. /\ b \in Nat \ {0} /\ H \in Nat \ {0} /\ H = b * k
      /\ h \in Int /\ l \in Int
  BY <1>1, <1>4, Widths
<1> HIDE DEF H, b, h, l
<1>6. num + h = H * q + r /\ q \in Int /\ r \in Int
  <2>1. num + h \in Int
    BY <1>5
  <2>2. QED
    BY <2>1, <1>5, Division, Zenon
<1> HIDE DEF q, r
<1>7. Cast(num, "Int64") \in Int /\ Cast(num, "Int64") = num - H * q
  <2>1. -h + r \in Int /\ -h + r = num - H * q
    BY <1>5, <1>6
  <2>2. QED
    BY <2>1, <1>3
<1>8. n \in Int /\ b * n = -(H * q)
  BY <1>4, <1>5, <1>6
<1> HIDE DEF n
<1>9. y \in Int /\ z \in Int /\ y = z + b * n
  BY <1>5, <1>6, <1>7, <1>8
<1> HIDE DEF y, z
<1>10. y % b = z % b
  BY <1>5, <1>8, <1>9, RemainderShifted
<1>11. QED
  BY <1>7, <1>10 DEF Cast, b, l, y, z

(* A cast of what is too large for 64 bits is negative. *)
LEMMA CastOfLarge ==
  ASSUME NEW c \in IntClass, NEW num \in Int, num % 2 = 0, Fits(num, c), ~Fits(num, "Int64")
  PROVE  /\ 2 * HalfInt64 <= num
         /\ Cast(num, "Int64") = num - 4 * HalfInt64 /\ num - 4 * HalfInt64 < 0
<1>1. /\ HalfInt64 \in Nat \ {0} /\ Half["Int64"] = HalfInt64 /\ Half["UInt64"] = HalfInt64
      /\ Half[c] \in Nat \ {0} /\ Half["Int32"] \in Nat \ {0} /\ 2 * Half["Int32"] <= HalfInt64
      /\ \/ c \in {"Int64", "UInt64"} \/ Half[c] <= Half["Int32"]
  BY WidthAssumption DEF IntClass, Signed, Unsigned
<1>2. Lowest("Int64") = -HalfInt64 /\ Highest("Int64") = HalfInt64 - 1
  BY <1>1 DEF Lowest, Highest, Signed
<1>3. Half[c] <= HalfInt64
  BY <1>1
<1>4. -2 * HalfInt64 <= num /\ num <= 4 * HalfInt64 - 2
  <2>1. 2 * Lowest(c) <= num /\ num <= 2 * Highest(c)
    BY DEF Fits
  <2>2. -Half[c] <= Lowest(c) /\ Highest(c) <= 2 * Half[c] - 1
    BY <1>1 DEF Lowest, Highest
  <2>3. Lowest(c) \in Int /\ Highest(c) \in Int
    BY Widths
  <2>4. QED
    BY <1>1, <1>3, <2>1, <2>2, <2>3
<1>5. 2 * HalfInt64 - 1 <= num
  BY <1>1, <1>2, <1>4 DEF Fits
<1>6. 2 * HalfInt64 <= num
  BY <1>1, <1>5
<1>7. (num + 2 * HalfInt64) % (4 * HalfInt64) = num - 2 * HalfInt64
  BY <1>1, <1>4, <1>6
<1>8. num - 2 * Lowest("Int64") = num + 2 * HalfInt64
  BY <1>1, <1>2
<1>9. QED
  BY <1>1, <1>2, <1>4, <1>6, <1>7, <1>8 DEF Cast

(* Numbers of one class keep their order if both or neither fit. *)
LEMMA CastKeepsOrder ==
  ASSUME NEW c \in IntClass, NEW a \in Int, NEW b \in Int, a % 2 = 0, b % 2 = 0,
         Fits(a, c), Fits(b, c), a < b
  PROVE  (Cast(a, "Int64") < Cast(b, "Int64")) <=> (Fits(a, "Int64") <=> Fits(b, "Int64"))
<1>1. "Int64" \in IntClass /\ HalfInt64 \in Nat \ {0} /\ Half["Int64"] = HalfInt64
  BY WidthAssumption DEF IntClass, Signed
<1>2. Lowest("Int64") = -HalfInt64 /\ Highest("Int64") = HalfInt64 - 1
  BY <1>1 DEF Lowest, Highest, Signed
<1>3. Fits(a, "Int64") => Cast(a, "Int64") = a
  BY <1>1, CastOfFitting
<1>4. Fits(b, "Int64") => Cast(b, "Int64") = b
  BY <1>1, CastOfFitting
<1>5. ~Fits(a, "Int64") => 2 * HalfInt64 <= a /\ Cast(a, "Int64") = a - 4 * HalfInt64
  BY CastOfLarge
<1>6. ~Fits(b, "Int64") => /\ 2 * HalfInt64 <= b /\ Cast(b, "Int64") = b - 4 * HalfInt64
                           /\ b - 4 * HalfInt64 < 0
  BY CastOfLarge
<1>7. ~Fits(b, "Int64") => 0 <= a
  <2> SUFFICES ASSUME ~Fits(b, "Int64") PROVE 0 <= a
    OBVIOUS
  <2>1. 2 * HalfInt64 <= b /\ b <= 2 * Highest(c)
    BY <1>6 DEF Fits
  <2>2. c \in Unsigned
    <3>1. SUFFICES ASSUME c \in Signed PROVE FALSE
      BY DEF IntClass
    <3>2. Highest(c) = Half[c] - 1 /\ Half[c] \in Nat /\ Half[c] <= HalfInt64
      BY <3>1, WidthAssumption DEF Highest, IntClass, Signed, Unsigned
    <3>3. QED
      BY <2>1, <3>2, <1>1
  <2>3. Lowest(c) = 0
    BY <2>2 DEF Lowest, Signed, Unsigned
  <2>4. QED
    BY <2>3 DEF Fits
<1>8. CASE Fits(a, "Int64") /\ Fits(b, "Int64")
  BY <1>3, <1>4, <1>8
<1>9. CASE ~Fits(a, "Int64") /\ ~Fits(b, "Int64")
  BY <1>1, <1>5, <1>6, <1>9
<1>10. CASE Fits(a, "Int64") /\ ~Fits(b, "Int64")
  BY <1>1, <1>3, <1>6, <1>7, <1>10
<1>11. CASE ~Fits(a, "Int64") /\ Fits(b, "Int64")
  BY <1>1, <1>2, <1>5, <1>11 DEF Fits
<1>12. QED
  BY <1>8, <1>9, <1>10, <1>11

(* What is bound for an integer is its cast to 64 bits. *)
LEMMA BoundIsCast ==
  ASSUME NEW value, IsInteger(value), value.num \in Int, value.num % 2 = 0,
         Fits(value.num, value.class)
  PROVE  Cast(value.num, BoundAs(value.class)) = Cast(value.num, "Int64")
<1> DEFINE c == value.class
<1>1. c \in IntClass
  BY DEF IsInteger
<1>2. CASE c \in {"UInt32", "Int64", "UInt64"}
  BY <1>2 DEF BoundAs
<1>3. CASE c \notin {"UInt32", "Int64", "UInt64"}
  <2>1. BoundAs(c) = "Int32" /\ {"Int32", "Int64"} \subseteq IntClass
    BY <1>3 DEF BoundAs, IntClass, Signed
  <2>2. Fits(value.num, "Int32") /\ Fits(value.num, "Int64")
    <3>1. 2 * Half["Int32"] <= HalfInt64 /\ Half["Int64"] = HalfInt64
      BY WidthAssumption
    <3>2. c = "Int32" \/ 2 * Half[c] <= Half["Int32"]
      BY <1>1, <1>3, WidthAssumption DEF IntClass, Signed, Unsigned
    <3>3. Half[c] \in Nat \ {0} /\ Half["Int32"] \in Nat \ {0} /\ Half["Int64"] \in Nat \ {0}
      BY <1>1, <2>1, Widths
    <3>4. /\ Lowest("Int32") = -Half["Int32"] /\ Highest("Int32") = Half["Int32"] - 1
          /\ Lowest("Int64") = -Half["Int64"] /\ Highest("Int64") = Half["Int64"] - 1
      BY DEF Lowest, Highest, Signed
    <3>5. \/ Lowest(c) = -Half[c] /\ Highest(c) = Half[c] - 1
          \/ c # "Int32" /\ Lowest(c) = 0 /\ Highest(c) = 2 * Half[c] - 1
      BY DEF Lowest, Highest, Signed
    <3>6. QED
      BY <3>1, <3>2, <3>3, <3>4, <3>5 DEF Fits
  <2>3. QED
    BY <2>1, <2>2, CastOfFitting
<1>4. QED
  BY <1>2, <1>3
-----------------------------------------------------------------------------
(* The cells *)

Reps == SUBSET {"int", "real", "text", "blob"}

LEMMA BoundRep ==
  ASSUME NEW value, value.kind \in {"null", "nan", "number", "text"}
  PROVE  Bind(value).rep \in Reps
BY DEF Bind, Reps, Null, MemInt, MemReal, MemText, MemBlob, Mem

LEMMA StoredRep ==
  ASSUME NEW m, m.rep \in Reps, NEW affinity \in Affinities
  PROVE  Stored(m, affinity).rep \in Reps
<1>1. \A num : IntegerAffinity(num).rep \in Reps
  BY DEF IntegerAffinity, MemInt, MemReal, Mem, Reps
<1>2. Numeric(m).rep \in Reps
  BY <1>1 DEF Numeric, NumberOf, MemInt, Mem, Reps
<1>3. Real(Numeric(m)).rep \in Reps
  BY <1>2 DEF Real, MemReal, Mem, Reps
<1>4. QED
  BY <1>2, <1>3 DEF Stored, Affinities, MemText, Mem, Reps

(* An integer is bound as a Mem of its 64 bits, and stored as such in a    *)
(* column without type or of numeric affinity.                             *)
LEMMA StoredInteger ==
  ASSUME NEW value, IsInteger(value), value.num \in Int, value.num % 2 = 0,
         Fits(value.num, value.class), NEW affinity \in Affinities
  PROVE  LET m == Stored(Bind(value), affinity) IN
           /\ m.rep # {}
           /\ affinity \in {"BLOB", "NUMERIC"} => "int" \in m.rep
           /\ "int" \in m.rep => "real" \notin m.rep /\ m.num = Cast(value.num, "Int64")
<1> DEFINE m == MemInt(Cast(value.num, "Int64"))
<1>1. Bind(value) = m
  <2>1. value.kind = "number" /\ value.class \notin {"Float32", "Float64"}
    BY DEF IsInteger, IntClass, Signed, Unsigned
  <2>2. Bind(value) = MemInt(Cast(value.num, BoundAs(value.class)))
    BY <2>1 DEF Bind
  <2>3. QED
    BY <2>2, BoundIsCast
<1>2. m.rep = {"int"} /\ m.num = Cast(value.num, "Int64")
  BY DEF MemInt, Mem
<1> HIDE DEF m
<1>3. Numeric(m) = m
  BY <1>2 DEF Numeric
<1>4. Real(m).rep = {"real"}
  BY <1>2 DEF Real, MemReal, Mem
<1>5. affinity \in {"BLOB", "NUMERIC"} => Stored(m, affinity) = m
  BY <1>3 DEF Stored
<1>6. affinity = "TEXT" => Stored(m, affinity).rep = {"text"}
  BY <1>2 DEF Stored, MemText, Mem
<1>7. affinity = "REAL" => Stored(m, affinity).rep = {"real"}
  BY <1>3, <1>4 DEF Stored
<1>8. QED
  BY <1>1, <1>2, <1>5, <1>6, <1>7 DEF Affinities

(* Reading a cell leaves its number as it is. *)
LEMMA ConvertedKeeps ==
  ASSUME NEW m, m.rep \in Reps, NEW c
  PROVE  /\ Converted(m, c).rep \in Reps
         /\ m.rep # {} => Converted(m, c).rep # {}
         /\ \A k \in {"int", "real"} : k \in Converted(m, c).rep <=> k \in m.rep
         /\ Converted(m, c).num = m.num
BY DEF Converted, WithText, WithBlob, Mem, Reps

LEMMA ColumnTypes ==
  ASSUME NEW m, m.rep \in Reps
  PROVE  ColumnType(m) \in {"NULL", "INTEGER", "FLOAT", "TEXT", "BLOB"}
BY DEF ColumnType, Reps

LEMMA IntegerMethod ==
  ASSUME NEW m, NEW c \in IntClass
  PROVE  Method(m, c) = Integer(m, c)
BY DEF Method, IntClass, Signed, Unsigned

LEMMA DeserializedClass ==
  ASSUME NEW m, m.rep \in Reps, NEW c \in Classes
  PROVE  Deserialize(m, c) = Throw \/ Deserialize(m, c).class \in Classes
<1>1. \A d \in IntClass : Integer(m, d) = Throw \/ Integer(m, d).class = d
  BY DEF Integer, NullOf, Number, Value
<1>2. Boolean(m) = Throw \/ Boolean(m).class = "Boolean"
  BY DEF Boolean, NullOf, Number, Value
<1>3. \A d : Float(m, d) = Throw \/ Float(m, d).class = d
  BY DEF Float, NullOf, Number, Value
<1>4. \A d \in {"String", "Blob"} : Content(m, d).class \in {"String", "Blob"}
  BY DEF Content, NullOf, TextOf, Value
<1>5. \A d : Enum(m, d) = Throw \/ Enum(m, d).class = d
  BY DEF Enum, NullOf, Number, Value
<1>6. MethodOf(m, c) \in Classes \ {"Custom"}
  BY ColumnTypes DEF MethodOf, AnyClass, Classes, IntClass, Signed
<1>7. NullOf("Any").class = "Any"
  BY DEF NullOf, Value
<1>8. \A d \in Classes \ {"Custom"} : Method(m, d) = Throw \/ Method(m, d).class \in Classes
  <2> SUFFICES ASSUME NEW d \in Classes \ {"Custom"}
               PROVE  Method(m, d) = Throw \/ Method(m, d).class \in Classes
    OBVIOUS
  <2>1. CASE d \in IntClass
    BY <2>1, <1>1, IntegerMethod DEF Classes
  <2>2. CASE d \notin IntClass
    BY <2>2, <1>2, <1>3, <1>4, <1>5, <1>7 DEF Method, Classes
  <2>3. QED
    BY <2>1, <2>2
<1>9. Value("Custom", Method(m, MethodOf(m, c)).kind, Method(m, MethodOf(m, c)).num,
            Method(m, MethodOf(m, c)).text).class \in Classes
  BY DEF Value, Classes
<1>10. QED
  BY <1>6, <1>8, <1>9 DEF Deserialize

(* An integer read from its cell as another class. *)
LEMMA ReadInteger ==
  ASSUME NEW m, m.rep \in Reps, m.rep # {}, NEW num \in Int, num % 2 = 0,
         "int" \in m.rep => "real" \notin m.rep /\ m.num = Cast(num, "Int64"),
         NEW c \in IntClass, Deserialize(m, c) # Throw
  PROVE  Deserialize(m, c) = Number(c, IF Fits(num, c) THEN num ELSE Cast(num, c))
<1>1. c \notin {"Any", "Custom"}
  BY DEF IntClass, Signed, Unsigned
<1>2. Deserialize(m, c) = Integer(m, c)
  BY <1>1, IntegerMethod DEF Deserialize, MethodOf
<1>3. ColumnType(m) # "NULL"
  BY DEF ColumnType, Reps
<1>4. ColumnType(m) = "INTEGER" => "int" \in m.rep
  BY DEF ColumnType, Reps
<1>5. Integer(m, c) = Number(c, Cast(m.num, c)) /\ ColumnType(m) = "INTEGER"
  BY <1>2, <1>3 DEF Integer
<1>6. Cast(m.num, c) = Cast(num, c)
  BY <1>4, <1>5, CastTwice
<1>7. Fits(num, c) => Cast(num, c) = num
  BY CastOfFitting
<1>8. QED
  BY <1>2, <1>5, <1>6, <1>7
-----------------------------------------------------------------------------
(* The row *)

(* The columns of a row, from the assumption on rows. *)
LEMMA Columns ==
  ASSUME row \in Rows \cup {<<>>}
  PROVE  /\ Len(row) \in Nat /\ DOMAIN row = 1 .. Len(row)
         /\ \A i \in DOMAIN row :
              /\ row[i].affinity \in Affinities
              /\ IsInteger(Given(i)) => /\ Given(i).num \in Int /\ Given(i).num % 2 = 0
                                       /\ Fits(Given(i).num, Given(i).class)
<1>1. CASE row = <<>>
  BY <1>1
<1>2. CASE row \in Rows
  BY <1>2, RowsAssumption DEF Given
<1>3. QED
  BY <1>1, <1>2

(* One column is read: the cells keep their numbers, and what is added to  *)
(* the object is what IntegersThatFit says.                                *)
LEMMA ReadKeeps ==
  ASSUME IInv, phase = "reading", NEW i \in 1 .. Len(row), NEW c \in Classes, NEW poly,
         Read(i, c, poly), row' = row
  PROVE  /\ DOMAIN cells' = DOMAIN row
         /\ \A j \in DOMAIN cells' : cells'[j].rep \in Reps /\ CellKept(j)'
         /\ phase' = "reading" \/ (phase' = "stored" /\ object' = {})
         /\ \A item \in object' : /\ item.col \in 1 .. Len(row)
                                  /\ item.as \in Classes
                                  /\ item.value.class \in Classes
         /\ asText' \subseteq 1 .. Len(row)
         /\ IntegersThatFit'
<1> DEFINE value == Deserialize(cells[i], c)
           new == [col |-> i, as |-> c, poly |-> poly, value |-> value]
<1>1. /\ DOMAIN cells = DOMAIN row /\ DOMAIN row = 1 .. Len(row) /\ i \in DOMAIN cells
      /\ \A j \in DOMAIN cells : cells[j].rep \in Reps /\ CellKept(j)
  BY Columns DEF IInv, TypeOK, Reps
<1>2. /\ cells' = [cells EXCEPT ![i] = Converted(cells[i], c)]
      /\ asText' \in {asText, asText \cup {i}}
      /\ \/ phase' = "stored" /\ object' = {}
         \/ value # Throw /\ phase' = "reading" /\ object' = object \cup {new}
  BY DEF Read
<1>3. DOMAIN cells' = DOMAIN row
  BY <1>1, <1>2
<1>4. ASSUME NEW j \in DOMAIN cells'
      PROVE  cells'[j].rep \in Reps /\ CellKept(j)'
  <2>1. j \in DOMAIN cells /\ cells[j].rep \in Reps /\ CellKept(j)
    BY <1>1, <1>3
  <2>2. CASE j # i
    <3>1. cells'[j] = cells[j]
      BY <1>2, <2>1, <2>2
    <3>2. QED
      BY <2>1, <3>1 DEF CellKept, Given
  <2>3. CASE j = i
    <3>1. cells'[j] = Converted(cells[j], c)
      BY <1>2, <2>1, <2>3
    <3>2. QED
      BY <2>1, <3>1, ConvertedKeeps DEF CellKept, Given
  <2>4. QED
    BY <2>2, <2>3
<1>5. ASSUME NEW item \in object'
      PROVE  /\ item.col \in 1 .. Len(row)
             /\ item.as \in Classes
             /\ item.value.class \in Classes
             /\ LET given == Given(item.col)' IN
                  IsInteger(given) /\ item.as \in IntClass =>
                    item.value = Number(item.as, IF Fits(given.num, item.as) THEN given.num
                                                 ELSE Cast(given.num, item.as))
  <2>1. CASE item \in object
    BY <2>1 DEF IInv, TypeOK, IntegersThatFit, Given
  <2>2. CASE item = new /\ value # Throw
    <3>1. item.col = i /\ item.as = c /\ item.value = value
      BY <2>2
    <3>2. value.class \in Classes
      BY <1>1, <2>2, DeserializedClass
    <3>3. ASSUME IsInteger(Given(i)), c \in IntClass
          PROVE  value = Number(c, IF Fits(Given(i).num, c) THEN Given(i).num
                                   ELSE Cast(Given(i).num, c))
      <4> DEFINE m == cells[i]
                 num == Given(i).num
      <4>1. m.rep \in Reps /\ m.rep # {} /\ num \in Int /\ num % 2 = 0
        BY <1>1, <3>3, Columns DEF CellKept, IInv, TypeOK
      <4>2. "int" \in m.rep => "real" \notin m.rep /\ m.num = Cast(num, "Int64")
        BY <1>1, <3>3 DEF CellKept
      <4> HIDE DEF m, num
      <4>3. Deserialize(m, c) # Throw
        BY <2>2 DEF m
      <4>4. Deserialize(m, c) = Number(c, IF Fits(num, c) THEN num ELSE Cast(num, c))
        BY <3>3, <4>1, <4>2, <4>3, ReadInteger
      <4>5. QED
        BY <4>4 DEF m, num
    <3>4. Given(i)' = Given(i)
      BY DEF Given
    <3> HIDE DEF value
    <3>5. QED
      BY <3>1, <3>2, <3>3, <3>4
  <2>3. QED
    BY <1>2, <2>1, <2>2
<1>6. asText' \subseteq 1 .. Len(row)
  BY <1>2 DEF IInv, TypeOK
<1>7. IntegersThatFit'
  BY <1>5 DEF IntegersThatFit
<1>8. QED
  BY <1>2, <1>3, <1>4, <1>5, <1>6, <1>7
-----------------------------------------------------------------------------
(* The invariant *)

LEMMA InitIInv == Init => IInv
<1> SUFFICES ASSUME Init PROVE IInv
  OBVIOUS
<1>1. row = <<>> /\ Len(row) = 0 /\ DOMAIN cells = DOMAIN row /\ DOMAIN cells = {}
  BY DEF Init
<1>2. shape \in Shapes
  BY ShapesAssumption DEF Init
<1>3. TypeOK
  BY <1>1, <1>2 DEF Init, TypeOK
<1>4. QED
  BY <1>1, <1>3 DEF Init, IInv, IntegersThatFit

LEMMA InsertIInv == ASSUME IInv, NEW r \in Rows, Insert(r) PROVE IInv'
<1>1. row = <<>> /\ next = 1 /\ later = <<>> /\ asText = {} /\ object = {} /\ shape \in Shapes
  BY DEF Insert, IInv, TypeOK
<1>2. row' = r /\ next' = 1 /\ later' = <<>> /\ asText' = {} /\ object' = {} /\ shape' \in Shapes
  BY <1>1 DEF Insert
<1>3. Len(r) \in Nat /\ DOMAIN r = 1 .. Len(r)
  BY RowsAssumption
<1>4. /\ phase' \in {"refused", "stored"}
      /\ phase' = "refused" => DOMAIN cells' = {}
      /\ phase' = "stored" => cells' = [i \in DOMAIN r |-> Stored(Bind(r[i].value), r[i].affinity)]
  BY DEF Insert
<1>5. ASSUME NEW i \in DOMAIN cells'
      PROVE  cells'[i].rep \in Reps /\ CellKept(i)'
  <2>1. i \in DOMAIN r /\ cells'[i] = Stored(Bind(r[i].value), r[i].affinity)
    BY <1>4
  <2>2. /\ r[i].affinity \in Affinities
        /\ r[i].value.kind \in {"null", "nan", "number", "text"}
        /\ IsInteger(r[i].value) => /\ r[i].value.num \in Int /\ r[i].value.num % 2 = 0
                                   /\ Fits(r[i].value.num, r[i].value.class)
    BY <2>1, RowsAssumption
  <2>3. cells'[i].rep \in Reps
    BY <2>1, <2>2, BoundRep, StoredRep
  <2>4. CellKept(i)'
    BY <1>2, <2>1, <2>2, StoredInteger DEF CellKept, Given
  <2>5. QED
    BY <2>3, <2>4
<1>6. TypeOK'
  BY <1>2, <1>3, <1>4, <1>5 DEF TypeOK, Reps
<1>7. QED
  BY <1>2, <1>4, <1>5, <1>6 DEF IInv, IntegersThatFit

LEMMA BeginIInv == ASSUME IInv, NEW s \in Shapes, Begin(s) PROVE IInv'
<1>1. row \in Rows \cup {<<>>} /\ Len(row) \in Nat
  BY Columns DEF IInv, TypeOK
<1>2. row' = row /\ cells' = cells /\ next' = 1 /\ later' = <<>> /\ object' = {}
  BY DEF Begin
<1>3. TypeOK'
  BY <1>1, <1>2 DEF Begin, IInv, TypeOK
<1>4. QED
  BY <1>2, <1>3 DEF Begin, IInv, IntegersThatFit, CellKept, Given

LEMMA ReadColumnIInv == ASSUME IInv, ReadColumn PROVE IInv'
<1>1. /\ row \in Rows \cup {<<>>} /\ Len(row) \in Nat /\ DOMAIN row = 1 .. Len(row)
      /\ next \in 1 .. Len(row) /\ later \in Seq(1 .. Len(row)) /\ phase = "reading"
  BY Columns DEF ReadColumn, IInv, TypeOK
<1>2. next' \in 1 .. Len(row) + 1 /\ row' = row /\ shape' = shape
  BY <1>1 DEF ReadColumn
<1>3. CASE phase' = "stored" /\ object' = {} /\ UNCHANGED <<cells, later, asText>>
  <2>1. TypeOK'
    BY <1>1, <1>2, <1>3 DEF IInv, TypeOK
  <2>2. QED
    BY <1>2, <1>3, <1>1, <2>1 DEF IInv, IntegersThatFit, CellKept, Given
<1>4. CASE later' = Append(later, next) /\ UNCHANGED <<cells, phase, object, asText>>
  <2>1. later' \in Seq(1 .. Len(row))
    BY <1>1, <1>4
  <2>2. TypeOK'
    BY <1>1, <1>2, <1>4, <2>1 DEF IInv, TypeOK
  <2>3. QED
    BY <1>1, <1>2, <1>4, <2>2 DEF IInv, IntegersThatFit, CellKept, Given
<1>5. CASE /\ ClassAt(next) \in Classes
           /\ Read(next, ClassAt(next), FALSE)
           /\ UNCHANGED later
  <2>1. TypeOK'
    BY <1>1, <1>2, <1>5, ReadKeeps DEF IInv, TypeOK, Reps
  <2>2. QED
    BY <1>1, <1>2, <1>5, <2>1, ReadKeeps DEF IInv
<1>6. QED
  BY <1>3, <1>4, <1>5 DEF ReadColumn

LEMMA ReadLaterIInv == ASSUME IInv, ReadLater PROVE IInv'
<1>1. /\ row \in Rows \cup {<<>>} /\ Len(row) \in Nat /\ DOMAIN row = 1 .. Len(row)
      /\ later \in Seq(1 .. Len(row)) /\ later # <<>> /\ phase = "reading"
  BY Columns DEF ReadLater, IInv, TypeOK
<1>2. Head(later) \in 1 .. Len(row) /\ later' \in Seq(1 .. Len(row))
  BY <1>1 DEF ReadLater
<1>3. SelectType \in Classes
  BY DEF SelectType, Classes, IntClass, Signed
<1>4. Read(Head(later), SelectType, TRUE) /\ row' = row /\ shape' = shape /\ next' = next
  BY DEF ReadLater
<1>5. TypeOK'
  BY <1>1, <1>2, <1>3, <1>4, ReadKeeps DEF IInv, TypeOK, Reps
<1>6. QED
  BY <1>1, <1>2, <1>3, <1>4, <1>5, ReadKeeps DEF IInv

LEMMA FinishIInv == ASSUME IInv, Finish PROVE IInv'
<1>1. UNCHANGED <<row, cells, shape, next, later, object, asText>> /\ phase' = "read"
  BY DEF Finish
<1>2. phase = "reading"
  BY DEF Finish
<1>3. QED
  BY <1>1, <1>2 DEF IInv, TypeOK, IntegersThatFit, CellKept, Given

LEMMA ForgetIInv == ASSUME Forget PROVE IInv'
<1>1. /\ row' = <<>> /\ Len(row') = 0 /\ DOMAIN cells' = DOMAIN row' /\ DOMAIN cells' = {}
      /\ phase' = "none" /\ next' = 1 /\ later' = <<>> /\ object' = {} /\ asText' = {}
  BY DEF Forget
<1>2. shape' \in Shapes
  BY ShapesAssumption DEF Forget
<1>3. TypeOK'
  BY <1>1, <1>2 DEF TypeOK
<1>4. QED
  BY <1>1, <1>3 DEF IInv, IntegersThatFit

LEMMA NextIInv == IInv /\ [Next]_vars => IInv'
<1> SUFFICES ASSUME IInv, [Next]_vars PROVE IInv'
  OBVIOUS
<1>1. ASSUME NEW r \in Rows, Insert(r) PROVE IInv'
  BY <1>1, InsertIInv
<1>2. ASSUME NEW s \in Shapes, Begin(s) PROVE IInv'
  BY <1>2, BeginIInv
<1>3. CASE ReadColumn
  BY <1>3, ReadColumnIInv
<1>4. CASE ReadLater
  BY <1>4, ReadLaterIInv
<1>5. CASE Finish
  BY <1>5, FinishIInv
<1>6. CASE Forget
  BY <1>6, ForgetIInv
<1>7. CASE UNCHANGED vars
  BY <1>7 DEF vars, IInv, TypeOK, IntegersThatFit, CellKept, Given
<1>8. QED
  BY <1>1, <1>2, <1>3, <1>4, <1>5, <1>6, <1>7 DEF Next

-----------------------------------------------------------------------------
(* IInv is inductive: it holds of every row that goes through Serializer,  *)
(* SQLite and Deserializer, for all widths of the integers.                *)
THEOREM MappingInvariance == Spec => []IInv
BY InitIInv, NextIInv, PTL DEF Spec

(* deserializeInt gives back every integer that fits the class of the      *)
(* field and cuts every other to it, for all widths.                       *)
THEOREM IntegersArrive == Spec => []IntegersThatFit
<1>1. IInv => IntegersThatFit
  BY DEF IInv
<1>2. QED
  BY <1>1, MappingInvariance, PTL

(* Cells order integers of one class as the program does, but for UInt64   *)
(* from 2^63 on, for all widths.                                           *)
THEOREM IntegersStayOrdered == Spec => []OrderKept
<1>1. ASSUME IInv PROVE OrderKept
  <2> SUFFICES ASSUME NEW i \in DOMAIN cells, NEW j \in DOMAIN cells,
                      IsInteger(Given(i)), IsInteger(Given(j)),
                      Given(i).class = Given(j).class, Given(i).num < Given(j).num,
                      {row[i].affinity, row[j].affinity} \subseteq {"BLOB", "NUMERIC"}
               PROVE  (cells[i].num < cells[j].num)
                        <=> (Fits(Given(i).num, "Int64") <=> Fits(Given(j).num, "Int64"))
    BY DEF OrderKept
  <2> DEFINE a == Given(i).num
             b == Given(j).num
             c == Given(i).class
  <2>1. /\ i \in DOMAIN row /\ j \in DOMAIN row
        /\ a \in Int /\ a % 2 = 0 /\ Fits(a, c)
        /\ b \in Int /\ b % 2 = 0 /\ Fits(b, c)
    BY <1>1, Columns DEF IInv, TypeOK
  <2>2. cells[i].num = Cast(a, "Int64") /\ cells[j].num = Cast(b, "Int64")
    BY <1>1 DEF IInv, CellKept
  <2>3. c \in IntClass /\ a < b
    BY DEF IsInteger
  <2> HIDE DEF a, b, c
  <2>4. (Cast(a, "Int64") < Cast(b, "Int64")) <=> (Fits(a, "Int64") <=> Fits(b, "Int64"))
    BY <2>1, <2>3, CastKeepsOrder
  <2>5. QED
    BY <2>2, <2>4 DEF a, b
<1>2. QED
  BY <1>1, MappingInvariance, PTL
=============================================================================
