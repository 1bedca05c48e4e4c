---------------------------- MODULE MCTypeMapping ----------------------------
(***************************************************************************)
(* Integers of 2, 3, 4 and 5 bits, doubles of 3 bits and floats of 2; all  *)
(* values of all classes in rows of one column, and rows of two and three  *)
(* columns for what concerns more than one.                                *)
(***************************************************************************)
EXTENDS TypeMappingInv

SmallHalf == [c \in IntClass |->
  CASE c \in {"Int8", "UInt8"}   -> 2
    [] c \in {"Int16", "UInt16"} -> 4
    [] c \in {"Int32", "UInt32"} -> 8
    [] c \in {"Int64", "UInt64"} -> 16]

(* The halves up to twice 2^bits that have a mantissa of so many bits. *)
Format(bits) ==
  {n \in -64 .. 64 : \E e \in {1, 2, 4, 8, 16, 32} : n % e = 0 /\ Distance(n, 0) <= 2^bits * e}

SmallDouble == Format(3)
SmallFloat == Format(2)

Spellings == {Word, Text("int", 0), Text("int", 6), Text("digits", 6), Text("int", 34),
              Text("real", 5), Text("decimal", 4), Text("decimal", 3)}

ValuesOf(c) ==
  {NullOf(c)} \cup
  CASE c \in IntClass -> {Number(c, 2 * n) : n \in Lowest(c) .. Highest(c)}
    [] c \in {"Boolean", "Enum", "NotNullEnum"} -> {Number(c, 0), Number(c, 2)}
    [] c = "Float32" -> {Number(c, n) : n \in SmallFloat} \cup {Value(c, "nan", 0, Word)}
    [] c = "Float64" -> {Number(c, n) : n \in SmallDouble} \cup {Value(c, "nan", 0, Word)}
    [] c \in {"String", "Blob", "Custom"} -> {TextOf(c, t) : t \in Spellings}
    [] c \in {"Any", "Object"} -> {}

Column(name, affinity, value) == [name |-> name, affinity |-> affinity, value |-> value]

OneColumn ==
  {<<Column("a", f, v)>> : f \in Affinities, v \in UNION {ValuesOf(c) : c \in Classes}}

Some(c) == {Number(c, 2 * Lowest(c)), Number(c, 0), Number(c, 2), Number(c, 2 * Highest(c))}

TwoNumbers ==
  {<<Column("a", "BLOB", p[1]), Column("b", f, p[2])>> :
     f \in {"BLOB", "NUMERIC"}, p \in UNION {Some(c) \X Some(c) : c \in IntClass}}

Tagged ==
  {<<Column(n[1], "BLOB", v), Column(n[2], "BLOB", w), Column(n[3], "BLOB", t)>> :
     n \in {<<"tag", "a", "b">>, <<"a", "tag", "tag">>, <<"a", "b", "tag">>, <<"a", "a", "tag">>},
     v \in {Number("Boolean", 0), Number("Boolean", 2)}, w \in {Number("Boolean", 2), TextOf("Blob", Word)},
     t \in {Number("Boolean", 0), Number("Boolean", 2), NullOf("Boolean")}}

SomeRows == OneColumn \cup TwoNumbers \cup Tagged

Lists == {[kind |-> "list", item |-> c] : c \in Classes}
Objects ==
  {[kind |-> "object", fields |-> [name \in {"a", "tag"} |->
      IF name = "tag" THEN "Int32" ELSE c]] : c \in {"Any", "String", "poly"}}
  \cup {[kind |-> "object", fields |-> [name \in {"a", "b", "tag"} |->
      IF name = "tag" THEN "Int32" ELSE "poly"]]}

SomeShapes == Lists \cup Objects
=============================================================================
