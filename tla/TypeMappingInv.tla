---------------------------- MODULE TypeMappingInv ----------------------------
(***************************************************************************)
(* The inductive invariants behind the properties of TypeMapping.          *)
(***************************************************************************)
EXTENDS TypeMapping

(* What reading keeps of an integer: the cell of a column without type or  *)
(* of numeric affinity holds the number that was bound, others hold none   *)
(* that could be read as an integer.                                       *)
CellKept(i) ==
  IsInteger(Given(i)) =>
    /\ cells[i].rep # {}
    /\ row[i].affinity \in {"BLOB", "NUMERIC"} => "int" \in cells[i].rep
    /\ "int" \in cells[i].rep => /\ "real" \notin cells[i].rep
                                 /\ cells[i].num = Cast(Given(i).num, "Int64")

(* There are cells while there is a row to be read, an object while it is  *)
(* read, and an integer goes through all of it as IntegersThatFit says.    *)
IInv ==
  /\ TypeOK
  /\ phase = "none" => row = <<>> /\ next = 1 /\ later = <<>> /\ asText = {}
  /\ phase \in {"stored", "reading", "read"} => DOMAIN cells = DOMAIN row
  /\ phase \in {"none", "refused", "stored"} => object = {}
  /\ \A i \in DOMAIN cells : CellKept(i)
  /\ IntegersThatFit

-----------------------------------------------------------------------------
(* What a cell holds of the value that was bound to it, whatever it has    *)
(* been read as: nothing of NULL and NaN; the number of a number, unless   *)
(* the column made a text of it; the text of a text, or, in a column of    *)
(* numeric affinity, the integer that SQLite prints as this text.          *)
Holds(m, given, affinity, readAsText) ==
  LET numeric == m.rep \cap {"int", "real"}
  IN /\ ~Refuses(given)
     /\ m.rep = {} <=> given.kind \in {"null", "nan"}
     /\ given.class # "Blob" => m.rep # {"blob"}
     /\ readAsText <=> given.class = "Blob" /\ "text" \in m.rep
     /\ given.kind = "number" /\ given.class \in {"Float32", "Float64"} =>
          /\ numeric # {} => m.num = given.num
          /\ affinity = "BLOB" => numeric = {"real"}
     /\ given.kind = "number" /\ given.class \notin {"Float32", "Float64"} =>
          /\ "int" \in m.rep => "real" \notin m.rep /\ m.num = Cast(given.num, "Int64")
          /\ affinity = "BLOB" => "int" \in m.rep
     /\ given.kind = "text" /\ given.class = "Blob" =>
          numeric = {} /\ m.text = given.text
     /\ given.kind = "text" /\ given.class = "String" /\ ~Respelled(given, affinity) =>
          \/ numeric = {} /\ "text" \in m.rep /\ m.text = given.text
          \/ /\ numeric = {"int"} /\ affinity # "BLOB" /\ given.text = Text("int", m.num)
             /\ m.rep \cap {"text", "blob"} # {} => m.text = given.text

CellHolds(i) == Holds(cells[i], Given(i), row[i].affinity, i \in asText)

(* A column is read once, as the class of its field; polymorphic fields    *)
(* after all others, as the type that the tag selects then and later.      *)
ReadInOrder ==
  /\ \A item \in object :
       IF item.poly THEN /\ next > Len(row)
                         /\ row[item.col].name # "tag"
                         /\ item.as = SelectType
                    ELSE item.col < next /\ ClassAt(item.col) = item.as
  /\ \A k \in DOMAIN later : ClassAt(later[k]) = "poly"

ContentInv ==
  /\ IInv
  /\ \A i \in DOMAIN cells : CellHolds(i)
  /\ ReadInOrder
  /\ RoundTrip
  /\ AnyKeepsContent
=============================================================================
