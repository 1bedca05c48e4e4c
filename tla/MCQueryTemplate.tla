--------------------------- MODULE MCQueryTemplate ---------------------------
(***************************************************************************)
(* The texts are all the ways to put at most MaxPieces pieces of one kit   *)
(* together.                                                               *)
(***************************************************************************)
EXTENDS QueryParameters, QueryTemplateInv

CONSTANTS Kits, MaxPieces

Spelling(piece) ==
  CASE piece = "open"  -> OpenMark
    [] piece = "close" -> CloseMark
    [] OTHER           -> <<piece>>

PieceTexts ==
  {FlattenSeq([i \in DOMAIN ps |-> Spelling(ps[i])]) :
     ps \in UNION {BoundedSeq(kit, MaxPieces) : kit \in Kits}}
=============================================================================
