SPECIFICATION Spec
CONSTANTS
  Texts <- PieceTexts
  Kits = {{"a", ":", "open", "close"}}
  MaxPieces = 5
INVARIANT SectionsAreRaw
CHECK_DEADLOCK FALSE
