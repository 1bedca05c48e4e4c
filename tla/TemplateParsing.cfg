SPECIFICATION Spec
CONSTANTS
  Texts <- PieceTexts
  Kits = {{"a", ".", ":", "open", "close"}, {"a", ":", "'", "$", "open", "close"}, {"a", ":", "?", "'", "open", "close"}}
  MaxPieces = 6
INVARIANTS ScanInv OnlyMarkersRemoved VariablesFound ErrorReported PathIsName BoundInPlace
PROPERTY ScanEnds
CHECK_DEADLOCK FALSE
