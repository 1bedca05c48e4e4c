SPECIFICATION Spec
CONSTANTS
  MaxRows = 5
  Counts <- FetchCounts
INVARIANTS IInv RowsAccounted RowsInOrder PositionTells FetchedWhatWasAsked MessageOfFailure
PROPERTIES IsStream FetchEnds
