SPECIFICATION PairsSpec
CONSTANTS
  Roots <- MCRoots
  Rows <- MCRows
  RecordedDepths = {0}
  ExplainDepths = {0, 1}
  MaxRows = 4
INVARIANTS
  ParsedIffOnePreorder
  EqualIffSameOutline
  NamedChangeIsReal
CHECK_DEADLOCK FALSE
