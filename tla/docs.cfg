CONSTANTS
  Elements <- MCElements
  Indices <- MCIndices
  MakeName <- MCMakeName
  HeaderName <- MCHeaderName
  Qualified <- MCQualified
  StdNames = {"std::x"}
  Operators = {"operator "}
SPECIFICATION DocsSpec
INVARIANTS RoundTrip DiesOnlyFor Complete WrittenOnce
CHECK_DEADLOCK FALSE
