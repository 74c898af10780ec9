SPECIFICATION Spec
CONSTANTS
  SIZE = 4
  Contents <- MCContents
  Values <- MCValues
INVARIANTS
  TypeOK
  MovedIntact
  WritesExact
  SearchesExact
  InBounds
