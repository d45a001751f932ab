SPECIFICATION Spec
CONSTANTS
  Kinds <- MCKinds
  MaxLines = 5
INVARIANT TypeOK
INVARIANT ParsesIntoEntries
INVARIANT KeysFit
INVARIANT ListingReloads
\* A parsed text is a parsed text: the functions return.
CHECK_DEADLOCK FALSE
