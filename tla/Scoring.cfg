SPECIFICATION Spec
CONSTANTS
  Vectors <- MCVectors
  Queries <- MCQueries
  MaxDocs = 3
  Ceilings = {0, 1, 2, 5}
  Floors = {0, 2}
  Bands = {0, 20, 50}
  Scale = 25
  Error = 1
  Rounding <- MCRounding
INVARIANT TypeOK
INVARIANT SelectionIsNearest
 
\* A selection ends.
CHECK_DEADLOCK FALSE
