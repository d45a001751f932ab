SPECIFICATION Spec
CONSTANTS
  Names = {n1}
  Loaders = {l1, l2}
  Readers = {r1}
  Arcs = {a1, a2, a3}
  Versions = {v1, v2}
  MaxBlocks = 2
  Faults = {"io", "crash"}
  NoArc = NoArc
  NoName = NoName
  Missing = Missing
  Blank = Blank
  Garbled = Garbled
  Loading = Loading
  Merged = Merged
  Suspect = Suspect
SYMMETRY Symmetry
INVARIANT TypeOK
INVARIANT Kept
INVARIANT Coherent
INVARIANT IInv
PROPERTY CorruptionSticks
PROPERTY ImplementsCollections
