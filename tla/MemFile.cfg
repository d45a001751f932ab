SPECIFICATION Spec
CONSTANTS
  Names = {n1}
  Loaders = {l1}
  Readers = {r1}
  Arcs = {a1, a2, a3}
  Versions = {v1}
  MaxBlocks = 1
  Faults = {}
  NoArc = NoArc
  NoName = NoName
  Missing = Missing
  Blank = Blank
  Garbled = Garbled
  Loading = Loading
  Merged = Merged
  Suspect = Suspect
SYMMETRY Symmetry
INVARIANT MemoryIsFile
