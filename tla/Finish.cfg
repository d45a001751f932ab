SPECIFICATION FairSpec
CONSTANTS
  Names = {n1}
  Loaders = {l1, l2}
  Readers = {r1}
  Arcs = {a1, a2, a3}
  Versions = {v1}
  MaxBlocks = 1
  Faults = {"io", "crash"}
  NoArc = NoArc
  NoName = NoName
  Missing = Missing
  Blank = Blank
  Garbled = Garbled
  Loading = Loading
  Merged = Merged
  Suspect = Suspect
PROPERTY TasksFinish
