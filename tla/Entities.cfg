SPECIFICATION Spec
CONSTANTS
  Loads = {l1, l2}
  Dirs = {d1, d2}
  Ids <- MCIds
  Queries <- MCQueries
  Bodies <- MCBodies
  Trim <- MCTrim
  NoId = NoId
  DefaultEntity = "rs"
  Kinds = {k1}
  NoEntity = NoEntity
SYMMETRY Symmetry
INVARIANT TypeOK
INVARIANT RegistryIsDisk
INVARIANT OwnTexts
