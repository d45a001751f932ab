SPECIFICATION Spec
CONSTANTS
  Unit = 2
  Minute = 2
  Leeway = 2
  Settings <- MCSettings
  Unset = Unset
  Default = 1
  MaxMinutes = 2
  Word = 100
  Pairs = {k1, k2}
  Skew = 2
  Horizon = 18
  MaxTokens = 1
SYMMETRY Symmetry
INVARIANT TypeOK
INVARIANT NeverTooLong
INVARIANT NeverTooShort
