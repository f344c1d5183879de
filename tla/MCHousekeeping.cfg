SPECIFICATION Spec
CONSTANTS
  Secret = {s1, s2}
  Nothing = Nothing
  Foreign = Foreign
  NoClear = NoClear
  Never = Never
  Disabled = Disabled
  Thresholds <- MCThresholds
  Delays <- MCDelays
  MaxAge = 3
  MaxLag = 1
  MaxCopies = 2
  MaxFailures = 1
  MaxRestarts = 1
SYMMETRY Symmetry
INVARIANTS TypeOK EveryCopyHasItsClear
PROPERTIES NoEarlyClear
