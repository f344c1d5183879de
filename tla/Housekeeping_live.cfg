SPECIFICATION FairSpec
CONSTANTS
  Secret = {s1, s2}
  Nothing = Nothing
  Foreign = Foreign
  NoClear = NoClear
  Never = Never
  Disabled = Disabled
  Thresholds <- MCThresholds
  Delays <- OneDelay
  MaxAge = 2
  MaxLag = 1
  MaxCopies = 2
  MaxFailures = 1
  MaxRestarts = 1
PROPERTIES CopiedSecretIsCleared ArmedIdleVaultLocks
