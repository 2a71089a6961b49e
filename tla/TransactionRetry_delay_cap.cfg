CONSTANTS
  Runs = {r1, r2, r3}
  Raw <- RawValues
  DefaultMaxRetries = 2
  DefaultBaseDelayMs = 2
  DefaultMaxDelayMs = 3
SYMMETRY RetrySymmetry
SPECIFICATION RetrySpec
INVARIANT DelayCapped
