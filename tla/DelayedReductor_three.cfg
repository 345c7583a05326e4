SPECIFICATION Spec
CONSTANTS
  Ranks = {r1, r2, r3}
  Values = {1, 2}
  Initial = Initial
  MaxRounds = 3
INVARIANTS
  CallsMatched
PROPERTIES
  ImplementsLog
