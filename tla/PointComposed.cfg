SPECIFICATION Spec
CHECK_DEADLOCK FALSE
CONSTANTS
  Absent = Absent
  Nowhere = Nowhere
  Start = 6480
  End = 11520
  Step = 90
  MaxRewrites = 4
  Letters <- MCLetters
  Digits <- MCDigits
  Sites <- MCSites
  EvseIds <- MCEvseIds
  Envelopes <- MCEnvelopes
INVARIANTS
  ComposedConforms
