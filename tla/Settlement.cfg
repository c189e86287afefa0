SPECIFICATION Spec
CHECK_DEADLOCK FALSE
CONSTANTS
  Absent = Absent
  Illegible = Illegible
  Whole = 2
  Slack = 1
  MaxSigned = 3
  Margin = 120
  TicksPerHour = 2
  MaxCalls = 2
  s1 = s1
  e1 = e1
  e2 = e2
  tariff = tariff
  card = card
  opA = opA
  opB = opB
  Floats <- MCFloats
  OperatorOf <- MCOperatorOf
  Points <- MCPoints
  Products <- MCProducts
  Sessions <- MCSessions
  Drafts <- MCDrafts
  Instants <- MCInstants
  Readings <- MCReadings
INVARIANTS
  TypeOK
  BookedIsPossible
  TruthfulIsServed
  FiledIsBooked
  BooksAgree
  ChecksAreTrue
