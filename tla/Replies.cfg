CONSTANT MaxLength = 7
SPECIFICATION StreamSpec
INVARIANTS
  FirstArrayWins
  CallsAreRecovered
CHECK_DEADLOCK FALSE
