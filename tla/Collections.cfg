SPECIFICATION Spec
CONSTANTS
  one = one
  two = two
  one1 = one1
  one2 = one2
  two1 = two1
  Fundings = {one, two}
  Charges = {one1, one2, two1}
  ChargeOf <- FundingOf
  Callers = {v1, v2}
  Amount = 2
  Other = 1
  Batches = {b}
  Syncs = {y1, y2}
  MaxRuns = 1
INVARIANTS CreditIsBacked ClearingTraceable CleanRunHolds
PROPERTIES CreditStays
CONSTRAINT Apart
SYMMETRY Interchangeable
CHECK_DEADLOCK FALSE
