SPECIFICATION Spec
CONSTANTS
  Sales = {s1, s2, s3}
  Online = {s3}
  Quantities = {1, 2}
  PerOffer = 3
  MaxThreshold = 2
  Weeks = 2
  Attempts = {a1, a2}
INVARIANTS OffersAreEarned OneTicketPerOffer OneRail
PROPERTIES FinalStays
SYMMETRY Interchangeable
CHECK_DEADLOCK FALSE
