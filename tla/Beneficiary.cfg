SPECIFICATION Spec
CONSTANTS
  Claims = {c1, c2}
  Banks = {b1, b2}
  MaxTries = 3
  MaxCodes = 2
INVARIANTS MoneyKeepsItsAccount PaidToVerified ClearedOnEvidence ChangesAuthorised OneClient
PROPERTIES DestinationStays
SYMMETRY Interchangeable
CHECK_DEADLOCK FALSE
