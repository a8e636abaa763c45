SPECIFICATION Spec
CONSTANTS
  customer = customer
  agent = agent
  h1 = h1
  h2 = h2
  Wallets = {customer}
  Holds = {h1, h2}
  Details <- CustomerDetails
  Sessions = {s1, s2, s3}
  NoRequest = NoRequest
  NoHold = NoHold
SYMMETRY SessionSymmetry
INVARIANTS NeverOverdrawn HeldIsOutstanding ClosedIsEmpty
PROPERTIES ImplementsAccount
