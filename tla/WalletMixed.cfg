SPECIFICATION Spec
CONSTANTS
  customer = customer
  agent = agent
  h1 = h1
  h2 = h2
  Wallets = {agent}
  Holds = {}
  Details <- MixedDetails
  Sessions = {s1, s2}
  NoRequest = NoRequest
  NoHold = NoHold
SYMMETRY SessionSymmetry
INVARIANTS WalletNonnegative
