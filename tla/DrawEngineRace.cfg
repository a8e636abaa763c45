SPECIFICATION Spec
CONSTANTS
  Draws = {d1}
  JackpotDraws = {d1}
  Engines = {e1, e2}
  GatewayTickets = {g1}
  WalletTickets = {}
  AgentTickets = {a1}
  Entries = {n1}
  NoDraw = NoDraw
  NoSeed = NoSeed
  NoResult = NoResult
  MaxTime = 2
  MaxEdits = 1
  MaxFaults = 1
SYMMETRY EngineSymmetry
INVARIANTS NoLockedSaleLeftOut OneWinner
PROPERTIES CommitThenReveal NeverReopened
