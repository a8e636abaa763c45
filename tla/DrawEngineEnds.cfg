SPECIFICATION FairSpec
CONSTANTS
  Draws = {d1, d2}
  JackpotDraws = {}
  Engines = {e1}
  GatewayTickets = {}
  WalletTickets = {w1}
  AgentTickets = {a1}
  Entries = {}
  NoDraw = NoDraw
  NoSeed = NoSeed
  NoResult = NoResult
  MaxTime = 2
  MaxEdits = 0
  MaxFaults = 1
PROPERTIES SoldDrawEnds ImplementsRaffle
