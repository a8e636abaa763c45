SPECIFICATION Spec
CONSTANTS
  Agents = {a1}
  Clerks = {k1}
  Providers = {"FLUTTERWAVE"}
  MaxAttempts = 1
  MaxIdentityChecks = 1
  MaxAnswers = 1
  MaxOverwrites = 1
INVARIANTS PrizeGivenOnce
