SPECIFICATION LiveSpec
CONSTANTS
  Agents = {a1}
  Clerks = {k1, k2}
  Providers = {"PAYSTACK"}
  MaxAttempts = 1
  MaxIdentityChecks = 2
  MaxAnswers = 5
  MaxOverwrites = 0
INVARIANTS CollectedOnce
PROPERTIES PaymentRecorded
