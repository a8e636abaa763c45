SPECIFICATION Spec
CONSTANTS
  Agents = {a1}
  Clerks = {}
  Providers = {"FLUTTERWAVE"}
  MaxAttempts = 2
  MaxIdentityChecks = 1
  MaxAnswers = 2
  MaxOverwrites = 1
INVARIANTS GivenOnceUnlessOverwritten FailureIsConclusive BooksAgree
PROPERTIES FinalStays ImplementsPrize
VIEW WithoutCode
