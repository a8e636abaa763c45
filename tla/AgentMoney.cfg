SPECIFICATION ScheduledSpec
CONSTANTS
  Days = 4
  Gross <- GrossOfDays
  PaidOut <- PaidOutOnDays
  Cutover = 2
  Percent = 10
  Requests = {q1, q2}
  Sales = {s1}
  Price = 4
  Prizes = {p1}
  Prize = 3
  Funds = 4
INVARIANTS BooksAgree ClearedIsNotOwed
PROPERTIES ClearedOnce ScheduledWorkDone
CHECK_DEADLOCK FALSE
