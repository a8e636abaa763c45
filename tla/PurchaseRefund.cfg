SPECIFICATION RefreshedSpec
CONSTANTS
  Gateways = {"PAYSTACK", "MONNIFY", "FLUTTERWAVE"}
  MaxFaults = 2
INVARIANTS TicketPaidFor DrawIsSettled BooksAgree RefundMatchesProvider
PROPERTIES RefundRecorded
CHECK_DEADLOCK FALSE
