SPECIFICATION TxPagesSpec
CONSTANTS
  DescCount = 3
  Frames = 8
  MaxWrites = 3
  Pages <- ManyPages
INVARIANTS SentExactlyOnce PagesAccounted
CHECK_DEADLOCK FALSE
