\* One connector that sends twice and is sent to once; its connection may be cut and
\* made again, either end may close, a connection attempt may be refused.
CONSTANTS
  Sockets = {s}
  MaxConns = 2
  MaxUp = 2
  MaxDown = 1
  MaxRetry = 1
  TTL = 0
  MaxTime = 1
  Events = {"cut", "refuse", "shutdown", "close", "stop"}
  Budget = 2
SPECIFICATION FairSpec
INVARIANTS
    BooksAgree
    DeliverySound
PROPERTIES
    ForgottenOnlyWhenOld
    SendsGetThrough
CHECK_DEADLOCK FALSE
