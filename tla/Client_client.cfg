\* A graph with one target, or two mapped tasks; a user thread, and a scheduler
\* that may fall silent.
CONSTANTS
  f1 = f1
  f2 = f2
  main = main
  other = other
  Futures = {f1, f2}
  Calls <- GetOrStarmap
  Main = main
  Users = {other}
  Events = {"clear", "timeout"}
  Budget = 1
SPECIFICATION FairSpec
INVARIANTS
    SettledOnce
    ClearAfterFutures
PROPERTIES
    OutcomeFinal
    EverybodyAnswered
CHECK_DEADLOCK FALSE
