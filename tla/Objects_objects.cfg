\* One address whose object is replaced, mutated, sent and referred to; a client
\* that clears or is declared dead; a processor that is killed; a graph that is
\* aborted while a task of it goes on.
CONSTANTS
  ser = ser
  none = none
  c1 = c1
  c2 = c2
  Ids <- ThreeIds
  Contents = {c1, c2}
  Serializer = ser
  None = none
  MaxCalls = 2
  Events = {"new", "mutate", "abandon", "reference", "clear", "timeout", "kill",
            "abort", "cancel"}
  Budget = 3
SPECIFICATION FairSpec
INVARIANTS
    Accounted
    ArgumentsReachable
    SnapshotOwn
PROPERTIES
    DeletionsComplete
CHECK_DEADLOCK FALSE
