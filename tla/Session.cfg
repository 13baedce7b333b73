\* Two sessions, two calls in flight, under fair calls and slots; the program
\* stops when its window is closed.
SPECIFICATION FairSpec
CONSTANTS
  Calls = {c1, c2}
  MaxSessions = 2

CHECK_DEADLOCK FALSE
INVARIANTS
  WindowHasKey ExpiryIsReal
PROPERTIES
  OnlyStaleEnds ExpiryShowsLogin CallAnswered
