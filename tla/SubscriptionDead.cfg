\* A subscription started after an earlier one was cancelled.
SPECIFICATION Spec
CONSTANTS
  Calls = {c1, c2}
  MaxSessions = 2

CHECK_DEADLOCK FALSE
PROPERTY SubscriptionListens
