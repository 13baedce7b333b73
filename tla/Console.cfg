\* Every role on its pages; the badges of the two administrators who change them.
SPECIFICATION ConsoleSpec
CONSTANTS
  Roles = {"sysadm", "secadm", "audadm"}
  Counted = {"secadm", "audadm"}
  MaxCount = 1
  MaxCalls = 3
  MaxNews = 1
  MaxChanges = 1

INVARIANTS
  MarkedIsShown ShownRefreshes LeftRests BadgesHideNone
