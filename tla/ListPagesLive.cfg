\* The backups: one item that belongs to one of two containers, two calls in flight.
SPECIFICATION FairSpec
CONSTANTS
  Ids = {"i1"}
  Texts = {""}
  NoText = ""
  Found <- MCFound
  Pages = {"backups"}
  Calls = {a, b}
  Subjects = {"s1", "s2"}
  SubjectOf <- MCSubjectOf
  Gui = {"i1"}
PROPERTIES
  MaskLifts BackupsSettle
CHECK_DEADLOCK FALSE
