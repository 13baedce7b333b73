\* All the pages, two items of two subjects, two calls in flight.
SPECIFICATION Spec
CONSTANTS
  Ids = {"i1", "i2"}
  Texts = {""}
  NoText = ""
  Found <- MCFound
  Pages = {"nodes", "templates", "virt", "images", "review", "backups", "apps"}
  Calls = {a, b}
  Subjects = {"s1", "s2"}
  SubjectOf <- MCSubjectOf
  Gui = {"i1"}
SYMMETRY CallSymmetry
INVARIANTS
  OneChosen RemovesAsked Survives
PROPERTY MaskSpec
CHECK_DEADLOCK FALSE
