\* Both views, two rows, two calls in flight, replies handled twice.
SPECIFICATION Spec
CONSTANTS
  Ids = {"e1", "e2"}
  Texts = {"", "key"}
  NoText = ""
  Found <- MCFound
  Calls = {a, b}
  Views = {"logs", "warnings"}
  Typed <- MCTyped
  MaxPages = 2
  MaxConnections = 2
INVARIANTS
  EditNamesPage
PROPERTIES TurnsToAPage MaskSpec
