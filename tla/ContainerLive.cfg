\* One container, two calls in flight, under fairness.
SPECIFICATION FairSpec
CONSTANTS
  Ids = {"c1"}
  Texts = {"", "one", "none"}
  NoText = ""
  Found <- MCFound
  Calls = {a, b}
PROPERTY RemovedDisappear
