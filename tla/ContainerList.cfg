\* Two containers, two calls in flight.
SPECIFICATION Spec
CONSTANTS
  Ids = {"c1", "c2"}
  Texts = {"", "one", "none"}
  NoText = ""
  Found <- MCFound
  Calls = {a, b}
SYMMETRY CallSymmetry
INVARIANTS
  DeleteIsSafe BatchHasRows BoxMeansAll LeftUnchecked
PROPERTY MaskSpec
