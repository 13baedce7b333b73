\* One image, two threads; under fair threads and slots every mark is released
\* and every row settles.
SPECIFICATION FairSpec
CONSTANTS
  Keys = {k1}
  NoKey = NoKey
  Fold <- MCFold
  Workers = {w1, w2}
  Kinds = {"update", "download", "export"}
  Chunks = 2

PROPERTIES
  MarkReleased RowSettles
