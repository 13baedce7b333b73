\* Two images whose marks differ in case only, two threads, uploads, downloads and exports.
SPECIFICATION Spec
CONSTANTS
  Keys = {k1, k2}
  NoKey = NoKey
  Fold <- MCFold
  Workers = {w1, w2}
  Kinds = {"upload", "download", "export"}
  Chunks = 2
SYMMETRY ThreadSymmetry
INVARIANTS
  Exclusive MarkHasOwner ExportListHasOwner StoppedHasNoRow
  RunningRowHasTask TipCountsRows CancelSticks
PROPERTY StopIsTheUsers
