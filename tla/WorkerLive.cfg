\* Messages that can be settled, with failures of every kind.
CONSTANTS
  MaxUploads = 1
  Users = {u1}
  Kinds = {"picture", "document"}
  Sizes = {"100x100"}
  Mishaps = {"error", "worker", "connection"}
  MaxMishaps = 2
  Workers = {w1, w2}
SPECIFICATION FairSpec
INVARIANTS DocumentsKept
PROPERTIES EveryMessageSettled
CHECK_DEADLOCK FALSE
