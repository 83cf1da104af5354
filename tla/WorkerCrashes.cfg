\* Two workers that crash and lose their channels; every call succeeds.
CONSTANTS
  MaxUploads = 2
  Users = {u1}
  Kinds = {"picture", "opaque", "document"}
  Sizes = {"100x100", "300x300"}
  Mishaps = {"worker", "connection"}
  MaxMishaps = 2
  Workers = {w1, w2}
SYMMETRY Alike
SPECIFICATION Spec
INVARIANTS TypeOK SettledMeansDone ReadyHasThumbs
PROPERTIES NoResurrection ImplementsProcessing
CHECK_DEADLOCK FALSE
