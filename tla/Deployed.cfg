\* Two replicas and two workers; every call, process and connection may fail.
CONSTANTS
  MaxUploads = 2
  Users = {u1, u2}
  Kinds = {"picture"}
  Sizes = {"100x100"}
  Mishaps = {"error", "lost", "restart", "connection", "worker", "broker"}
  MaxMishaps = 2
  Replicas = {r1, r2}
  StartsWith = {"nil", "open"}
  Workers = {w1, w2}
SYMMETRY Alike
SPECIFICATION Spec
INVARIANTS TypeOK StoredBeforeReady AckedIsDurable AtMostOneRemoval SystemInv EventAfterCommit NothingToProcess
PROPERTIES ImplementsCatalogue
CHECK_DEADLOCK FALSE
