\* One replica whose calls may fail.
CONSTANTS
  MaxUploads = 2
  Users = {u1}
  Kinds = {"picture"}
  Sizes = {"100x100", "300x300"}
  Mishaps = {"error"}
  MaxMishaps = 1
  Replicas = {r1}
  StartsWith = {"open"}
  Workers = {}
SPECIFICATION Spec
INVARIANTS GaugeCountsObjects
CHECK_DEADLOCK FALSE
