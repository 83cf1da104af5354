\* One replica and one worker, no failure.
CONSTANTS
  MaxUploads = 2
  Users = {u1}
  Kinds = {"picture"}
  Sizes = {"100x100", "300x300"}
  Mishaps = {}
  MaxMishaps = 0
  Replicas = {r1}
  StartsWith = {"open"}
  Workers = {w1}
SPECIFICATION Spec
INVARIANTS DeletedFilesGo
CHECK_DEADLOCK FALSE
