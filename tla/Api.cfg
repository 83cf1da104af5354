SPECIFICATION Spec
CONSTANTS
  u1 = u1
  u2 = u2
  Users <- TwoUsers
  MaxUploads = 3
  MaxMishaps = 1
SYMMETRY Symmetry
INVARIANTS TypeOK OnlyListedCodes  FreshIsShown
PROPERTIES  MapImplementsGallery RefusalLeavesNoRow
CHECK_DEADLOCK FALSE
