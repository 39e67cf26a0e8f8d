SPECIFICATION Spec
CONSTANTS
  k1 = k1
  k2 = k2
  f1 = f1
  f2 = f2
  none = none
  Unset = none
  Keys = {k1, k2}
  Fds = {f1, f2}
  MaxConnection = 1
  MaxAccepts = 2
INVARIANTS
  OnlyOwnDescriptorClosed
