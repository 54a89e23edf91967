SPECIFICATION Spec
CONSTANTS
  User = {u1, u2}
  First = u1
  Session = {s1, s2}
  Login = {l1}
  Request = {q1, q2}
  MaxSignOuts = 1
  MaxFaults = 1
SYMMETRY Symmetry
INVARIANT SignOutIsComplete
PROPERTY LockoutNeedsARace
CHECK_DEADLOCK FALSE
