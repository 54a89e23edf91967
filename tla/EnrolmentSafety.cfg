SPECIFICATION PageSpec
CONSTANTS
  User = {u1, u2}
  NoUser = NoUser
  Token = {t1, t2}
  Machine = {n1}
  MaxSecrets = 2
  Handshake = {h1, h2}
SYMMETRY Symmetry
INVARIANTS VerdictStands DeadIsRefused ShownOnce
PROPERTIES OwnerStable RevocationHolds
CHECK_DEADLOCK FALSE
