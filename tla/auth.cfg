SPECIFICATION Spec
CONSTANTS
  Users = {u1}
  Passwords = {p1, p2}
  Slots = {r1, r2}
  ExpirationTime = 1
  MaxTime = 2
  NULL = NULL
  Malformed = Malformed
SYMMETRY MCSymmetry
INVARIANTS TypeOK TokensNameAccounts AdmittedByRecentLogin LoginPasswordWasCurrent
