\* Two requests at once, three accounts; two pairs of names that differ in case only.
SPECIFICATION MCSpec
CONSTANTS
  admin = admin
  ADMIN = ADMIN
  ana = ana
  ANA = ANA
  adminMail = adminMail
  mail1 = mail1
  mail2 = mail2
  Name <- MCName
  Email <- MCEmail
  Fold <- MCFold
  AdminName = admin
  AdminMail = adminMail
  Node = {n1, n2, n3}
  Call = {c1, c2}
SYMMETRY Symmetry
INVARIANTS
  ServedUnique
  OneProfile
  CalmNamesDiffer
  CalmAdminNotBlocked
PROPERTY
  StaysLockedOut
