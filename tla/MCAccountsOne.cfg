SPECIFICATION Spec
CONSTANTS
  None = None
  ann = ann
  Ann = Ann
  bob = bob
  cid = cid
  p1 = p1
  p2 = p2
  n1 = n1
  n2 = n2
  a1 = a1
  Workers = {w1}
  Emails <- MCEmails
  Spellings <- MCSpellings
  Normal <- MCNormal
  Passwords = {p1, p2}
  UserTypes = {"user", "admin"}
  Profiles = {n1, n2}
  Avatars = {a1}
  InitCollections <- SuspendedGoogleUser
  MaxUsers = 3
SYMMETRY DataSymmetry
INVARIANTS
  TypeOK
  UniqueEmails
  TokenNamesItsAccount
  AloneInv
PROPERTIES
  OwnerChangesOnly
  DirectorySpec
