SPECIFICATION Spec
CONSTANTS
  None = None
  ann = ann
  Ann = Ann
  bob = bob
  cid = cid
  p1 = p1
  p2 = p2
  n1 = n1
  n2 = n2
  a1 = a1
  Workers = {w1, w2}
  Emails = {ann, bob}
  Spellings = {ann, bob}
  Normal <- SameSpelling
  Passwords = {p1, p2}
  UserTypes = {"user"}
  Profiles = {n1}
  Avatars = {a1}
  InitCollections <- SuspendedPasswordUser
  MaxUsers = 2
INVARIANT UniqueEmails
