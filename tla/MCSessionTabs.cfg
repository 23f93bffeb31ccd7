SPECIFICATION Spec
CONSTANTS
  Tabs = {t1, t2}
  SignIns <- MCSignInsOne
  MaxLoads = 1
  MaxCalls = 2
SYMMETRY TabSymmetry
INVARIANTS
  AdminLinksSignedIn
  TokenHasUser
