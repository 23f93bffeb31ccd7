SPECIFICATION FairSpec
CONSTANTS
  Tabs = {t1}
  SignIns <- MCSignIns
  MaxLoads = 2
  MaxCalls = 5
INVARIANTS
  TypeOK
  AccountHasToken
  SpinnerHasSignIn
PROPERTIES
  LoadingEnds
