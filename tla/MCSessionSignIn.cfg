SPECIFICATION Spec
CONSTANTS
  Tabs = {t1}
  SignIns <- MCSignIns
  MaxLoads = 1
  MaxCalls = 2
PROPERTIES
  SignInStoresToken
