SPECIFICATION Spec
CONSTANTS
  Tabs = {t1}
  SignIns <- MCSignInsOne
  MaxLoads = 1
  MaxCalls = 2
PROPERTIES
  StoredTokenLasts
