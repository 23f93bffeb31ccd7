SPECIFICATION Spec
CONSTANTS
  fan = fan
  small = small
  weekly = weekly
  monthly = monthly
  Fans = {fan}
  Amounts = {small}
  Frequencies = {weekly, monthly}
  Demo <- MCDemo
  MaxLen = 4
  MaxSerial = 6
INVARIANTS
  TypeOK
  IdsArePositionsUntilDelete
  CopiesAtMostId
  DemoIdsAscend
  IdsAtMostSerial
PROPERTIES
  NamesakesShielded
