SPECIFICATION Spec
CONSTANTS
  p0 = p0
  p1 = p1
  p2 = p2
  ann = ann
  Ann = Ann
  bob = bob
  Replicas = {r1}
  Images <- MCImages
  Phones = {p0, p1, p2}
  First = p0
  Samples <- MCSamples
  Spellings = {ann, Ann, bob}
  Normal <- MCNormal
  Callbacks = {c1}
  MaxUsers = 3
INVARIANTS
  TypeOK
  SharedList
  MongoSeen
  AnswersAreWhole
  InfluencerIdsStable
  NamesakeIsFirstAdmin
