SPECIFICATION FairSpec
CONSTANTS
  Forms = {f1, f2}
  Replicas = {r1, r2}
  Chosen = r1
  MaxSubmissions = 2
  MaxSerial = 3
INVARIANTS
  TypeOK
  OnceForEachSubmission
  
  ConfirmedIsStored
  
PROPERTIES
  ReplicaIsStore
  SubmissionsSettle
