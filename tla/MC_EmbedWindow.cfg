CONSTANTS
  r1 = r1
  r2 = r2
  Requests = {r1, r2}
  None = None
  MaxTrouble = 3
SPECIFICATION FairSpec
INVARIANTS
  TypeOK
  NoneLostOrReordered
  MadeOnApproval
  AnswersAreOwn
 
CHECK_DEADLOCK FALSE
