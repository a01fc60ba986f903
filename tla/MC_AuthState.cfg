SPECIFICATION FairSpec
CONSTANTS
  p1 = p1
  p2 = p2
  ann = ann
  ben = ben
  Nobody = Nobody
  Pages <- OnePage
  Users <- TwoUsers
  Flows <- TwoFlows
  MaxSessions = 3
  MaxTrouble = 1
INVARIANTS
  TypeOK
  ShowsLastSignIn
  AgentIsSession
PROPERTY
  LoadEnds
CHECK_DEADLOCK FALSE
