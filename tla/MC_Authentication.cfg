SPECIFICATION FairSpec
CONSTANTS
  ann = ann
  ben = ben
  new = new
  c1 = c1
  None = None
  Accounts <- Everyone
  Existing <- HaveAccounts
  TwoFactor <- HaveSecondFactor
  Calls <- OneCall
  Service = service
  MaxFaults = 1
INVARIANTS
  TypeOK
  EndsSignedIn
  
PROPERTY
  SignInSettles
CHECK_DEADLOCK FALSE
