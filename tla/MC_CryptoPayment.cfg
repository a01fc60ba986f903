SPECIFICATION FairSpec
CONSTANTS
  Methods = {"evm", "btc", "icp"}
  MaxPages = 2
  MaxAttempts = 2
  MaxQuotes = 2
  MaxFaults = 1
INVARIANTS TypeOK PageAttemptsInTurn CompletedMeansPaid SubmitsUnderItsActivation
PROPERTIES EveryPaymentEnds
CHECK_DEADLOCK FALSE
