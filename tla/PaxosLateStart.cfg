CONSTANTS
  N           = 3
  Q           = 2
  Reach       <- LateLearner
  MaxPropose  = 1
  MaxInstance = 2
  MaxEpoch    = 2
  Proposers   <- Replica1
  Late        <- Replica3
  Correct     <- All
SPECIFICATION FairSpec
\* Every command has been handled and every retry is spent.
CHECK_DEADLOCK FALSE
PROPERTIES
  IsCommandLog
  LearntExecuted
  ProposedExecuted
  FreshInstance
