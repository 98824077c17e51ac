CONSTANTS
  N           = 3
  Q           = 2
  Reach       <- FromReplica3
  MaxPropose  = 2
  MaxInstance = 2
  MaxEpoch    = 0
  Proposers   <- Replica3
  Late        <- Nobody
  Correct     <- Replicas12
SPECIFICATION FairSpec
\* Every command has been handled and every retry is spent.
CHECK_DEADLOCK FALSE
PROPERTIES
  LearntExecuted
