CONSTANTS
  N           = 3
  Q           = 2
  Reach       <- ToAcceptors
  MaxPropose  = 1
  MaxInstance = 1
  MaxEpoch    = 0
  Proposers   <- Replicas12
  Late        <- Nobody
  Correct     <- All
SPECIFICATION Spec
\* Every command has been handled and every retry is spent.
CHECK_DEADLOCK FALSE
INVARIANTS
  OneChosenIfLed
