CONSTANTS
  N           = 2
  Q           = 2
  Reach       <- Everywhere
  MaxPropose  = 1
  MaxInstance = 2
  MaxEpoch    = 0
  Proposers   <- Replicas12
  Late        <- Nobody
  Correct     <- All
SPECIFICATION Spec
\* Every command has been handled and every retry is spent.
CHECK_DEADLOCK FALSE
INVARIANTS
  TypeOK
  OneValuePerBallot
  PromiseKept
  CommitHasQuorum
  ExecutedInOrder
