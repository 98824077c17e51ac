CONSTANTS
  Agencies  <- TwoAgencies
  Servers   <- Replicated
  Airlines  <- AirlinesAB
  AirlineOf <- Fleet
  Flights   <- Journey
  FlightsOf <- Routes
  Seats     <- OneSeat
  Created   <- Journey
  Trans     <- Two
  TM        <- T2AtM2
  Legs      <- BothOrA
  Amount    <- Book
  Before    <- AnyTime
  Timeouts  = FALSE
  DialFails = FALSE
SPECIFICATION FairSpec
\* Bookings are done, or their TMs and servers wait for each other.
CHECK_DEADLOCK FALSE
INVARIANTS
  TypeOK
  SeatsConserved
  ReplicasAgree
  VoteAwaited
PROPERTIES
  IsAtomicCommit
  Answered
  Resolved
