CONSTANTS
  Agencies  <- TwoAgencies
  Servers   <- Pair
  Airlines  <- AirlinesAB
  AirlineOf <- Fleet
  Flights   <- Journey
  FlightsOf <- Routes
  Seats     <- OneSeat
  Created   <- OnlyA1
  Trans     <- Three
  TM        <- T2AtM2
  Legs      <- BothOrA
  Amount    <- T3Cancels
  Before    <- Afterwards
  Timeouts  = TRUE
  DialFails = TRUE
SPECIFICATION Spec
\* Bookings are done, or their TMs and servers wait for each other.
CHECK_DEADLOCK FALSE
INVARIANTS
  SeatsConserved
  AtomicUnlessExpired
