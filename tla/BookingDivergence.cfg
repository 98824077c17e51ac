CONSTANTS
  Agencies  <- OneAgency
  Servers   <- Replicated
  Airlines  <- AirlinesAB
  AirlineOf <- Fleet
  Flights   <- Journey
  FlightsOf <- Routes
  Seats     <- OneSeat
  Created   <- OnlyA1
  Trans     <- One
  TM        <- AtM1
  Legs      <- BothOrA
  Amount    <- Book
  Before    <- AnyTime
  Timeouts  = FALSE
  DialFails = TRUE
SPECIFICATION Spec
\* Bookings are done, or their TMs and servers wait for each other.
CHECK_DEADLOCK FALSE
INVARIANTS
  ReplicasAgree
