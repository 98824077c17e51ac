CONSTANTS
  Agencies  <- OneAgency
  Servers   <- Single
  Airlines  <- AirlineA
  AirlineOf <- Fleet
  Flights   <- OnlyA1
  FlightsOf <- Routes
  Seats     <- OneSeat
  Created   <- OnlyA1
  Trans     <- Two
  TM        <- AtM1
  Legs      <- AllA
  Amount    <- Book
  Before    <- AnyTime
  Timeouts  = FALSE
  DialFails = FALSE
SPECIFICATION FairSpec
\* Bookings are done, or their TMs and servers wait for each other.
CHECK_DEADLOCK FALSE
PROPERTIES
  Answered
