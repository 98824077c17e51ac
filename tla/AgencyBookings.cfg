CONSTANTS
  StorageServers <- Three
  Master         = "s0"
  NumNodes       = 3
  NodeID         <- Places
  RingSize       = 8
  Storehash      <- Hash
  Airlines       <- AirlineA
  AgencyIDs      <- Agency1
  AllAirline     = "ALL_AIRLINE"
  Agencies       <- Servers
  IDOf           <- SameAgency
  Users          <- UV
  AirlineOf      <- Routes
  Seats          <- TwoSeats
  Requests       <- Everything
  Asks           <- Clients
  At             <- Door
  Before         <- Flow
  Faults         = TRUE
SPECIFICATION FairSpec
INVARIANTS
  TypeOK
  SeatForEntry
  RightServer
PROPERTIES
  OneRing
