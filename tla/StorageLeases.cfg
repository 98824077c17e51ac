CONSTANTS
  Clients     <- AgencyServers
  Callers     <- Goroutines
  ClientOf    <- Homes
  Keys        <- OneKey
  Before      <- BookedBoth
  Calls       <- Requests
  Nil         = Nil
  MaxWrites   <- OneWrite
  MaxQueries  = 2
  QueryThresh = 2
SPECIFICATION FairSpec
INVARIANTS
  TypeOK
  CoherentIfProtected
  WaitForLeases
PROPERTIES
  IsKeyValue
  WritesGoOn
