CONSTANTS
  None = None
  MockModels <- TheMockModels
  VendorDefault <- TheDefaults
  Asked <- SomeRequests
  Deployed <- SomeSettings
  LengthOf <- Lengths
  MaxEvents = 4
  Words = 3
SPECIFICATION Spec
CHECK_DEADLOCK FALSE
INVARIANTS
  TypeOK
  TextReachesTheUser
  UsageIsAsReported
  EveryEndingIsLogged
  OfferedIsServed
