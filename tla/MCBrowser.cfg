\* One browser with two requests at a time, and an RPC client.
SPECIFICATION BrowserSpec
CONSTANTS
  b1 = b1
  b2 = b2
  p = p
  q = q
  Items = {i1}
  Foreign = {}
  Legacy = {}
  Calls = {p, q, r}
  Actors <- SomeActors
  Unbuildable = {}
  NoActor <- NoActorYet
  Keys = {}
  NoKey = NoKey
  RouteTags = {}
  DomainEvents = {}
  NoItem = NoItem
  Ops <- PageOps
  StoreFaults = FALSE
  MaxEvents = 3
  Identities <- TwoKinds
  NoIdentity <- None
  Rejected <- NobodyOnly
  Completable = {i1}
  Browsers = {b1}
  Owner <- OneBrowser
  IdentityOf <- AnAgent
INVARIANTS
  BrowserTypeOK
PROPERTIES
  ScreensHaveBeen
  ButtonsFit
  ClaimerMayRelease
CONSTRAINT AtMostTwo
VIEW Essentials
SYMMETRY ModelSymmetry
CHECK_DEADLOCK FALSE
