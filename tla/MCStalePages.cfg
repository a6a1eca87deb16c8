\* Two people look at the queue and one of them closes an item; the RPC client
\* only creates it.
SPECIFICATION FairBrowserSpec
CONSTANTS
  b1 = b1
  b2 = b2
  p = p
  q = q
  Items = {i1}
  Foreign = {}
  Legacy = {}
  Calls = {p, q, r}
  Actors <- SomeActors
  Unbuildable = {}
  NoActor <- NoActorYet
  Keys = {}
  NoKey = NoKey
  RouteTags = {}
  DomainEvents = {}
  NoItem = NoItem
  Ops = {"create", "get", "close"}
  StoreFaults = FALSE
  MaxEvents = 2
  Identities <- AnnAndTriage
  NoIdentity <- None
  Rejected <- NobodyOnly
  Completable = {i1}
  Browsers = {b1, b2}
  Owner <- TwoBrowsers
  IdentityOf <- Both
CONSTRAINT ClientsOnlyCreate
PROPERTIES
  RowsCatchUp
CHECK_DEADLOCK FALSE
