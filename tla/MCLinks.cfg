\* Two callers, two links, and staff that works on the item.
SPECIFICATION LinkSpec
CONSTANTS
  Calls = {c1, c2}
  Items = {i1}
  Foreign = {}
  Legacy = {}
  user = user
  agent = agent
  service = service
  staff = staff
  Actors <- People
  Unbuildable = {}
  NoActor = NoActor
  Keys = {}
  NoKey = NoKey
  RouteTags = {}
  DomainEvents = {}
  NoItem = NoItem
  Ops = {"create", "get", "close", "comment"}
  StoreFaults = TRUE
  MaxEvents = 3
  Links = {l1, l2}
  Holders = {user, agent}
  Staff = {staff}
  Users = {user}
  AsService <- Renamed
  MaxClock = 1
SYMMETRY LinkSymmetry
VIEW WithoutResults
INVARIANTS
  LinkTypeOK
  HoldersOnlyRespond
PROPERTIES
  SubmittedIsClosed
  ImplementsInbox
