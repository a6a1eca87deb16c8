SPECIFICATION KindsSpec
CONSTANTS
  Items = {i1, i2, other, old}
  Foreign = {other}
  Legacy = {old}
  Calls = {c1, c2}
  Actors <- AnnAndBob
  Unbuildable <- AnnAlone
  NoActor <- NoActorYet
  Keys = {k1}
  NoKey = NoKey
  RouteTags <- TeamTag
  DomainEvents = {scored}
  NoItem = NoItem
  Ops <- AllOps
  StoreFaults = TRUE
  MaxEvents = 2
  Identities <- TwoClients
  NoIdentity <- None
  Spare = i2
  Rejected <- NobodyOnly
INVARIANTS
  LegacyStaysTerminal
  ForeignDocUntouched
  OneItemPerKey
PROPERTIES
  RefusalsChangeNothing
  CallsReturn
VIEW Essentials
CHECK_DEADLOCK FALSE
