\* A comment while the item is closed.
SPECIFICATION Spec
CONSTANTS
  Calls = {c1, c2}
  Items = {i1}
  Foreign = {}
  Legacy = {}
  Actors = {a1}
  Unbuildable = {}
  NoActor = NoActor
  Keys = {}
  NoKey = NoKey
  RouteTags <- TeamTag
  DomainEvents = {}
  NoItem = NoItem
  Ops = {"create", "get", "close", "comment"}
  StoreFaults = FALSE
  MaxEvents = 2
PROPERTIES
  ClosedIsFinal
