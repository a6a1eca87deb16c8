\* Two actors claim at once.
SPECIFICATION Spec
CONSTANTS
  Calls = {c1, c2}
  Items = {i1}
  Foreign = {}
  Legacy = {}
  Actors = {a1, a2}
  Unbuildable = {}
  NoActor = NoActor
  Keys = {}
  NoKey = NoKey
  RouteTags <- TeamTag
  DomainEvents = {}
  NoItem = NoItem
  Ops = {"create", "get", "claim"}
  StoreFaults = FALSE
  MaxEvents = 2
INVARIANTS
  ClaimIsExclusive
