\* Two items, one call at a time on each.
SPECIFICATION SerialSpec
CONSTANTS
  Calls = {c1, c2}
  Items = {i1, i2}
  Foreign = {}
  Legacy = {}
  Actors = {a1}
  Unbuildable = {}
  NoActor = NoActor
  Keys = {}
  NoKey = NoKey
  RouteTags <- TeamTag
  DomainEvents = {}
  NoItem = NoItem
  Ops <- AllOps
  StoreFaults = TRUE
  MaxEvents = 3
SYMMETRY ModelSymmetry
VIEW ClaimAnswers
INVARIANTS
  TagMirrorsStatus
  ClaimIsExclusive
PROPERTIES
  EventsAppendOnly
  ClosedIsFinal
  ImplementsLifecycle
