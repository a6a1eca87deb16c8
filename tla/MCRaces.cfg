\* Two racing callers on one item, every operation.
SPECIFICATION BranchSpec
CONSTANTS
  Calls = {c1, c2}
  Items = {i1}
  Foreign = {}
  Legacy = {}
  Actors = {a1, bad}
  Unbuildable = {bad}
  NoActor = NoActor
  Keys = {}
  NoKey = NoKey
  RouteTags <- TeamTag
  DomainEvents = {}
  NoItem = NoItem
  Ops <- AllOps
  StoreFaults = TRUE
  MaxEvents = 3
SYMMETRY ModelSymmetry
VIEW BranchView
CONSTRAINT BuildableAct
INVARIANTS
  TypeOK
  StatusMatchesLog
  LegalHistories
  OneStatusTag
PROPERTIES
  ImplementsBranching
