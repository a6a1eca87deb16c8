\* Three racing callers that claim, release and close.
SPECIFICATION BranchSpec
CONSTANTS
  Calls = {c1, c2, c3}
  Items = {i1}
  Foreign = {}
  Legacy = {}
  Actors = {a1, a2}
  Unbuildable = {}
  NoActor = NoActor
  Keys = {}
  NoKey = NoKey
  RouteTags <- AssigneeTags
  DomainEvents = {}
  NoItem = NoItem
  Ops <- Transitions
  StoreFaults = TRUE
  MaxEvents = 5
SYMMETRY ModelSymmetry
VIEW WithoutAnswers
INVARIANTS
  TagMirrorsStatus
  ClaimerIsAssignee
