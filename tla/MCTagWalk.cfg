\* A client that lists by a tag, one row at a time.
SPECIFICATION ListsSpec
CONSTANTS
  Items = {i1, i2, i3}
  ItemTags <- FourKinds
  Filters <- PlainAndTeam
  Sizes = {1}
  PageSize = 1
  Second = 2
  Me = me
  Other = other
  NoCursor = NoCursor
  MaxTime = 3
  Ages = {1}
  CallLimit = 1
  Entries <- TwoEntries
INVARIANTS
  TagWalkComplete
