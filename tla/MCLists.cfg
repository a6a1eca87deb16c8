\* Three items, pages of one and two rows; a second has two ticks.
SPECIFICATION ListsSpec
CONSTANTS
  Items = {i1, i2, i3}
  ItemTags <- FourKinds
  Filters <- PlainAndTeam
  Sizes = {0, 1, 2}
  PageSize = 1
  Second = 2
  Me = me
  Other = other
  NoCursor = NoCursor
  MaxTime = 4
  Ages = {1}
  CallLimit = 2
  Entries <- TwoEntries
INVARIANTS
  TypeOK
  NoItemTwice
  PlainWalkComplete
  FittingWalkComplete
  SeededOnce
PROPERTIES
  WalkEnds
  WalkMovesBack
  StaleIsExact
