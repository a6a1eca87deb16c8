--------------------------- MODULE ListingProofs ---------------------------
(***************************************************************************)
(* Proofs about lists, reminders and seeding: no row twice, walks that go  *)
(* back and miss nothing, reminders for the right items, and no demo item  *)
(* twice, for any number of items, tags, ages, page sizes, demo items and  *)
(* length of a second, and whatever is written meanwhile.                  *)
(***************************************************************************)
EXTENDS Staleness, Seed, FiniteSetTheorems, TLAPS

\* The items there are.
Present == {i \in Items : updated[i] > 0}

\* Cutting a time to whole seconds does not move it forward.
LEMMA WholeSecondsFloor ==
  ASSUME NEW t \in Nat
  PROVE  WholeSeconds(t) \in Nat /\ WholeSeconds(t) <= t
<1>1. Second \in Nat /\ Second > 0
  BY TimeAssumption
<1>2. t \div Second \in Nat /\ t % Second \in Nat
      /\ t = Second * (t \div Second) + (t % Second)
  BY <1>1, SMT
<1>3. Second * (t \div Second) = (t \div Second) * Second
      /\ (t \div Second) * Second \in Nat
  BY <1>1, <1>2, SMT
<1> QED BY <1>2, <1>3 DEF WholeSeconds

LEMMA PassedBack ==
  ASSUME NEW t \in Nat, NEW list
  PROVE  Passed(list, t) \in Nat /\ Passed(list, t) <= t
  BY WholeSecondsFloor DEF Passed

\* A walk begins with nothing shown, and then goes back in time.
GoesBack ==
  walk.state = "more" =>
    /\ walk.cursor = NoCursor => Shown = {}
    /\ walk.cursor # NoCursor => \A i \in Shown : walk.cursor <= updated[i]

\* What a client has not met of a plain list is still before its cursor.
RestBehind ==
  walk.state = "more" /\ PlainWalk =>
    \A i \in Untouched : i \in Shown \/ Before(updated[i], walk.cursor)

RpcStaysRpc == walk.first = "rpc" => walk.list = "rpc"

Inv == /\ TypeOK
       /\ NoItemTwice
       /\ GoesBack
       /\ RpcStaysRpc
       /\ RestBehind
       /\ PlainWalkComplete

LEMMA InitInv == Init => Inv
<1> SUFFICES ASSUME Init PROVE Inv
  OBVIOUS
<1>1. TypeOK
  BY DEF Init, TypeOK, Lists, FilterTags
<1>2. walk.state = "none" /\ walk.seen = {} /\ walk.page = {} /\ walk.list = "rpc"
  BY DEF Init
<1> QED BY <1>1, <1>2 DEF Inv, NoItemTwice, GoesBack, RpcStaysRpc, RestBehind, PlainWalkComplete

LEMMA StartInv ==
  ASSUME Inv, NEW list \in Lists, NEW filter, NEW size \in Nat,
         filter \in FilterTags,
         size \in Sizes \union {0, PageSize},
         StartWalk(list, filter, size)
  PROVE  Inv'
<1>1. walk' = [state |-> "more", first |-> list, list |-> list, filter |-> filter,
               size |-> size, cursor |-> NoCursor, began |-> now,
               seen |-> {}, page |-> {}]
      /\ UNCHANGED <<updated, tags, now>>
  BY DEF StartWalk
<1>2. TypeOK'
  BY <1>1 DEF Inv, TypeOK
<1>3. Shown' = {} /\ walk'.cursor = NoCursor /\ walk'.page = {}
  BY <1>1 DEF Shown
<1> QED BY <1>1, <1>2, <1>3
        DEF Inv, NoItemTwice, GoesBack, RpcStaysRpc, RestBehind, Before, PlainWalkComplete

\* A write moves an item before every cursor and out of the untouched ones.
LEMMA WriteInv ==
  ASSUME Inv, NEW i \in Items, NEW ts \in ItemTags, Write(i, ts)
  PROVE  Inv'
<1>1. now \in Nat /\ now' = now + 1 /\ walk' = walk
  BY DEF Write, Inv, TypeOK
<1>2. /\ updated \in [Items -> 0..now] /\ updated' = [updated EXCEPT ![i] = now + 1]
      /\ tags' = [tags EXCEPT ![i] = ts]
  BY DEF Write, Inv, TypeOK
<1>3. TypeOK'
  <2>1. updated' \in [Items -> 0..now']
    BY <1>1, <1>2
  <2>2. walk'.began \in 0..now'
    BY <1>1 DEF Inv, TypeOK
  <2>3. tags' \in [Items -> ItemTags \union {{}}]
    BY <1>2 DEF Inv, TypeOK
  <2> QED BY <1>1, <2>1, <2>2, <2>3 DEF Inv, TypeOK
<1>4. \A j \in Items : updated[j] <= updated'[j]
  BY <1>1, <1>2
<1>5. Shown' = Shown /\ Shown \subseteq Items
  BY <1>1 DEF Shown, Inv, TypeOK
<1>6. walk.began \in Nat /\ walk.began <= now
  BY <1>1 DEF Inv, TypeOK
<1>7. \A j \in Untouched' : j \in Untouched /\ updated'[j] = updated[j]
  BY <1>1, <1>2, <1>6 DEF Untouched
<1>8. GoesBack'
  <2>1. walk.cursor # NoCursor => walk.cursor \in Nat
    BY DEF Inv, TypeOK
  <2>2. \A j \in Items : updated[j] \in Nat /\ updated'[j] \in Nat
    BY <1>1, <1>2
  <2> QED BY <1>1, <1>4, <1>5, <2>1, <2>2 DEF Inv, GoesBack
<1>9. RestBehind'
  BY <1>1, <1>5, <1>7 DEF Inv, RestBehind, PlainWalk, Before
<1>10. PlainWalkComplete'
  BY <1>1, <1>5, <1>7 DEF Inv, PlainWalkComplete, PlainWalk
<1> QED BY <1>1, <1>3, <1>8, <1>9, <1>10 DEF Inv, NoItemTwice, RpcStaysRpc

\* The rows of a page were not shown before, and what is older than the
\* page is before its last row.
LEMMA PageFacts ==
  ASSUME Inv, walk.state = "more", NEW found \in SUBSET Items,
         IsPage(found, walk.cursor, Limit(walk.size)),
         NEW page \in SUBSET found
  PROVE  /\ page \intersect Shown = {}
         /\ \A i \in page : updated[i] \in Nat /\ Before(updated[i], walk.cursor)
         /\ \A last \in page : \A i \in Shown : updated[last] <= updated[i]
<1>1. \A i \in Items : updated[i] \in Nat
  BY DEF Inv, TypeOK
<1>2. walk.cursor \in Nat \union {NoCursor} /\ Shown \subseteq Items
  BY DEF Inv, TypeOK, Shown
<1>3. \A i \in page : i \in Items /\ Before(updated[i], walk.cursor)
  BY DEF IsPage
<1>4. ASSUME NEW i \in page, NEW j \in Shown
      PROVE  updated[i] < updated[j]
  <2>1. walk.cursor # NoCursor /\ walk.cursor <= updated[j]
    BY DEF Inv, GoesBack
  <2>2. updated[i] < walk.cursor
    BY <1>3, <2>1 DEF Before
  <2> QED BY <1>1, <1>2, <1>3, <2>1, <2>2
<1>5. page \intersect Shown = {}
  BY <1>1, <1>3, <1>4
<1>6. \A i \in page, j \in Shown : updated[i] <= updated[j]
  BY <1>1, <1>2, <1>3, <1>4
<1> QED BY <1>1, <1>3, <1>5, <1>6

LEMMA NextPageInv ==
  ASSUME Inv, NextPage
  PROVE  Inv'
<1>1. PICK found \in SUBSET Items :
        /\ IsPage(found, walk.cursor, Limit(walk.size))
        /\ LET page   == filterByTags(found, walk.filter)
               loaded == [walk EXCEPT !.seen = @ \union walk.page, !.page = page]
           IN \/ /\ ~FullPage(page, walk.size)
                 /\ walk' = [loaded EXCEPT !.state = "done", !.cursor = NoCursor]
              \/ /\ FullPage(page, walk.size)
                 /\ \E last \in page :
                      /\ IsLast(last, page)
                      /\ walk' = [loaded EXCEPT !.cursor = Passed(walk.list, updated[last]),
                                                !.list = MoreList(@),
                                                !.filter = MoreFilter(walk.list, @)]
  BY DEF NextPage
<1> DEFINE page   == filterByTags(found, walk.filter)
           loaded == [walk EXCEPT !.seen = @ \union walk.page, !.page = page]
<1>2. walk.state = "more" /\ UNCHANGED <<updated, tags, now>>
  BY DEF NextPage
<1>3. page \in SUBSET found /\ page \in SUBSET Items
  BY DEF filterByTags
<1>4. /\ page \intersect Shown = {}
      /\ \A i \in page : updated[i] \in Nat /\ Before(updated[i], walk.cursor)
      /\ \A last \in page : \A i \in Shown : updated[last] <= updated[i]
  BY <1>1, <1>2, <1>3, PageFacts
<1>5. /\ walk'.seen = Shown /\ walk'.page = page
      /\ walk'.first = walk.first /\ walk'.began = walk.began /\ walk'.size = walk.size
  BY <1>1 DEF Shown, Inv, TypeOK
<1>6. NoItemTwice' /\ Shown' = Shown \union page /\ Untouched' = Untouched
  BY <1>2, <1>4, <1>5 DEF NoItemTwice, Shown, Untouched
<1>7. PlainWalk => page = found
  BY DEF PlainWalk, filterByTags, HasAll
<1>8. CASE ~FullPage(page, walk.size)
          /\ walk' = [loaded EXCEPT !.state = "done", !.cursor = NoCursor]
  <2>1. walk'.state = "done" /\ walk'.list = walk.list /\ walk'.filter = walk.filter
    BY <1>8 DEF Inv, TypeOK
  <2>2. TypeOK'
    BY <1>2, <1>3, <1>8 DEF Inv, TypeOK
  <2>3. PlainWalkComplete'
    <3> SUFFICES ASSUME PlainWalk, NEW i \in Untouched PROVE i \in Shown \union page
      BY <1>5, <1>6, <2>1 DEF PlainWalkComplete, PlainWalk
    <3>1. CASE i \in Shown
      BY <3>1
    <3>2. CASE Before(updated[i], walk.cursor)
      <4>1. Limit(walk.size) = walk.size /\ Cardinality(found) # walk.size
        BY <1>7, <1>8 DEF PlainWalk, Limit, FullPage
      <4>2. found = {j \in Items : updated[j] > 0 /\ Before(updated[j], walk.cursor)}
        BY <1>1, <4>1 DEF IsPage
      <4>3. i \in Items /\ updated[i] > 0
        BY DEF Untouched, Inv, TypeOK
      <4> QED BY <1>7, <3>2, <4>2, <4>3
    <3> QED BY <1>2, <3>1, <3>2 DEF Inv, RestBehind
  <2> QED BY <1>5, <1>6, <2>1, <2>2, <2>3 DEF Inv, GoesBack, RpcStaysRpc, RestBehind
<1>9. ASSUME FullPage(page, walk.size), NEW last \in page, IsLast(last, page),
             walk' = [loaded EXCEPT !.cursor = Passed(walk.list, updated[last]),
                                    !.list = MoreList(@),
                                    !.filter = MoreFilter(walk.list, @)]
      PROVE  Inv'
  <2> DEFINE cursor == Passed(walk.list, updated[last])
  <2>1. cursor \in Nat /\ cursor <= updated[last]
    BY <1>4, <1>9, PassedBack
  <2>2. /\ walk'.state = "more" /\ walk'.cursor = cursor /\ walk'.cursor # NoCursor
        /\ walk'.list = MoreList(walk.list) /\ walk'.filter = MoreFilter(walk.list, walk.filter)
    BY <1>2, <1>9, <2>1, TimeAssumption DEF Inv, TypeOK
  <2> HIDE DEF cursor
  <2>3. TypeOK'
    <3>1. MoreList(walk.list) \in Lists /\ MoreFilter(walk.list, walk.filter)
            \in FilterTags
      BY DEF Inv, TypeOK, MoreList, MoreFilter, Lists, FilterTags
    <3> QED BY <1>2, <1>3, <1>9, <2>1, <3>1 DEF Inv, TypeOK, cursor
  <2>4. GoesBack'
    <3>1. \A i \in page : updated[last] <= updated[i]
      BY <1>9 DEF IsLast
    <3>2. \A i \in Items : updated[i] \in Nat
      BY DEF Inv, TypeOK
    <3>3. Shown \subseteq Items
      BY DEF Inv, TypeOK, Shown
    <3>4. \A i \in Shown \union page : cursor <= updated[i]
      BY <1>3, <1>4, <2>1, <3>1, <3>2, <3>3
    <3> QED BY <1>2, <1>6, <2>2, <3>4 DEF GoesBack
  <2>5. RpcStaysRpc'
    BY <1>5, <2>2 DEF Inv, RpcStaysRpc, MoreList
  <2>6. RestBehind'
    <3> SUFFICES ASSUME PlainWalk', NEW i \in Untouched, i \notin Shown \union page
                 PROVE  updated[i] < cursor
      BY <1>2, <1>6, <2>2 DEF RestBehind, Before
    <3>1. walk.list = "rpc" /\ PlainWalk
      BY <1>5, <2>2 DEF Inv, RpcStaysRpc, PlainWalk, MoreFilter
    <3>2. cursor = updated[last] /\ page = found
      BY <1>7, <3>1 DEF Passed, cursor
    <3>3. Before(updated[i], walk.cursor) /\ i \in Items /\ updated[i] > 0
      BY <1>2, <3>1 DEF Inv, RestBehind, Untouched
    <3> QED BY <1>1, <1>9, <3>2, <3>3 DEF IsPage
  <2> QED BY <1>6, <2>2, <2>3, <2>4, <2>5, <2>6 DEF Inv, PlainWalkComplete
<1> QED BY <1>1, <1>8, <1>9

LEMMA InvCorrect == Spec => []Inv
<1>1. Init => Inv
  BY InitInv
<1>2. Inv /\ [Next]_vars => Inv'
  <2> SUFFICES ASSUME Inv, [Next]_vars PROVE Inv'
    OBVIOUS
  <2>1. ASSUME NEW filter \in Filters, NEW size \in Sizes, ListItems(filter, size)
        PROVE  Inv'
    <3>1. size \in Nat /\ "rpc" \in Lists /\ filter \in FilterTags
      BY SizesAssumption DEF Lists, FilterTags
    <3> QED BY <2>1, <3>1, StartInv DEF ListItems
  <2>2. ASSUME NEW chosen \in Filters, handleQueue(chosen)
        PROVE  Inv'
    <3>1. PageSize \in Nat /\ "queue" \in Lists /\ OpenTags \union chosen \in FilterTags
      BY SizesAssumption DEF Lists, FilterTags
    <3> QED BY <2>2, <3>1, StartInv DEF handleQueue
  <2>3. ASSUME NEW chosen \in Filters, handleMyWork(chosen)
        PROVE  Inv'
    <3>1. PageSize \in Nat /\ "mywork" \in Lists /\ MineTags \union chosen \in FilterTags
      BY SizesAssumption DEF Lists, FilterTags
    <3> QED BY <2>3, <3>1, StartInv DEF handleMyWork
  <2>4. ASSUME NEW i \in Items, NEW ts \in ItemTags, Write(i, ts) PROVE Inv'
    BY <2>4, WriteInv
  <2>5. CASE UNCHANGED vars
    BY <2>5 DEF vars, Inv, TypeOK, NoItemTwice, GoesBack, RpcStaysRpc, RestBehind,
                PlainWalkComplete, PlainWalk, Shown, Untouched, Before
  <2> QED BY <2>1, <2>2, <2>3, <2>4, <2>5, NextPageInv DEF Next
<1> QED BY <1>1, <1>2, PTL DEF Spec

\* The lists have their types, for any items, tags and sizes.
THEOREM ListsTyped == Spec => []TypeOK
<1>1. Inv => TypeOK
  BY DEF Inv
<1> QED BY <1>1, InvCorrect, PTL

\* No list shows an item twice in one walk, whatever is written during it.
THEOREM RowsOnce == Spec => []NoItemTwice
<1>1. Inv => NoItemTwice
  BY DEF Inv
<1> QED BY <1>1, InvCorrect, PTL

\* The walk of a list without tags misses nothing that was there and stayed.
THEOREM PlainWalksComplete == Spec => []PlainWalkComplete
<1>1. Inv => PlainWalkComplete
  BY DEF Inv
<1> QED BY <1>1, InvCorrect, PTL

\* Pages of a walk that are not the last lead back in time.
THEOREM WalksGoBack == Spec => WalkMovesBack
<1>1. Inv /\ [Next]_vars =>
        [NextPage => \/ walk'.state = "done"
                     \/ walk'.cursor \in Nat /\ Before(walk'.cursor, walk.cursor)]_vars
  <2> SUFFICES ASSUME Inv, NextPage, walk'.state # "done"
               PROVE  walk'.cursor \in Nat /\ Before(walk'.cursor, walk.cursor)
    OBVIOUS
  <2>1. PICK found \in SUBSET Items :
          /\ IsPage(found, walk.cursor, Limit(walk.size))
          /\ LET page   == filterByTags(found, walk.filter)
                 loaded == [walk EXCEPT !.seen = @ \union walk.page, !.page = page]
             IN \/ /\ ~FullPage(page, walk.size)
                   /\ walk' = [loaded EXCEPT !.state = "done", !.cursor = NoCursor]
                \/ /\ FullPage(page, walk.size)
                   /\ \E last \in page :
                        /\ IsLast(last, page)
                        /\ walk' = [loaded EXCEPT !.cursor = Passed(walk.list, updated[last]),
                                                  !.list = MoreList(@),
                                                  !.filter = MoreFilter(walk.list, @)]
    BY DEF NextPage
  <2>2. PICK last \in filterByTags(found, walk.filter) :
          walk'.cursor = Passed(walk.list, updated[last])
    BY <2>1 DEF Inv, TypeOK
  <2>3. updated[last] \in Nat /\ Before(updated[last], walk.cursor)
    <3>1. filterByTags(found, walk.filter) \in SUBSET found /\ walk.state = "more"
      BY DEF filterByTags, NextPage
    <3> QED BY <2>1, <2>2, <3>1, PageFacts
  <2>4. Passed(walk.list, updated[last]) \in Nat /\ Passed(walk.list, updated[last]) <= updated[last]
    BY <2>3, PassedBack
  <2>5. walk.cursor \in Nat \union {NoCursor}
    BY DEF Inv, TypeOK
  <2> QED BY <2>2, <2>3, <2>4, <2>5 DEF Before
<1> QED BY <1>1, InvCorrect, PTL DEF Spec, WalkMovesBack

\* Items that fit on a page fit on it before.
LEMMA StillFits ==
  ASSUME NEW limit \in Nat, updated \in [Items -> Nat], updated' \in [Items -> Nat],
         \A i \in Items : updated[i] > 0 => updated'[i] > 0,
         Cardinality(Present') <= limit
  PROVE  Cardinality(Present) <= limit
<1>1. Present \subseteq Present' /\ Present' \subseteq Items
  BY DEF Present
<1>2. IsFiniteSet(Present') /\ IsFiniteSet(Present)
  BY <1>1, ItemsFinite, FS_Subset
<1>3. /\ Cardinality(Present) <= Cardinality(Present')
      /\ Cardinality(Present) \in Nat /\ Cardinality(Present') \in Nat
  BY <1>1, <1>2, FS_Subset, FS_CardinalityType
<1> QED BY <1>3

\* A page that may hold as many items as there are holds them all.
LEMMA FittingPage ==
  ASSUME NEW page, NEW limit \in Nat, IsPage(page, NoCursor, limit),
         Cardinality(Present) <= limit
  PROVE  page = Present
<1>1. page \subseteq Present /\ (page = Present \/ Cardinality(page) = limit)
  BY DEF IsPage, Before, Present
<1>2. IsFiniteSet(Present)
  BY ItemsFinite, FS_Subset DEF Present
<1>3. /\ Cardinality(page) <= Cardinality(Present)
      /\ Cardinality(page) = Cardinality(Present) => page = Present
      /\ Cardinality(page) \in Nat /\ Cardinality(Present) \in Nat
  BY <1>1, <1>2, FS_Subset, FS_CardinalityType
<1> QED BY <1>1, <1>3

\* A client whose page holds all items there are misses none of those with
\* the tags that stayed: its first page has them (get.go:27-45).
THEOREM FittingWalksComplete == Spec => []FittingWalkComplete
<1> DEFINE Asked == walk.first = "rpc" /\ walk.size > 0 /\ Cardinality(Present) <= walk.size
           Loaded == walk.state = "done" \/ (walk.state = "more" /\ walk.cursor # NoCursor)
           Met == {i \in Untouched : HasAll(tags[i], walk.filter)} \subseteq Shown
           FirstHasAll == Loaded /\ Asked => Met
<1>1. Init => FirstHasAll
  BY DEF Init
<1>2. Inv /\ FirstHasAll /\ [Next]_vars => FirstHasAll'
  <2> SUFFICES ASSUME Inv, FirstHasAll, [Next]_vars, Loaded', Asked' PROVE Met'
    OBVIOUS
  <2>1. walk.size \in Nat
    <3>1. walk.size \in Sizes \union {0, PageSize}
      BY DEF Inv, TypeOK
    <3>2. Sizes \union {0, PageSize} \subseteq Nat
      BY SizesAssumption
    <3> QED BY <3>1, <3>2
  <2>2. ASSUME NEW list, NEW filter, NEW size, StartWalk(list, filter, size) PROVE FALSE
    BY <2>2 DEF StartWalk
  <2>3. CASE NextPage
    <3>1. PICK found \in SUBSET Items :
            /\ IsPage(found, walk.cursor, Limit(walk.size))
            /\ LET page   == filterByTags(found, walk.filter)
                   loaded == [walk EXCEPT !.seen = @ \union walk.page, !.page = page]
               IN \/ /\ ~FullPage(page, walk.size)
                     /\ walk' = [loaded EXCEPT !.state = "done", !.cursor = NoCursor]
                  \/ /\ FullPage(page, walk.size)
                     /\ \E last \in page :
                          /\ IsLast(last, page)
                          /\ walk' = [loaded EXCEPT !.cursor = Passed(walk.list, updated[last]),
                                                    !.list = MoreList(@),
                                                    !.filter = MoreFilter(walk.list, @)]
      BY <2>3 DEF NextPage
    <3>2. walk.state = "more" /\ UNCHANGED <<updated, tags, now>>
      BY <2>3 DEF NextPage
    <3>3. /\ walk'.seen = Shown /\ walk'.page = filterByTags(found, walk.filter)
          /\ walk'.first = walk.first /\ walk'.began = walk.began /\ walk'.size = walk.size
          /\ walk'.filter = walk.filter \/ walk'.filter = MoreFilter(walk.list, walk.filter)
      BY <3>1 DEF Shown, Inv, TypeOK
    <3>4. walk.first = "rpc" /\ walk'.filter = walk.filter /\ walk.size > 0
      BY <3>3 DEF Inv, RpcStaysRpc, MoreFilter
    <3>5. Present' = Present /\ Untouched' = Untouched
          /\ Shown' = Shown \union filterByTags(found, walk.filter)
      BY <3>2, <3>3 DEF Present, Untouched, Shown
    <3>6. Cardinality(Present) <= walk.size
      BY <3>3, <3>5
    <3>7. CASE walk.cursor = NoCursor
      <4>1. Limit(walk.size) = walk.size /\ walk.size \in Nat
        BY <2>1, <3>4 DEF Limit
      <4>2. found = Present
        BY <3>1, <3>6, <3>7, <4>1, FittingPage
      <4>3. Untouched \subseteq found
        BY <4>2 DEF Untouched, Present
      <4> QED BY <3>2, <3>4, <3>5, <4>3 DEF filterByTags
    <3>8. CASE walk.cursor # NoCursor
      <4>1. Met
        BY <3>2, <3>4, <3>6, <3>8
      <4> QED BY <3>2, <3>4, <3>5, <4>1
    <3> QED BY <3>7, <3>8
  <2>4. ASSUME NEW i \in Items, NEW ts, Write(i, ts) PROVE Met'
    <3>1. /\ now' = now + 1 /\ walk' = walk /\ updated' = [updated EXCEPT ![i] = now + 1]
          /\ tags' = [tags EXCEPT ![i] = ts]
      BY <2>4 DEF Write
    <3>2. /\ now \in Nat /\ updated \in [Items -> 0..now] /\ walk.began \in 0..now
          /\ tags \in [Items -> ItemTags \union {{}}] /\ walk.size \in Nat
      BY <2>1 DEF Inv, TypeOK
    <3>3. updated \in [Items -> Nat] /\ updated' \in [Items -> Nat]
      BY <3>1, <3>2
    <3>4. Cardinality(Present) <= walk.size
      <4>1. \A j \in Items : updated[j] > 0 => updated'[j] > 0
        BY <3>1, <3>2
      <4>2. Cardinality(Present') <= walk.size
        BY <3>1
      <4> QED BY <3>2, <3>3, <4>1, <4>2, StillFits
    <3>5. \A j \in Untouched' : j \in Untouched /\ tags'[j] = tags[j]
      BY <3>1, <3>2 DEF Untouched
    <3>6. Met
      BY <3>1, <3>4
    <3>7. Shown' = Shown
      BY <3>1 DEF Shown
    <3> QED BY <3>1, <3>5, <3>6, <3>7
  <2>5. CASE UNCHANGED vars
    <3>1. Loaded /\ Asked
      BY <2>5 DEF vars, Present
    <3> QED BY <2>5, <3>1 DEF vars, Untouched, Shown
  <2> QED BY <2>2, <2>3, <2>4, <2>5 DEF Next, ListItems, handleQueue, handleMyWork
<1>3. FirstHasAll => FittingWalkComplete
  BY DEF FittingWalkComplete, Present
<1> QED BY <1>1, <1>2, <1>3, InvCorrect, PTL DEF Spec

-----------------------------------------------------------------------------
(* Reminders *)

\* The items that were there when the call began and have not been written
\* since.
Kept == {i \in Items : 0 < updated[i] /\ updated[i] <= call.began}

Fits == Cardinality(Present) <= Limit(CallLimit)

\* The call has read what the items it holds still are, if they are kept,
\* and holds all of these that have its tags, if they fit on a page.
ReadFits ==
  call.state = "read" =>
    \A i \in Kept :
      /\ \A item \in call.items : item.id = i =>
           item.acted = acted[i] /\ HasAll(tags[i], call.required)
      /\ Fits /\ HasAll(tags[i], call.required) =>
           \E item \in call.items : item.id = i /\ item.acted = acted[i]

Times ==
  /\ now \in Nat /\ updated \in [Items -> Nat]
  /\ DOMAIN acted = Items /\ DOMAIN tags = Items
  /\ \A i \in Items : updated[i] <= now

\* The fields of the call.
Fields ==
  /\ call = [state |-> call.state, required |-> call.required, age |-> call.age,
             began |-> call.began, items |-> call.items, cutoff |-> call.cutoff,
             stale |-> call.stale]
  /\ call.began \in Nat /\ call.began <= now

StaleInv == Times /\ Fields /\ ReadFits

\* A write leaves fewer items kept, and those as they were; the items may
\* fit on a page no longer.
LEMMA WriteKeeps ==
  ASSUME StaleInv, NEW i \in Items, NEW ts, Write(i, ts), call' = call,
         acted' = acted \/ \E at : acted' = [acted EXCEPT ![i] = at]
  PROVE  StaleInv'
<1>1. /\ now' = now + 1 /\ updated' = [updated EXCEPT ![i] = now + 1]
      /\ tags' = [tags EXCEPT ![i] = ts]
  BY DEF Write
<1>2. Times'
  BY <1>1 DEF StaleInv, Times
<1>3. Fields'
  BY <1>1 DEF StaleInv, Fields, Times
<1>4. ASSUME NEW j \in Kept'
      PROVE  /\ j \in Kept /\ j \in Items
             /\ acted'[j] = acted[j] /\ tags'[j] = tags[j]
  <2>1. j # i /\ j \in Items
    BY <1>1 DEF Kept, StaleInv, Times, Fields
  <2>2. updated'[j] = updated[j]
    BY <1>1, <2>1 DEF StaleInv, Times
  <2>3. acted'[j] = acted[j] /\ tags'[j] = tags[j]
    BY <1>1, <2>1 DEF StaleInv, Times
  <2> QED BY <2>1, <2>2, <2>3 DEF Kept
<1>5. Fits' => Fits
  <2>1. Limit(CallLimit) \in Nat
    BY AgesAssumption, SizesAssumption DEF Limit
  <2>2. /\ updated \in [Items -> Nat] /\ updated' \in [Items -> Nat]
        /\ \A j \in Items : updated[j] > 0 => updated'[j] > 0
    BY <1>1 DEF StaleInv, Times
  <2> QED BY <2>1, <2>2, StillFits DEF Fits
<1>6. ReadFits'
  BY <1>4, <1>5 DEF StaleInv, ReadFits
<1> QED BY <1>2, <1>3, <1>6 DEF StaleInv

LEMMA ReadKeeps ==
  ASSUME StaleInv, NEW required, NEW age, StaleRead(required, age)
  PROVE  StaleInv'
<1>1. PICK page \in SUBSET Items :
        /\ IsPage(page, NoCursor, Limit(CallLimit))
        /\ call' = [state |-> "read", required |-> required, age |-> age, began |-> now,
                    items |-> {[id |-> i, acted |-> acted[i], updated |-> updated[i]] :
                                 i \in filterByTags(page, required)},
                    cutoff |-> 0, stale |-> {}]
  BY DEF StaleRead
<1>2. UNCHANGED <<updated, tags, now, acted>>
  BY DEF StaleRead, vars
<1>3. Times' /\ Fields'
  BY <1>1, <1>2 DEF StaleInv, Times, Fields
<1>4. call'.required = required
      /\ call'.items = {[id |-> i, acted |-> acted[i], updated |-> updated[i]] :
                          i \in filterByTags(page, required)}
  BY <1>1
<1>5. Fits => page = Present
  <2>1. Limit(CallLimit) \in Nat
    BY AgesAssumption, SizesAssumption DEF Limit
  <2> QED BY <1>1, <2>1, FittingPage DEF Fits
<1>6. ASSUME NEW i \in Kept'
      PROVE  /\ \A item \in call'.items : item.id = i =>
                  item.acted = acted'[i] /\ HasAll(tags'[i], call'.required)
             /\ Fits' /\ HasAll(tags'[i], call'.required) =>
                  \E item \in call'.items : item.id = i /\ item.acted = acted'[i]
  <2>1. i \in Present
    BY <1>2 DEF Kept, Present
  <2>2. ASSUME NEW item \in call'.items, item.id = i
        PROVE  item.acted = acted'[i] /\ HasAll(tags'[i], call'.required)
    <3>1. PICK j \in filterByTags(page, required) :
            item = [id |-> j, acted |-> acted[j], updated |-> updated[j]]
      BY <1>4
    <3>2. j = i
      BY <2>2, <3>1
    <3> QED BY <1>2, <1>4, <3>1, <3>2 DEF filterByTags
  <2>3. ASSUME Fits', HasAll(tags'[i], call'.required)
        PROVE  \E item \in call'.items : item.id = i /\ item.acted = acted'[i]
    <3>1. Fits
      BY <1>2, <2>3 DEF Fits, Present
    <3>2. i \in filterByTags(page, required)
      BY <1>2, <1>4, <1>5, <2>1, <2>3, <3>1 DEF filterByTags
    <3>3. [id |-> i, acted |-> acted[i], updated |-> updated[i]] \in call'.items
      BY <1>4, <3>2
    <3> QED BY <1>2, <3>3
  <2> QED BY <2>2, <2>3
<1>7. ReadFits'
  BY <1>6 DEF ReadFits
<1> QED BY <1>3, <1>7 DEF StaleInv

LEMMA StaleInvCorrect == StaleSpec => []StaleInv
<1>1. StaleInit => StaleInv
  BY DEF StaleInit, Init, StaleInv, Times, Fields, ReadFits
<1>2. StaleInv /\ [StaleNext]_staleVars => StaleInv'
  <2> SUFFICES ASSUME StaleInv, [StaleNext]_staleVars PROVE StaleInv'
    OBVIOUS
  <2>1. ASSUME NEW i \in Items, NEW ts, NEW at, Act(i, ts, at) PROVE StaleInv'
    BY <2>1, WriteKeeps DEF Act
  <2>2. ASSUME NEW i \in Items, NEW ts, Retag(i, ts) PROVE StaleInv'
    BY <2>2, WriteKeeps DEF Retag
  <2>3. ASSUME NEW required, NEW age, StaleRead(required, age) PROVE StaleInv'
    BY <2>3, ReadKeeps
  <2>4. CASE StaleReturn
    <3>1. UNCHANGED <<updated, tags, now, acted>>
      BY <2>4 DEF StaleReturn, vars
    <3>2. call'.state = "done" /\ call'.began = call.began /\ Fields'
      BY <2>4, <3>1 DEF StaleReturn, StaleInv, Fields
    <3>3. Times' /\ ReadFits'
      BY <3>1, <3>2 DEF StaleInv, Times, ReadFits
    <3> QED BY <3>2, <3>3 DEF StaleInv
  <2>5. CASE UNCHANGED staleVars
    BY <2>5 DEF staleVars, vars, StaleInv, Times, Fields, ReadFits, Kept, Fits, Present
  <2> QED BY <2>1, <2>2, <2>3, <2>4, <2>5 DEF StaleNext
<1> QED BY <1>1, <1>2, PTL DEF StaleSpec

\* A reminder goes to the quiet items with the tags and to no other, apart
\* from those written since the list was read, and as far as the items fit
\* on a page (get.go:72-90).
THEOREM RemindersCorrect == StaleSpec => StaleIsExact
<1>1. StaleInv =>
        [StaleReturn =>
           LET cutoff == call'.cutoff
               Quiet(i) == HasAll(tags[i], call.required) /\ acted[i] < cutoff
               kept == {i \in Items : 0 < updated[i] /\ updated[i] <= call.began}
               fit  == Cardinality({i \in Items : updated[i] > 0}) <= Limit(CallLimit)
           IN \A i \in kept : /\ i \in call'.stale => Quiet(i)
                              /\ fit /\ Quiet(i) => i \in call'.stale]_staleVars
  <2> SUFFICES ASSUME StaleInv, StaleReturn, NEW i \in Kept
               PROVE  /\ i \in call'.stale =>
                           HasAll(tags[i], call.required) /\ acted[i] < call'.cutoff
                      /\ Fits /\ HasAll(tags[i], call.required) /\ acted[i] < call'.cutoff =>
                           i \in call'.stale
    BY DEF Kept, Fits, Present
  <2>1. PICK cutoff : /\ cutoff = now - call.age
                      /\ call' = [call EXCEPT !.state = "done", !.cutoff = cutoff,
                                              !.stale = {item.id : item \in
                                                 {j \in call.items : lastEventBefore(j, cutoff)}}]
    BY DEF StaleReturn
  <2>2. call.state = "read"
    BY DEF StaleReturn
  <2>3. call'.cutoff = cutoff
        /\ call'.stale = {item.id : item \in {j \in call.items : lastEventBefore(j, cutoff)}}
    BY <2>1 DEF StaleInv, Fields
  <2>4. ASSUME i \in call'.stale
        PROVE  HasAll(tags[i], call.required) /\ acted[i] < call'.cutoff
    <3>1. PICK item \in call.items : item.id = i /\ item.acted < cutoff
      BY <2>3, <2>4 DEF lastEventBefore
    <3> QED BY <2>2, <2>3, <3>1 DEF StaleInv, ReadFits
  <2>5. ASSUME Fits, HasAll(tags[i], call.required), acted[i] < call'.cutoff
        PROVE  i \in call'.stale
    <3>1. PICK item \in call.items : item.id = i /\ item.acted = acted[i]
      BY <2>2, <2>5 DEF StaleInv, ReadFits
    <3> QED BY <2>3, <2>5, <3>1 DEF lastEventBefore
  <2> QED BY <2>4, <2>5
<1> QED BY <1>1, StaleInvCorrect, PTL DEF StaleSpec, StaleIsExact

-----------------------------------------------------------------------------
(* Seeding *)

\* While all is calm the items are open, a server that creates demo items
\* has those that are left to make, and what is made is in the store.
CalmInv ==
  calm => /\ \A i \in Present : HasAll(tags[i], OpenTags)
          /\ \A k \in DOMAIN Entries : made[k] \in 0..1
          /\ (\E k \in DOMAIN Entries : made[k] # 0) => Present # {}
          /\ \A n \in DOMAIN Entries :
               server = Creating(n) => \A k \in DOMAIN Entries : k >= n => made[k] = 0

SeedInv ==
  /\ updated \in [Items -> Nat] /\ now \in Nat
  /\ tags = [i \in Items |-> tags[i]]
  /\ made = [k \in DOMAIN Entries |-> made[k]]
  /\ CalmInv

LEMMA EntriesDomain == DOMAIN Entries = 1..Len(Entries) /\ Len(Entries) \in Nat
BY EntriesAssumption

LEMMA ServerStates ==
  /\ \A k : Creating(k) # Up /\ Creating(k) # Down /\ Creating(k) # NeverRun
  /\ \A k, n : Creating(k) = Creating(n) => k = n
  /\ \A k : Creating(k).state = "creating"
<1>1. ASSUME NEW k PROVE Creating(k).state = "creating" /\ Creating(k).entry = k
  BY DEF Creating
<1>2. Up.state = "up" /\ Down.state = "down" /\ NeverRun.state = "new"
  BY DEF Up, Down, NeverRun
<1> QED BY <1>1, <1>2

LEMMA Follows ==
  ASSUME NEW k \in Nat, NEW n \in DOMAIN Entries, AfterEntry(k) = Creating(n)
  PROVE  n = k + 1
BY ServerStates DEF AfterEntry

\* The store has a newest item when it has one at all.
LEMMA NewestThere ==
  ASSUME NEW page, IsPage(page, NoCursor, Limit(1)), Present # {}
  PROVE  \E i \in page : i \in Present
<1>1. Limit(1) = 1
  BY DEF Limit
<1>2. page \subseteq Present /\ (page = Present \/ Cardinality(page) = 1)
  BY <1>1 DEF IsPage, Before, Present
<1>3. page # {}
  <2>1. CASE page = {}
    <3>1. Cardinality(page) = 0
      BY <2>1, FS_EmptySet
    <3> QED BY <1>2, <2>1, <3>1
  <2> QED BY <2>1
<1> QED BY <1>2, <1>3

LEMMA WriteShape ==
  ASSUME SeedInv, NEW i \in Items, NEW ts, Write(i, ts)
  PROVE  /\ updated' \in [Items -> Nat] /\ now' \in Nat
         /\ tags' = [j \in Items |-> tags'[j]]
         /\ tags'[i] = ts /\ \A j \in Items : j # i => tags'[j] = tags[j]
         /\ i \in Present' /\ \A j \in Items : j # i => (j \in Present' <=> j \in Present)
<1>1. /\ updated'[i] = now + 1 /\ updated'[i] > 0 /\ updated' \in [Items -> Nat] /\ now' \in Nat
      /\ \A j \in Items : j # i => updated'[j] = updated[j]
  BY DEF Write, SeedInv
<1>2. /\ tags' = [j \in Items |-> tags'[j]]
      /\ tags'[i] = ts /\ \A j \in Items : j # i => tags'[j] = tags[j]
  BY DEF Write, SeedInv
<1> QED BY <1>1, <1>2 DEF Present

\* No demo item is created twice while all items are open and no list fails,
\* wherever the server stops or loses an answer (cmd/inboxui/seed.go:18-27).
THEOREM SeedsOnce == SeedSpec => []SeededOnce
<1>1. SeedInit => SeedInv
  BY DEF SeedInit, Init, SeedInv, CalmInv, Present, Creating, NeverRun
<1>2. SeedInv /\ [SeedNext]_seedVars => SeedInv'
  <2> SUFFICES ASSUME SeedInv, [SeedNext]_seedVars PROVE SeedInv'
    OBVIOUS
  <2>1. CASE seedData
    <3>1. UNCHANGED <<updated, tags, now, made>> /\ Present' = Present
      BY <2>1 DEF seedData, vars, Present
    <3>2. ASSUME calm', NEW n \in DOMAIN Entries, server' = Creating(n),
                 NEW k \in DOMAIN Entries
          PROVE  made[k] = 0
      <4>1. PICK page \in SUBSET Items :
               /\ IsPage(page, NoCursor, Limit(1))
               /\ server' = IF Existing(page) = {} THEN AfterEntry(0) ELSE Up
        BY <2>1, <3>2 DEF seedData
      <4>2. calm
        BY <2>1, <3>2 DEF seedData
      <4>3. Existing(page) = {}
        BY <4>1, <3>2, ServerStates
      <4>4. Present = {}
        <5>1. ASSUME NEW i \in page, i \in Present PROVE FALSE
          BY <4>2, <4>3, <5>1 DEF SeedInv, CalmInv, Existing, filterByTags
        <5> QED BY <4>1, <5>1, NewestThere
      <4> QED BY <4>2, <4>4 DEF SeedInv, CalmInv
    <3>3. calm' => calm
      BY <2>1 DEF seedData
    <3> QED BY <3>1, <3>2, <3>3 DEF SeedInv, CalmInv
  <2>2. ASSUME NEW k \in DOMAIN Entries, NEW i \in Items, SeedItem(k, i) PROVE SeedInv'
    <3>1. CASE /\ Write(i, OpenTags \union Entries[k])
               /\ made' = [made EXCEPT ![k] = @ + 1]
               /\ server' \in {AfterEntry(k), Down}
      <4>1. /\ made' = [j \in DOMAIN Entries |-> made'[j]] /\ made'[k] = made[k] + 1
            /\ \A j \in DOMAIN Entries : j # k => made'[j] = made[j]
        BY <3>1 DEF SeedInv
      <4>2. calm' = calm /\ server = Creating(k)
        BY <2>2 DEF SeedItem
      <4>3. ASSUME calm
            PROVE  /\ \A j \in DOMAIN Entries : made'[j] \in 0..1
                   /\ \A n \in DOMAIN Entries :
                        server' = Creating(n) => \A j \in DOMAIN Entries : j >= n => made'[j] = 0
        <5>1. \A j \in DOMAIN Entries : j >= k => made[j] = 0
          BY <4>2, <4>3 DEF SeedInv, CalmInv
        <5>2. \A j \in DOMAIN Entries : made[j] \in 0..1
          BY <4>3 DEF SeedInv, CalmInv
        <5>3. k \in Nat /\ DOMAIN Entries \subseteq Nat
          BY EntriesDomain
        <5>4. \A n \in DOMAIN Entries : server' = Creating(n) => n = k + 1
          BY <3>1, <5>3, Follows, ServerStates
        <5>5. made'[k] = 1
          BY <4>1, <5>1, <5>3
        <5> QED BY <4>1, <5>1, <5>2, <5>3, <5>4, <5>5
      <4>4. ASSUME calm PROVE \A j \in Present' : HasAll(tags'[j], OpenTags)
        BY <3>1, <4>4, WriteShape DEF SeedInv, CalmInv, HasAll, Present
      <4>5. Present' # {} /\ updated' \in [Items -> Nat] /\ now' \in Nat
            /\ tags' = [j \in Items |-> tags'[j]]
        BY <3>1, WriteShape
      <4> QED BY <4>1, <4>2, <4>3, <4>4, <4>5 DEF SeedInv, CalmInv
    <3>2. CASE UNCHANGED <<vars, made>> /\ server' = Down
      <4>1. UNCHANGED <<updated, tags, now, made, calm>>
        BY <2>2, <3>2 DEF SeedItem, vars
      <4> QED BY <3>2, <4>1, ServerStates DEF SeedInv, CalmInv, Present
    <3> QED BY <2>2, <3>1, <3>2 DEF SeedItem
  <2>3. CASE Stop
    <3>1. UNCHANGED <<updated, tags, now, made, calm>> /\ server' = Down
      BY <2>3 DEF Stop, vars
    <3> QED BY <3>1, ServerStates DEF SeedInv, CalmInv, Present
  <2>4. ASSUME NEW i \in Items, NEW ts \in ItemTags, OtherWrite(i, ts) PROVE SeedInv'
    <3>1. Write(i, ts) /\ server' = server /\ made' = made /\ calm' = (calm /\ HasAll(ts, OpenTags))
      BY <2>4 DEF OtherWrite
    <3>2. ASSUME calm' PROVE \A j \in Present' : HasAll(tags'[j], OpenTags)
      BY <3>1, <3>2, WriteShape DEF SeedInv, CalmInv, Present
    <3>3. Present' # {} /\ updated' \in [Items -> Nat] /\ now' \in Nat
          /\ tags' = [j \in Items |-> tags'[j]]
      BY <3>1, WriteShape
    <3> QED BY <3>1, <3>2, <3>3 DEF SeedInv, CalmInv
  <2>5. CASE UNCHANGED seedVars
    BY <2>5 DEF seedVars, vars, SeedInv, CalmInv, Present
  <2> QED BY <2>1, <2>2, <2>3, <2>4, <2>5 DEF SeedNext
<1>3. SeedInv => SeededOnce
  BY DEF SeedInv, CalmInv, SeededOnce
<1> QED BY <1>1, <1>2, <1>3, PTL DEF SeedSpec

=============================================================================
