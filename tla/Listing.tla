------------------------------ MODULE Listing ------------------------------
(***************************************************************************)
(* Lists: a client walks the pages of a list while other calls write items.*)
(*                                                                         *)
(* The store returns the newest entities before a cursor, a page at a      *)
(* time.  The inbox filters the page by tags after the store has cut it,   *)
(* the service derives the next cursor from what is left, and the web UI   *)
(* passes that cursor on in a link, with whole seconds.                    *)
(*                                                                         *)
(* Time is counted in the ticks of updated_at; every write has its own.    *)
(***************************************************************************)
EXTENDS TagSet, Naturals, FiniteSets

CONSTANTS
  Items,          \* the inbox items there can be
  ItemTags,       \* the tag sets items have
  Filters,        \* the tags a client asks for
  Sizes,          \* the page sizes a client asks for, 0 for none
  PageSize,       \* the page size of the UI, and when none is asked for
  Second,         \* the ticks of a second
  Me,             \* the actor whose work My Work lists
  NoCursor,       \* the first page, and nothing more to load
  MaxTime         \* bound: no write after that many

ASSUME SizesAssumption == Sizes \subseteq Nat /\ PageSize \in Nat \ {0}
ASSUME TimeAssumption ==
  Second \in Nat \ {0} /\ MaxTime \in Nat /\ NoCursor \notin Nat
ASSUME ItemsFinite == IsFiniteSet(Items)

VARIABLES
  updated,  \* when each item was written last, 0 when it is not there
  tags,     \* its tags
  now,      \* the time of the last write
  walk      \* what the client asks for and has seen

vars == <<updated, tags, now, walk>>

OpenTags == {<<"status", "open">>}
MineTags == {<<"status", "claimed">>, <<"assignee", Me>>}

-----------------------------------------------------------------------------
(* One page *)

Before(t, cursor) == cursor = NoCursor \/ t < cursor

\* What the store returns: the newest limit items before the cursor.
IsPage(page, cursor, limit) ==
  LET found == {i \in Items : updated[i] > 0 /\ Before(updated[i], cursor)}
  IN /\ page \subseteq found
     /\ Cardinality(page) <= limit
     /\ page = found \/ Cardinality(page) = limit
     /\ \A i \in page, j \in found \ page : updated[i] > updated[j]

\* Without a page size the inbox takes its own.
Limit(size) == IF size > 0 THEN size ELSE PageSize

\* Mutant: an item has the tags asked for and no other.
filterBySameTags(page, required) == {i \in page : tags[i] = required}

\* A required tag that is no tag at all would panic here: every list asked
\* for below is made of well-formed ones.
filterByTags(page, required) == {i \in page : HasAll(tags[i], required)}

\* Mutant: the first item of the page.
IsFirst(i, page) == \A j \in page : updated[j] <= updated[i]

\* The last item of the page, whose time is the next cursor.
IsLast(i, page) == \A j \in page : updated[i] <= updated[j]

\* Mutant: a full page is taken for the last one.
OverfullPage(page, size) == size > 0 /\ Cardinality(page) > size

\* There is a next page when this one, filtered, is as long as was asked for.
FullPage(page, size) == size > 0 /\ Cardinality(page) = size

\* Mutant: rounded to the nearest second.
NearestSecond(t) == ((t + (Second \div 2)) \div Second) * Second

\* Mutant: a second less, to have the items of that second again.
SecondBack(t) == t - Second

\* time.RFC3339 has no fractions of a second.
WholeSeconds(t) == (t \div Second) * Second

\* The cursor of the next request: an RPC client passes it on as it is, the
\* UI puts it in the Load more link.
Passed(list, t) == IF list = "rpc" THEN t ELSE WholeSeconds(t)

-----------------------------------------------------------------------------
(* The walk *)

\* The Load more link leads to the queue, also on My Work.
MoreList(list) == IF list = "rpc" THEN "rpc" ELSE "queue"

MoreFilter(list, filter) == IF list = "mywork" THEN OpenTags ELSE filter

StartWalk(list, filter, size) ==
  /\ walk.state # "more"
  /\ walk' = [state |-> "more", first |-> list, list |-> list, filter |-> filter,
              size |-> size, cursor |-> NoCursor, began |-> now,
              seen |-> {}, page |-> {}]
  /\ UNCHANGED <<updated, tags, now>>

ListItems(filter, size) == StartWalk("rpc", filter, size)

\* The filter bar adds tags to the queue's.
handleQueue(chosen) == StartWalk("queue", OpenTags \union chosen, PageSize)

\* My Work's address may have them too.
handleMyWork(chosen) == StartWalk("mywork", MineTags \union chosen, PageSize)

NextPage ==
  /\ walk.state = "more"
  /\ \E found \in SUBSET Items :
       /\ IsPage(found, walk.cursor, Limit(walk.size))
       /\ LET page   == filterByTags(found, walk.filter)
              loaded == [walk EXCEPT !.seen = @ \union walk.page, !.page = page]
          IN \/ /\ ~FullPage(page, walk.size)
                /\ walk' = [loaded EXCEPT !.state = "done", !.cursor = NoCursor]
             \/ /\ FullPage(page, walk.size)
                /\ \E last \in page :
                     /\ IsLast(last, page)
                     /\ walk' = [loaded EXCEPT !.cursor = Passed(walk.list, updated[last]),
                                               !.list = MoreList(@),
                                               !.filter = MoreFilter(walk.list, @)]
  /\ UNCHANGED <<updated, tags, now>>

\* Another call creates item i or writes it, with or without other tags.
Write(i, ts) ==
  /\ now < MaxTime
  /\ now' = now + 1
  /\ updated' = [updated EXCEPT ![i] = now + 1]
  /\ tags' = [tags EXCEPT ![i] = ts]
  /\ UNCHANGED walk

-----------------------------------------------------------------------------
Init ==
  /\ updated = [i \in Items |-> 0]
  /\ tags = [i \in Items |-> {}]
  /\ now = 0
  /\ walk = [state |-> "none", first |-> "rpc", list |-> "rpc", filter |-> {},
             size |-> 0, cursor |-> NoCursor, began |-> 0, seen |-> {}, page |-> {}]

Next ==
  \/ \E filter \in Filters, size \in Sizes : ListItems(filter, size)
  \/ \E chosen \in Filters : handleQueue(chosen)
  \/ \E chosen \in Filters : handleMyWork(chosen)
  \/ NextPage
  \/ \E i \in Items, ts \in ItemTags : Write(i, ts)

Spec == Init /\ [][Next]_vars

\* The client goes on to load pages until there are no more.
FairSpec == Spec /\ WF_vars(NextPage)

-----------------------------------------------------------------------------
(* Properties *)

Lists == {"rpc", "queue", "mywork"}

\* What lists are filtered by.
FilterTags == Filters \union {{}, OpenTags}
                \union {OpenTags \union chosen : chosen \in Filters}
                \union {MineTags \union chosen : chosen \in Filters}

TypeOK ==
  /\ updated \in [Items -> 0..now]
  /\ tags \in [Items -> ItemTags \union {{}}]
  /\ now \in Nat
  /\ walk \in [state : {"none", "more", "done"}, first : Lists, list : Lists,
               filter : FilterTags,
               size : Sizes \union {0, PageSize}, cursor : Nat \union {NoCursor},
               began : 0..now, seen : SUBSET Items, page : SUBSET Items]

\* No row is shown twice in a walk, whatever is written meanwhile: an item
\* that is written moves before the cursor, never behind it (service.go:89-92,
\* ui/queue.templ:107).
NoItemTwice == walk.page \intersect walk.seen = {}

Shown == walk.seen \union walk.page

\* The items that were there when the walk began and have stayed as they were.
Untouched == {i \in Items : 0 < updated[i] /\ updated[i] <= walk.began}

PlainWalk == walk.first = "rpc" /\ walk.filter = {} /\ walk.size > 0

\* A client that follows next_cursor through a list without tags has met
\* every item that stayed as it was, when there is no cursor any more
\* (service.go:84-92).
PlainWalkComplete ==
  walk.state = "done" /\ PlainWalk => Untouched \subseteq Shown

\* A client whose page holds all the items there are misses none that has the
\* tags and stayed as it was: what the walk of a list with tags loses is only
\* ever beyond the first page (get.go:27-45).
FittingWalkComplete ==
  /\ walk.state = "done" /\ walk.first = "rpc" /\ walk.size > 0
  /\ Cardinality({i \in Items : updated[i] > 0}) <= walk.size
  => {i \in Untouched : HasAll(tags[i], walk.filter)} \subseteq Shown

\* Every page that is not the last leads to an older one, also by the cut
\* time of a link: so a walk has no more pages than time had ticks when its
\* first page was read (service.go:89-92, ui/queue.go:25-30).
WalkMovesBack ==
  [][NextPage => \/ walk'.state = "done"
                 \/ walk'.cursor \in Nat /\ Before(walk'.cursor, walk.cursor)]_vars

\* Following the cursors comes to an end, also when items are written
\* meanwhile (service.go:89-92, ui/queue.go:25-30).
WalkEnds == walk.state = "more" ~> walk.state = "done"

\* The same of a list with tags, as the docs have it: "ListByTags returns
\* inbox items matching all given tags" (get.go:24).
TagWalkComplete ==
  walk.state = "done" /\ walk.first = "rpc" /\ walk.size > 0
    => {i \in Untouched : HasAll(tags[i], walk.filter)} \subseteq Shown

=============================================================================
