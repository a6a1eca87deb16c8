------------------------------- MODULE Pages -------------------------------
(***************************************************************************)
(* What the pages show of an item, and which requests they offer.  Titles, *)
(* ages, badges and styles are left out: a row keeps the two fields other  *)
(* users change, the drawer the fields its buttons depend on.              *)
(***************************************************************************)
EXTENDS Inbox

CONSTANTS Completable  \* the items whose schema lets a client complete them

NoRow    == [status |-> "none", assignee |-> NoActor]
NoDrawer == [item |-> NoItem, status |-> "none", events |-> <<>>, assignee |-> NoActor]

\* The first value of a key: the order of a tag set is fixed, and unknown.
TagValue(ts, k) ==
  IF Tagged(ts, k) = {} THEN NoActor ELSE CHOOSE v \in ValuesOf(ts, k) : TRUE

\* A line of a table.
Row(it) == [status |-> it.doc.status, assignee |-> TagValue(it.tags, "assignee")]

\* A table of what a list or a search answered: a function on its items.
Table(found) ==
  [i \in {e[1] : e \in found} |-> Row((CHOOSE e \in found : e[1] = i)[2])]

\* The activity list, in the log's order.
Activity(it) == it.doc.events

\* The drawer's header and fields, and its activity list.
Drawer(i, it) ==
  [item     |-> i,
   status   |-> it.doc.status,
   events   |-> Activity(it),
   assignee |-> TagValue(it.tags, "assignee")]

IsClaimant(d, me) == d.assignee = me

\* Mutant: whoever looks at a claimed item may release it, and a drawer
\* keeps its Claim button.
ButtonsAtAnyStatus(d, me) ==
  {"claim"} \union {op \in {"release"} : IsClaimant(d, me)}

\* The buttons of the drawer's shell.
ActionButtons(d, me) ==
  {op \in {"claim"}   : d.status = "open"} \union
  {op \in {"release"} : d.status = "claimed" /\ IsClaimant(d, me)}

\* Whether the drawer has a place for them at all.
HasActions(d, me) == d.status = "open" \/ (d.status = "claimed" /\ IsClaimant(d, me))

\* The Submit button of the schema provider's content.
SubmitButton(d) ==
  {op \in {"close"} : ~IsTerminal(d.status) /\ d.item \in Completable}

CommentForm == {"comment"}

\* The requests an open drawer can send.
Controls(d, me) ==
  {op \in ActionButtons(d, me) : HasActions(d, me)} \union SubmitButton(d) \union CommentForm

\* The tabs every page has.
Tabs == {"queue", "mywork", "search"}

\* Mutant: every table is reloaded.
IsAnyTable(page, rows) == page \in Tabs

\* The stream reloads a table at its page's address; My Work has no table
\* when it has no rows, and the table of a search has no address.
IsWatched(page, rows) ==
  \/ page = "queue"
  \/ page = "mywork" /\ DOMAIN rows # {}

=============================================================================
