# Verification of inbox

Inbox is a Go library that keeps work items (approvals, reviews, tasks) as
entities of an external entity store, an RPC service over that library, a web UI
over the service, and a demo server that also hands out presigned links.  This
directory holds TLA+ models of the program, the TLC configurations that check
them and theorems that TLAPS proves about them.

Run `tlc -config X.cfg M`, and `tlapm M.tla` for the eight modules whose names end in
`Proofs`, in this directory.
`PROJECT.json` says which definition stands for which lines of the source.

## 1. The system

### Components

| component | state it keeps | operations | depends on |
|---|---|---|---|
| item lifecycle (`lifecycle.go`, `status.go`) | none of its own: the item is in the store | Claim, Release, Close | store reads and writes |
| event log (`events.go`) | none | AddEvent, Comment, Reassign | store |
| tags (`tags.go`) | none | Tag, Untag; pure TagValue, HasTag, TagsWithPrefix | store, AddEvent |
| create (`create.go`) | none | Create, tokenizer | store, anchors |
| queries (`get.go`) | none | Get, ListByTags, Search, SemanticSearch, Stale | store |
| documents (`item.go`, `inbox.go`, `proto/`) | shape of an item | conversions | - |
| RPC service (`service/`) | none | one handler per operation, error classes, list cursor | inbox package |
| in-process client (`service/local.go`) | none | a round tripper that calls the handlers | RPC service |
| UI (`ui/`) | none on the server; pages and their signals in browsers | queue, my work, detail, search, four actions, filter bar | RPC client |
| schema provider (`cmd/inboxui/schema`, `schemaprovider.go`) | none; a form's signals in browsers | parse, render, Submit | UI |
| presigned links (`cmd/inboxui/token`, `tokens.go`) | a signed token in a URL | Sign, Verify, GET and POST /respond | inbox package |
| demo (`cmd/inboxui`) | - | wiring, seed data | everything |
| entity store, tags, identity (external) | entities: document, tags, anchors | reads, BatchWrite, AddTags, RemoveTag | database |

All durable state is in the entity store.  The inbox holds no lock, no cache and
no version number: every operation is a goroutine that reads an entity, decides,
and writes it back, and the UI, the service, other modules and link holders all
call the same operations at once.

### What is hard

* **Read, check, write without a version.**  `transition` and `AddEvent` read an
  item and write the *whole* document back.  Whatever another call wrote in
  between is replaced: its event, its status, its tags.
* **One call, several store calls.**  Reassign is two tag calls, a read and a
  write; Tag and Untag are a tag call followed by an AddEvent whose error is
  dropped.  Each of them can fail alone.
* **Lost answers.**  A write may have taken effect although the caller sees an
  error; Create relies on an anchor to make the repetition harmless.
* **Two copies of one fact.**  The status lives in the document *and* in a tag,
  and what the lists show depends on the tag.  The claimant lives in an event
  *and* in a tag.
* **Shared ids and old data.**  Ids are shared with other applications'
  entities, and items closed by older releases have a status nothing here writes.
* **Lists.**  They are filtered after the page has been cut, cursors are cut to
  seconds in links, and Stale reads its clock after its page.
* **Pages.**  A browser's requests go over several connections, so answers overtake
  each other, get lost, or arrive after the page they belong to is gone.  Pages go
  stale while others work, and the templates repeat the lifecycle's guards.
* **Signals.**  What a user selects or enters lives in the page's signals, by key, and
  outlives the part of the page it was entered in.  It travels as query, as rendered
  value and as signal.
* **Error codes.**  A client decides by the code of an answer whether to repeat a call,
  while some operations fail halfway.

`PROJECT.json` lists each of these at its line under `hazards`.

### What makes each component correct

* *Lifecycle and event log:* the log of an item is a history one caller could
  have made alone (`LegalHistories`); the status is the one the log leads to
  (`StatusMatchesLog`); terminal items stay terminal (`ClosedIsFinal`,
  `LegacyStaysTerminal`); no event disappears (`EventsAppendOnly`); of two
  claims one is refused (`ClaimIsExclusive`); together they implement the atomic
  `Lifecycle` (`ImplementsLifecycle`); what races leave of it is `Branching`: each
  write is one legal event after some version the item has had
  (`ImplementsBranching`).
* *Tags:* an item is in one status list (`OneStatusTag`), the right one
  (`TagMirrorsStatus`); who claimed an item last is assigned to it, and besides him only
  those it was created with (`ClaimerIsAssignee`).
* *Create:* one item for one key (`OneItemPerKey`); the tokenizer returns the words of
  a text (`TokensAreWords`), each once (`TokensOnce`).
* *Queries:* other applications' entities are not items
  (`ForeignDocUntouched`); walking the pages of a list ends (`WalkEnds`), shows no
  row twice (`NoItemTwice`) and meets every item of the list
  (`PlainWalkComplete`, `TagWalkComplete`, `FittingWalkComplete`), since each cursor is
  older than the one before (`WalkMovesBack`); Stale returns the items
  that have been quiet (`StaleIsExact`).
* *RPC service:* a refusal changed nothing (`RefusalsChangeNothing`); a request that
  begins is answered (`CallsReturn`).
* *UI:* a drawer shows a state its item was in (`ScreensHaveBeen`); its buttons are
  refused only when the server finds another status than the drawer showed
  (`ButtonsFit`); a claimer may release
  (`ClaimerMayRelease`); tables of other users catch up (`RowsCatchUp`); the table
  lists what the filters show (`TableFitsSelects`).
* *Schema forms:* a form posts what was entered in it, or its defaults
  (`FormsStartFresh`).
* *Links:* a request is one call of the inbox under its holder's identity, or nothing
  (`ImplementsInbox`); all holders do is close the item of a respond link, with a link
  submitted before it expired (`HoldersOnlyRespond`); a submission that is answered with
  success left the item closed (`SubmittedIsClosed`).
* *Demo server:* however often it is stopped while it seeds, it makes no demo item twice,
  as long as every item is open and no list fails (`SeededOnce`).

Some of these are promises the code keeps under any interleaving, some it keeps
only when calls on one item do not overlap, and some it breaks.  Sorting them
into those three classes is the main result of the model; section 4 gives it.

## 2. The modules

| module | what it is |
|---|---|
| `TagSet` | the external tag-set library: sets of `<<key, value>>`, keys may have several values, `With` makes one single-valued |
| `EntityStore` | the external store, one entity at a time: what each kind of write does to it |
| `Inbox` | the core package: all operations as steps of concurrent calls on one store; the properties |
| `SerialInbox` | `Inbox` with the condition that calls on one item do not overlap; the refinement mapping |
| `Lifecycle` | the abstract specification: status and log of an item change together in one atomic legal step |
| `Branching` | the abstract specification for calls that race: a write makes the item what a version it has had becomes by one event |
| `BranchInbox` | `Inbox` with a history variable, the versions of each item; its refinement mapping |
| `MCInbox`, `MCBranch` | the instances for TLC: symmetry, operation sets, the state views |
| `InboxProofs` | histories, types, legacy and foreign entities |
| `EntityProofs` | the status tag and the idempotency key |
| `SerialProofs` | the refinement of `Lifecycle` and what follows from calls that do not overlap |
| `BranchProofs` | the refinement of `Branching` |
| `Listing` | a client walking the pages of a list while items are written: the store's page, the inbox's filter, the service's cursor, the UI's link |
| `Staleness` | reminders: Stale's page, then its clock, while items are written and retagged |
| `Seed` | the demo server's seeding: one list of open items, then one creation after the other, over the items and times of `Listing` |
| `MCListing` | instances of the three for TLC |
| `ListingProofs` | theorems about them |
| `Service` | the RPC handlers: identity, one operation of `Inbox`, the answer |
| `MCService` | its instances for TLC |
| `Pages` | what the templates show of an item and which requests they offer |
| `Browser` | browsers with several connections each, and RPC clients, over `Service` |
| `MCBrowser` | its instances for TLC |
| `BrowserProofs` | theorems about the service and the pages |
| `Tokens` | the tokenizer, one turn of its loop at a time |
| `FilterBar` | the filter bar: address, rendered page, signals, requests |
| `Forms` | the schema forms: rendering, signals, inputs, Submit |
| `MCInputs` | instances of the last three for TLC, used one at a time |
| `InputProofs` | theorems about them |
| `TokenLink` | presigned links: requests of their holders run as calls of `Inbox`, next to the staff's |
| `MCTokenLink` | its instances for TLC |
| `TokenLinkProofs` | theorems about `TokenLink` |

`Inbox` EXTENDS `EntityStore`, which EXTENDS `TagSet`.  `SerialInbox` EXTENDS
`Inbox` and instantiates `Lifecycle` with `status` and `log` read off the stored
documents.  `BranchInbox` EXTENDS `Inbox` too, for calls that overlap: `past[i]` are
the versions (status and log) item `i` has had.  Every step adds the version it leaves
and reads nothing of `past`, so it restricts no call (`BranchNext` is `Next`, action by
action: lemma `BranchNextIsNext`); it is the witness the refinement
of `Branching` needs, since what a stale write goes back to is no longer in the store.

Three modules compose with the core by EXTENDS, adding variables of their own to
`store` and `call`: a request starts an action of `Inbox` and goes on with its steps.
`Service` adds the answers; `Browser` EXTENDS `Service` and `Pages` and adds
connections and screens; `TokenLink` adds links and their holders.

`Listing` shares only `TagSet` with the core: a list reads
nothing of an item but its tags and the time of its last write, and the calls that
write items appear in it as one action `Write` that may do to both whatever it likes.
`Staleness` EXTENDS it with the time of the last event, `Seed` with the server and what
it has created.  `Tokens`, `FilterBar` and
`Forms` have no state in common with anything: they are what happens to an input
before a request or between two.

### How state corresponds to code

`store[i]` is the entity with id `i`: `kind` (absent, an inbox item, another
application's entity), `doc` (the stored protobuf: status, event log,
idempotency key), `tags`, and `anchor`.  Title, description, deadline and
payload are left out: no operation decides anything by them.  Events keep their
type and actor.

`call[c]` is a goroutine running one operation: `pc` is where it will continue,
`op` and `item` what it was called with, `evt` the event it will append, `to`
the new assignee of a Reassign, `read` the item it has read (the `Item` value the
Go code holds), `res` the class of error it returned last.  The steps:

| `pc` | the code between two store calls | action |
|---|---|---|
| `idle` | the start of a call, up to and including its first store call | `Create`, `GetItem`, `Claim`, `Release`, `Close`, `AddEvent`, `Comment`, `Reassign`, `Tag`, `Untag` |
| `assign` | Reassign after RemoveTag: build the new tag, AddTags | `AddAssignee` |
| `read` | the Get inside the AddEvent that Reassign, Tag and Untag end with | `ReadForEvent` |
| `write` | the one write of `doTransition` or of `AddEvent` | `DoTransition`, `AppendEvent` |

`Get` (the operator) is the store read with everything up to the next store call:
an entity of another type counts as missing, a check that fails ends the call, and
what the code builds from the item read is kept in `read`.  So Release removes the
assignee tags from the tags it *read*, and the later write carries them.

`StoreCall` is one mutating store call, with three outcomes: done and answered,
done but the answer is lost, not done.  The last two look the same to the caller.
Reassign goes on after either (the code drops both errors), Tag and Untag return.

In `Service`, `reply[c]` is the answer caller `c` got, its code and the items in it,
`NoReply` while it waits.  A handler is the first step of its operation together with
the check of the identity (`Handled`), `Proceed` each further step, and `toProto` the
answer made when the operation returns.  `Returned` is exact where it matters: AddEvent
returns the document it wrote with the tags it had *read*.  The in-process client runs
the same handlers in the caller's goroutine and adds no step.

In `Browser`, `screen[b]` is what a browser shows: the page, its rows, whether the
stream watches its table, and the drawer.  `ask[c]` is what connection `c` has been
asked for: the item, the status the drawer showed when a button was pressed (`shown`), and
whether the page that asked has been replaced (`gone`); `signalled` are the browsers
the stream has told that something changed.  A request begins on a free connection,
guarded by what the screen offers.  One that reads (`Visit`, `Reload`, `SearchAgain`,
`OpenRow`, `ReloadDrawer`) is an action of the service at once, since a read changes
nothing and its answer travels anyway.  A button is pressed (`Press`) and its request
travels: the server takes it up later (`Handle`, by `handleClaim`, `handleRelease`,
`handleClose`, `handleComment`), so that the same button pressed twice, or another caller,
comes in between.  A comment that cannot be read is answered `Unreadable`, an answer of
the UI and not of the service.  Its answer arrives
(`Deliver`), is lost (`Lose`) or is dropped (`Discard`); `After` is what it patches.
`Notify` is the publisher to the stream; no code here calls it.

In `Listing`, `updated[i]` is the entity's `updated_at` (0 while it is not there),
`tags[i]` its tags, and `walk` what one client is doing: the list it asked for
(`rpc`, `queue`, `mywork`), filter, page size, cursor, the rows of the last page
(`page`) and of the pages before it (`seen`).  `NextPage` is one ListItems call from
the query of the store to the rendered table: `IsPage` is the page the store cuts,
`filterByTags` what the inbox leaves of it, `FullPage` and `IsLast` are the
service's condition for a next cursor and the row it takes it from, and `Passed`
is the way of the cursor through the Load more link.  A ListItems call that fails
changes nothing: the client asks again with the same cursor.

In `Staleness`, `acted[i]` is the time in the last event of an item, which was taken
before the write and so may be older than it, and older than the event before it.
`call` is the policy's call: the items it has read, and then the cutoff and the items
it returned.  `StaleRead` and `StaleReturn` are the two halves of Stale around its clock.

In `Seed`, `server` is what the demo server does (`Creating(k)`: it creates demo item `k`
next), `made[k]` counts how often item `k` was created, `calm` says that every item so far
was open when it was written and no list of the server has failed.  `seedData` is the one
list at the start, `SeedItem` one creation, which may be lost with or without effect, and
`Stop` the end of the process.

In `Tokens`, `text` is the argument and `read`, `word`, `tokens`, `seen` and `running`
are the loop variables, `read` counting bytes.  In `FilterBar`, `selects` are the values
of the select boxes, which are the page's signals, `table` the tags of the list the table
shows and `asked` the requests under way, each with the answer it will get; `Arrive`
takes them in any order.  In `Forms`, `content` is what the provider rendered into the
drawer, `signals` those of the page, `entered` what was entered since, and `posted`
what Submit sent last.

In `TokenLink`, `link[l]` are the claims of a token (`NoClaims` while nobody has it),
`visit[c]` the request the goroutine of `call[c]` serves with the claims it verified
and its answer, `clock` the time tokens are signed and verified by, and `posted[l]` the
times at which link `l` was submitted, in vain or not.  `handleGet`
is one step, its only store call is a read.  `handlePost` is the request up to the
read inside Close; `Continues` is the rest, which ends in the toast.  The answer is taken
at the step that ends Close: what is written between that and the toast's arrival is
somebody else's next step.  `PrincipalOf` is
the caller the handler makes of the token's actor string: the type `user` is kept,
every other becomes `service`, so `agent:x` responds as `service:x` (`AsService`), and a
string without an id, for which building the identity fails, responds as the nameless one.
An item whose payload has no schema has no form for any link (`noForm`).
`Works` is any call of the staff.

### Assumptions about the external store

The entity store, tags and identity libraries are not in the repository.  They are
modelled from how the inbox calls them:

* every store call is atomic for one entity;
* an update with `Data` replaces the document; without `Tags` it leaves the tags
  alone, with `Tags` it replaces them (the code passes complete sets and merges
  with the ones it read, which is only right for replacement);
* AddTags and RemoveTag work on the tags in the store; on an id that does not
  exist they do nothing, and may refuse;
* a create whose anchor an entity already has is refused with an error;
* a uuid is the id of no entity and known to no caller (`Fresh`);
* lists come newest first and the cursor is exclusive, which is what taking the last
  row's `updated_at` for the next cursor makes sense with; every write sets
  `updated_at` to a time of its own (two writes in one tick of the database clock
  would let a page end between them);
* callers use no tags of the key `status` (`RouteTags` of the runs): `OneStatusTag` and
  the mirrors depend on it.  The theorems `OneListCorrect` and `SerialMirrors` name it
  (`RoutesOnly`), `TransitionsMirror` too; the others do not depend on it.  Tags of the key
  `assignee` they do use: items are created with them (`cmd/inboxui/seed.go:33`), which is
  what `transitions` does;
* the first value of a key with several is fixed by the set, and unknown (`TagValue`);
* the browser runs the scripts of the pages as their templates have them: an answer
  replaces the elements it names, a whole page drops the answers to the page before it,
  declared signals take their values, other signals stay;
* every filter of a bar has a label and a key of its own (`BarAssumption`), every field
  of a form a name of its own, also once a box's value is appended to it
  (`NamesAssumption` of `Forms`);
* tokens cannot be forged, so every request carries the claims of a link that was
  handed out (or is refused), and a token is valid until the time in it, exclusive;
* links are signed for names the staff does not use, also after `agent:x` has become
  `service:x` (`NamesAssumption` of `TokenLink`): only so can an event be told to be a
  holder's;
* modules that record events with AddEvent use event types of their own
  (`DomainEventsAssumption`).

## 3. Bounds

| bound | value | why it is enough |
|---|---|---|
| `Calls` | 2; 3 in `transitions` | a lost update needs two overlapping calls; the third lets a stale write land on what two others made of the item |
| `Items` | 1; 2 in `serial`; 4 in `kinds` | operations touch one item; only anchors relate two, and `kinds` adds a foreign and a legacy entity |
| `MaxEvents` | 2 to 5 | no call *starts* on an item with that many events, so logs grow beyond it by the calls under way; 3 is create, claim, release or comment with a close on top, 5 a full claim, release, claim, close |
| `Actors` | 1 or 2, one of them with an unbuildable tag where that matters | a second actor is what makes two claims differ |
| `RouteTags` | one tag of a team; in `transitions` an assignee tag of either actor | of all keys only `status` and `assignee` mean anything to the code; an item is created with no assignee, with its later claimant or with another |
| `StoreFaults` | TRUE except in the violation runs that need none | every store call may fail or lose its answer at any time |
| links | 2 links, 2 callers, 1 item, clock 0 to 1, `MaxEvents` 3 | two links race each other, one link races itself or the staff; a link is signed expired, expires between two requests, or never; a user's and another's are told apart |
| lists | 3 items, `MaxTime` 4, page sizes 0, 1, 2, UI page 1, a second of 2 ticks | pages of one and two rows of three items are full, short, empty and exactly exhausted; the fourth write moves an item during the walk |
| seeding | the same items and times, two demo items, one of a team; other calls write while the server runs and while it is down | the server is stopped before, between and after the two, and the second start finds the first item, another one, or none |
| reminders | the same items, `Ages` {1}, `CallLimit` 2, `LastAsked` 3 | the items fit on a page or do not; an item is written, or only retagged, before and after the cutoff, between page and clock |
| service | in `kinds`: 2 clients, three identities (one whose assignee tag cannot be built, one whose can, one that is not accepted) and none; `MaxEvents` 2 | a refusal needs one call, a race two; with either kind of actor a Claim is refused by its tag or by the status, and a Reassign fails before, between or after its two tag calls |
| `Spare`, `KindsNext` | in `kinds` a second item of the inbox is only created, and the legacy item is not reassigned | a key needs two items to be used for; the item calls do work on is reassigned in every way, and what `LegacyStaysTerminal` says concerns status and events, which a Reassign of another item writes alike |
| pages | in `browser`: 1 item, one browser with 2 connections, 1 RPC client, `MaxEvents` 3; in `stale_pages`: 2 browsers | two answers overtake each other, the third caller changes the item under both |
| `BuildableAct` | in `races` an actor whose tag cannot be built is only claimed for and assigned to, and leaves no event | with the versions of the item in the state a second author of notes multiplies the states and no property tells authors apart; that such an actor's Claim is refused, and a Reassign to him fails after its first change, stays in the run |
| `ClientsOnlyCreate` | in `stale_pages` the RPC client creates items and does nothing else | so that the item a queue goes on offering was closed in the other browser, through the handler whose comment promises the notification |
| `AtMostTwo` | two of the three callers of `browser` at work at a time; both connections only on items with at most two events; one while the stream has told of a change that has not been acted on | the third would only repeat what the second does to the first; the case of three writers to one item is in `transitions` |
| inputs | texts of up to 5 bytes of 6, among them both ends of the alphabet, a digit and a byte above 127; two filters of two values, `MaxAsked` 2; four payloads | two words with a separator between them and one behind, a repeated word in other letters; two answers overtake each other; a form after another with a field of the same name |

A view leaves out of the state what no step depends on and no property of the run looks
at: `WithoutAnswers` the result of an idle call, `ClaimAnswers` (in `serial`) the same
but for who was told that he claimed an item, `BranchView` what `WithoutAnswers` does,
`Essentials` of `MCService` and `MCBrowser` also which actors and kinds of notes a log
has, answers to RPC clients, what rows show, and of a running call what its next store
calls do not use; `WithoutResults` (in `links`) of the times a link was submitted all
but whether one was in time.  Walks, reminders and seeding in `lists` (`Walk`, `Ask`,
`SeedAlone`), and the three parts of `inputs` (`BarUnused`, ...), are used one at a
time, since they share nothing a step of the other reads.

Symmetry is over callers, over links, over actors whose tag can be built and over the
connections of one browser; it is not used in a run with a liveness
property.  Deadlock is checked except in `kinds`, `browser`, `inputs` and `stale_pages`,
where the clients stop when the bound is reached or the text has been read; in the others
an idle caller can always read an item.

**Fairness.**  `KindsSpec` has weak fairness of `Step(c)` for each caller: a
goroutine that has begun keeps running and its store calls return, possibly with an
error.  Nothing is assumed about new calls.  The code has no wait, lock or retry loop
that could justify or need more.  In `lists` it is weak fairness of
`NextPage`: the client follows the cursors; `WalkEnds` says they end.  In `stale_pages`
(`FairBrowserSpec`) it is weak fairness of the handlers, of the arrival of answers and
of the reload a browser makes when the stream tells it to; publishing is not fair, since
nothing here does it.

## 4. What the runs show

Passing runs:

| run | question | properties |
|---|---|---|
| `races` | two callers race through all operations over a failing store | `ImplementsBranching`, `TypeOK`, `LegalHistories`, `StatusMatchesLog`, `OneStatusTag` |
| `transitions` | three callers race through claim, release and close of an item created with or without assignees | `TagMirrorsStatus`, `ClaimerIsAssignee` |
| `serial` | calls on one item do not overlap | `ImplementsLifecycle`, `EventsAppendOnly`, `ClosedIsFinal`, `TagMirrorsStatus`, `ClaimIsExclusive` |
| `kinds` | RPC clients, with and without a usable identity, on legacy items, foreign entities and with one key, over a failing store | `LegacyStaysTerminal`, `ForeignDocUntouched`, `OneItemPerKey`, `RefusalsChangeNothing`, `CallsReturn` |
| `links` | holders open and submit links while the staff works on the item | `LinkTypeOK`, `HoldersOnlyRespond`, `SubmittedIsClosed`, `ImplementsInbox` |
| `lists` | a client walks a list, a policy asks for stale items, or a demo server seeds and is stopped, while items are written | `TypeOK`, `NoItemTwice`, `PlainWalkComplete`, `FittingWalkComplete`, `WalkMovesBack`, `WalkEnds`, `StaleIsExact`, `SeededOnce` |
| `browser` | one browser with two requests under way and an RPC client work on an item, answers in any order | `BrowserTypeOK`, `ScreensHaveBeen`, `ButtonsFit`, `ClaimerMayRelease` |
| `inputs` | texts are tokenized, filters selected, forms filled in | `TokensAreWords`, `TokensOnce`, `TableFitsSelects`, `FormsStartFresh` |

So the properties of the core fall into three classes.

1. *Kept under any interleaving and any store failure:* the log is a legal history
   and the status agrees with it.  This is not because calls are ordered, they are
   not, but because each write carries one whole document that some caller could
   have made alone.  `Branching` says exactly what that leaves: a write may go back to
   any version its item has had, so what was written since may be gone, but it never
   mixes two versions or moves the status without its event.  Every item keeps exactly
   one status tag.
2. *Kept when only claim, release and close race:* the status tag mirrors the document
   and the claimant is assigned, because those writes carry the tags too.  An item that
   was created with an assignee keeps him beside its claimant until the first Release,
   which takes every assignee off: `assignee` is not a single-valued key.  A racing
   comment or tag change writes one without the other and breaks it.
3. *Kept only when calls on one item do not overlap:* events are never lost, closed
   is final, two callers are told that they have claimed an item only when its log has a
   release between two claims, and the inbox implements `Lifecycle`.

Links add no class of their own: they implement the inbox, so what it keeps and what
it breaks stays the same.  A submission that is told an error may still have closed
the item, and one that is told success because the item is terminal may owe it to
somebody else's close; what is excluded is success on an item that is open, and an event
by a link that was only submitted when it had expired.  The first holds
at the moment of the answer: a racing comment can still reopen the item (`reopened`).

The service and the pages add none either: both implement the inbox.  What a client may
rely on is the refusal: FailedPrecondition and InvalidArgument come before any write.
NotFound and Internal do not: a Reassign or Tag may have changed tags by then.  A drawer
may be old, since answers overtake each other, but it is never a mixture of two states,
and it offers no button the lifecycle refuses in the state it shows.  A button on an
up-to-date drawer may still be refused, when it is pressed twice or another caller is
faster: the status the server then finds is another (`ButtonsFit`).  In the
same way the filter bar's table may belong to an older choice, but an answer to what is
selected is the list of what is selected.

A walk through a list with tags may end early, but not on its first page: a client whose
page has room for all items misses none of the list (`FittingWalkComplete`).

My Work is no list of its own.  Its heading says "Items you've claimed"
(`ui/mywork.templ:7`), but what its Load more link appends is the queue's next page
(`ui/queue.templ:107`, `MoreList`, `MoreFilter`): open items, of nobody or of somebody else.
`handleMyWork` and `NextPage` model it so, and no property claims otherwise.

Stale is exact about the items on its page that are not written meanwhile, and complete
when all items fit on the page; more than that it cannot promise, for it filters the
newest page just as lists do.

Violation runs, each a statement of the documentation the code does not keep:

| run | statement | what happens |
|---|---|---|
| `reopened` | "CloseItem: Close item (terminal)" (`README.md:66`) | a comment that read before the close and writes after it reopens the item, and the ItemClosed is gone |
| `two_claims` | the ADR's compare-and-swap (lines 469-471) | two claims are both answered with success |
| `tag_walk` | "ListByTags returns inbox items matching all given tags" (`get.go:24`) | the filter leaves a short page, the walk ends before the item with the tag |
| `stale_pages` | an action "publishes a bus notification" (`ui/actions.go:96-97`) | nothing is published, and a queue offers for ever an item that was closed in another browser (the RPC client of the run only creates, `ClientsOnlyCreate`) |

Every property of a passing run has a mutant in `PROJECT.json`: a plausible change
to a modelled definition (`ReleaseKeepingAssignee`, `NoAnchor`, ...) under which
TLC finds it violated.  The mutants stand next to the definitions they replace.

## 5. What is proved

Everything here is proved for all values of the constants: any number of callers, items,
actors, tags, browsers, connections, links, filters and fields, and logs of any length.

| module | theorem | states |
|---|---|---|
| `InboxProofs` | `TypeCorrect` | `Spec => []TypeOK` |
| | `HistoriesCorrect` | `Spec => [](LegalHistories /\ StatusMatchesLog)` |
| | `LegacyCorrect`, `ForeignCorrect` | `Spec => []LegacyStaysTerminal`, `Spec => []ForeignDocUntouched` |
| `EntityProofs` | `OneListCorrect` | `Spec => []OneStatusTag`, assuming `RoutesOnly` |
| | `OneItemCorrect` | `Spec => []OneItemPerKey` |
| | `TransitionsMirror` | `Spec => [](TagMirrorsStatus /\ ClaimerIsAssignee)`, assuming `OnlyTransitions` |
| `SerialProofs` | `SerialImplements` | `SerialSpec => ImplementsLifecycle` |
| | `SerialAppends`, `SerialClosed` | `SerialSpec => EventsAppendOnly`, `SerialSpec => ClosedIsFinal` |
| | `SerialMirrors` | `SerialSpec => []TagMirrorsStatus`, assuming `RoutesOnly` |
| | `SerialClaims` | `SerialSpec => []ClaimIsExclusive` |
| `BranchProofs` | `BranchImplements` | `BranchSpec => ImplementsBranching` |
| `ListingProofs` | `ListsTyped`, `RowsOnce` | `Spec => []TypeOK`, `Spec => []NoItemTwice` |
| | `PlainWalksComplete` | `Spec => []PlainWalkComplete` |
| | `WalksGoBack`, `FittingWalksComplete` | `Spec => WalkMovesBack`, `Spec => []FittingWalkComplete` |
| | `RemindersCorrect`, `SeedsOnce` | `StaleSpec => StaleIsExact`, `SeedSpec => []SeededOnce` |
| `BrowserProofs` | `ServiceImplementsInbox`, `BrowserImplementsInbox` | `ServiceSpec => Spec`, `BrowserSpec => Spec` |
| | `BrowserHistories` | `HistoriesCorrect` under the pages |
| | `ScreensCorrect`, `ButtonsCorrect` | `BrowserSpec => ScreensHaveBeen`, `BrowserSpec => ButtonsFit` |
| | `RefusalsCorrect` | `ServiceSpec => RefusalsChangeNothing` |
| | `ReleaseOffered`, `BrowserTypes` | `BrowserSpec => ClaimerMayRelease`, `BrowserSpec => []BrowserTypeOK` |
| `InputProofs` | `TokensCorrect`, `TokensListedOnce` | `TokensSpec => []TokensAreWords`, `TokensSpec => []TokensOnce` |
| | `BarCorrect`, `FormsCorrect` | `BarSpec => TableFitsSelects`, `FormsSpec => FormsStartFresh` |
| `TokenLinkProofs` | `LinkTypes`, `LinksRefine` | `LinkSpec => []LinkTypeOK`, `LinkSpec => ImplementsInbox` |
| | `LinksKeepHistories`, `HoldersCorrect` | `HistoriesCorrect` under links, `LinkSpec => []HoldersOnlyRespond` |
| | `SubmissionsCorrect` | `LinkSpec => SubmittedIsClosed` |

### Histories

Neither `LegalHistories` nor `StatusMatchesLog` is inductive: a call that has read an
item writes back what it read, whenever that is, so what the store will hold depends
on documents no longer in it.  The inductive invariant `Inv` adds to `TypeOK` and to
`StoreGood` (the store's documents are good) that the snapshot of every call that
is about to write is good too, and that its event fits it (`CallGood`): a claim has
read an open item, a release a claimed one, a close one that is not terminal, and a
note event is of a type that changes no status.  A good document is one whose log is
a legal history leading to its status.  The lemmas are about logs:

* `LeadsToAppend`: what the appended event does to the status the log leads to;
* `NoteKeepsStatus`, `LifecycleSetsStatus`: its two cases;
* `AppendLegal`: a legal history stays legal when the event is one the status allows.

From these, `NoteGood` and `TransitionGood` say that what `AppendEvent` and
`DoTransition` write is good, one lemma for each action says it keeps `Inv`, and the
theorems follow.  The assumptions used are the `ASSUME`s of `Inbox`:
`DomainEventsAssumption` is essential (a module that recorded an `ItemClosed` of its
own with AddEvent would break the log), the others fix what a constant is.

### Tags, keys and calls that do not overlap

`OneStatusTag` fails to be inductive for the same reason: a transition writes back tags
it has read.  But `WithStatus` replaces the status tags of what was read, so it is
enough that every call about to write has read *one* status tag.  `StepEntity` and
`StartEntity` say once what a step can do to an entity: it is retagged, which keeps its
status tags if no caller has tags of that key (`RoutesOnly`), it is rewritten from what
the call has read, or it is created.  `OneItemPerKey` follows from `KeyInv`: an item's
key is its anchor, also in the hands of the calls that will write it, and no two
entities have one anchor.

`TransitionsMirror` is the run `transitions` for any number of callers: as long as they
only create, get, claim, release and close (`OnlyTransitions`), every write replaces
document and tags at once (`TransitionMirrors`).  What an item was created with is
bounded by the assignee tags callers use at all, and by nothing once its log has a
release (`CreatedWith`).  `MirrorInv` adds that a Claim about to write has read no
assignee but those, and that a Release about to write has taken all of them out.  The
operations left out write one of the two alone, or write back a document that is not
theirs to change, and break one property or the other.

When calls on one item do not overlap, what a call has read *is* what is stored.
`SerialInv` adds that (`Current`) and that an entity which is not there has no document
(`AbsentHasNoDoc`) to `Inv`.  Then every step leaves all documents alone or advances
one item as its event has it (`SerialAdvances`), and an advance is a `Move` or a `Note`
of `Lifecycle` (`AdvanceIsMove`).  That is the refinement; `EventsAppendOnly` and
`ClosedIsFinal` are read off the same lemma.

`SerialClaims` needs to know how long a claim stands.  `ClaimsStand` says of everybody who
was told that he claimed an item that its log has a claim, and that the item is not open or
a release follows a claim in its log (`Released`): only a release takes the status back to
open, and no event is lost.  The next caller who is told so has read the item open, so
his claim comes after that release (`ClaimAgain`), and a release stands between two claims
(`ReleasedBetweenClaims`), whatever else was released before.

### Calls that race

`BranchImplements` is the refinement of `SerialProofs` without its condition.
`BranchInv` adds to `Inv` that an entity which is not there has no document
(`AbsentHasNoDoc`) and that the version stored, and that read by each call about to
write, are in `past` (`Kept`); versions stay there (`KeptStays`).  Then a step that
writes makes the item what a kept version becomes by the call's event, and `CallGood`
says that the version allows it (`BranchAdvances`, `BranchIsMove`); a step that does not
write is a stutter, also for a tag call, since tags are no part of a version.  A Create
finds an entity that is not there, whose version is the empty one.

### Lists and reminders

For the lists the strengthening is about the cursor: what has been shown is at or
after it (`GoesBack`), what has not been shown of a plain list is before it
(`RestBehind`).  A write moves an item to a time after both.  Cutting a cursor to
whole seconds moves it back (`WholeSecondsFloor`), which keeps the first and breaks
the second: the UI's walks show no row twice, and may skip some.  The assumption
used is `TimeAssumption`: a second has at least one tick and `NoCursor` is no time.
`WalksGoBack` is the variant that liveness needs: the next cursor is the time of a row
before the last cursor, and cutting it only moves it further back.  TLC checks the end of
the walks (`WalkEnds`) itself.  `FittingWalksComplete` counts: a page that may hold as
many items as there are holds them all (`FittingPage`), and items that fit at the end of
the walk fitted at its start, since none is ever removed (`StillFits`, with
`ItemsFinite`); so the first page has what the client is promised.

For the reminders, `StaleInv` says of the items not written since the page was read
that the call holds them as they still are, and holds all of them that have the tags if
the items fit on a page (`ReadFits`).  A write makes fewer items of that kind, and never
makes them fit.  It needs `ItemsFinite` and `AgesAssumption`.

For the seeding, `CalmInv` says what one open item in the store is worth while it is calm:
every item has the tags the server asks for, so a page of one is empty only when there is
no item at all (`NewestThere`), and the server's turn at item `n` means that none from `n`
on was created.  A server that starts again finds the item the last one made, and skips the
rest.

### Pages

Every step of the service or of a page is a step of the inbox or leaves it alone
(`RpcIsStart`, `RequestIsStart`), which is the refinement.  What a page shows follows
its answers: `PagesInv` says that what is under way for an item is a call on that item,
and that an answer or a drawer holds a document which was stored, so a legal history
with its status.  `ButtonsCorrect` compares the guards of the templates with the check
each operation makes on what it reads: `PressedInv` carries the status a pressed button
was shown at to the server's read, whatever is written on the way, and a request that
finds this status there is not refused (`HandledFits`).  `RefusalsCorrect` rests on two
lemmas: the first store call of an operation writes or refuses, never both
(`StartRefuses`), and a call that has begun returns no refusal (`StepNeverRefuses`).
The assumptions used are `BrowserAssumption` and `IdentitiesAssumption`: an identity
that is accepted is an actor.

`ReleaseOffered` follows a pressed Claim through three processes.  `ClaimsInv` says that
its connection runs a claim in the name of the browser's actor and was answered, if with
success, with the item claimed by him; the drawer is set to that answer, and the template
offers Release for it.

`BrowserTypes` is more than types: that only a table is watched depends on the order of
answers.  `ShownInv` adds to `PagesInv` that every answer under way can be shown in a drawer
(`AnswerShows`, `QueryShows`: it has a status because its document is good) and that an
answer to a reload of a table finds a page with a table (`TablesAsked`): it was asked
from one, and `Deliver` of a whole page marks it as gone.

### Inputs

The tokenizer's loop invariant relates what has been read to the word begun and the
words listed; its end is the property.  For the filter bar, `BarInv` says that a
request under way was answered from the values it carries, and that the signals it
declares are these values again: the way through labels and keys is one to one by
`BarAssumption`.  For the forms, `FormsInv` says that every bound input's signal is what was
entered or the default; it holds because the provider declares every bound field, which
is what a field type forgotten on one of the two sides would break (`NamesAssumption`).

### Links

The refinement needs only the types (`LinkTypes`): a verified link names an item and an
actor of the inbox (`VerifiedType`).  `HoldersOnlyRespond` is not inductive either, for
the same reason as the histories; `HoldersInv` adds the snapshot and the event of every
call under way (`CallFine`): its close is of a respond link that was submitted in time,
which `handlePost` has verified and which stays so, for `posted` only grows.  Its step
cases rest on two lemmas of `InboxProofs` that say what a step of the inbox can do to
logs at all: `StartEffect` (a call carries an event of its actor and changes no log but
that of an item it creates) and `StepEffect` (a call appends its own event to the log it
has read, or nothing).  `PendingInv` is what `SubmissionsCorrect` adds to the types: a
submission that has no answer yet is a Close of its link's item about to write, so
success is told by the step that writes it.  Success without a write is told only of an
item read terminal in that step.  The assumptions used are `PeopleAssumption`,
`ActorsAssumption` and `NamesAssumption`.

### Only model-checked

Liveness (`CallsReturn`, `WalkEnds`, and `RowsCatchUp`, which is refuted) is out of the
prover's reach; of `WalkEnds` the variant is proved (`WalksGoBack`).  Every invariant and
every action property of the passing runs is stated by a theorem.

## 6. What is not modelled

* The payload, title, description and deadline of items: no modelled operation reads
  them back.  Nor the times that callers of the Go API may put into events of their own.
* Labels, ages, badges, styles, toasts and layout of the pages.  The templates are mapped
  through the Go code generated from them where they are modelled.
* The demo server's wiring and the content of its sample data, and the code generated by
  protoc (accessors, descriptors, marshalling), which is also the largest part of the
  lines: two of its files are a quarter of the implementation.
* The store's own failures beyond a failed or unanswered call (it is assumed to keep
  what it acknowledged).
* What Search and SemanticSearch find: the store ranks, the inbox forwards.  A search
  page may show any items of the inbox (`Searchable`).
* The panic on a required tag that is no tag at all (`get.go:92`), and documents the store
  returns that cannot be unmarshalled (`item.go:73-75`): nothing here writes one.
* The signature of a token and its encoding, and where the content of a form goes: the
  close route and the link handler read the reason, or nothing, and store neither.
* The browser's own validation of inputs, and the boxes of a multiselect beyond their
  signals, which nobody declares.

## 7. Plan

In this order; all of it is done.

1. `TagSet`, `EntityStore`, `Inbox`: the core, under races and store faults.
2. `Lifecycle`, `SerialInbox`: the abstract specification and the refinement.
3. `InboxProofs`: types, histories, legacy and foreign entities.
4. `Listing`, `ListingProofs`: pages, cursors and writes during a walk.
5. `TokenLink`, `TokenLinkProofs`: presigned links, composed with `Inbox`.
6. `Service`: handlers, identities and error codes, composed with `Inbox`.
7. `Pages`, `Browser`, `BrowserProofs`: stale pages, overtaking answers, buttons,
   notifications that are documented and never published.
8. `Tokens`, `FilterBar`, `Forms`, `InputProofs`: what becomes of inputs.
9. `Staleness`: the age of an item with a clock.
10. `EntityProofs`, `SerialProofs`: the status tag, the key, the refinement.
11. `SubmissionsCorrect`, `ReleaseOffered`, `TransitionsMirror`: what answers say of the
    item, and the two tags under calls that only transition.
12. `Branching`, `BranchInbox`, `BranchProofs`: what is left of the lifecycle when calls race.
13. `SerialClaims`, `WalksGoBack`, `FittingWalksComplete`, `TokensListedOnce`, `BrowserTypes`:
    the properties that were checked and not proved.
14. `Seed`, and assignee tags of callers, expiry of links, presses that travel: what the
    earlier instances left out.
