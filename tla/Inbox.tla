------------------------------- MODULE Inbox -------------------------------
(***************************************************************************)
(* The core inbox package: every call that changes an item, run by         *)
(* concurrent callers against one entity store.                            *)
(*                                                                         *)
(* A call is a goroutine that runs one operation of package inbox.  The    *)
(* code takes no lock and sends no version with its writes, so a call that *)
(* reads an item and writes it back does so in two steps with the steps of *)
(* the other calls in between, and what it writes is built from what it    *)
(* read.  An action below is the code from one store call to the next.     *)
(***************************************************************************)
EXTENDS EntityStore, Naturals, Sequences

CONSTANTS
  Items,          \* the ids an entity can have
  Foreign,        \* the ids of entities that are not inbox items
  Legacy,         \* the items an older release closed ("expired")
  Calls,          \* the callers: each runs one call at a time
  Actors,         \* the identities, as the string "type:id"
  Unbuildable,    \* the actors whose assignee tag tags.Build rejects
  NoActor,        \* the empty actor string
  Keys,           \* the idempotency keys
  NoKey,          \* the empty idempotency key
  RouteTags,      \* the tags callers create items with, add and remove
  DomainEvents,   \* the event types of the modules that use AddEvent
  NoItem,         \* the item of a call that has not run yet
  Ops,            \* the operations the callers run
  StoreFaults,    \* whether a store call may fail or lose its answer
  MaxEvents       \* bound: no call starts on an item with more events

LifecycleEvents == {"ItemCreated", "ItemClaimed", "ItemReleased", "ItemClosed"}
NoteEvents      == {"CommentAppended", "ItemReassigned", "TagsChanged"}
                     \union DomainEvents
EventTypes      == LifecycleEvents \union NoteEvents

\* The modules that record events of their own use types of their own.
ASSUME DomainEventsAssumption == DomainEvents \intersect LifecycleEvents = {}
ASSUME ItemsAssumption ==
  /\ Foreign \subseteq Items
  /\ Legacy \subseteq Items
  /\ Foreign \intersect Legacy = {}
  /\ NoItem \notin Items
ASSUME ActorsAssumption == Unbuildable \subseteq Actors /\ NoActor \notin Actors
ASSUME KeysAssumption == NoKey \notin Keys
ASSUME BoundAssumption == StoreFaults \in BOOLEAN /\ MaxEvents \in Nat

VARIABLES
  store,   \* the entity of every id
  call     \* what every caller is doing

vars == <<store, call>>

-----------------------------------------------------------------------------
(* Items and events *)

\* Mutant: the statuses of older releases are forgotten.
IsClosed(status) == status = "closed"

IsTerminal(status) == status # "open" /\ status # "claimed"

Event(type, actor) == [type |-> type, actor |-> actor]

NoDoc   == [status |-> "none", events |-> <<>>, key |-> NoKey]
NoEvent == Event("none", NoActor)
Absent  == [kind |-> "absent", doc |-> NoDoc, tags |-> {}, anchor |-> NoKey]

ForeignEntity == [Absent EXCEPT !.kind = "other"]

LegacyEntity(a) ==
  [kind |-> "inbox", anchor |-> NoKey, tags |-> {<<"status", "expired">>},
   doc |-> [status |-> "expired", events |-> <<Event("ItemCreated", a)>>,
            key |-> NoKey]]

\* The domain Item a read returns: the document and the tags together.  What
\* the package stores can be unmarshalled again: that error is left out.
ItemOf(e) == [doc |-> e.doc, tags |-> e.tags]

\* Mutant: newest event first.
Prepended(doc, evt) == [doc EXCEPT !.events = <<evt>> \o @]

Appended(doc, evt) == [doc EXCEPT !.events = Append(@, evt)]

\* Mutant: the old status tag stays.
StatusAdded(ts, status) == Merge(ts, {<<"status", status>>})

\* The status tag has one value, whatever the caller's tags are.
WithStatus(ts, status) == With(ts, "status", status)

\* Mutant: the write of a transition appends its event to the events in the
\* store, as the decision record has it.
MergingWrite(e, doc, ts) ==
  UpdateAll(e, [doc EXCEPT !.events = Append(e.doc.events, doc.events[Len(doc.events)])], ts)

\* Mutant: the write of a transition leaves the tags out.
TaglessWrite(e, doc, ts) == UpdateData(e, doc)

\* The write of doTransition: document and tags in one store call.
TransitionWrite(e, doc, ts) == UpdateAll(e, doc, ts)

\* Mutant: the write of an event sends the events alone.
EventsOnlyWrite(e, doc) == UpdateData(e, [e.doc EXCEPT !.events = doc.events])

\* The write of AddEvent: the whole document, and no tags.
EventWrite(e, doc) == UpdateData(e, doc)

-----------------------------------------------------------------------------
(* Calls *)

IdleCall == [pc |-> "idle", op |-> "none", item |-> NoItem, evt |-> NoEvent,
             to |-> NoActor, read |-> ItemOf(Absent), res |-> "none"]

Idle(c) == call[c].pc = "idle"

\* A caller may start op on item i.
May(c, op, i) ==
  /\ Idle(c)
  /\ op \in Ops
  /\ Len(store[i].doc.events) < MaxEvents

\* Tag and Untag drop the error of the event they record.
Answer(op, res) == IF op \in {"tag", "untag"} THEN "ok" ELSE res

Return(c, op, i, res) ==
  call' = [call EXCEPT ![c] = [IdleCall EXCEPT !.op = op, !.item = i, !.res = res]]

Continue(c, pc, op, i, evt, to) ==
  call' = [call EXCEPT ![c] = [IdleCall EXCEPT !.pc = pc, !.op = op, !.item = i,
                                               !.evt = evt, !.to = to]]

\* One store call that would leave entity i as e.  It may fail before it
\* takes effect, or take effect and lose its answer: the caller sees an
\* error both times.  A tag call on an id that does not exist may be refused.
StoreCall(i, e, ack) ==
  \/ ack /\ store' = [store EXCEPT ![i] = e]
  \/ ~ack /\ StoreFaults /\ store' = [store EXCEPT ![i] = e]
  \/ ~ack /\ (StoreFaults \/ store[i].kind = "absent") /\ UNCHANGED store

\* Mutant: any entity will do.
IsEntity(e) == e.kind # "absent"

\* Get takes the entities of other applications for missing ones.
IsItem(e) == e.kind = "inbox"

\* Get, and what follows it up to the write: the call ends with "notFound"
\* when the read fails or finds no inbox item, ends with refusal when the
\* item read does not satisfy allowed, and else goes on to write with what
\* the code has made of the item it read.
Get(c, op, i, evt, item, allowed, refusal) ==
  /\ \/ /\ StoreFaults \/ ~IsItem(store[i])
        /\ Return(c, op, i, Answer(op, "notFound"))
     \/ /\ IsItem(store[i]) /\ ~allowed
        /\ Return(c, op, i, refusal)
     \/ /\ IsItem(store[i]) /\ allowed
        /\ call' = [call EXCEPT ![c] =
             [IdleCall EXCEPT !.pc = "write", !.op = op, !.item = i, !.evt = evt,
                              !.to = call[c].to, !.read = item]]
  /\ UNCHANGED store

-----------------------------------------------------------------------------
(* Create *)

\* Mutant: the write carries no anchor.
NoAnchor(k) == NoKey

\* Only an item with a key has an anchor.
Anchor(k) == k

AnchorTaken(k) == k # NoKey /\ \E j \in Items : store[j].anchor = k

\* A new uuid: the id of no entity, and known to no call.
Fresh(i) == store[i].kind = "absent" /\ \A c \in Calls : ~Idle(c) => call[c].item # i

\* One write makes the item.  The store refuses a second entity with the
\* same anchor.
Create(c, i, a, ts, k) ==
  /\ May(c, "create", i)
  /\ Fresh(i)
  /\ LET e == [kind |-> "inbox", anchor |-> Anchor(k), tags |-> WithStatus(ts, "open"),
               doc |-> [status |-> "open", events |-> <<Event("ItemCreated", a)>>,
                        key |-> k]]
     IN \/ /\ AnchorTaken(Anchor(k))
           /\ Return(c, "create", i, "internal")
           /\ UNCHANGED store
        \/ /\ ~AnchorTaken(Anchor(k))
           /\ \E ack \in BOOLEAN :
                /\ StoreCall(i, e, ack)
                /\ Return(c, "create", i, IF ack THEN "ok" ELSE "internal")

-----------------------------------------------------------------------------
(* Reads *)

GetItem(c, i) ==
  /\ Idle(c)
  /\ "get" \in Ops
  /\ \/ /\ IsItem(store[i])
        /\ Return(c, "get", i, "ok")
     \/ /\ StoreFaults \/ ~IsItem(store[i])
        /\ Return(c, "get", i, "notFound")
  /\ UNCHANGED store

-----------------------------------------------------------------------------
(* The lifecycle: read and check, then one write of document and tags *)

\* Mutant: the status check is missing.
TransitionUnchecked(c, op, i, evt, from) ==
  Get(c, op, i, evt, ItemOf(store[i]), TRUE, "invalidTransition")

Transition(c, op, i, evt, from) ==
  Get(c, op, i, evt, ItemOf(store[i]), store[i].doc.status = from, "invalidTransition")

Claim(c, i, a) ==
  /\ May(c, "claim", i)
  /\ \/ /\ a \in Unbuildable
        /\ Return(c, "claim", i, "internal")
        /\ UNCHANGED store
     \/ /\ a \notin Unbuildable
        /\ Transition(c, "claim", i, Event("ItemClaimed", a), "open")

\* Mutant: the assignee tag is left in the write.
ReleaseKeepingAssignee(c, i, a) ==
  /\ May(c, "release", i)
  /\ Get(c, "release", i, Event("ItemReleased", a), ItemOf(store[i]),
         store[i].doc.status = "claimed", "invalidTransition")

\* Whoever calls may release: only the status is checked.
Release(c, i, a) ==
  /\ May(c, "release", i)
  /\ Get(c, "release", i, Event("ItemReleased", a),
         [ItemOf(store[i]) EXCEPT !.tags = Without(@, "assignee")],
         store[i].doc.status = "claimed", "invalidTransition")

\* Mutant: the terminal check is missing.
CloseAlways(c, i, a) ==
  /\ May(c, "close", i)
  /\ Get(c, "close", i, Event("ItemClosed", a), ItemOf(store[i]), TRUE, "terminal")

Close(c, i, a) ==
  /\ May(c, "close", i)
  /\ Get(c, "close", i, Event("ItemClosed", a), ItemOf(store[i]),
         ~IsTerminal(store[i].doc.status), "terminal")

\* Mutant: a status nothing else knows.
ToReopened == [claim |-> "claimed", release |-> "reopened", close |-> "closed"]

ToStatus == [claim |-> "claimed", release |-> "open", close |-> "closed"]

ExtraTags(op, evt) == IF op = "claim" THEN {<<"assignee", evt.actor>>} ELSE {}

DoTransition(c) ==
  LET k    == call[c]
      to   == ToStatus[k.op]
      doc  == [Appended(k.read.doc, k.evt) EXCEPT !.status = to]
      tags == Merge(WithStatus(k.read.tags, to), ExtraTags(k.op, k.evt))
  IN /\ k.pc = "write"
     /\ k.op \in DOMAIN ToStatus
     /\ \E ack \in BOOLEAN :
          /\ StoreCall(k.item, TransitionWrite(store[k.item], doc, tags), ack)
          /\ Return(c, k.op, k.item, IF ack THEN "ok" ELSE "internal")

-----------------------------------------------------------------------------
(* Events: read, then a write of the document alone *)

AddEvent(c, i, a, type) ==
  /\ May(c, "addEvent", i)
  /\ Get(c, "addEvent", i, Event(type, a), ItemOf(store[i]), TRUE, "none")

Comment(c, i, a) ==
  /\ May(c, "comment", i)
  /\ Get(c, "comment", i, Event("CommentAppended", a), ItemOf(store[i]), TRUE, "none")

\* Mutant: a missing item is waited for.
ReadWhenFound(c) ==
  LET k == call[c]
  IN /\ k.pc = "read" /\ IsItem(store[k.item])
     /\ Get(c, k.op, k.item, k.evt, ItemOf(store[k.item]), TRUE, "none")

\* The read of the AddEvent that Reassign, Tag and Untag end with.
ReadForEvent(c) ==
  LET k == call[c]
  IN /\ k.pc = "read"
     /\ Get(c, k.op, k.item, k.evt, ItemOf(store[k.item]), TRUE, "none")

AppendEvent(c) ==
  LET k == call[c]
  IN /\ k.pc = "write"
     /\ k.op \notin DOMAIN ToStatus
     /\ \E ack \in BOOLEAN :
          /\ StoreCall(k.item, EventWrite(store[k.item], Appended(k.read.doc, k.evt)), ack)
          /\ Return(c, k.op, k.item, IF ack THEN "ok" ELSE Answer(k.op, "internal"))

-----------------------------------------------------------------------------
(* Reassign: remove one tag, add another, record the event.  The store's   *)
(* errors on the two tag calls are ignored, a tag that cannot be built is  *)
(* not: the second one is built after the first one was removed.           *)

Reassign(c, i, a, from, to) ==
  LET evt == Event("ItemReassigned", a)
  IN /\ May(c, "reassign", i)
     /\ \/ /\ from = NoActor
           /\ Continue(c, "assign", "reassign", i, evt, to)
           /\ UNCHANGED store
        \/ /\ from \in Unbuildable
           /\ Return(c, "reassign", i, "internal")
           /\ UNCHANGED store
        \/ /\ from \in Actors \ Unbuildable
           /\ \E ack \in BOOLEAN :
                StoreCall(i, RemoveTag(store[i], <<"assignee", from>>), ack)
           /\ Continue(c, "assign", "reassign", i, evt, to)

AddAssignee(c) ==
  LET k == call[c]
  IN /\ k.pc = "assign"
     /\ \/ /\ k.to = NoActor
           /\ Continue(c, "read", k.op, k.item, k.evt, k.to)
           /\ UNCHANGED store
        \/ /\ k.to \in Unbuildable
           /\ Return(c, k.op, k.item, "internal")
           /\ UNCHANGED store
        \/ /\ k.to \in Actors \ Unbuildable
           /\ \E ack \in BOOLEAN :
                StoreCall(k.item, AddTags(store[k.item], {<<"assignee", k.to>>}), ack)
           /\ Continue(c, "read", k.op, k.item, k.evt, k.to)

-----------------------------------------------------------------------------
(* Tag and Untag: change the tags in the store, then record the event *)

ChangeTags(c, op, i, a, e) ==
  /\ May(c, op, i)
  /\ \E ack \in BOOLEAN :
       /\ StoreCall(i, e, ack)
       /\ IF ack THEN Continue(c, "read", op, i, Event("TagsChanged", a), NoActor)
                 ELSE Return(c, op, i, "internal")

Tag(c, i, a, ts) == ChangeTags(c, "tag", i, a, AddTags(store[i], ts))

Untag(c, i, a, t) == ChangeTags(c, "untag", i, a, RemoveTag(store[i], t))

-----------------------------------------------------------------------------
Init ==
  /\ call = [c \in Calls |-> IdleCall]
  /\ \E a \in Actors :
       store = [i \in Items |-> CASE i \in Foreign -> ForeignEntity
                                  [] i \in Legacy  -> LegacyEntity(a)
                                  [] OTHER         -> Absent]

\* What a caller does once its call has begun.
Step(c) == DoTransition(c) \/ ReadForEvent(c) \/ AppendEvent(c) \/ AddAssignee(c)

Start(c, i, a) ==
  \/ \E ts \in SUBSET RouteTags, k \in Keys \union {NoKey} : Create(c, i, a, ts, k)
  \/ GetItem(c, i)
  \/ Claim(c, i, a)
  \/ Release(c, i, a)
  \/ Close(c, i, a)
  \/ \E type \in DomainEvents : AddEvent(c, i, a, type)
  \/ Comment(c, i, a)
  \/ \E from, to \in Actors \union {NoActor} : Reassign(c, i, a, from, to)
  \/ \E ts \in SUBSET RouteTags : Tag(c, i, a, ts)
  \/ \E t \in RouteTags : Untag(c, i, a, t)

Next == \E c \in Calls : Step(c) \/ \E i \in Items, a \in Actors : Start(c, i, a)

Spec == Init /\ [][Next]_vars

\* A goroutine goes on running, and every store call returns in the end.
FairSpec == Spec /\ \A c \in Calls : WF_vars(Step(c))

-----------------------------------------------------------------------------
(* Properties.  The first group holds whatever the calls do to each other, *)
(* because each write carries the status and the event together.           *)

Events   == [type : EventTypes, actor : Actors]
Docs     == [status : {"none", "open", "claimed", "closed", "expired"},
             events : Seq(Events),
             key    : Keys \union {NoKey}]
TagSets  == SUBSET ({"status"} \X {"open", "claimed", "closed", "expired"}
                      \union {"assignee"} \X Actors \union RouteTags)

Entities == [kind : {"absent", "inbox", "other"}, doc : Docs, tags : TagSets,
             anchor : Keys \union {NoKey}]
Results  == {"ok", "notFound", "invalidTransition", "terminal", "internal"}

CallStates ==
  [pc : {"idle", "assign", "read", "write"}, op : Ops \union {"none"},
   item : Items \union {NoItem}, evt : Events \union {NoEvent},
   to : Actors \union {NoActor}, read : [doc : Docs, tags : TagSets],
   res : Results \union {"none"}]

\* Types of the variables; a call under way has an item and an event.
TypeOK ==
  /\ store \in [Items -> Entities]
  /\ call \in [Calls -> CallStates]
  /\ \A c \in Calls : ~Idle(c) =>
       call[c].item \in Items /\ call[c].evt \in Events /\ call[c].op \in Ops

StatusAfter == [ItemCreated  |-> "open", ItemClaimed |-> "claimed",
                ItemReleased |-> "open", ItemClosed  |-> "closed"]

StatusBefore == [ItemCreated  |-> {},          ItemClaimed |-> {"open"},
                 ItemReleased |-> {"claimed"}, ItemClosed  |-> {"open", "claimed"}]

\* The last lifecycle event of the first n events of log leads to status s.
LeadsTo(log, n, s) ==
  \E j \in 1..n :
    /\ log[j].type \in LifecycleEvents
    /\ StatusAfter[log[j].type] = s
    /\ \A m \in (j + 1)..n : log[m].type \notin LifecycleEvents

\* A log begins with the creation and every later lifecycle event is one
\* the status before it allows.
LegalHistory(log) ==
  /\ log # <<>> /\ log[1].type = "ItemCreated"
  /\ \A k \in 2..Len(log) : log[k].type \in LifecycleEvents =>
       \E s \in StatusBefore[log[k].type] : LeadsTo(log, k - 1, s)

NewItem(i) == store[i].kind = "inbox" /\ i \notin Legacy

\* The stored log of an item is at every moment a history one caller could
\* have made alone: no item is claimed twice in a row, released while open,
\* or changed again after its ItemClosed (lifecycle.go: each check is made
\* on the document that is then extended by one event).
LegalHistories == \A i \in Items : NewItem(i) => LegalHistory(store[i].doc.events)

\* The status field says what the log says, however writes interleave: a
\* stale write takes the log back with the status (lifecycle.go:76-97,
\* events.go:27-37 write one document).
StatusMatchesLog ==
  \A i \in Items : NewItem(i) =>
    LeadsTo(store[i].doc.events, Len(store[i].doc.events), store[i].doc.status)

\* An item is in exactly one of the lists the status tag selects
\* (ui/queue.go lists status:open, ui/mywork.go status:claimed), as long as
\* no caller uses the status key in tags of its own.
OneStatusTag ==
  \A i \in Items : store[i].kind = "inbox" =>
    \E v \in {"open", "claimed", "closed", "expired"} :
      Tagged(store[i].tags, "status") = {<<"status", v>>}

\* Items an older release ended are terminal for this one (status.go:9-13):
\* nothing that runs gives them another status or a lifecycle event.
LegacyStaysTerminal ==
  \A i \in Legacy :
    /\ store[i].doc.status = "expired"
    /\ \A k \in 2..Len(store[i].doc.events) : store[i].doc.events[k].type \in NoteEvents

\* No operation writes the document of an entity of another application,
\* whatever id a caller passes (get.go:18).
ForeignDocUntouched == \A i \in Foreign : store[i].doc = NoDoc

\* A Create that is repeated with its key, because its answer was lost or
\* two callers raced, never makes a second item (create.go:69-74).
OneItemPerKey ==
  \A i, j \in Items :
    store[i].doc.key = store[j].doc.key /\ store[i].doc.key # NoKey => i = j

\* Every call that has begun returns, with the answer it has by then.
CallsReturn == \A c \in Calls : ~Idle(c) ~> Idle(c)

-----------------------------------------------------------------------------
(* What holds between calls that only claim, release and close.            *)

\* The status tag mirrors the status field (item.proto:77-78).
TagMirrorsStatus ==
  \A i \in Items : store[i].kind = "inbox" =>
    Tagged(store[i].tags, "status") = {<<"status", store[i].doc.status>>}

WasReleased(log) == \E j \in DOMAIN log : log[j].type = "ItemReleased"

\* The assignees an item can have been created with and still have: the
\* first Release takes them off.
CreatedWith(log) == IF WasReleased(log) THEN {} ELSE ValuesOf(RouteTags, "assignee")

\* Who claimed a claimed item last is among its assignees, and besides him
\* only those the item was created with and has kept; an open item has no
\* other (lifecycle.go:14, 25; items are created with assignees by seed.go:33
\* and README.md:99).  A second claimant is never left on an item, and a
\* claimant never lost.
ClaimerIsAssignee ==
  \A i \in Items : store[i].kind = "inbox" =>
    LET log      == store[i].doc.events
        assigned == ValuesOf(store[i].tags, "assignee")
    IN /\ store[i].doc.status = "open" => assigned \subseteq CreatedWith(log)
       /\ store[i].doc.status = "claimed" =>
            \E j \in DOMAIN log :
              /\ log[j].type = "ItemClaimed"
              /\ \A m \in (j + 1)..Len(log) : log[m].type \notin LifecycleEvents
              /\ log[j].actor \in assigned
              /\ assigned \subseteq {log[j].actor} \union CreatedWith(log)

-----------------------------------------------------------------------------
(* What the documents promise and racing calls break.                      *)

\* Events are append-only: never modified or deleted (item.proto:103-104).
EventsAppendOnly ==
  [][\A i \in Items :
       LET old == store[i].doc.events
           new == store'[i].doc.events
       IN Len(old) <= Len(new) /\ \A k \in DOMAIN old : new[k] = old[k]]_vars

\* Closed is terminal (README: "CloseItem | Close item (terminal)").
ClosedIsFinal ==
  [][\A i \in Items :
       store[i].doc.status = "closed" => store'[i].doc.status = "closed"]_vars

ReleasedBetweenClaims(log) ==
  \E j, k, l \in DOMAIN log :
    /\ j < k /\ k < l
    /\ log[j].type = "ItemClaimed" /\ log[k].type = "ItemReleased" /\ log[l].type = "ItemClaimed"

\* Two callers are both told that they claimed an item only when somebody
\* released it in between: the log then has a release after one claim and
\* before another (doc/adr/001-inbox-on-entity-store.md:469-471).
ClaimIsExclusive ==
  \A c, d \in Calls :
    /\ c # d /\ call[c].item = call[d].item
    /\ \A k \in {call[c], call[d]} : k.op = "claim" /\ k.res = "ok"
    => ReleasedBetweenClaims(store[call[c].item].doc.events)

=============================================================================
