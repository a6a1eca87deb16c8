---------------------------- MODULE InboxProofs ----------------------------
(***************************************************************************)
(* Proofs about Inbox, for any number of callers, items, actors and events.*)
(*                                                                         *)
(* TypeOK comes first.  Then Inv, the inductive invariant: what is in the  *)
(* store is legal, and so is every item a call has read and not yet        *)
(* written back, however old it is by now.                                 *)
(***************************************************************************)
EXTENDS Inbox, TLAPS

Transitions == {"claim", "release", "close"}

-----------------------------------------------------------------------------
(* Types *)

LEMMA AbsentType ==
  /\ Absent \in Entities
  /\ ItemOf(Absent) \in [doc : Docs, tags : TagSets]
  /\ IdleCall \in CallStates
<1>1. <<>> \in Seq(Events)
  OBVIOUS
<1>2. NoDoc \in Docs
  BY <1>1 DEF NoDoc, Docs
<1>3. {} \in TagSets
  BY DEF TagSets
<1>4. Absent \in Entities
  BY <1>2, <1>3 DEF Absent, Entities
<1>5. ItemOf(Absent) \in [doc : Docs, tags : TagSets]
  BY <1>2, <1>3 DEF ItemOf, Absent
<1> QED
  BY <1>4, <1>5 DEF IdleCall, CallStates

\* Changing one caller's record changes nobody else's.
LEMMA CallType ==
  ASSUME TypeOK, store' \in [Items -> Entities], NEW c \in Calls,
         NEW k \in CallStates,
         k.pc = "idle" \/ (k.item \in Items /\ k.evt \in Events /\ k.op \in Ops),
         call' = [call EXCEPT ![c] = k]
  PROVE  TypeOK'
<1>1. call' \in [Calls -> CallStates]
  BY DEF TypeOK
<1>2. ASSUME NEW d \in Calls, ~Idle(d)'
      PROVE  call'[d].item \in Items /\ call'[d].evt \in Events /\ call'[d].op \in Ops
  <2>1. CASE d = c
    BY <1>2, <2>1 DEF TypeOK, Idle
  <2>2. CASE d # c
    BY <1>2, <2>2 DEF TypeOK, Idle
  <2> QED BY <2>1, <2>2
<1> QED BY <1>1, <1>2 DEF TypeOK

LEMMA ReturnType ==
  ASSUME TypeOK, store' \in [Items -> Entities], NEW c \in Calls,
         NEW op \in Ops, NEW i \in Items, NEW res \in Results,
         Return(c, op, i, res)
  PROVE  TypeOK'
<1> DEFINE k == [IdleCall EXCEPT !.op = op, !.item = i, !.res = res]
<1>1. k \in CallStates /\ k.pc = "idle"
  BY AbsentType DEF CallStates, IdleCall
<1>2. call' = [call EXCEPT ![c] = k]
  BY DEF Return
<1> HIDE DEF k
<1> QED BY <1>1, <1>2, CallType

LEMMA ContinueType ==
  ASSUME TypeOK, store' \in [Items -> Entities], NEW c \in Calls,
         NEW pc \in {"assign", "read"}, NEW op \in Ops, NEW i \in Items,
         NEW evt \in Events, NEW to \in Actors \union {NoActor},
         Continue(c, pc, op, i, evt, to)
  PROVE  TypeOK'
<1> DEFINE k == [IdleCall EXCEPT !.pc = pc, !.op = op, !.item = i, !.evt = evt, !.to = to]
<1>1. k \in CallStates /\ k.item \in Items /\ k.evt \in Events /\ k.op \in Ops
  BY AbsentType DEF CallStates, IdleCall
<1>2. call' = [call EXCEPT ![c] = k]
  BY DEF Continue
<1> HIDE DEF k
<1> QED BY <1>1, <1>2, CallType

\* A read, a refusal or a failed read leaves the variables well typed.
LEMMA GetType ==
  ASSUME TypeOK, NEW c \in Calls, NEW op \in Ops, NEW i \in Items, NEW evt \in Events,
         NEW item \in [doc : Docs, tags : TagSets], NEW allowed \in BOOLEAN,
         NEW refusal \in {"none", "invalidTransition", "terminal"},
         allowed \/ refusal # "none",
         Get(c, op, i, evt, item, allowed, refusal)
  PROVE  TypeOK'
<1> DEFINE k == [IdleCall EXCEPT !.pc = "write", !.op = op, !.item = i, !.evt = evt,
                                 !.to = call[c].to, !.read = item]
<1>1. store' \in [Items -> Entities]
  BY DEF Get, TypeOK
<1>2. CASE Return(c, op, i, Answer(op, "notFound"))
  <2>1. Answer(op, "notFound") \in Results
    BY DEF Answer, Results
  <2> QED BY <1>1, <1>2, <2>1, ReturnType
<1>3. CASE ~allowed /\ Return(c, op, i, refusal)
  BY <1>1, <1>3, ReturnType DEF Results
<1>4. CASE call' = [call EXCEPT ![c] = k]
  <2>1. call[c].to \in Actors \union {NoActor}
    BY DEF TypeOK, CallStates
  <2>2. k \in CallStates /\ k.item \in Items /\ k.evt \in Events /\ k.op \in Ops
    BY <2>1, AbsentType DEF CallStates, IdleCall
  <2> HIDE DEF k
  <2> QED BY <1>1, <1>4, <2>2, CallType
<1> QED BY <1>2, <1>3, <1>4 DEF Get, IsItem

LEMMA StoreCallType ==
  ASSUME TypeOK, NEW i \in Items, NEW e \in Entities, NEW ack \in BOOLEAN,
         StoreCall(i, e, ack)
  PROVE  store' \in [Items -> Entities]
  BY DEF TypeOK, StoreCall

\* The tags the inbox writes are tags.
LEMMA TagTypes ==
  /\ \A ts \in TagSets : \A k : Without(ts, k) \in TagSets
  /\ \A ts, us \in TagSets : Merge(ts, us) \in TagSets
  /\ \A ts \in TagSets, v \in {"open", "claimed", "closed", "expired"} :
       WithStatus(ts, v) \in TagSets
  /\ \A a \in Actors : {<<"assignee", a>>} \in TagSets
  /\ SUBSET RouteTags \subseteq TagSets
  BY DEF TagSets, Without, Merge, With, WithStatus, Tagged

LEMMA EventTypesOK ==
  \A a \in Actors, type \in EventTypes : Event(type, a) \in Events
  BY DEF Event, Events

LEMMA AppendedType ==
  ASSUME NEW doc \in Docs, NEW evt \in Events
  PROVE  Appended(doc, evt) \in Docs
<1>1. doc.events \in Seq(Events)
  BY DEF Docs
<1>2. Append(doc.events, evt) \in Seq(Events)
  BY <1>1
<1> QED BY <1>1, <1>2 DEF Appended, Docs

LEMMA InitType == Init => TypeOK
<1> SUFFICES ASSUME Init PROVE TypeOK
  OBVIOUS
<1>1. call \in [Calls -> CallStates] /\ \A c \in Calls : Idle(c)
  BY AbsentType DEF Init, Idle, IdleCall
<1>2. PICK a \in Actors :
        store = [i \in Items |-> CASE i \in Foreign -> ForeignEntity
                                   [] i \in Legacy  -> LegacyEntity(a)
                                   [] OTHER         -> Absent]
  BY DEF Init
<1>3. ForeignEntity \in Entities
  BY AbsentType DEF ForeignEntity, Entities
<1>4. LegacyEntity(a) \in Entities
  <2>1. <<Event("ItemCreated", a)>> \in Seq(Events)
    BY EventTypesOK DEF EventTypes, LifecycleEvents
  <2>2. [status |-> "expired", events |-> <<Event("ItemCreated", a)>>,
         key |-> NoKey] \in Docs
    BY <2>1 DEF Docs
  <2>3. {<<"status", "expired">>} \in TagSets
    BY DEF TagSets
  <2> QED BY <2>2, <2>3 DEF LegacyEntity, Entities
<1>5. store \in [Items -> Entities]
  BY <1>2, <1>3, <1>4, AbsentType
<1> QED BY <1>1, <1>5 DEF TypeOK

LEMMA UpdateType ==
  ASSUME NEW e \in Entities, NEW doc \in Docs, NEW ts \in TagSets
  PROVE  /\ TransitionWrite(e, doc, ts) \in Entities
         /\ EventWrite(e, doc) \in Entities
         /\ AddTags(e, ts) \in Entities
         /\ \A t : RemoveTag(e, t) \in Entities
<1>1. e.tags \in TagSets
  BY DEF Entities
<1>2. Merge(e.tags, ts) \in TagSets /\ \A t : e.tags \ {t} \in TagSets
  BY <1>1 DEF Merge, TagSets
<1> QED BY <1>2 DEF TransitionWrite, EventWrite, UpdateAll, UpdateData, AddTags, RemoveTag, Entities

LEMMA StepType ==
  ASSUME TypeOK, NEW c \in Calls, Step(c)
  PROVE  TypeOK'
<1> DEFINE k == call[c]
           i == k.item
<1>1. /\ k.pc # "idle" => i \in Items /\ k.evt \in Events /\ k.op \in Ops
      /\ k.to \in Actors \union {NoActor} /\ k.read.doc \in Docs /\ k.read.tags \in TagSets
      /\ i \in Items => store[i] \in Entities
  BY DEF TypeOK, CallStates, Idle
<1>2. CASE DoTransition(c)
  <2> DEFINE to   == ToStatus[k.op]
             doc  == [Appended(k.read.doc, k.evt) EXCEPT !.status = to]
             tags == Merge(WithStatus(k.read.tags, to), ExtraTags(k.op, k.evt))
             e    == TransitionWrite(store[i], doc, tags)
  <2>1. i \in Items /\ k.evt \in Events /\ k.op \in Ops /\ k.op \in {"claim", "release", "close"}
    BY <1>1, <1>2 DEF DoTransition, ToStatus
  <2>2. to \in {"open", "claimed", "closed"}
    BY <2>1 DEF ToStatus
  <2>3. doc \in Docs
    BY <1>1, <2>1, <2>2, AppendedType DEF Docs
  <2>4. tags \in TagSets
    <3>1. ExtraTags(k.op, k.evt) \in TagSets
      BY <2>1, TagTypes DEF ExtraTags, Events, TagSets
    <3>2. WithStatus(k.read.tags, to) \in TagSets
      BY <1>1, <2>2, TagTypes
    <3> QED BY <3>1, <3>2, TagTypes
  <2>5. e \in Entities
    BY <1>1, <2>1, <2>3, <2>4, UpdateType
  <2>6. PICK ack \in BOOLEAN : /\ StoreCall(i, e, ack)
                               /\ Return(c, k.op, i, IF ack THEN "ok" ELSE "internal")
    BY <1>2 DEF DoTransition
  <2> HIDE DEF e
  <2> QED BY <2>1, <2>5, <2>6, StoreCallType, ReturnType DEF Results
<1>3. CASE ReadForEvent(c)
  <2>1. i \in Items /\ k.evt \in Events /\ k.op \in Ops
    BY <1>1, <1>3 DEF ReadForEvent
  <2>2. ItemOf(store[i]) \in [doc : Docs, tags : TagSets]
    BY <1>1, <2>1 DEF ItemOf, Entities
  <2> QED BY <1>3, <2>1, <2>2, GetType DEF ReadForEvent
<1>4. CASE AppendEvent(c)
  <2> DEFINE e == EventWrite(store[i], Appended(k.read.doc, k.evt))
  <2>1. i \in Items /\ k.evt \in Events /\ k.op \in Ops
    BY <1>1, <1>4 DEF AppendEvent
  <2>2. e \in Entities
    BY <1>1, <2>1, AppendedType, UpdateType
  <2>3. PICK ack \in BOOLEAN :
          /\ StoreCall(i, e, ack)
          /\ Return(c, k.op, i, IF ack THEN "ok" ELSE Answer(k.op, "internal"))
    BY <1>4 DEF AppendEvent
  <2> HIDE DEF e
  <2> QED BY <2>1, <2>2, <2>3, StoreCallType, ReturnType DEF Results, Answer
<1>5. CASE AddAssignee(c)
  <2>1. i \in Items /\ k.evt \in Events /\ k.op \in Ops
    BY <1>1, <1>5 DEF AddAssignee
  <2>2. CASE k.to \notin Actors \ Unbuildable
    <3>1. store' = store /\ (Continue(c, "read", k.op, i, k.evt, k.to)
                               \/ Return(c, k.op, i, "internal"))
      BY <1>5, <2>2 DEF AddAssignee
    <3> QED BY <1>1, <2>1, <3>1, ReturnType, ContinueType DEF Results, TypeOK
  <2>3. CASE k.to \in Actors \ Unbuildable
    <3> DEFINE e == AddTags(store[i], {<<"assignee", k.to>>})
    <3>1. e \in Entities
      BY <1>1, <2>1, <2>3, TagTypes, UpdateType
    <3>2. /\ \E ack \in BOOLEAN : StoreCall(i, e, ack)
          /\ Continue(c, "read", k.op, i, k.evt, k.to)
      BY <1>5, <2>3, ActorsAssumption DEF AddAssignee
    <3> HIDE DEF e
    <3> QED BY <1>1, <2>1, <3>1, <3>2, StoreCallType, ContinueType
  <2> QED BY <2>2, <2>3
<1> QED BY <1>2, <1>3, <1>4, <1>5 DEF Step

LEMMA StartType ==
  ASSUME TypeOK, NEW c \in Calls, NEW i \in Items, NEW a \in Actors, Start(c, i, a)
  PROVE  TypeOK'
<1>1. store[i] \in Entities /\ store[i].doc \in Docs /\ store[i].tags \in TagSets
  BY DEF TypeOK, Entities
<1>2. ItemOf(store[i]) \in [doc : Docs, tags : TagSets]
  BY <1>1 DEF ItemOf
<1>3. \A type \in EventTypes : Event(type, a) \in Events
  BY EventTypesOK
<1>4. LifecycleEvents \subseteq EventTypes /\ NoteEvents \subseteq EventTypes
  BY DEF EventTypes
<1>5. ASSUME NEW ts \in SUBSET RouteTags, NEW key \in Keys \union {NoKey},
             Create(c, i, a, ts, key)
      PROVE  TypeOK'
  <2> DEFINE doc == [status |-> "open", events |-> <<Event("ItemCreated", a)>>, key |-> key]
             e == [kind |-> "inbox", anchor |-> Anchor(key), tags |-> WithStatus(ts, "open"),
                   doc |-> doc]
  <2>1. <<Event("ItemCreated", a)>> \in Seq(Events)
    BY <1>3, <1>4 DEF LifecycleEvents
  <2>2. doc \in Docs
    BY <2>1 DEF Docs
  <2>3. WithStatus(ts, "open") \in TagSets
    BY TagTypes
  <2>4. e \in Entities
    BY <2>2, <2>3 DEF Anchor, Entities
  <2>5. "create" \in Ops
    BY <1>5 DEF Create, May
  <2>6. CASE UNCHANGED store /\ Return(c, "create", i, "internal")
    BY <2>5, <2>6, ReturnType DEF Results, TypeOK
  <2>7. CASE \E ack \in BOOLEAN : /\ StoreCall(i, e, ack)
                                  /\ Return(c, "create", i, IF ack THEN "ok" ELSE "internal")
    <3> HIDE DEF e
    <3> QED BY <2>4, <2>5, <2>7, StoreCallType, ReturnType DEF Results
  <2> QED BY <1>5, <2>6, <2>7 DEF Create
<1>6. ASSUME GetItem(c, i) PROVE TypeOK'
  BY <1>6, ReturnType DEF GetItem, IsItem, Results, TypeOK
<1>7. ASSUME Claim(c, i, a) PROVE TypeOK'
  <2>1. "claim" \in Ops /\ Event("ItemClaimed", a) \in Events
    BY <1>3, <1>4, <1>7 DEF Claim, May, LifecycleEvents
  <2>2. CASE a \in Unbuildable
    BY <1>7, <2>1, <2>2, ReturnType DEF Claim, Results, TypeOK
  <2>3. CASE a \notin Unbuildable
    BY <1>2, <1>7, <2>1, <2>3, GetType DEF Claim, Transition
  <2> QED BY <2>2, <2>3
<1>8. ASSUME Release(c, i, a) PROVE TypeOK'
  <2>1. "release" \in Ops /\ Event("ItemReleased", a) \in Events
    BY <1>3, <1>4, <1>8 DEF Release, May, LifecycleEvents
  <2>2. [ItemOf(store[i]) EXCEPT !.tags = Without(@, "assignee")]
          \in [doc : Docs, tags : TagSets]
    BY <1>2, TagTypes
  <2> QED BY <1>8, <2>1, <2>2, GetType DEF Release
<1>9. ASSUME Close(c, i, a) PROVE TypeOK'
  <2>1. "close" \in Ops /\ Event("ItemClosed", a) \in Events
    BY <1>3, <1>4, <1>9 DEF Close, May, LifecycleEvents
  <2> QED BY <1>2, <1>9, <2>1, GetType DEF Close, IsTerminal
<1>10. ASSUME NEW type \in DomainEvents, AddEvent(c, i, a, type) PROVE TypeOK'
  <2>1. "addEvent" \in Ops /\ Event(type, a) \in Events
    BY <1>3, <1>4, <1>10 DEF AddEvent, May, NoteEvents
  <2> QED BY <1>2, <1>10, <2>1, GetType DEF AddEvent
<1>11. ASSUME Comment(c, i, a) PROVE TypeOK'
  <2>1. "comment" \in Ops /\ Event("CommentAppended", a) \in Events
    BY <1>3, <1>4, <1>11 DEF Comment, May, NoteEvents
  <2> QED BY <1>2, <1>11, <2>1, GetType DEF Comment
<1>12. ASSUME NEW from \in Actors \union {NoActor}, NEW to \in Actors \union {NoActor},
              Reassign(c, i, a, from, to)
       PROVE  TypeOK'
  <2>1. "reassign" \in Ops /\ Event("ItemReassigned", a) \in Events
    BY <1>3, <1>4, <1>12 DEF Reassign, May, NoteEvents
  <2>2. CASE from = NoActor \/ from \in Unbuildable
    BY <1>12, <2>1, <2>2, ReturnType, ContinueType, ActorsAssumption
       DEF Reassign, Results, TypeOK
  <2>3. CASE from \in Actors \ Unbuildable
    <3>1. RemoveTag(store[i], <<"assignee", from>>) \in Entities
      BY <1>1, UpdateType
    <3>2. /\ \E ack \in BOOLEAN : StoreCall(i, RemoveTag(store[i], <<"assignee", from>>), ack)
          /\ Continue(c, "assign", "reassign", i, Event("ItemReassigned", a), to)
      BY <1>12, <2>3, ActorsAssumption DEF Reassign
    <3> QED BY <2>1, <3>1, <3>2, StoreCallType, ContinueType
  <2> QED BY <2>2, <2>3
<1>13. ASSUME NEW op \in {"tag", "untag"}, NEW e \in Entities, ChangeTags(c, op, i, a, e)
       PROVE  TypeOK'
  <2>1. op \in Ops /\ Event("TagsChanged", a) \in Events
    BY <1>3, <1>4, <1>13 DEF ChangeTags, May, NoteEvents
  <2>2. PICK ack \in BOOLEAN :
          /\ StoreCall(i, e, ack)
          /\ IF ack THEN Continue(c, "read", op, i, Event("TagsChanged", a), NoActor)
                    ELSE Return(c, op, i, "internal")
    BY <1>13 DEF ChangeTags
  <2> QED BY <2>1, <2>2, StoreCallType, ReturnType, ContinueType DEF Results
<1>14. ASSUME NEW ts \in SUBSET RouteTags, Tag(c, i, a, ts) PROVE TypeOK'
  <2>1. AddTags(store[i], ts) \in Entities
    BY <1>1, TagTypes, UpdateType
  <2> QED BY <1>13, <1>14, <2>1 DEF Tag
<1>15. ASSUME NEW t \in RouteTags, Untag(c, i, a, t) PROVE TypeOK'
  <2>1. RemoveTag(store[i], t) \in Entities
    BY <1>1, UpdateType
  <2> QED BY <1>13, <1>15, <2>1 DEF Untag
<1> QED BY <1>5, <1>6, <1>7, <1>8, <1>9, <1>10, <1>11, <1>12, <1>14, <1>15 DEF Start

\* The variables have their types in every reachable state: no operation
\* stores a document, a tag set or a call record of another shape.
THEOREM TypeCorrect == Spec => []TypeOK
<1>1. Init => TypeOK
  BY InitType
<1>2. TypeOK /\ [Next]_vars => TypeOK'
  <2> SUFFICES ASSUME TypeOK, [Next]_vars PROVE TypeOK'
    OBVIOUS
  <2>1. CASE Next
    BY <2>1, StepType, StartType DEF Next
  <2>2. CASE UNCHANGED vars
    BY <2>2 DEF vars, TypeOK, Idle
  <2> QED BY <2>1, <2>2
<1> QED BY <1>1, <1>2, PTL DEF Spec

-----------------------------------------------------------------------------
(* What one step of the inbox does to documents, and what a call carries.  *)

\* A call goes from one store call to the next with the item, the event and
\* the document it has.
Carries(k, i, evt) == k.item = i /\ k.evt = evt /\ (k.pc = "write" => k.read.doc = store[i].doc)

\* Caller c returns, or has gone on so.
Moves(c, i, evt) ==
  \E k : call' = [call EXCEPT ![c] = k] /\ (k.pc # "idle" => Carries(k, i, evt))

LEMMA GetEffect ==
  ASSUME NEW c, NEW op, NEW i, NEW evt, NEW item, NEW allowed \in BOOLEAN, NEW refusal,
         Get(c, op, i, evt, item, allowed, refusal), item.doc = store[i].doc
  PROVE  store' = store /\ Moves(c, i, evt)
<1> DEFINE returned(res) == [IdleCall EXCEPT !.op = op, !.item = i, !.res = res]
           reading == [IdleCall EXCEPT !.pc = "write", !.op = op, !.item = i, !.evt = evt,
                                       !.to = call[c].to, !.read = item]
<1>1. store' = store
  BY DEF Get
<1>2. (\E res : call' = [call EXCEPT ![c] = returned(res)]) \/ call' = [call EXCEPT ![c] = reading]
  BY DEF Get, Return
<1>3. \A res : returned(res).pc = "idle"
  BY DEF IdleCall
<1>4. Carries(reading, i, evt)
  BY DEF IdleCall, Carries
<1> HIDE DEF returned, reading
<1> QED BY <1>1, <1>2, <1>3, <1>4 DEF Moves

LEMMA ReturnEffect ==
  ASSUME NEW c, NEW op, NEW i, NEW res, Return(c, op, i, res)
  PROVE  \A j, evt : Moves(c, j, evt)
<1> DEFINE k == [IdleCall EXCEPT !.op = op, !.item = i, !.res = res]
<1>1. k.pc = "idle"
  BY DEF IdleCall
<1>2. call' = [call EXCEPT ![c] = k]
  BY DEF Return
<1> HIDE DEF k
<1> QED BY <1>1, <1>2 DEF Moves

LEMMA ContinueEffect ==
  ASSUME NEW c, NEW pc \in {"assign", "read"}, NEW op, NEW i, NEW evt, NEW to,
         Continue(c, pc, op, i, evt, to)
  PROVE  Moves(c, i, evt)
<1> DEFINE k == [IdleCall EXCEPT !.pc = pc, !.op = op, !.item = i, !.evt = evt, !.to = to]
<1>1. Carries(k, i, evt)
  BY DEF IdleCall, Carries
<1>2. call' = [call EXCEPT ![c] = k]
  BY DEF Continue
<1> HIDE DEF k
<1> QED BY <1>1, <1>2 DEF Moves

\* A store call changes the events of no other entity.
LEMMA StoreCallEffect ==
  ASSUME TypeOK, NEW i \in Items, NEW e, NEW ack \in BOOLEAN, StoreCall(i, e, ack),
         NEW j \in Items
  PROVE  \/ store'[j].doc.events = store[j].doc.events
         \/ j = i /\ store'[j].doc.events = e.doc.events
  BY DEF StoreCall, TypeOK

\* A call that starts for actor a carries an event of his, and changes no
\* log but that of an item it creates.
LEMMA StartEffect ==
  ASSUME TypeOK, NEW c \in Calls, NEW i \in Items, NEW a \in Actors, Start(c, i, a)
  PROVE  /\ \A j \in Items :
              \/ store'[j].doc.events = store[j].doc.events
              \/ j = i /\ store'[j].doc.events = <<Event("ItemCreated", a)>>
         /\ \E type : Moves(c, i, Event(type, a))
<1> DEFINE Effect ==
      /\ \A j \in Items :
           \/ store'[j].doc.events = store[j].doc.events
           \/ j = i /\ store'[j].doc.events = <<Event("ItemCreated", a)>>
      /\ \E type : Moves(c, i, Event(type, a))
<1> SUFFICES Effect
  OBVIOUS
<1>1. ASSUME NEW ts, NEW key, Create(c, i, a, ts, key)
      PROVE  Effect
  <2> DEFINE e == [kind |-> "inbox", anchor |-> Anchor(key), tags |-> WithStatus(ts, "open"),
                   doc |-> [status |-> "open", events |-> <<Event("ItemCreated", a)>>,
                            key |-> key]]
  <2>1. e.doc.events = <<Event("ItemCreated", a)>>
    OBVIOUS
  <2>2. /\ UNCHANGED store \/ \E ack \in BOOLEAN : StoreCall(i, e, ack)
        /\ \E res : Return(c, "create", i, res)
    BY <1>1 DEF Create
  <2> HIDE DEF e
  <2> QED BY <2>1, <2>2, StoreCallEffect, ReturnEffect
<1>2. ASSUME UNCHANGED store, NEW op, NEW res, Return(c, op, i, res)
      PROVE  Effect
  BY <1>2, ReturnEffect
<1>3. ASSUME NEW op, NEW type, NEW item, NEW allowed \in BOOLEAN, NEW refusal,
             Get(c, op, i, Event(type, a), item, allowed, refusal), item.doc = store[i].doc
      PROVE  Effect
  BY <1>3, GetEffect
<1>4. ItemOf(store[i]).doc = store[i].doc
  BY DEF ItemOf
<1>5. CASE GetItem(c, i)
  BY <1>2, <1>5 DEF GetItem
<1>6. CASE Claim(c, i, a)
  <2>1. CASE a \in Unbuildable
    BY <1>2, <1>6, <2>1 DEF Claim
  <2>2. CASE a \notin Unbuildable
    BY <1>3, <1>4, <1>6, <2>2 DEF Claim, Transition
  <2> QED BY <2>1, <2>2
<1>7. CASE Release(c, i, a)
  <2>1. [ItemOf(store[i]) EXCEPT !.tags = Without(@, "assignee")].doc = store[i].doc
    BY DEF ItemOf
  <2> QED BY <1>3, <1>7, <2>1 DEF Release
<1>8. CASE Close(c, i, a)
  BY <1>3, <1>4, <1>8 DEF Close
<1>9. ASSUME NEW type, AddEvent(c, i, a, type)
      PROVE  Effect
  BY <1>3, <1>4, <1>9 DEF AddEvent
<1>10. CASE Comment(c, i, a)
  BY <1>3, <1>4, <1>10 DEF Comment
<1>11. ASSUME NEW e, e.doc = store[i].doc, NEW pc \in {"assign", "read"}, NEW op, NEW type, NEW to,
              UNCHANGED store \/ \E ack \in BOOLEAN : StoreCall(i, e, ack),
              (\E res : Return(c, op, i, res)) \/ Continue(c, pc, op, i, Event(type, a), to)
       PROVE  Effect
  BY <1>11, StoreCallEffect, ReturnEffect, ContinueEffect
<1>12. /\ \A t : RemoveTag(store[i], t).doc = store[i].doc
       /\ \A ts : AddTags(store[i], ts).doc = store[i].doc
  BY DEF RemoveTag, AddTags, TypeOK, Entities
<1>13. ASSUME NEW from, NEW to, Reassign(c, i, a, from, to)
       PROVE  Effect
  <2>1. CASE UNCHANGED store
    BY <1>11, <1>13, <2>1 DEF Reassign
  <2>2. CASE \E ack \in BOOLEAN : StoreCall(i, RemoveTag(store[i], <<"assignee", from>>), ack)
    BY <1>11, <1>12, <1>13, <2>2 DEF Reassign
  <2> QED BY <1>13, <2>1, <2>2 DEF Reassign
<1>14. ASSUME NEW op, NEW e, e.doc = store[i].doc, ChangeTags(c, op, i, a, e)
       PROVE  Effect
  BY <1>11, <1>14 DEF ChangeTags
<1>15. ASSUME NEW ts, Tag(c, i, a, ts) PROVE Effect
  BY <1>12, <1>14, <1>15 DEF Tag
<1>16. ASSUME NEW t, Untag(c, i, a, t) PROVE Effect
  BY <1>12, <1>14, <1>16 DEF Untag
<1> HIDE DEF Effect
<1> QED BY <1>1, <1>5, <1>6, <1>7, <1>8, <1>9, <1>10, <1>13, <1>15, <1>16 DEF Start

\* A call that goes on keeps its item and its event, and appends no other
\* event than that, to the log it has read.
LEMMA StepEffect ==
  ASSUME TypeOK, NEW c \in Calls, Step(c)
  PROVE  /\ ~Idle(c)
         /\ \A j \in Items :
              \/ store'[j].doc.events = store[j].doc.events
              \/ /\ call[c].pc = "write" /\ j = call[c].item
                 /\ store'[j].doc.events = Append(call[c].read.doc.events, call[c].evt)
         /\ Moves(c, call[c].item, call[c].evt)
<1> DEFINE k0 == call[c]
           Written(j) == /\ k0.pc = "write" /\ j = k0.item
                         /\ store'[j].doc.events = Append(k0.read.doc.events, k0.evt)
           Effect == /\ ~Idle(c)
                     /\ \A j \in Items :
                          store'[j].doc.events = store[j].doc.events \/ Written(j)
                     /\ Moves(c, k0.item, k0.evt)
<1> SUFFICES Effect
  OBVIOUS
<1>1. ~Idle(c) => k0.item \in Items
  BY DEF TypeOK
<1>2. /\ k0.read.doc \in Docs
      /\ store[k0.item] \in Entities \/ Idle(c)
  BY <1>1 DEF TypeOK, CallStates
<1>3. ASSUME NEW e, k0.pc = "write", e.doc.events = Append(k0.read.doc.events, k0.evt),
             NEW ack \in BOOLEAN, StoreCall(k0.item, e, ack),
             NEW op, NEW res, Return(c, op, k0.item, res)
      PROVE  Effect
  BY <1>1, <1>3, StoreCallEffect, ReturnEffect DEF Idle
<1>4. CASE DoTransition(c)
  <2> DEFINE to   == ToStatus[k0.op]
             doc  == [Appended(k0.read.doc, k0.evt) EXCEPT !.status = to]
             tags == Merge(WithStatus(k0.read.tags, to), ExtraTags(k0.op, k0.evt))
  <2>1. k0.pc = "write"
    BY <1>4 DEF DoTransition
  <2>2. TransitionWrite(store[k0.item], doc, tags).doc.events
          = Append(k0.read.doc.events, k0.evt)
    BY <1>2, <2>1 DEF TransitionWrite, UpdateAll, Appended, Entities, Docs, Idle
  <2>3. \E ack \in BOOLEAN :
          /\ StoreCall(k0.item, TransitionWrite(store[k0.item], doc, tags), ack)
          /\ Return(c, k0.op, k0.item, IF ack THEN "ok" ELSE "internal")
    BY <1>4 DEF DoTransition
  <2> HIDE DEF doc, tags
  <2> QED BY <1>3, <2>1, <2>2, <2>3
<1>5. CASE AppendEvent(c)
  <2>1. k0.pc = "write"
    BY <1>5 DEF AppendEvent
  <2>2. EventWrite(store[k0.item], Appended(k0.read.doc, k0.evt)).doc.events
          = Append(k0.read.doc.events, k0.evt)
    BY <1>2, <2>1 DEF EventWrite, UpdateData, Appended, Entities, Docs, Idle
  <2> QED BY <1>3, <1>5, <2>1, <2>2 DEF AppendEvent
<1>6. CASE ReadForEvent(c)
  <2>1. ~Idle(c)
    BY <1>6 DEF ReadForEvent, Idle
  <2>2. ItemOf(store[k0.item]).doc = store[k0.item].doc
    BY DEF ItemOf
  <2>3. Get(c, k0.op, k0.item, k0.evt, ItemOf(store[k0.item]), TRUE, "none")
    BY <1>6 DEF ReadForEvent
  <2> QED BY <2>1, <2>2, <2>3, GetEffect
<1>7. CASE AddAssignee(c)
  <2> DEFINE e == AddTags(store[k0.item], {<<"assignee", k0.to>>})
  <2>1. ~Idle(c) /\ k0.pc # "write" /\ k0.item \in Items
    BY <1>1, <1>7 DEF AddAssignee, Idle
  <2>2. e.doc = store[k0.item].doc
    BY <1>2, <2>1 DEF AddTags, Entities
  <2>3. UNCHANGED store \/ \E ack \in BOOLEAN : StoreCall(k0.item, e, ack)
    BY <1>7 DEF AddAssignee
  <2>4. \/ Return(c, k0.op, k0.item, "internal")
        \/ Continue(c, "read", k0.op, k0.item, k0.evt, k0.to)
    BY <1>7 DEF AddAssignee
  <2> HIDE DEF e
  <2>5. \A j \in Items : store'[j].doc.events = store[j].doc.events
    BY <2>1, <2>2, <2>3, StoreCallEffect
  <2>6. Moves(c, k0.item, k0.evt)
    BY <2>4, ReturnEffect, ContinueEffect
  <2> QED BY <2>1, <2>5, <2>6
<1> HIDE DEF Effect
<1> QED BY <1>4, <1>5, <1>6, <1>7 DEF Step

-----------------------------------------------------------------------------
(* Histories *)

\* A later event does not change where the events before it lead.
LEMMA LeadsToAppend ==
  ASSUME NEW log \in Seq(Events), NEW evt \in Events, NEW n \in 0..Len(log), NEW s
  PROVE  LeadsTo(Append(log, evt), n, s) <=> LeadsTo(log, n, s)
<1> DEFINE new == Append(log, evt)
<1>1. \A m \in 1..Len(log) : new[m] = log[m]
  OBVIOUS
<1>2. \A j \in 1..n : j \in 1..Len(log) /\ \A m \in (j + 1)..n : m \in 1..Len(log)
  OBVIOUS
<1> HIDE DEF new
<1> QED BY <1>1, <1>2 DEF LeadsTo

\* A note leaves the status of a history as it is.
LEMMA NoteKeepsStatus ==
  ASSUME NEW log \in Seq(Events), NEW evt \in Events, evt.type \in NoteEvents, NEW s,
         LeadsTo(log, Len(log), s)
  PROVE  LeadsTo(Append(log, evt), Len(log) + 1, s)
<1> DEFINE new == Append(log, evt)
<1>1. Len(log) \in Nat /\ \A m \in 1..Len(log) : new[m] = log[m]
  OBVIOUS
<1>2. new[Len(log) + 1] = evt
  OBVIOUS
<1>3. evt.type \notin LifecycleEvents
  BY DomainEventsAssumption DEF NoteEvents, LifecycleEvents
<1>4. PICK j \in 1..Len(log) :
        /\ log[j].type \in LifecycleEvents
        /\ StatusAfter[log[j].type] = s
        /\ \A m \in (j + 1)..Len(log) : log[m].type \notin LifecycleEvents
  BY DEF LeadsTo
<1>5. j \in 1..(Len(log) + 1)
  BY <1>1
<1>6. \A m \in (j + 1)..(Len(log) + 1) : new[m].type \notin LifecycleEvents
  <2> TAKE m \in (j + 1)..(Len(log) + 1)
  <2>1. CASE m = Len(log) + 1
    BY <1>2, <1>3, <2>1
  <2>2. CASE m # Len(log) + 1
    <3>1. m \in (j + 1)..Len(log) /\ m \in 1..Len(log)
      BY <1>1, <2>2
    <3> QED BY <1>1, <1>4, <3>1
  <2> QED BY <2>1, <2>2
<1> HIDE DEF new
<1>7. LeadsTo(new, Len(log) + 1, s)
  BY <1>1, <1>4, <1>5, <1>6 DEF LeadsTo
<1> QED BY <1>7 DEF new

\* A lifecycle event leads to the status after it.
LEMMA LifecycleSetsStatus ==
  ASSUME NEW log \in Seq(Events), NEW evt \in Events, evt.type \in LifecycleEvents
  PROVE  LeadsTo(Append(log, evt), Len(log) + 1, StatusAfter[evt.type])
<1> DEFINE new == Append(log, evt)
           n   == Len(log) + 1
<1>1. n \in Nat /\ n \in 1..n /\ new[n] = evt
  OBVIOUS
<1>2. (n + 1)..n = {}
  BY <1>1
<1> HIDE DEF new, n
<1>3. LeadsTo(new, n, StatusAfter[evt.type])
  BY <1>1, <1>2 DEF LeadsTo
<1> QED BY <1>3 DEF new, n

\* A history stays legal when it is extended by an event its status allows.
LEMMA AppendLegal ==
  ASSUME NEW log \in Seq(Events), NEW evt \in Events, LegalHistory(log),
         \/ evt.type \in NoteEvents
         \/ \E s \in StatusBefore[evt.type] : LeadsTo(log, Len(log), s)
  PROVE  LegalHistory(Append(log, evt))
<1> DEFINE new == Append(log, evt)
<1>1. Len(log) \in Nat /\ Len(log) >= 1 /\ log[1].type = "ItemCreated"
  BY DEF LegalHistory
<1>2. /\ Len(new) = Len(log) + 1
      /\ new[Len(log) + 1] = evt
      /\ \A m \in 1..Len(log) : new[m] = log[m]
  OBVIOUS
<1>3. new # <<>> /\ new[1].type = "ItemCreated"
  BY <1>1, <1>2
<1>4. ASSUME NEW k \in 2..Len(new), new[k].type \in LifecycleEvents
      PROVE  \E s \in StatusBefore[new[k].type] : LeadsTo(new, k - 1, s)
  <2>1. CASE k = Len(log) + 1
    <3>1. evt.type \notin NoteEvents
      BY <1>2, <1>4, <2>1, DomainEventsAssumption DEF NoteEvents, LifecycleEvents
    <3>2. PICK s \in StatusBefore[evt.type] : LeadsTo(log, Len(log), s)
      BY <3>1
    <3>3. LeadsTo(new, Len(log), s)
      BY <1>1, <3>2, LeadsToAppend
    <3>4. k - 1 = Len(log)
      BY <1>1, <2>1
    <3> QED BY <1>2, <2>1, <3>2, <3>3, <3>4
  <2>2. CASE k # Len(log) + 1
    <3>1. k \in 2..Len(log) /\ k - 1 \in 0..Len(log) /\ new[k] = log[k]
      BY <1>1, <1>2, <2>2
    <3>2. PICK s \in StatusBefore[log[k].type] : LeadsTo(log, k - 1, s)
      BY <1>4, <3>1 DEF LegalHistory
    <3>3. LeadsTo(new, k - 1, s)
      BY <3>1, <3>2, LeadsToAppend
    <3> QED BY <3>1, <3>2, <3>3
  <2> QED BY <2>1, <2>2
<1> HIDE DEF new
<1>5. LegalHistory(new)
  BY <1>3, <1>4 DEF LegalHistory
<1> QED BY <1>5 DEF new

\* What a document of inbox item i is, in the store or in the hands of a call.
GoodDoc(i, doc) ==
  IF i \in Legacy
  THEN /\ doc.status = "expired"
       /\ \A k \in 2..Len(doc.events) : doc.events[k].type \in NoteEvents
  ELSE /\ LegalHistory(doc.events)
       /\ LeadsTo(doc.events, Len(doc.events), doc.status)

\* The store holds good documents, and only inbox items are ever written.
StoreGood ==
  \A i \in Items :
    /\ store[i].kind = "inbox" => GoodDoc(i, store[i].doc)
    /\ i \in Foreign => store[i].kind = "other" /\ store[i].doc = NoDoc
    /\ i \in Legacy => store[i].kind = "inbox"

\* What call k is about to write is a good document with an event that may
\* follow it.  The document need not be the one in the store any more.
CallGood(k) ==
  /\ k.pc \in {"assign", "read"} =>
       k.op \notin Transitions /\ k.evt.type \in NoteEvents
  /\ k.pc = "write" =>
       /\ store[k.item].kind = "inbox"
       /\ GoodDoc(k.item, k.read.doc)
       /\ k.op \in Transitions =>
            /\ k.evt.type \in {"ItemClaimed", "ItemReleased", "ItemClosed"}
            /\ k.read.doc.status \in StatusBefore[k.evt.type]
            /\ ToStatus[k.op] = StatusAfter[k.evt.type]
       /\ k.op \notin Transitions => k.evt.type \in NoteEvents

Inv == TypeOK /\ StoreGood /\ \A c \in Calls : CallGood(call[c])

-----------------------------------------------------------------------------
\* An item has a status.
LEMMA HasStatus ==
  ASSUME NEW i, NEW doc \in Docs, GoodDoc(i, doc) PROVE doc.status # "none"
<1>1. CASE i \in Legacy
  BY <1>1 DEF GoodDoc
<1>2. CASE i \notin Legacy
  <2>1. PICK j \in 1..Len(doc.events) : /\ doc.events[j].type \in LifecycleEvents
                                        /\ StatusAfter[doc.events[j].type] = doc.status
    BY <1>2 DEF GoodDoc, LeadsTo
  <2> QED BY <2>1 DEF LifecycleEvents, StatusAfter
<1> QED BY <1>1, <1>2

\* A good document extended by a note is a good document.
LEMMA NoteGood ==
  ASSUME NEW i \in Items, NEW doc \in Docs, GoodDoc(i, doc),
         NEW evt \in Events, evt.type \in NoteEvents
  PROVE  GoodDoc(i, Appended(doc, evt))
<1> DEFINE log == doc.events
           new == Appended(doc, evt)
<1>1. log \in Seq(Events)
  BY DEF Docs
<1>2. new.status = doc.status /\ new.events = Append(log, evt)
  BY DEF Appended, Docs
<1>3. Len(Append(log, evt)) = Len(log) + 1
  BY <1>1
<1> HIDE DEF new
<1>4. ASSUME i \in Legacy PROVE GoodDoc(i, new)
  <2>1. \A k \in 2..(Len(log) + 1) : Append(log, evt)[k].type \in NoteEvents
    BY <1>1, <1>4 DEF GoodDoc
  <2> QED BY <1>2, <1>3, <1>4, <2>1 DEF GoodDoc
<1>5. ASSUME i \notin Legacy PROVE GoodDoc(i, new)
  <2>1. LegalHistory(log) /\ LeadsTo(log, Len(log), doc.status)
    BY <1>5 DEF GoodDoc
  <2>2. LegalHistory(Append(log, evt))
    BY <1>1, <2>1, AppendLegal
  <2>3. LeadsTo(Append(log, evt), Len(log) + 1, doc.status)
    BY <1>1, <2>1, NoteKeepsStatus
  <2> QED BY <1>2, <1>3, <1>5, <2>2, <2>3 DEF GoodDoc
<1> QED BY <1>4, <1>5 DEF new

\* So is one a transition writes.
LEMMA TransitionGood ==
  ASSUME NEW i \in Items, NEW doc \in Docs, GoodDoc(i, doc), NEW evt \in Events,
         evt.type \in {"ItemClaimed", "ItemReleased", "ItemClosed"},
         doc.status \in StatusBefore[evt.type]
  PROVE  GoodDoc(i, [Appended(doc, evt) EXCEPT !.status = StatusAfter[evt.type]])
<1> DEFINE log == doc.events
           new == [Appended(doc, evt) EXCEPT !.status = StatusAfter[evt.type]]
<1>1. log \in Seq(Events)
  BY DEF Docs
<1>2. new.status = StatusAfter[evt.type] /\ new.events = Append(log, evt)
  BY DEF Appended, Docs
<1>3. Len(Append(log, evt)) = Len(log) + 1
  BY <1>1
<1>4. i \notin Legacy
  BY DEF GoodDoc, StatusBefore
<1>5. evt.type \in LifecycleEvents
  BY DEF LifecycleEvents
<1> HIDE DEF new
<1>6. LegalHistory(Append(log, evt))
  BY <1>1, <1>4, AppendLegal DEF GoodDoc
<1>7. LeadsTo(Append(log, evt), Len(log) + 1, StatusAfter[evt.type])
  BY <1>1, <1>5, LifecycleSetsStatus
<1> QED BY <1>2, <1>3, <1>4, <1>6, <1>7 DEF GoodDoc, new

LEMMA InitInv == Init => Inv
<1> SUFFICES ASSUME Init PROVE StoreGood /\ \A c \in Calls : CallGood(call[c])
  BY InitType DEF Inv
<1>1. ASSUME NEW c \in Calls PROVE CallGood(call[c])
  BY DEF Init, IdleCall, CallGood
<1>2. ASSUME NEW i \in Items
      PROVE  /\ store[i].kind = "inbox" => GoodDoc(i, store[i].doc)
             /\ i \in Foreign => store[i].kind = "other" /\ store[i].doc = NoDoc
             /\ i \in Legacy => store[i].kind = "inbox"
  <2>1. PICK a \in Actors : store[i] = CASE i \in Foreign -> ForeignEntity
                                         [] i \in Legacy  -> LegacyEntity(a)
                                         [] OTHER         -> Absent
    BY DEF Init
  <2>2. CASE i \in Foreign
    BY <2>1, <2>2, ItemsAssumption DEF ForeignEntity, Absent
  <2>3. CASE i \in Legacy
    <3>1. i \notin Foreign /\ store[i] = LegacyEntity(a)
      BY <2>1, <2>3, ItemsAssumption
    <3>2. store[i].kind = "inbox" /\ store[i].doc.status = "expired"
      BY <3>1 DEF LegacyEntity
    <3>3. Len(store[i].doc.events) = 1
      BY <3>1 DEF LegacyEntity
    <3> QED BY <2>3, <3>1, <3>2, <3>3 DEF GoodDoc
  <2>4. CASE i \notin Foreign /\ i \notin Legacy
    BY <2>1, <2>4 DEF Absent
  <2> QED BY <2>2, <2>3, <2>4
<1> QED BY <1>1, <1>2 DEF StoreGood

\* Replacing the record of one caller by a good one, over a store that has
\* kept its items, leaves every call good.
LEMMA CallsStayGood ==
  ASSUME Inv, NEW c \in Calls, call' = [call EXCEPT ![c] = call'[c]],
         \A i \in Items : store[i].kind = "inbox" => store'[i].kind = "inbox",
         CallGood(call[c])' 
  PROVE  (\A d \in Calls : CallGood(call[d]))'
<1> SUFFICES ASSUME NEW d \in Calls PROVE CallGood(call[d])'
  OBVIOUS
<1>1. CASE d = c
  BY <1>1
<1>2. CASE d # c
  <2>1. call'[d] = call[d]
    BY <1>2 DEF Inv, TypeOK
  <2>2. CallGood(call[d]) /\ (call[d].pc = "write" => call[d].item \in Items)
    BY DEF Inv, TypeOK, Idle
  <2> QED BY <2>1, <2>2 DEF CallGood, GoodDoc
<1> QED BY <1>1, <1>2

\* A call that returns leaves every call good.
LEMMA ReturnGood ==
  ASSUME Inv, NEW c \in Calls, NEW op, NEW i, NEW res, Return(c, op, i, res),
         \A j \in Items : store[j].kind = "inbox" => store'[j].kind = "inbox"
  PROVE  (\A d \in Calls : CallGood(call[d]))'
<1>1. call \in [Calls -> CallStates]
  BY DEF Inv, TypeOK
<1>2. call'[c].pc = "idle" /\ call' = [call EXCEPT ![c] = call'[c]]
  BY <1>1 DEF Return, IdleCall
<1>3. CallGood(call[c])'
  BY <1>2 DEF CallGood
<1> QED BY <1>2, <1>3, CallsStayGood

\* So does one that goes on with a note to record.
LEMMA ContinueGood ==
  ASSUME Inv, NEW c \in Calls, NEW pc \in {"assign", "read"}, NEW op, NEW i, NEW evt,
         NEW to, Continue(c, pc, op, i, evt, to),
         op \notin Transitions, evt.type \in NoteEvents,
         \A j \in Items : store[j].kind = "inbox" => store'[j].kind = "inbox"
  PROVE  (\A d \in Calls : CallGood(call[d]))'
<1>1. call \in [Calls -> CallStates]
  BY DEF Inv, TypeOK
<1>2. call'[c].pc = pc /\ call'[c].op = op /\ call'[c].evt = evt
      /\ call' = [call EXCEPT ![c] = call'[c]]
  BY <1>1 DEF Continue, IdleCall
<1>3. CallGood(call[c])'
  BY <1>2 DEF CallGood
<1> QED BY <1>2, <1>3, CallsStayGood

\* So does one that has read and checked the item.
LEMMA GetGood ==
  ASSUME Inv, NEW c \in Calls, NEW op, NEW i \in Items, NEW evt, NEW item,
         NEW allowed, NEW refusal, Get(c, op, i, evt, item, allowed, refusal),
         item.doc = store[i].doc,
         IF op \in Transitions
         THEN /\ evt.type \in {"ItemClaimed", "ItemReleased", "ItemClosed"}
              /\ allowed => store[i].doc.status \in StatusBefore[evt.type]
              /\ ToStatus[op] = StatusAfter[evt.type]
         ELSE evt.type \in NoteEvents
  PROVE  StoreGood' /\ (\A d \in Calls : CallGood(call[d]))'
<1>1. call \in [Calls -> CallStates] /\ StoreGood
  BY DEF Inv, TypeOK
<1>2. store' = store
  BY DEF Get, IsItem
<1>3. StoreGood'
  BY <1>1, <1>2 DEF StoreGood, GoodDoc
<1>4. CASE \E res : Return(c, op, i, res)
  BY <1>2, <1>3, <1>4, ReturnGood
<1>5. CASE /\ store[i].kind = "inbox" /\ allowed
           /\ call' = [call EXCEPT ![c] =
                [IdleCall EXCEPT !.pc = "write", !.op = op, !.item = i, !.evt = evt,
                                 !.to = call[c].to, !.read = item]]
  <2>1. /\ call'[c].pc = "write" /\ call'[c].op = op /\ call'[c].item = i
        /\ call'[c].evt = evt /\ call'[c].read.doc = store[i].doc
        /\ call' = [call EXCEPT ![c] = call'[c]]
    BY <1>1, <1>5 DEF IdleCall
  <2>2. GoodDoc(i, store[i].doc)
    BY <1>1, <1>5 DEF StoreGood
  <2>3. CallGood(call[c])'
    BY <1>2, <1>5, <2>1, <2>2 DEF CallGood, GoodDoc
  <2> QED BY <1>2, <1>3, <2>1, <2>3, CallsStayGood
<1> QED BY <1>4, <1>5 DEF Get, IsItem

\* A store call that leaves the item's kind alone, and its document alone
\* or good, leaves the store good.
LEMMA StoreCallGood ==
  ASSUME Inv, NEW i \in Items, NEW e, NEW ack, StoreCall(i, e, ack),
         e.kind = store[i].kind,
         e.doc = store[i].doc \/ (e.kind = "inbox" /\ GoodDoc(i, e.doc))
  PROVE  /\ StoreGood'
         /\ \A j \in Items : store[j].kind = "inbox" => store'[j].kind = "inbox"
<1>1. StoreGood /\ store \in [Items -> Entities]
  BY DEF Inv, TypeOK
<1>2. store' = store \/ store' = [store EXCEPT ![i] = e]
  BY DEF StoreCall
<1>3. ASSUME NEW j \in Items
      PROVE  /\ store'[j].kind = store[j].kind
             /\ \/ store'[j].doc = store[j].doc
                \/ store[j].kind = "inbox" /\ GoodDoc(j, store'[j].doc)
  BY <1>1, <1>2
<1>4. ASSUME NEW j \in Items
      PROVE  /\ store'[j].kind = "inbox" => GoodDoc(j, store'[j].doc)
             /\ j \in Foreign => store'[j].kind = "other" /\ store'[j].doc = NoDoc
             /\ j \in Legacy => store'[j].kind = "inbox"
  <2>1. /\ store[j].kind = "inbox" => GoodDoc(j, store[j].doc)
        /\ j \in Foreign => store[j].kind = "other" /\ store[j].doc = NoDoc
        /\ j \in Legacy => store[j].kind = "inbox"
    BY <1>1 DEF StoreGood
  <2> QED BY <1>3, <2>1
<1>5. StoreGood'
  BY <1>4 DEF StoreGood, GoodDoc
<1> QED BY <1>3, <1>5

LEMMA StepInv ==
  ASSUME Inv, NEW c \in Calls, Step(c)
  PROVE  Inv'
<1> DEFINE k == call[c]
           i == k.item
<1>1. TypeOK'
  BY StepType DEF Inv
<1>2. /\ CallGood(k)
      /\ k.pc # "idle" => i \in Items /\ k.evt \in Events /\ k.op \in Ops
      /\ k.read.doc \in Docs
      /\ i \in Items => store[i] \in Entities
  BY DEF Inv, TypeOK, CallStates, Idle
<1>3. CASE DoTransition(c)
  <2> DEFINE to   == ToStatus[k.op]
             doc  == [Appended(k.read.doc, k.evt) EXCEPT !.status = to]
             tags == Merge(WithStatus(k.read.tags, to), ExtraTags(k.op, k.evt))
             e    == TransitionWrite(store[i], doc, tags)
  <2>1. i \in Items /\ k.evt \in Events /\ k.pc = "write" /\ k.op \in Transitions
    BY <1>2, <1>3 DEF DoTransition, ToStatus, Transitions
  <2>2. /\ store[i].kind = "inbox" /\ GoodDoc(i, k.read.doc)
        /\ k.evt.type \in {"ItemClaimed", "ItemReleased", "ItemClosed"}
        /\ k.read.doc.status \in StatusBefore[k.evt.type]
        /\ to = StatusAfter[k.evt.type]
    BY <1>2, <2>1 DEF CallGood
  <2>3. GoodDoc(i, doc)
    BY <1>2, <2>1, <2>2, TransitionGood
  <2>4. e.kind = "inbox" /\ e.doc = doc
    BY <1>2, <2>1, <2>2 DEF TransitionWrite, UpdateAll, Entities
  <2>5. PICK ack \in BOOLEAN : /\ StoreCall(i, e, ack)
                               /\ Return(c, k.op, i, IF ack THEN "ok" ELSE "internal")
    BY <1>3 DEF DoTransition
  <2> HIDE DEF e, doc
  <2> QED BY <1>1, <2>1, <2>2, <2>3, <2>4, <2>5, StoreCallGood, ReturnGood DEF Inv
<1>4. CASE ReadForEvent(c)
  <2>1. i \in Items /\ k.op \notin Transitions /\ k.evt.type \in NoteEvents
    BY <1>2, <1>4 DEF ReadForEvent, CallGood
  <2>2. ItemOf(store[i]).doc = store[i].doc
    BY DEF ItemOf
  <2> QED BY <1>1, <1>4, <2>1, <2>2, GetGood DEF Inv, ReadForEvent
<1>5. CASE AppendEvent(c)
  <2> DEFINE doc == Appended(k.read.doc, k.evt)
             e   == EventWrite(store[i], doc)
  <2>1. i \in Items /\ k.evt \in Events /\ k.pc = "write" /\ k.op \notin Transitions
    BY <1>2, <1>5 DEF AppendEvent, ToStatus, Transitions
  <2>2. store[i].kind = "inbox" /\ GoodDoc(i, k.read.doc) /\ k.evt.type \in NoteEvents
    BY <1>2, <2>1 DEF CallGood
  <2>3. GoodDoc(i, doc)
    BY <1>2, <2>1, <2>2, NoteGood
  <2>4. e.kind = "inbox" /\ e.doc = doc
    BY <1>2, <2>1, <2>2 DEF EventWrite, UpdateData, Entities
  <2>5. PICK ack \in BOOLEAN :
          /\ StoreCall(i, e, ack)
          /\ Return(c, k.op, i, IF ack THEN "ok" ELSE Answer(k.op, "internal"))
    BY <1>5 DEF AppendEvent
  <2> HIDE DEF e, doc
  <2> QED BY <1>1, <2>1, <2>2, <2>3, <2>4, <2>5, StoreCallGood, ReturnGood DEF Inv
<1>6. CASE AddAssignee(c)
  <2>1. i \in Items /\ k.op \notin Transitions /\ k.evt.type \in NoteEvents
    BY <1>2, <1>6 DEF AddAssignee, CallGood
  <2>2. CASE k.to \notin Actors \ Unbuildable
    <3>1. store' = store /\ (Continue(c, "read", k.op, i, k.evt, k.to)
                               \/ Return(c, k.op, i, "internal"))
      BY <1>6, <2>2 DEF AddAssignee
    <3>2. StoreGood'
      BY <3>1 DEF Inv, StoreGood, GoodDoc
    <3> QED BY <1>1, <2>1, <3>1, <3>2, ReturnGood, ContinueGood DEF Inv
  <2>3. CASE k.to \in Actors \ Unbuildable
    <3> DEFINE e == AddTags(store[i], {<<"assignee", k.to>>})
    <3>1. e.kind = store[i].kind /\ e.doc = store[i].doc
      BY <1>2, <2>1 DEF AddTags, Entities
    <3>2. /\ \E ack \in BOOLEAN : StoreCall(i, e, ack)
          /\ Continue(c, "read", k.op, i, k.evt, k.to)
      BY <1>6, <2>3, ActorsAssumption DEF AddAssignee
    <3> HIDE DEF e
    <3> QED BY <1>1, <2>1, <3>1, <3>2, StoreCallGood, ContinueGood DEF Inv
  <2> QED BY <2>2, <2>3
<1> QED BY <1>3, <1>4, <1>5, <1>6 DEF Step

LEMMA StartInv ==
  ASSUME Inv, NEW c \in Calls, NEW i \in Items, NEW a \in Actors, Start(c, i, a)
  PROVE  Inv'
<1>1. TypeOK'
  BY StartType DEF Inv
<1>2. StoreGood /\ store \in [Items -> Entities] /\ store[i] \in Entities
  BY DEF Inv, TypeOK
<1>3. ItemOf(store[i]).doc = store[i].doc
  BY DEF ItemOf
<1>4. \A type : Event(type, a).type = type
  BY DEF Event
<1>5. ASSUME NEW ts, NEW key, Create(c, i, a, ts, key)
      PROVE  Inv'
  <2> DEFINE log == <<Event("ItemCreated", a)>>
             e == [kind |-> "inbox", anchor |-> Anchor(key), tags |-> WithStatus(ts, "open"),
                   doc |-> [status |-> "open", events |-> log, key |-> key]]
  <2>1. store[i].kind = "absent" /\ i \notin Legacy /\ i \notin Foreign
    BY <1>2, <1>5 DEF Create, Fresh, StoreGood
  <2>2. GoodDoc(i, e.doc)
    <3>1. log # <<>> /\ Len(log) = 1 /\ log[1].type = "ItemCreated"
      BY <1>4
    <3>2. LegalHistory(log)
      BY <3>1 DEF LegalHistory
    <3>3. LeadsTo(log, 1, "open")
      BY <3>1 DEF LeadsTo, StatusAfter, LifecycleEvents
    <3>4. e.doc.events = log /\ e.doc.status = "open"
      OBVIOUS
    <3> HIDE DEF log
    <3> QED BY <2>1, <3>1, <3>2, <3>3, <3>4 DEF GoodDoc
  <2>3. (store' = store \/ store' = [store EXCEPT ![i] = e])
        /\ \E res : Return(c, "create", i, res)
    BY <1>5 DEF Create, StoreCall
  <2>4. e.kind = "inbox"
    OBVIOUS
  <2> HIDE DEF e
  <2>5. ASSUME NEW j \in Items
        PROVE  /\ store'[j].kind = "inbox" => GoodDoc(j, store'[j].doc)
               /\ j \in Foreign => store'[j].kind = "other" /\ store'[j].doc = NoDoc
               /\ j \in Legacy => store'[j].kind = "inbox"
               /\ store[j].kind = "inbox" => store'[j].kind = "inbox"
    <3>1. CASE store'[j] = store[j]
      BY <1>2, <3>1 DEF StoreGood
    <3>2. CASE j = i /\ store'[j] = e
      BY <2>1, <2>2, <2>4, <3>2
    <3> QED BY <1>2, <2>3, <3>1, <3>2
  <2>6. StoreGood'
    BY <2>5 DEF StoreGood, GoodDoc
  <2> QED BY <1>1, <2>3, <2>5, <2>6, ReturnGood DEF Inv
<1>6. ASSUME UNCHANGED store, NEW op, NEW res, Return(c, op, i, res)
      PROVE  Inv'
  <2>1. StoreGood'
    BY <1>2, <1>6 DEF StoreGood, GoodDoc
  <2> QED BY <1>1, <1>6, <2>1, ReturnGood DEF Inv
<1>7. ASSUME UNCHANGED store, NEW evt, NEW to,
             Continue(c, "assign", "reassign", i, evt, to), evt.type \in NoteEvents
      PROVE  Inv'
  <2>1. StoreGood'
    BY <1>2, <1>7 DEF StoreGood, GoodDoc
  <2>2. "reassign" \notin Transitions
    BY DEF Transitions
  <2> QED BY <1>1, <1>7, <2>1, <2>2, ContinueGood DEF Inv
<1>8. CASE GetItem(c, i)
  BY <1>6, <1>8 DEF GetItem, IsItem
<1>9. CASE Claim(c, i, a)
  <2>1. CASE a \in Unbuildable
    BY <1>6, <1>9, <2>1 DEF Claim
  <2>2. CASE a \notin Unbuildable
    <3>1. /\ "claim" \in Transitions /\ ToStatus["claim"] = StatusAfter["ItemClaimed"]
          /\ StatusBefore["ItemClaimed"] = {"open"}
      BY DEF Transitions, ToStatus, StatusAfter, StatusBefore
    <3> QED BY <1>1, <1>3, <1>4, <1>9, <2>2, <3>1, GetGood DEF Inv, Claim, Transition
  <2> QED BY <2>1, <2>2
<1>10. CASE Release(c, i, a)
  <2>1. /\ "release" \in Transitions /\ ToStatus["release"] = StatusAfter["ItemReleased"]
        /\ StatusBefore["ItemReleased"] = {"claimed"}
    BY DEF Transitions, ToStatus, StatusAfter, StatusBefore
  <2> DEFINE item == [ItemOf(store[i]) EXCEPT !.tags = Without(@, "assignee")]
  <2>2. item.doc = store[i].doc
    BY DEF ItemOf
  <2> DEFINE evt == Event("ItemReleased", a)
             allowed == store[i].doc.status = "claimed"
  <2>3. Get(c, "release", i, evt, item, allowed, "invalidTransition")
    BY <1>10 DEF Release
  <2>4. evt.type = "ItemReleased"
    BY <1>4
  <2>5. allowed => store[i].doc.status \in StatusBefore[evt.type]
    BY <2>1, <2>4
  <2> HIDE DEF item, evt, allowed
  <2>6. StoreGood' /\ (\A d \in Calls : CallGood(call[d]))'
    BY <2>1, <2>2, <2>3, <2>4, <2>5, GetGood
  <2> QED BY <1>1, <2>6 DEF Inv
<1>11. CASE Close(c, i, a)
  <2>1. /\ "close" \in Transitions /\ ToStatus["close"] = StatusAfter["ItemClosed"]
        /\ StatusBefore["ItemClosed"] = {"open", "claimed"}
    BY DEF Transitions, ToStatus, StatusAfter, StatusBefore
  <2>2. ~IsTerminal(store[i].doc.status) => store[i].doc.status \in {"open", "claimed"}
    BY DEF IsTerminal
  <2> QED BY <1>1, <1>3, <1>4, <1>11, <2>1, <2>2, GetGood DEF Inv, Close
<1>12. CASE \E type \in DomainEvents : AddEvent(c, i, a, type)
  <2>1. PICK type \in DomainEvents : AddEvent(c, i, a, type)
    BY <1>12
  <2>2. Event(type, a).type \in NoteEvents /\ "addEvent" \notin Transitions
    BY <1>4 DEF NoteEvents, Transitions
  <2> QED BY <1>1, <1>3, <2>1, <2>2, GetGood DEF Inv, AddEvent
<1>13. CASE Comment(c, i, a)
  <2>1. Event("CommentAppended", a).type \in NoteEvents /\ "comment" \notin Transitions
    BY <1>4 DEF NoteEvents, Transitions
  <2> QED BY <1>1, <1>3, <1>13, <2>1, GetGood DEF Inv, Comment
<1>15. CASE \E from, to \in Actors \union {NoActor} : Reassign(c, i, a, from, to)
  <2>1. PICK from \in Actors \union {NoActor}, to \in Actors \union {NoActor} :
          Reassign(c, i, a, from, to)
    BY <1>15
  <2>2. Event("ItemReassigned", a).type \in NoteEvents /\ "reassign" \notin Transitions
    BY <1>4 DEF NoteEvents, Transitions
  <2>3. CASE from = NoActor \/ from \in Unbuildable
    BY <1>6, <1>7, <2>1, <2>2, <2>3, ActorsAssumption DEF Reassign
  <2>4. CASE from \in Actors \ Unbuildable
    <3> DEFINE e == RemoveTag(store[i], <<"assignee", from>>)
    <3>1. e.kind = store[i].kind /\ e.doc = store[i].doc
      BY <1>2 DEF RemoveTag, Entities
    <3>2. /\ \E ack \in BOOLEAN : StoreCall(i, e, ack)
          /\ Continue(c, "assign", "reassign", i, Event("ItemReassigned", a), to)
      BY <2>1, <2>4, ActorsAssumption DEF Reassign
    <3> HIDE DEF e
    <3> QED BY <1>1, <2>2, <3>1, <3>2, StoreCallGood, ContinueGood DEF Inv
  <2> QED BY <2>3, <2>4
<1>16. ASSUME NEW op \in {"tag", "untag"}, NEW e, ChangeTags(c, op, i, a, e),
              e.kind = store[i].kind, e.doc = store[i].doc
       PROVE  Inv'
  <2>1. Event("TagsChanged", a).type \in NoteEvents /\ op \notin Transitions
    BY <1>4 DEF NoteEvents, Transitions
  <2>2. PICK ack \in BOOLEAN :
          /\ StoreCall(i, e, ack)
          /\ IF ack THEN Continue(c, "read", op, i, Event("TagsChanged", a), NoActor)
                    ELSE Return(c, op, i, "internal")
    BY <1>16 DEF ChangeTags
  <2> QED BY <1>1, <1>16, <2>1, <2>2, StoreCallGood, ReturnGood, ContinueGood DEF Inv
<1>17. ASSUME NEW ts, Tag(c, i, a, ts) PROVE Inv'
  <2>1. AddTags(store[i], ts).kind = store[i].kind /\ AddTags(store[i], ts).doc = store[i].doc
    BY <1>2 DEF AddTags, Entities
  <2> QED BY <1>16, <1>17, <2>1 DEF Tag
<1>18. ASSUME NEW t, Untag(c, i, a, t) PROVE Inv'
  <2>1. RemoveTag(store[i], t).kind = store[i].kind /\ RemoveTag(store[i], t).doc = store[i].doc
    BY <1>2 DEF RemoveTag, Entities
  <2> QED BY <1>16, <1>18, <2>1 DEF Untag
<1> QED BY <1>5, <1>8, <1>9, <1>10, <1>11, <1>12, <1>13, <1>15, <1>17, <1>18 DEF Start

LEMMA InvCorrect == Spec => []Inv
<1>1. Inv /\ [Next]_vars => Inv'
  <2> SUFFICES ASSUME Inv, [Next]_vars PROVE Inv'
    OBVIOUS
  <2>1. CASE Next
    BY <2>1, StepInv, StartInv DEF Next
  <2>2. CASE UNCHANGED vars
    BY <2>2 DEF vars, Inv, TypeOK, Idle, StoreGood, CallGood, GoodDoc
  <2> QED BY <2>1, <2>2
<1> QED BY <1>1, InitInv, PTL DEF Spec

\* The log of every item is a history one caller could have made alone, and
\* its status is the one the log leads to, however many calls race and
\* whichever store calls fail or lose their answer (lifecycle.go:63-97).
THEOREM HistoriesCorrect == Spec => [](LegalHistories /\ StatusMatchesLog)
<1>1. Inv => LegalHistories /\ StatusMatchesLog
  BY DEF Inv, StoreGood, GoodDoc, LegalHistories, StatusMatchesLog, NewItem
<1> QED BY <1>1, InvCorrect, PTL

\* What an older release closed stays as it is (status.go:9-13).
THEOREM LegacyCorrect == Spec => []LegacyStaysTerminal
<1>1. Inv => LegacyStaysTerminal
  BY ItemsAssumption DEF Inv, StoreGood, GoodDoc, LegacyStaysTerminal
<1> QED BY <1>1, InvCorrect, PTL

\* The documents of other applications are never written (get.go:18).
THEOREM ForeignCorrect == Spec => []ForeignDocUntouched
<1>1. Inv => ForeignDocUntouched
  BY ItemsAssumption DEF Inv, StoreGood, ForeignDocUntouched
<1> QED BY <1>1, InvCorrect, PTL

=============================================================================
