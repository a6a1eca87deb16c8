---------------------------- MODULE EntityProofs ----------------------------
(***************************************************************************)
(* What a step of the inbox can do to an entity as a whole, its document,  *)
(* its tags and its anchor, and what follows from that for every instance: *)
(* an item is in one list, and a key has one item.                         *)
(***************************************************************************)
EXTENDS InboxProofs

StatusTags(e) == Tagged(e.tags, "status")

\* The document call k is about to write.
Written(k) ==
  IF k.op \in Transitions THEN [Appended(k.read.doc, k.evt) EXCEPT !.status = ToStatus[k.op]]
                          ELSE Appended(k.read.doc, k.evt)

\* Nothing but perhaps entity i is changed, and that to e.
Leaves(i, e) == store' = store \/ store' = [store EXCEPT ![i] = e]

\* The callers leave the status key to the inbox.
RoutesOnly == \A t \in RouteTags : t[1] # "status"

\* e is entity i with other tags, and with its status tags if no caller has
\* tags of that key.
Retagged(i, e) ==
  /\ e.kind = store[i].kind /\ e.anchor = store[i].anchor /\ e.doc = store[i].doc
  /\ RoutesOnly => StatusTags(e) = StatusTags(store[i])

\* e is item i as call k writes it.
Rewritten(k, e) ==
  /\ k.pc = "write"
  /\ store[k.item].kind = "inbox"
  /\ e.kind = "inbox" /\ e.anchor = store[k.item].anchor /\ e.doc = Written(k)
  /\ StatusTags(e) = IF k.op \in Transitions THEN {<<"status", ToStatus[k.op]>>}
                                             ELSE StatusTags(store[k.item])

\* e is a new item i with key key.
Created(i, e, a, key) ==
  /\ Fresh(i) /\ ~AnchorTaken(key)
  /\ e.kind = "inbox" /\ e.anchor = key
  /\ e.doc = [status |-> "open", events |-> <<Event("ItemCreated", a)>>, key |-> key]

-----------------------------------------------------------------------------
(* Tags *)

LEMMA WithIsOne ==
  ASSUME NEW ts, NEW v PROVE Tagged(With(ts, "status", v), "status") = {<<"status", v>>}
  BY DEF Tagged, With, Without

LEMMA MergeKeeps ==
  ASSUME NEW ts, NEW us, \A t \in us : t[1] # "status"
  PROVE  Tagged(Merge(ts, us), "status") = Tagged(ts, "status")
  BY DEF Tagged, Merge

LEMMA RemoveKeeps ==
  ASSUME NEW ts, NEW t, t[1] # "status"
  PROVE  Tagged(ts \ {t}, "status") = Tagged(ts, "status")
  BY DEF Tagged

LEMMA AddRetags ==
  ASSUME TypeOK, NEW i \in Items, NEW ts, RoutesOnly => \A t \in ts : t[1] # "status"
  PROVE  Retagged(i, AddTags(store[i], ts))
<1>1. store[i] \in Entities
  BY DEF TypeOK
<1>2. CASE store[i].kind = "absent"
  BY <1>2 DEF AddTags, Retagged
<1>3. CASE store[i].kind # "absent"
  <2>1. AddTags(store[i], ts) = [store[i] EXCEPT !.tags = Merge(store[i].tags, ts)]
    BY <1>3 DEF AddTags
  <2>2. AddTags(store[i], ts).tags = Merge(store[i].tags, ts)
    BY <1>1, <2>1 DEF Entities
  <2>3. /\ AddTags(store[i], ts).kind = store[i].kind
        /\ AddTags(store[i], ts).anchor = store[i].anchor
        /\ AddTags(store[i], ts).doc = store[i].doc
    BY <1>1, <2>1 DEF Entities
  <2> QED BY <2>2, <2>3, MergeKeeps DEF Retagged, StatusTags
<1> QED BY <1>2, <1>3

LEMMA RemoveRetags ==
  ASSUME TypeOK, NEW i \in Items, NEW t, RoutesOnly => t[1] # "status"
  PROVE  Retagged(i, RemoveTag(store[i], t))
<1>1. store[i] \in Entities
  BY DEF TypeOK
<1>2. CASE store[i].kind = "absent"
  BY <1>2 DEF RemoveTag, Retagged
<1>3. CASE store[i].kind # "absent"
  <2>1. RemoveTag(store[i], t) = [store[i] EXCEPT !.tags = store[i].tags \ {t}]
    BY <1>3 DEF RemoveTag
  <2>2. RemoveTag(store[i], t).tags = store[i].tags \ {t}
    BY <1>1, <2>1 DEF Entities
  <2>3. /\ RemoveTag(store[i], t).kind = store[i].kind
        /\ RemoveTag(store[i], t).anchor = store[i].anchor
        /\ RemoveTag(store[i], t).doc = store[i].doc
    BY <1>1, <2>1 DEF Entities
  <2> QED BY <2>2, <2>3, RemoveKeeps DEF Retagged, StatusTags
<1> QED BY <1>2, <1>3

LEMMA SameRetags == ASSUME NEW i PROVE Retagged(i, store[i])
  BY DEF Retagged

-----------------------------------------------------------------------------
(* Steps *)

\* A call that goes on retags its item, or writes it and returns.
LEMMA StepEntity ==
  ASSUME Inv, NEW c \in Calls, Step(c)
  PROVE  /\ call[c].item \in Items
         /\ \E e : /\ Leaves(call[c].item, e)
                   /\ \/ Retagged(call[c].item, e)
                      \/ Rewritten(call[c], e) /\ call'[c].pc = "idle"
<1> DEFINE k == call[c]
           i == k.item
           Effect == \E e : /\ Leaves(i, e)
                            /\ Retagged(i, e) \/ (Rewritten(k, e) /\ call'[c].pc = "idle")
<1>1. /\ TypeOK /\ CallGood(k)
      /\ k.pc # "idle" => i \in Items /\ store[i] \in Entities
      /\ call \in [Calls -> CallStates]
  BY DEF Inv, TypeOK, Idle
<1>2. k.pc # "idle"
  BY DEF Step, DoTransition, ReadForEvent, AppendEvent, AddAssignee
<1> SUFFICES Effect
  BY <1>1, <1>2
<1>3. ASSUME NEW op, NEW res, Return(c, op, i, res) PROVE call'[c].pc = "idle"
  BY <1>1, <1>3 DEF Return, IdleCall
<1>4. CASE DoTransition(c)
  <2> DEFINE to   == ToStatus[k.op]
             doc  == [Appended(k.read.doc, k.evt) EXCEPT !.status = to]
             tags == Merge(WithStatus(k.read.tags, to), ExtraTags(k.op, k.evt))
             e    == TransitionWrite(store[i], doc, tags)
  <2>1. k.pc = "write" /\ k.op \in Transitions
    BY <1>4 DEF DoTransition, ToStatus, Transitions
  <2>2. e.kind = store[i].kind /\ e.anchor = store[i].anchor /\ e.doc = doc /\ e.tags = tags
    BY <1>1, <1>2 DEF TransitionWrite, UpdateAll, Entities
  <2>3. \A t \in ExtraTags(k.op, k.evt) : t[1] # "status"
    BY DEF ExtraTags
  <2>4. Tagged(tags, "status") = {<<"status", to>>}
    BY <2>3, WithIsOne, MergeKeeps DEF WithStatus
  <2>5. doc = Written(k)
    BY <2>1 DEF Written
  <2>6. store[i].kind = "inbox"
    BY <1>1, <2>1 DEF CallGood
  <2>7. PICK ack \in BOOLEAN : /\ StoreCall(i, e, ack)
                               /\ Return(c, k.op, i, IF ack THEN "ok" ELSE "internal")
    BY <1>4 DEF DoTransition
  <2>8. Leaves(i, e)
    BY <2>7 DEF StoreCall, Leaves
  <2>9. call'[c].pc = "idle"
    BY <2>7, <1>3
  <2> HIDE DEF e, doc, tags
  <2>10. Rewritten(k, e)
    BY <2>1, <2>2, <2>4, <2>5, <2>6 DEF Rewritten, StatusTags
  <2> QED BY <2>8, <2>9, <2>10
<1>5. CASE AppendEvent(c)
  <2> DEFINE doc == Appended(k.read.doc, k.evt)
             e   == EventWrite(store[i], doc)
  <2>1. k.pc = "write" /\ k.op \notin Transitions
    BY <1>5 DEF AppendEvent, ToStatus, Transitions
  <2>2. e.kind = store[i].kind /\ e.anchor = store[i].anchor /\ e.doc = doc
        /\ e.tags = store[i].tags
    BY <1>1, <1>2 DEF EventWrite, UpdateData, Entities
  <2>3. doc = Written(k)
    BY <2>1 DEF Written
  <2>4. store[i].kind = "inbox"
    BY <1>1, <2>1 DEF CallGood
  <2>5. PICK ack \in BOOLEAN :
          /\ StoreCall(i, e, ack)
          /\ Return(c, k.op, i, IF ack THEN "ok" ELSE Answer(k.op, "internal"))
    BY <1>5 DEF AppendEvent
  <2>6. Leaves(i, e)
    BY <2>5 DEF StoreCall, Leaves
  <2>7. call'[c].pc = "idle"
    BY <2>5, <1>3
  <2> HIDE DEF e, doc
  <2>8. Rewritten(k, e)
    BY <2>1, <2>2, <2>3, <2>4 DEF Rewritten, StatusTags
  <2> QED BY <2>6, <2>7, <2>8
<1>6. CASE ReadForEvent(c)
  BY <1>6, SameRetags DEF ReadForEvent, Get, Leaves
<1>7. CASE AddAssignee(c)
  <2> DEFINE e == AddTags(store[i], {<<"assignee", k.to>>})
  <2>1. UNCHANGED store \/ \E ack \in BOOLEAN : StoreCall(i, e, ack)
    BY <1>7 DEF AddAssignee
  <2>2. Retagged(i, e)
    BY <1>1, <1>2, AddRetags
  <2> HIDE DEF e
  <2>3. Leaves(i, e)
    BY <2>1 DEF StoreCall, Leaves
  <2> QED BY <2>2, <2>3
<1> HIDE DEF Effect
<1> QED BY <1>4, <1>5, <1>6, <1>7 DEF Step

\* A call that starts retags its item, or creates it and returns.
LEMMA StartEntity ==
  ASSUME Inv, NEW c \in Calls, NEW i \in Items, NEW a \in Actors, Start(c, i, a)
  PROVE  \E e : /\ Leaves(i, e)
                /\ \/ Retagged(i, e)
                   \/ /\ \E key \in Keys \union {NoKey} : Created(i, e, a, key)
                      /\ StatusTags(e) = {<<"status", "open">>}
                      /\ call'[c].pc = "idle"
<1> DEFINE Effect ==
      \E e : /\ Leaves(i, e)
             /\ \/ Retagged(i, e)
                \/ /\ \E key \in Keys \union {NoKey} : Created(i, e, a, key)
                   /\ StatusTags(e) = {<<"status", "open">>}
                   /\ call'[c].pc = "idle"
<1> SUFFICES Effect
  OBVIOUS
<1>1. TypeOK /\ call \in [Calls -> CallStates]
  BY DEF Inv, TypeOK
<1>2. CASE UNCHANGED store
  BY <1>2, SameRetags DEF Leaves
<1>3. ASSUME NEW ts, NEW key \in Keys \union {NoKey}, Create(c, i, a, ts, key)
      PROVE  Effect
  <2> DEFINE e == [kind |-> "inbox", anchor |-> Anchor(key), tags |-> WithStatus(ts, "open"),
                   doc |-> [status |-> "open", events |-> <<Event("ItemCreated", a)>>,
                            key |-> key]]
  <2>1. /\ e.kind = "inbox" /\ e.anchor = key /\ e.tags = WithStatus(ts, "open")
        /\ e.doc = [status |-> "open", events |-> <<Event("ItemCreated", a)>>, key |-> key]
    BY DEF Anchor
  <2>2. Fresh(i)
    BY <1>3 DEF Create
  <2>3. \/ UNCHANGED store
        \/ /\ ~AnchorTaken(key)
           /\ \E ack \in BOOLEAN : /\ StoreCall(i, e, ack)
                                   /\ Return(c, "create", i, IF ack THEN "ok" ELSE "internal")
    BY <1>3 DEF Create, Anchor
  <2> HIDE DEF e
  <2>4. ASSUME ~AnchorTaken(key), NEW ack \in BOOLEAN, StoreCall(i, e, ack),
               Return(c, "create", i, IF ack THEN "ok" ELSE "internal")
        PROVE  Effect
    <3>1. Leaves(i, e)
      BY <2>4 DEF StoreCall, Leaves
    <3>2. call'[c].pc = "idle"
      BY <1>1, <2>4 DEF Return, IdleCall
    <3>3. StatusTags(e) = {<<"status", "open">>}
      BY <2>1, WithIsOne DEF StatusTags, WithStatus
    <3>4. Created(i, e, a, key)
      BY <2>1, <2>2, <2>4 DEF Created
    <3> QED BY <3>1, <3>2, <3>3, <3>4
  <2> QED BY <1>2, <2>3, <2>4
<1>4. ASSUME NEW e, Retagged(i, e), NEW ack \in BOOLEAN, StoreCall(i, e, ack)
      PROVE  Effect
  BY <1>4 DEF StoreCall, Leaves
<1>5. CASE GetItem(c, i)
  BY <1>2, <1>5 DEF GetItem
<1>6. CASE Claim(c, i, a)
  BY <1>2, <1>6 DEF Claim, Transition, Get
<1>7. CASE Release(c, i, a)
  BY <1>2, <1>7 DEF Release, Get
<1>8. CASE Close(c, i, a)
  BY <1>2, <1>8 DEF Close, Get
<1>9. ASSUME NEW type, AddEvent(c, i, a, type) PROVE Effect
  BY <1>2, <1>9 DEF AddEvent, Get
<1>10. CASE Comment(c, i, a)
  BY <1>2, <1>10 DEF Comment, Get
<1>11. ASSUME NEW from, NEW to, Reassign(c, i, a, from, to) PROVE Effect
  <2>1. Retagged(i, RemoveTag(store[i], <<"assignee", from>>))
    BY <1>1, RemoveRetags
  <2>2. UNCHANGED store
        \/ \E ack \in BOOLEAN : StoreCall(i, RemoveTag(store[i], <<"assignee", from>>), ack)
    BY <1>11 DEF Reassign
  <2> HIDE DEF Effect
  <2> QED BY <1>2, <1>4, <2>1, <2>2
<1>12. ASSUME NEW ts \in SUBSET RouteTags, Tag(c, i, a, ts) PROVE Effect
  <2>1. Retagged(i, AddTags(store[i], ts))
    BY <1>1, AddRetags DEF RoutesOnly
  <2>2. \E ack \in BOOLEAN : StoreCall(i, AddTags(store[i], ts), ack)
    BY <1>12 DEF Tag, ChangeTags
  <2> HIDE DEF Effect
  <2> QED BY <1>4, <2>1, <2>2
<1>13. ASSUME NEW t \in RouteTags, Untag(c, i, a, t) PROVE Effect
  <2>1. Retagged(i, RemoveTag(store[i], t))
    BY <1>1, RemoveRetags DEF RoutesOnly
  <2>2. \E ack \in BOOLEAN : StoreCall(i, RemoveTag(store[i], t), ack)
    BY <1>13 DEF Untag, ChangeTags
  <2> HIDE DEF Effect
  <2> QED BY <1>4, <2>1, <2>2
<1> HIDE DEF Effect
<1> QED BY <1>3, <1>5, <1>6, <1>7, <1>8, <1>9, <1>10, <1>11, <1>12, <1>13 DEF Start

-----------------------------------------------------------------------------
(* Lists *)

\* As long as no caller uses the status key itself, every item is in exactly
\* one of the lists the status tag selects: each write that sets the tag
\* sets it as the only one, whatever it read, and no other write touches it
\* (lifecycle.go:81-85, create.go:38, tags.go:12-38).
THEOREM OneListCorrect ==
  ASSUME RoutesOnly PROVE Spec => []OneStatusTag
<1> DEFINE Statuses == {"open", "claimed", "closed", "expired"}
<1>1. Init => OneStatusTag
  <2> SUFFICES ASSUME Init, NEW i \in Items, store[i].kind = "inbox"
               PROVE  \E v \in Statuses : Tagged(store[i].tags, "status") = {<<"status", v>>}
    BY DEF OneStatusTag
  <2>1. PICK a \in Actors : store[i] = LegacyEntity(a)
    BY DEF Init, ForeignEntity, Absent
  <2>2. store[i].tags = {<<"status", "expired">>}
    BY <2>1 DEF LegacyEntity
  <2>3. Tagged(store[i].tags, "status") = {<<"status", "expired">>}
    BY <2>2 DEF Tagged
  <2> QED BY <2>3
<1>2. Inv /\ OneStatusTag /\ [Next]_vars => OneStatusTag'
  <2> SUFFICES ASSUME Inv, OneStatusTag, [Next]_vars PROVE OneStatusTag'
    OBVIOUS
  <2>1. ASSUME NEW i \in Items, NEW e, Leaves(i, e),
               e.kind = "inbox" =>
                 \/ store[i].kind = "inbox" /\ StatusTags(e) = StatusTags(store[i])
                 \/ \E v \in Statuses : StatusTags(e) = {<<"status", v>>}
        PROVE  OneStatusTag'
    <3>1. store \in [Items -> Entities]
      BY DEF Inv, TypeOK
    <3> QED BY <2>1, <3>1 DEF Leaves, OneStatusTag, StatusTags
  <2>2. ASSUME NEW c \in Calls, Step(c) PROVE OneStatusTag'
    <3> DEFINE k == call[c]
    <3>1. PICK e : /\ Leaves(k.item, e)
                   /\ Retagged(k.item, e) \/ Rewritten(k, e)
      BY <2>2, StepEntity
    <3>2. k.item \in Items
      BY <2>2, StepEntity
    <3>3. k.op \in Transitions => ToStatus[k.op] \in Statuses
      BY DEF ToStatus, Transitions
    <3> HIDE DEF k
    <3> QED BY <2>1, <3>1, <3>2, <3>3 DEF Retagged, Rewritten
  <2>3. ASSUME NEW c \in Calls, NEW i \in Items, NEW a \in Actors, Start(c, i, a)
        PROVE  OneStatusTag'
    <3>1. PICK e : /\ Leaves(i, e)
                   /\ Retagged(i, e) \/ StatusTags(e) = {<<"status", "open">>}
      BY <2>3, StartEntity
    <3> QED BY <2>1, <3>1 DEF Retagged
  <2>4. CASE UNCHANGED vars
    BY <2>4 DEF vars, OneStatusTag
  <2> QED BY <2>2, <2>3, <2>4 DEF Next
<1> QED BY <1>1, <1>2, InvCorrect, PTL DEF Spec

-----------------------------------------------------------------------------
(* Documents *)

\* What is not there has no document.
AbsentHasNoDoc == \A i \in Items : store[i].kind = "absent" => store[i].doc = NoDoc

\* It stays without one.
LEMMA AbsentStays ==
  ASSUME Inv, AbsentHasNoDoc, NEW i \in Items, NEW e, Leaves(i, e),
         e.kind = "absent" => store[i].kind = "absent" /\ e.doc = store[i].doc
  PROVE  AbsentHasNoDoc'
<1>1. store \in [Items -> Entities]
  BY DEF Inv, TypeOK
<1>2. store' = store \/ store' = [store EXCEPT ![i] = e]
  BY DEF Leaves
<1>3. NoDoc' = NoDoc
  BY DEF NoDoc
<1> QED BY <1>1, <1>2, <1>3 DEF AbsentHasNoDoc

-----------------------------------------------------------------------------
(* Keys *)

\* An item's key is its anchor, also in the hands of the calls that will
\* write it, and no two entities have one anchor.
KeyInv ==
  /\ \A i \in Items : store[i].doc.key = store[i].anchor
  /\ \A i, j \in Items : store[i].anchor = store[j].anchor /\ store[i].anchor # NoKey => i = j
  /\ \A c \in Calls : call[c].pc = "write" =>
       call[c].read.doc.key = store[call[c].item].anchor

\* A step that leaves anchors alone, and the keys of documents.
LEMMA KeysStay ==
  ASSUME Inv, KeyInv, NEW c \in Calls, NEW i \in Items, NEW e, Leaves(i, e),
         e.anchor = store[i].anchor, e.doc.key = store[i].doc.key,
         NEW j \in Items, NEW evt, Moves(c, j, evt)
  PROVE  KeyInv'
<1>1. store \in [Items -> Entities] /\ call \in [Calls -> CallStates]
  BY DEF Inv, TypeOK
<1>2. ASSUME NEW l \in Items
      PROVE  store'[l].anchor = store[l].anchor /\ store'[l].doc.key = store[l].doc.key
  BY <1>1 DEF Leaves
<1>3. ASSUME NEW d \in Calls, call'[d].pc = "write"
      PROVE  call'[d].read.doc.key = store'[call'[d].item].anchor
  <2>1. CASE d = c
    <3>1. PICK k : call' = [call EXCEPT ![c] = k] /\ (k.pc # "idle" => Carries(k, j, evt))
      BY DEF Moves
    <3>2. call'[d] = k
      BY <1>1, <2>1, <3>1
    <3>3. k.item = j /\ k.read.doc = store[j].doc
      BY <1>3, <3>1, <3>2 DEF Carries
    <3> QED BY <1>2, <3>2, <3>3 DEF KeyInv
  <2>2. CASE d # c
    <3>1. call'[d] = call[d]
      BY <1>1, <2>2 DEF Moves
    <3>2. call[d].item \in Items
      BY <1>3, <3>1 DEF Inv, TypeOK, Idle
    <3> QED BY <1>2, <1>3, <3>1, <3>2 DEF KeyInv
  <2> QED BY <2>1, <2>2
<1> QED BY <1>2, <1>3 DEF KeyInv

\* Whatever calls race, fail and are repeated, a key has one item: the store
\* refuses a second anchor, no write changes an item's key, and no write
\* takes an item back to before it had one (create.go:69-74).
THEOREM OneItemCorrect == Spec => []OneItemPerKey
<1>1. Init => KeyInv
  <2> SUFFICES ASSUME Init PROVE KeyInv
    OBVIOUS
  <2>1. \A i \in Items : store[i].doc.key = NoKey /\ store[i].anchor = NoKey
    BY DEF Init, ForeignEntity, LegacyEntity, Absent, NoDoc
  <2>2. \A c \in Calls : call[c].pc = "idle"
    BY DEF Init, IdleCall
  <2> QED BY <2>1, <2>2 DEF KeyInv
<1>2. Inv /\ KeyInv /\ [Next]_vars => KeyInv'
  <2> SUFFICES ASSUME Inv, KeyInv, [Next]_vars PROVE KeyInv'
    OBVIOUS
  <2>1. store \in [Items -> Entities] /\ call \in [Calls -> CallStates]
    BY DEF Inv, TypeOK
  <2>2. ASSUME NEW c \in Calls, Step(c) PROVE KeyInv'
    <3> DEFINE k == call[c]
    <3>1. PICK e : /\ Leaves(k.item, e)
                   /\ Retagged(k.item, e) \/ Rewritten(k, e)
      BY <2>2, StepEntity
    <3>2. k.item \in Items /\ Moves(c, k.item, k.evt)
      BY <2>2, StepEntity, StepEffect DEF Inv
    <3>3. k.read.doc \in Docs
      BY <2>1 DEF CallStates
    <3>4. Written(k).key = k.read.doc.key
      BY <3>3 DEF Written, Appended, Docs
    <3>5. k.pc = "write" => k.read.doc.key = store[k.item].anchor
      BY DEF KeyInv
    <3> HIDE DEF k
    <3>6. e.anchor = store[k.item].anchor /\ e.doc.key = store[k.item].doc.key
      BY <3>1, <3>2, <3>4, <3>5 DEF Retagged, Rewritten, KeyInv
    <3> QED BY <3>1, <3>2, <3>6, KeysStay
  <2>3. ASSUME NEW c \in Calls, NEW i \in Items, NEW a \in Actors, Start(c, i, a)
        PROVE  KeyInv'
    <3>1. PICK e : /\ Leaves(i, e)
                   /\ \/ Retagged(i, e)
                      \/ /\ \E key \in Keys \union {NoKey} : Created(i, e, a, key)
                         /\ call'[c].pc = "idle"
      BY <2>3, StartEntity
    <3>2. PICK type : Moves(c, i, Event(type, a))
      BY <2>3, StartEffect DEF Inv
    <3>3. CASE Retagged(i, e)
      BY <3>1, <3>2, <3>3, KeysStay DEF Retagged
    <3>4. ASSUME NEW key \in Keys \union {NoKey}, Created(i, e, a, key), call'[c].pc = "idle"
          PROVE  KeyInv'
      <4>1. /\ e.anchor = key /\ e.doc.key = key
            /\ key # NoKey => \A j \in Items : store[j].anchor # key
            /\ store[i].kind = "absent"
        BY <3>4 DEF Created, AnchorTaken, Fresh
      <4>2. /\ \A j \in Items : j # i => store'[j] = store[j]
            /\ (store'[i] = store[i]) \/ (store'[i] = e)
        BY <2>1, <3>1 DEF Leaves
      <4>3. ASSUME NEW d \in Calls, call'[d].pc = "write"
            PROVE  call'[d].read.doc.key = store'[call'[d].item].anchor
        <5>1. d # c
          BY <3>4, <4>3
        <5>2. call'[d] = call[d]
          BY <2>1, <3>2, <5>1 DEF Moves
        <5>3. call[d].item \in Items /\ store[call[d].item].kind = "inbox"
          BY <4>3, <5>2 DEF Inv, TypeOK, Idle, CallGood
        <5>4. call[d].item # i
          BY <4>1, <5>3
        <5>5. store'[call[d].item] = store[call[d].item]
          BY <4>2, <5>3, <5>4
        <5>6. call[d].read.doc.key = store[call[d].item].anchor
          BY <4>3, <5>2 DEF KeyInv
        <5> QED BY <5>2, <5>5, <5>6
      <4>4. \A j \in Items : store'[j].doc.key = store'[j].anchor
        BY <4>1, <4>2 DEF KeyInv
      <4>5. \A j, l \in Items :
              store'[j].anchor = store'[l].anchor /\ store'[j].anchor # NoKey => j = l
        BY <4>1, <4>2 DEF KeyInv
      <4> QED BY <4>3, <4>4, <4>5 DEF KeyInv
    <3> QED BY <3>1, <3>3, <3>4
  <2>4. CASE UNCHANGED vars
    BY <2>4 DEF vars, KeyInv
  <2> QED BY <2>2, <2>3, <2>4 DEF Next
<1>3. KeyInv => OneItemPerKey
  BY DEF KeyInv, OneItemPerKey
<1> QED BY <1>1, <1>2, <1>3, InvCorrect, PTL DEF Spec

-----------------------------------------------------------------------------
(* Items that are only claimed, released and closed *)

\* The calls that write write document and tags together, and the callers
\* leave the status key to the inbox; they may create items with assignees.
OnlyTransitions ==
  /\ Ops \subseteq {"create", "get", "claim", "release", "close"}
  /\ \A t \in RouteTags : t[1] # "status"

\* Both tags are what document doc has.
Mirrored(doc, ts) ==
  /\ Tagged(ts, "status") = {<<"status", doc.status>>}
  /\ doc.status = "open" => ValuesOf(ts, "assignee") \subseteq CreatedWith(doc.events)
  /\ doc.status = "claimed" =>
       \E j \in DOMAIN doc.events :
         /\ doc.events[j].type = "ItemClaimed"
         /\ \A m \in (j + 1)..Len(doc.events) : doc.events[m].type \notin LifecycleEvents
         /\ doc.events[j].actor \in ValuesOf(ts, "assignee")
         /\ ValuesOf(ts, "assignee") \subseteq {doc.events[j].actor} \union CreatedWith(doc.events)

\* What call op on an item with document doc may start from: a Claim has
\* read the assignees of an open item, a Release has left them out.
Leaving(op, doc, ts) ==
  /\ op = "claim" => ValuesOf(ts, "assignee") \subseteq CreatedWith(doc.events)
  /\ op = "release" => ValuesOf(ts, "assignee") = {}

\* A call under way writes.
WritesMirrored(k) ==
  k.pc # "idle" =>
    /\ k.pc = "write" /\ k.op \in Transitions
    /\ Leaving(k.op, k.read.doc, k.read.tags)

MirrorInv ==
  /\ \A i \in Items : store[i].kind = "inbox" => Mirrored(store[i].doc, store[i].tags)
  /\ \A c \in Calls : WritesMirrored(call[c])

\* A call that returns is idle.
LEMMA ReturnIdles ==
  ASSUME NEW c, NEW op, NEW i, NEW res, Return(c, op, i, res)
  PROVE  \E r : call' = [call EXCEPT ![c] = r] /\ r.pc = "idle"
<1> DEFINE r == [IdleCall EXCEPT !.op = op, !.item = i, !.res = res]
<1>1. r.pc = "idle"
  BY DEF IdleCall
<1>2. call' = [call EXCEPT ![c] = r]
  BY DEF Return
<1> HIDE DEF r
<1> QED BY <1>1, <1>2

\* What one call does to its own state and to one entity.
LEMMA MirrorKept ==
  ASSUME Inv, MirrorInv, NEW c \in Calls, NEW i \in Items, NEW e, Leaves(i, e),
         e.kind = "inbox" => Mirrored(e.doc, e.tags),
         NEW k, call' = [call EXCEPT ![c] = k], WritesMirrored(k)
  PROVE  MirrorInv'
<1>1. store \in [Items -> Entities] /\ call \in [Calls -> CallStates]
  BY DEF Inv, TypeOK
<1>2. ASSUME NEW j \in Items, store'[j].kind = "inbox"
      PROVE  Mirrored(store'[j].doc, store'[j].tags)
  BY <1>1, <1>2 DEF Leaves, MirrorInv
<1>3. ASSUME NEW d \in Calls PROVE WritesMirrored(call'[d])
  BY <1>1 DEF MirrorInv
<1> QED BY <1>2, <1>3 DEF MirrorInv

\* Only a Release takes off the assignees an item was created with.
LEMMA CreatedWithStays ==
  ASSUME NEW log \in Seq(Events), NEW evt \in Events, evt.type # "ItemReleased"
  PROVE  CreatedWith(Append(log, evt)) = CreatedWith(log)
<1>1. /\ DOMAIN log = 1..Len(log) /\ Len(log) \in Nat
      /\ DOMAIN Append(log, evt) = 1..(Len(log) + 1)
      /\ Append(log, evt)[Len(log) + 1] = evt
      /\ \A j \in 1..Len(log) : Append(log, evt)[j] = log[j]
  OBVIOUS
<1>2. WasReleased(Append(log, evt)) <=> WasReleased(log)
  BY <1>1 DEF WasReleased
<1> QED BY <1>2 DEF CreatedWith

\* The tags a Claim writes name its actor, those a Release writes nobody.
LEMMA TransitionMirrors ==
  ASSUME NEW doc \in Docs, NEW ts, NEW op \in Transitions, NEW evt \in Events,
         Leaving(op, doc, ts),
         op = "claim" => evt.type = "ItemClaimed"
  PROVE  Mirrored([Appended(doc, evt) EXCEPT !.status = ToStatus[op]],
                  Merge(WithStatus(ts, ToStatus[op]), ExtraTags(op, evt)))
<1> DEFINE new  == [Appended(doc, evt) EXCEPT !.status = ToStatus[op]]
           tags == Merge(WithStatus(ts, ToStatus[op]), ExtraTags(op, evt))
<1> SUFFICES Mirrored(new, tags)
  OBVIOUS
<1>1. /\ new.status = ToStatus[op] /\ new.events = Append(doc.events, evt)
      /\ doc.events \in Seq(Events)
  BY DEF Appended, Docs
<1>2. Tagged(tags, "status") = {<<"status", ToStatus[op]>>}
  <2>1. Tagged(WithStatus(ts, ToStatus[op]), "status") = {<<"status", ToStatus[op]>>}
    BY WithIsOne DEF WithStatus
  <2>2. \A t \in ExtraTags(op, evt) : t[1] # "status"
    BY DEF ExtraTags
  <2> QED BY <2>1, <2>2, MergeKeeps
<1>3. Tagged(tags, "assignee") = Tagged(ts, "assignee") \union ExtraTags(op, evt)
  BY DEF Tagged, Merge, WithStatus, With, Without, ExtraTags
<1>4. CASE op = "claim"
  <2>1. Tagged(tags, "assignee") = Tagged(ts, "assignee") \union {<<"assignee", evt.actor>>}
    BY <1>3, <1>4 DEF ExtraTags
  <2>2. ValuesOf(tags, "assignee") = ValuesOf(ts, "assignee") \union {evt.actor}
    <3>1. PICK a : a = evt.actor
      OBVIOUS
    <3>2. PICK x : x = <<"assignee", a>>
      OBVIOUS
    <3>3. x[2] = a
      BY <3>2
    <3>4. Tagged(tags, "assignee") = Tagged(ts, "assignee") \union {x}
      BY <2>1, <3>1, <3>2
    <3> HIDE DEF tags
    <3>5. {t[2] : t \in Tagged(ts, "assignee") \union {x}}
            = {t[2] : t \in Tagged(ts, "assignee")} \union {a}
      BY <3>3
    <3> QED BY <3>1, <3>4, <3>5 DEF ValuesOf
  <2>3. PICK n : n = Len(doc.events) + 1
    OBVIOUS
  <2>4. /\ n \in DOMAIN new.events /\ new.events[n] = evt
        /\ \A m \in (n + 1)..Len(new.events) : FALSE
    BY <1>1, <2>3
  <2>5. ToStatus[op] = "claimed"
    BY <1>4 DEF ToStatus
  <2>6. ValuesOf(ts, "assignee") \subseteq CreatedWith(new.events)
    BY <1>1, <1>4, CreatedWithStays DEF Leaving
  <2> HIDE DEF new, tags
  <2> QED BY <1>1, <1>2, <1>4, <2>2, <2>4, <2>5, <2>6 DEF Mirrored
<1>5. CASE op # "claim"
  <2>1. ToStatus[op] # "claimed" /\ (ToStatus[op] = "open" => op = "release")
    BY <1>5 DEF ToStatus, Transitions
  <2>2. op = "release" => ValuesOf(tags, "assignee") = {}
    BY <1>3 DEF ExtraTags, ValuesOf, Leaving
  <2> HIDE DEF new, tags
  <2> QED BY <1>1, <1>2, <2>1, <2>2 DEF Mirrored
<1> QED BY <1>4, <1>5

LEMMA MirrorStep ==
  ASSUME Inv, MirrorInv, NEW c \in Calls, Step(c)
  PROVE  MirrorInv'
<1> DEFINE k    == call[c]
           doc  == [Appended(k.read.doc, k.evt) EXCEPT !.status = ToStatus[k.op]]
           tags == Merge(WithStatus(k.read.tags, ToStatus[k.op]), ExtraTags(k.op, k.evt))
           e    == TransitionWrite(store[k.item], doc, tags)
<1>1. /\ TypeOK /\ CallGood(k) /\ WritesMirrored(k) /\ ~Idle(c)
  BY StepEffect DEF Inv, MirrorInv
<1>2. /\ k.item \in Items /\ k.evt \in Events /\ k.read.doc \in Docs
      /\ k.pc = "write" /\ k.op \in Transitions /\ store[k.item] \in Entities
  BY <1>1 DEF TypeOK, CallStates, WritesMirrored, Idle
<1>3. DoTransition(c)
  BY <1>2 DEF Step, ReadForEvent, AddAssignee, AppendEvent, ToStatus, Transitions
<1>4. PICK ack \in BOOLEAN : /\ StoreCall(k.item, e, ack)
                             /\ Return(c, k.op, k.item, IF ack THEN "ok" ELSE "internal")
  BY <1>3 DEF DoTransition
<1>5. e.doc = doc /\ e.tags = tags
  BY <1>2 DEF TransitionWrite, UpdateAll, Entities
<1>6. Mirrored(doc, tags)
  <2>1. k.op = "claim" => k.evt.type = "ItemClaimed"
    BY <1>1, <1>2 DEF CallGood, ToStatus, StatusAfter
  <2>2. Leaving(k.op, k.read.doc, k.read.tags)
    BY <1>1, <1>2 DEF WritesMirrored
  <2> QED BY <1>2, <2>1, <2>2, TransitionMirrors
<1>7. Leaves(k.item, e)
  BY <1>4 DEF StoreCall, Leaves
<1>8. PICK r : call' = [call EXCEPT ![c] = r] /\ r.pc = "idle"
  <2>1. PICK res : Return(c, k.op, k.item, res)
    BY <1>4
  <2> QED BY <2>1, ReturnIdles
<1>9. WritesMirrored(r)
  BY <1>8 DEF WritesMirrored
<1>10. e.kind = "inbox" => Mirrored(e.doc, e.tags)
  BY <1>5, <1>6
<1> HIDE DEF e
<1> QED BY <1>2, <1>7, <1>8, <1>9, <1>10, MirrorKept

LEMMA MirrorStart ==
  ASSUME OnlyTransitions, Inv, MirrorInv, NEW c \in Calls, NEW i \in Items, NEW a \in Actors,
         Start(c, i, a)
  PROVE  MirrorInv'
<1>1. /\ TypeOK /\ store[i] \in Entities
      /\ store[i].kind = "inbox" => Mirrored(store[i].doc, store[i].tags)
  BY DEF Inv, TypeOK, MirrorInv
<1>2. ASSUME NEW op, NEW res, Return(c, op, i, res), NEW e, Leaves(i, e),
             e.kind = "inbox" => Mirrored(e.doc, e.tags)
      PROVE  MirrorInv'
  <2>1. PICK r : call' = [call EXCEPT ![c] = r] /\ r.pc = "idle"
    BY <1>2, ReturnIdles
  <2>2. WritesMirrored(r)
    BY <2>1 DEF WritesMirrored
  <2> QED BY <1>2, <2>1, <2>2, MirrorKept
<1>3. ASSUME NEW op, NEW res, Return(c, op, i, res), store' = store
      PROVE  MirrorInv'
  <2>1. Leaves(i, store[i])
    BY <1>3 DEF Leaves
  <2> QED BY <1>1, <1>2, <1>3, <2>1
<1>4. ASSUME NEW op \in Transitions, NEW evt, NEW item, NEW allowed, NEW refusal,
             Get(c, op, i, evt, item, allowed, refusal),
             store[i].kind = "inbox" /\ allowed => Leaving(op, item.doc, item.tags)
      PROVE  MirrorInv'
  <2> DEFINE r == [IdleCall EXCEPT !.pc = "write", !.op = op, !.item = i, !.evt = evt,
                                   !.to = call[c].to, !.read = item]
  <2>1. store' = store /\ Leaves(i, store[i])
    BY <1>4 DEF Get, Leaves
  <2>2. CASE \E res : Return(c, op, i, res)
    BY <1>3, <2>1, <2>2
  <2>3. CASE IsItem(store[i]) /\ allowed /\ call' = [call EXCEPT ![c] = r]
    <3>1. r.pc = "write" /\ r.op = op /\ r.read = item
      BY DEF IdleCall
    <3>2. WritesMirrored(r)
      BY <1>4, <2>3, <3>1 DEF WritesMirrored, IsItem
    <3> HIDE DEF r
    <3> QED BY <1>1, <2>1, <2>3, <3>2, MirrorKept
  <2> QED BY <1>4, <2>2, <2>3 DEF Get
<1>5. ASSUME NEW ts \in SUBSET RouteTags, NEW key \in Keys \union {NoKey}, Create(c, i, a, ts, key)
      PROVE  MirrorInv'
  <2> DEFINE e == [kind |-> "inbox", anchor |-> Anchor(key), tags |-> WithStatus(ts, "open"),
                   doc |-> [status |-> "open", events |-> <<Event("ItemCreated", a)>>,
                            key |-> key]]
  <2>1. Mirrored(e.doc, e.tags)
    <3>1. Tagged(e.tags, "status") = {<<"status", "open">>}
      BY WithIsOne DEF WithStatus
    <3>2. Tagged(e.tags, "assignee") \subseteq Tagged(RouteTags, "assignee")
      BY DEF Tagged, WithStatus, With, Without
    <3>3. ValuesOf(e.tags, "assignee") \subseteq CreatedWith(e.doc.events)
      <4>1. ~WasReleased(e.doc.events)
        BY DEF WasReleased, Event
      <4> HIDE DEF e
      <4> QED BY <3>2, <4>1 DEF ValuesOf, CreatedWith
    <3>4. e.doc.status = "open"
      OBVIOUS
    <3> HIDE DEF e
    <3> QED BY <3>1, <3>3, <3>4 DEF Mirrored
  <2>2. \/ \E res : Return(c, "create", i, res) /\ store' = store
        \/ \E ack \in BOOLEAN : /\ StoreCall(i, e, ack)
                                 /\ \E res : Return(c, "create", i, res)
    BY <1>5 DEF Create
  <2> HIDE DEF e
  <2>3. CASE \E ack \in BOOLEAN : /\ StoreCall(i, e, ack)
                                  /\ \E res : Return(c, "create", i, res)
    <3>1. Leaves(i, e)
      BY <2>3 DEF StoreCall, Leaves
    <3> QED BY <1>2, <2>1, <2>3, <3>1
  <2> QED BY <1>3, <2>2, <2>3
<1>6. CASE GetItem(c, i)
  BY <1>3, <1>6 DEF GetItem
<1>7. CASE Claim(c, i, a)
  <2>1. CASE Return(c, "claim", i, "internal") /\ UNCHANGED store
    BY <1>3, <2>1
  <2>2. CASE Transition(c, "claim", i, Event("ItemClaimed", a), "open")
    <3>1. PICK item : item = ItemOf(store[i])
      OBVIOUS
    <3>2. store[i].kind = "inbox" /\ store[i].doc.status = "open"
            => Leaving("claim", item.doc, item.tags)
      BY <1>1, <3>1 DEF ItemOf, Mirrored, Leaving
    <3>3. Get(c, "claim", i, Event("ItemClaimed", a), item, store[i].doc.status = "open",
              "invalidTransition")
      BY <2>2, <3>1 DEF Transition
    <3> QED BY <1>4, <3>2, <3>3 DEF Transitions
  <2> QED BY <1>7, <2>1, <2>2 DEF Claim
<1>8. CASE Release(c, i, a)
  <2>1. PICK item : item = [ItemOf(store[i]) EXCEPT !.tags = Without(@, "assignee")]
    OBVIOUS
  <2>2. Leaving("release", item.doc, item.tags)
    BY <2>1 DEF ItemOf, Without, ValuesOf, Tagged, Leaving
  <2>3. Get(c, "release", i, Event("ItemReleased", a), item, store[i].doc.status = "claimed",
            "invalidTransition")
    BY <1>8, <2>1 DEF Release
  <2> QED BY <1>4, <2>2, <2>3 DEF Transitions
<1>9. CASE Close(c, i, a)
  <2>1. PICK item : Get(c, "close", i, Event("ItemClosed", a), item,
                        ~IsTerminal(store[i].doc.status), "terminal")
    BY <1>9 DEF Close
  <2> QED BY <1>4, <2>1 DEF Transitions, Leaving
<1> QED BY <1>5, <1>6, <1>7, <1>8, <1>9
        DEF Start, OnlyTransitions, AddEvent, Comment, Reassign, Tag, Untag, ChangeTags, May

\* However many calls race to claim, release and close an item over a failing
\* store, its status tag is its status, and its assignees are who claimed it
\* last and those it was created with and has kept: each write carries the
\* document and both tags (lifecycle.go:14, 25, 74-85).
THEOREM TransitionsMirror ==
  ASSUME OnlyTransitions PROVE Spec => [](TagMirrorsStatus /\ ClaimerIsAssignee)
<1>1. Init => MirrorInv
  <2> SUFFICES ASSUME Init PROVE MirrorInv
    OBVIOUS
  <2>1. ASSUME NEW i \in Items, store[i].kind = "inbox"
        PROVE  Mirrored(store[i].doc, store[i].tags)
    <3>1. PICK a \in Actors : store[i] = LegacyEntity(a)
      BY <2>1 DEF Init, ForeignEntity, Absent
    <3>2. store[i].tags = {<<"status", "expired">>} /\ store[i].doc.status = "expired"
      BY <3>1 DEF LegacyEntity
    <3> QED BY <3>2 DEF Mirrored, Tagged
  <2>2. \A c \in Calls : WritesMirrored(call[c])
    BY DEF Init, IdleCall, WritesMirrored
  <2> QED BY <2>1, <2>2 DEF MirrorInv
<1>2. Inv /\ MirrorInv /\ [Next]_vars => MirrorInv'
  <2>1. CASE UNCHANGED vars
    BY <2>1 DEF vars, MirrorInv
  <2> QED BY <2>1, MirrorStep, MirrorStart DEF Next
<1>3. MirrorInv => TagMirrorsStatus /\ ClaimerIsAssignee
  BY DEF MirrorInv, Mirrored, TagMirrorsStatus, ClaimerIsAssignee
<1> QED BY <1>1, <1>2, <1>3, InvCorrect, PTL DEF Spec

=============================================================================
