---------------------------- MODULE SerialProofs ----------------------------
(***************************************************************************)
(* When no two calls on one item overlap, the inbox implements Lifecycle:  *)
(* the document a call has read is then still the stored one when it       *)
(* writes, so that its read, its check and its write act as one step.      *)
(***************************************************************************)
EXTENDS SerialInbox, EntityProofs

\* What a call has read is what is stored.
Current ==
  \A c \in Calls : call[c].pc = "write" => call[c].read.doc = store[call[c].item].doc

SerialInv == Inv /\ Serial /\ Current /\ AbsentHasNoDoc

Same(i) == store'[i].doc = store[i].doc

\* Item i is written: evt is appended to its log, and the status is moved on
\* as evt has it.
Advanced(i, evt) ==
  /\ i \notin Foreign /\ evt \in Events
  /\ \A j \in Items \ {i} : Same(j)
  /\ store'[i].doc.events = Append(store[i].doc.events, evt)
  /\ \/ /\ evt.type = "ItemCreated"
        /\ store[i].doc.status = "none" /\ store'[i].doc.status = "open"
     \/ /\ evt.type \in {"ItemClaimed", "ItemReleased", "ItemClosed"}
        /\ store[i].doc.status \in StatusBefore[evt.type]
        /\ store'[i].doc.status = StatusAfter[evt.type]
     \/ /\ evt.type \in NoteEvents
        /\ store[i].doc.status # "none" /\ store'[i].doc.status = store[i].doc.status

\* The calls of others are on other items than the one that is written.
LEMMA CurrentStays ==
  ASSUME SerialInv, NEW c \in Calls, NEW i \in Items, NEW j \in Items, NEW evt,
         Moves(c, j, evt),
         \A l \in Items \ {i} : Same(l),
         Same(i) \/ (/\ call'[c].pc = "idle"
                     /\ \A d \in Calls \ {c} : call[d].pc = "write" => call[d].item # i)
  PROVE  Current'
<1>1. call \in [Calls -> CallStates]
  BY DEF SerialInv, Inv, TypeOK
<1> SUFFICES ASSUME NEW d \in Calls, call'[d].pc = "write"
             PROVE  call'[d].read.doc = store'[call'[d].item].doc
  BY DEF Current
<1>2. CASE d = c
  <2>1. PICK k : call' = [call EXCEPT ![c] = k] /\ (k.pc # "idle" => Carries(k, j, evt))
    BY DEF Moves
  <2>2. call'[d] = k
    BY <1>1, <1>2, <2>1
  <2>3. k.item = j /\ k.read.doc = store[j].doc
    BY <2>1, <2>2 DEF Carries
  <2>4. Same(j)
    BY <1>2
  <2> QED BY <2>2, <2>3, <2>4 DEF Same
<1>3. CASE d # c
  <2>1. call'[d] = call[d]
    BY <1>1, <1>3 DEF Moves
  <2>2. call[d].item \in Items /\ call[d].read.doc = store[call[d].item].doc
    BY <2>1 DEF SerialInv, Inv, TypeOK, Idle, Current
  <2>3. Same(call[d].item)
    BY <1>3, <2>1, <2>2
  <2> QED BY <2>1, <2>2, <2>3 DEF Same
<1> QED BY <1>2, <1>3

LEMMA SerialStep ==
  ASSUME SerialInv, NEW c \in Calls, Step(c)
  PROVE  /\ Current' /\ AbsentHasNoDoc'
         /\ (\A j \in Items : Same(j)) \/ \E i \in Items, evt \in Events : Advanced(i, evt)
<1> DEFINE k == call[c]
           i == k.item
<1>1. PICK e : /\ Leaves(i, e)
               /\ Retagged(i, e) \/ (Rewritten(k, e) /\ call'[c].pc = "idle")
  BY StepEntity DEF SerialInv
<1>2. /\ i \in Items /\ Moves(c, i, k.evt) /\ k.pc # "idle"
      /\ store \in [Items -> Entities]
      /\ k.evt \in Events /\ k.read.doc \in Docs /\ CallGood(k)
  BY StepEntity, StepEffect DEF SerialInv, Inv, TypeOK, CallStates, Idle
<1>3. \A d \in Calls \ {c} : call[d].pc # "idle" => call[d].item # i
  BY <1>2 DEF SerialInv, Serial, Idle
<1>4. \A l \in Items \ {i} : Same(l)
  BY <1>1, <1>2 DEF Leaves, Same
<1>5. k.pc = "write" => k.read.doc = store[i].doc
  BY DEF SerialInv, Current
<1> HIDE DEF i, k
<1>6. CASE Retagged(i, e)
  <2>1. Same(i)
    BY <1>1, <1>2, <1>6 DEF Leaves, Retagged, Same
  <2>2. Current'
    BY <1>2, <1>4, <2>1, CurrentStays
  <2>3. AbsentHasNoDoc'
    BY <1>1, <1>2, <1>6, AbsentStays DEF SerialInv, Retagged
  <2> QED BY <1>4, <2>1, <2>2, <2>3
<1>7. CASE Rewritten(k, e) /\ call'[c].pc = "idle"
  <2>1. Current'
    BY <1>2, <1>3, <1>4, <1>7, CurrentStays
  <2>2. AbsentHasNoDoc'
    BY <1>1, <1>2, <1>7, AbsentStays DEF SerialInv, Rewritten
  <2>3. store'[i].doc = store[i].doc \/ store'[i].doc = Written(k)
    BY <1>1, <1>2, <1>7 DEF Leaves, Rewritten
  <2>4. ASSUME store'[i].doc = Written(k) PROVE Advanced(i, k.evt)
    <3>1. k.pc = "write" /\ store[i].kind = "inbox" /\ GoodDoc(i, k.read.doc)
      BY <1>2, <1>7 DEF Rewritten, CallGood, i
    <3>2. i \notin Foreign
      BY <1>2, <3>1 DEF SerialInv, Inv, StoreGood
    <3>3. k.read.doc = store[i].doc /\ k.read.doc.status # "none"
      BY <1>2, <1>5, <3>1, HasStatus
    <3>4. CASE k.op \in Transitions
      <4>1. /\ k.evt.type \in {"ItemClaimed", "ItemReleased", "ItemClosed"}
            /\ k.read.doc.status \in StatusBefore[k.evt.type]
            /\ ToStatus[k.op] = StatusAfter[k.evt.type]
        BY <1>2, <3>1, <3>4 DEF CallGood
      <4>2. /\ Written(k).events = Append(k.read.doc.events, k.evt)
            /\ Written(k).status = ToStatus[k.op]
        BY <1>2, <3>4 DEF Written, Appended, Docs
      <4> QED BY <1>2, <1>4, <2>4, <3>2, <3>3, <4>1, <4>2 DEF Advanced
    <3>5. CASE k.op \notin Transitions
      <4>1. k.evt.type \in NoteEvents
        BY <1>2, <3>1, <3>5 DEF CallGood
      <4>2. /\ Written(k).events = Append(k.read.doc.events, k.evt)
            /\ Written(k).status = k.read.doc.status
        BY <1>2, <3>5 DEF Written, Appended, Docs
      <4> QED BY <1>2, <1>4, <2>4, <3>2, <3>3, <4>1, <4>2 DEF Advanced
    <3> QED BY <3>4, <3>5
  <2> QED BY <1>2, <1>4, <2>1, <2>2, <2>3, <2>4 DEF Same
<1> QED BY <1>1, <1>6, <1>7

LEMMA SerialStart ==
  ASSUME SerialInv, NEW c \in Calls, NEW i \in Items, NEW a \in Actors, Start(c, i, a)
  PROVE  /\ Current' /\ AbsentHasNoDoc'
         /\ (\A j \in Items : Same(j)) \/ \E evt \in Events : Advanced(i, evt)
<1>1. PICK e : /\ Leaves(i, e)
               /\ \/ Retagged(i, e)
                  \/ /\ \E key \in Keys \union {NoKey} : Created(i, e, a, key)
                     /\ call'[c].pc = "idle"
  BY StartEntity DEF SerialInv
<1>2. PICK type : Moves(c, i, Event(type, a))
  BY StartEffect DEF SerialInv, Inv
<1>3. store \in [Items -> Entities]
  BY DEF SerialInv, Inv, TypeOK
<1>4. \A l \in Items \ {i} : Same(l)
  BY <1>1, <1>3 DEF Leaves, Same
<1>5. CASE Retagged(i, e)
  <2>1. Same(i)
    BY <1>1, <1>3, <1>5 DEF Leaves, Retagged, Same
  <2>2. Current'
    BY <1>2, <1>4, <2>1, CurrentStays
  <2>3. AbsentHasNoDoc'
    BY <1>1, <1>5, AbsentStays DEF SerialInv, Retagged
  <2> QED BY <1>4, <2>1, <2>2, <2>3
<1>6. ASSUME NEW key \in Keys \union {NoKey}, Created(i, e, a, key), call'[c].pc = "idle"
      PROVE  /\ Current' /\ AbsentHasNoDoc'
             /\ (\A j \in Items : Same(j)) \/ \E evt \in Events : Advanced(i, evt)
  <2>1. /\ store[i].kind = "absent" /\ e.kind = "inbox"
        /\ e.doc.status = "open" /\ e.doc.events = <<Event("ItemCreated", a)>>
        /\ \A d \in Calls : call[d].pc # "idle" => call[d].item # i
    BY <1>6 DEF Created, Fresh, Idle
  <2>2. Current'
    BY <1>2, <1>4, <1>6, <2>1, CurrentStays
  <2>3. AbsentHasNoDoc'
    BY <1>1, <2>1, AbsentStays DEF SerialInv
  <2>4. store[i].doc.status = "none" /\ store[i].doc.events = <<>> /\ i \notin Foreign
    BY <2>1 DEF SerialInv, AbsentHasNoDoc, NoDoc, Inv, StoreGood
  <2>5. store'[i].doc = store[i].doc \/ store'[i].doc = e.doc
    BY <1>1, <1>3 DEF Leaves
  <2>6. ASSUME store'[i].doc = e.doc PROVE Advanced(i, Event("ItemCreated", a))
    <3>1. /\ Event("ItemCreated", a) \in Events
          /\ Event("ItemCreated", a).type = "ItemCreated"
      BY DEF Event, Events, EventTypes, LifecycleEvents
    <3>2. Append(<<>>, Event("ItemCreated", a)) = <<Event("ItemCreated", a)>>
      OBVIOUS
    <3> QED BY <1>4, <2>1, <2>4, <2>6, <3>1, <3>2 DEF Advanced
  <2>7. Event("ItemCreated", a) \in Events
    BY DEF Event, Events, EventTypes, LifecycleEvents
  <2> QED BY <1>4, <2>2, <2>3, <2>5, <2>6, <2>7 DEF Same
<1> QED BY <1>1, <1>5, <1>6

\* One step of the inbox keeps the invariant and advances one item, or none.
LEMMA SerialAdvances ==
  ASSUME SerialInv, [SerialNext]_vars
  PROVE  /\ SerialInv'
         /\ (\A j \in Items : Same(j)) \/ \E i \in Items, evt \in Events : Advanced(i, evt)
<1>1. ASSUME NEW c \in Calls, Step(c), Serial'
      PROVE  /\ SerialInv'
             /\ (\A j \in Items : Same(j)) \/ \E i \in Items, evt \in Events : Advanced(i, evt)
  BY <1>1, StepInv, SerialStep DEF SerialInv
<1>2. ASSUME NEW c \in Calls, NEW i \in Items, NEW a \in Actors, Start(c, i, a), Serial'
      PROVE  /\ SerialInv'
             /\ (\A j \in Items : Same(j)) \/ \E l \in Items, evt \in Events : Advanced(l, evt)
  BY <1>2, StartInv, SerialStart DEF SerialInv
<1>3. CASE UNCHANGED vars
  <2>1. \A j \in Items : Same(j)
    BY <1>3 DEF vars, Same
  <2>2. Inv'
    BY <1>3 DEF vars, SerialInv, Inv, TypeOK, StoreGood, CallGood, GoodDoc, Idle
  <2>3. Serial' /\ Current' /\ AbsentHasNoDoc'
    BY <1>3 DEF vars, SerialInv, Serial, Current, AbsentHasNoDoc, Idle
  <2> QED BY <2>1, <2>2, <2>3 DEF SerialInv
<1> QED BY <1>1, <1>2, <1>3 DEF SerialNext, Next

LEMMA SerialInit == Init => SerialInv
<1> SUFFICES ASSUME Init PROVE Serial /\ Current /\ AbsentHasNoDoc
  BY InitInv DEF SerialInv
<1>1. \A c \in Calls : call[c].pc = "idle"
  BY DEF Init, IdleCall
<1>2. AbsentHasNoDoc
  BY DEF Init, AbsentHasNoDoc, ForeignEntity, LegacyEntity, Absent
<1> QED BY <1>1, <1>2 DEF Serial, Current, Idle

LEMMA SerialCorrect == SerialSpec => []SerialInv
<1>1. SerialInv /\ [SerialNext]_vars => SerialInv'
  BY SerialAdvances
<1> QED BY <1>1, SerialInit, PTL DEF SerialSpec

-----------------------------------------------------------------------------
(* Theorems *)

\* An advance is a step of the abstract life of one item.
LEMMA AdvanceIsMove ==
  ASSUME SerialInv, NEW i \in Items, NEW evt \in Events, Advanced(i, evt)
  PROVE  Life!Next
<1> DEFINE status == [j \in Items |-> store[j].doc.status]
           log    == [j \in Items |-> store[j].doc.events]
           a      == evt.actor
           Moved(before, after, e) ==
             /\ status[i] \in before
             /\ status' = [status EXCEPT ![i] = after]
             /\ log' = [log EXCEPT ![i] = Append(@, e)]
<1>1. a \in Actors /\ i \in Items \ Foreign
  BY DEF Events, Advanced
<1>2. evt = [type |-> evt.type, actor |-> a]
  BY DEF Events
<1>3. log' = [log EXCEPT ![i] = Append(log[i], evt)]
  BY DEF Advanced, Same
<1>4. ASSUME NEW after, store'[i].doc.status = after
      PROVE  status' = [status EXCEPT ![i] = after]
  BY <1>4 DEF Advanced, Same
<1>5. status[i] = store[i].doc.status
  OBVIOUS
<1>6. ASSUME NEW before, NEW after, store[i].doc.status \in before, store'[i].doc.status = after
      PROVE  Moved(before, after, [type |-> evt.type, actor |-> a])
  BY <1>2, <1>3, <1>4, <1>5, <1>6
<1> HIDE DEF Moved
<1>7. CASE evt.type = "ItemCreated" /\ store[i].doc.status = "none"
           /\ store'[i].doc.status = "open"
  <2>1. Moved({"none"}, "open", [type |-> "ItemCreated", actor |-> a])
    BY <1>6, <1>7
  <2>2. Life!Create(i, a)
    BY <2>1 DEF Moved, Life!Create, Life!Move, Life!By
  <2> QED BY <1>1, <2>2 DEF Life!Next
<1>8. CASE /\ evt.type \in {"ItemClaimed", "ItemReleased", "ItemClosed"}
           /\ store[i].doc.status \in StatusBefore[evt.type]
           /\ store'[i].doc.status = StatusAfter[evt.type]
  <2>1. CASE evt.type = "ItemClaimed"
    <3>1. Moved({"open"}, "claimed", [type |-> "ItemClaimed", actor |-> a])
      BY <1>6, <1>8, <2>1 DEF StatusBefore, StatusAfter
    <3>2. Life!Claim(i, a)
      BY <3>1 DEF Moved, Life!Claim, Life!Move, Life!By
    <3> QED BY <1>1, <3>2 DEF Life!Next
  <2>2. CASE evt.type = "ItemReleased"
    <3>1. Moved({"claimed"}, "open", [type |-> "ItemReleased", actor |-> a])
      BY <1>6, <1>8, <2>2 DEF StatusBefore, StatusAfter
    <3>2. Life!Release(i, a)
      BY <3>1 DEF Moved, Life!Release, Life!Move, Life!By
    <3> QED BY <1>1, <3>2 DEF Life!Next
  <2>3. CASE evt.type = "ItemClosed"
    <3>1. Moved({"open", "claimed"}, "closed", [type |-> "ItemClosed", actor |-> a])
      BY <1>6, <1>8, <2>3 DEF StatusBefore, StatusAfter
    <3>2. Life!Close(i, a)
      BY <3>1 DEF Moved, Life!Close, Life!Move, Life!By
    <3> QED BY <1>1, <3>2 DEF Life!Next
  <2> QED BY <1>8, <2>1, <2>2, <2>3
<1>9. CASE /\ evt.type \in NoteEvents
           /\ store[i].doc.status # "none" /\ store'[i].doc.status = store[i].doc.status
  <2>1. status[i] # "none" /\ status' = status
    BY <1>4, <1>5, <1>9
  <2>2. log' = [log EXCEPT ![i] = Append(@, [type |-> evt.type, actor |-> a])]
    BY <1>2, <1>3
  <2>3. Life!Note(i, a)
    BY <1>9, <2>1, <2>2 DEF Life!Note, Life!By
  <2> QED BY <1>1, <2>3 DEF Life!Next
<1> QED BY <1>7, <1>8, <1>9 DEF Advanced

\* When calls on one item do not overlap, whatever store calls fail, the
\* inbox implements the life an item has in Lifecycle: open, claimed, open
\* and so on until closed, in atomic steps (lifecycle.go, events.go,
\* create.go).
THEOREM SerialImplements == SerialSpec => ImplementsLifecycle
<1>1. Init => Life!Init
  <2> SUFFICES ASSUME Init PROVE Life!Init
    OBVIOUS
  <2>1. PICK a \in Actors :
          store = [i \in Items |-> CASE i \in Foreign -> ForeignEntity
                                     [] i \in Legacy  -> LegacyEntity(a)
                                     [] OTHER         -> Absent]
    BY DEF Init
  <2>2. ASSUME NEW i \in Items
        PROVE  /\ store[i].doc.status = IF i \in Legacy THEN "expired" ELSE "none"
               /\ store[i].doc.events =
                    IF i \in Legacy THEN <<[type |-> "ItemCreated", actor |-> a]>> ELSE <<>>
    BY <2>1, ItemsAssumption DEF ForeignEntity, LegacyEntity, Absent, NoDoc, Event
  <2> QED BY <2>2 DEF Life!Init, Life!By
<1>2. SerialInv /\ [SerialNext]_vars =>
        [Life!Next]_<<[i \in Items |-> store[i].doc.status], [i \in Items |-> store[i].doc.events]>>
  <2> SUFFICES ASSUME SerialInv, [SerialNext]_vars
               PROVE  [Life!Next]_<<[i \in Items |-> store[i].doc.status],
                                   [i \in Items |-> store[i].doc.events]>>
    OBVIOUS
  <2>1. CASE \A j \in Items : Same(j)
    BY <2>1 DEF Same
  <2>2. CASE \E i \in Items, evt \in Events : Advanced(i, evt)
    BY <2>2, AdvanceIsMove
  <2> QED BY <2>1, <2>2, SerialAdvances
<1> QED BY <1>1, <1>2, SerialCorrect, PTL DEF SerialSpec, ImplementsLifecycle, Life!Spec

\* Then no event is ever modified or lost, also when answers are
\* (item.proto:103-104).
THEOREM SerialAppends == SerialSpec => EventsAppendOnly
<1>1. SerialInv /\ [SerialNext]_vars =>
        [\A i \in Items :
           LET old == store[i].doc.events
               new == store'[i].doc.events
           IN Len(old) <= Len(new) /\ \A k \in DOMAIN old : new[k] = old[k]]_vars
  <2> SUFFICES ASSUME SerialInv, [SerialNext]_vars, NEW i \in Items
               PROVE  /\ Len(store[i].doc.events) <= Len(store'[i].doc.events)
                      /\ \A k \in DOMAIN store[i].doc.events :
                           store'[i].doc.events[k] = store[i].doc.events[k]
    OBVIOUS
  <2>1. store[i].doc.events \in Seq(Events)
    BY DEF SerialInv, Inv, TypeOK, Entities, Docs
  <2>2. CASE store'[i].doc = store[i].doc
    BY <2>1, <2>2
  <2>3. ASSUME NEW evt \in Events,
               store'[i].doc.events = Append(store[i].doc.events, evt)
        PROVE  /\ Len(store[i].doc.events) <= Len(store'[i].doc.events)
               /\ \A k \in DOMAIN store[i].doc.events :
                    store'[i].doc.events[k] = store[i].doc.events[k]
    <3>1. \A k \in 1..Len(store[i].doc.events) :
            Append(store[i].doc.events, evt)[k] = store[i].doc.events[k]
      BY <2>1
    <3>2. Len(Append(store[i].doc.events, evt)) = Len(store[i].doc.events) + 1
      BY <2>1
    <3>3. DOMAIN store[i].doc.events = 1..Len(store[i].doc.events)
          /\ Len(store[i].doc.events) \in Nat
      BY <2>1
    <3> QED BY <2>3, <3>1, <3>2, <3>3
  <2> QED BY <2>2, <2>3, SerialAdvances DEF Advanced, Same
<1> QED BY <1>1, SerialCorrect, PTL DEF SerialSpec, EventsAppendOnly

\* And a closed item stays closed (README.md:66, lifecycle.go:52).
THEOREM SerialClosed == SerialSpec => ClosedIsFinal
<1>1. SerialInv /\ [SerialNext]_vars =>
        [\A i \in Items :
           store[i].doc.status = "closed" => store'[i].doc.status = "closed"]_vars
  <2> SUFFICES ASSUME SerialInv, [SerialNext]_vars, NEW i \in Items,
                      store[i].doc.status = "closed"
               PROVE  store'[i].doc.status = "closed"
    OBVIOUS
  <2>1. \/ store'[i].doc = store[i].doc
        \/ \E evt \in Events : Advanced(i, evt)
    BY SerialAdvances DEF Advanced, Same
  <2>2. ASSUME NEW evt \in Events, Advanced(i, evt) PROVE store'[i].doc.status = "closed"
    BY <2>2 DEF Advanced, StatusBefore
  <2> QED BY <2>1, <2>2
<1> QED BY <1>1, SerialCorrect, PTL DEF SerialSpec, ClosedIsFinal

\* And, as long as no caller uses the status key itself, the status tag that
\* the lists go by is the status of the document (lifecycle.go:81-85 and
\* events.go:29 write what goes together).
THEOREM SerialMirrors ==
  ASSUME RoutesOnly PROVE SerialSpec => []TagMirrorsStatus
<1> DEFINE Mirrors(e) == e.kind = "inbox" => StatusTags(e) = {<<"status", e.doc.status>>}
<1>1. Init => TagMirrorsStatus
  <2> SUFFICES ASSUME Init, NEW i \in Items, store[i].kind = "inbox"
               PROVE  Tagged(store[i].tags, "status") = {<<"status", store[i].doc.status>>}
    BY DEF TagMirrorsStatus
  <2>1. PICK a \in Actors : store[i] = LegacyEntity(a)
    BY DEF Init, ForeignEntity, Absent
  <2>2. store[i].tags = {<<"status", "expired">>} /\ store[i].doc.status = "expired"
    BY <2>1 DEF LegacyEntity
  <2> QED BY <2>2 DEF Tagged
<1>2. SerialInv /\ TagMirrorsStatus /\ [SerialNext]_vars => TagMirrorsStatus'
  <2> SUFFICES ASSUME SerialInv, TagMirrorsStatus, [SerialNext]_vars PROVE TagMirrorsStatus'
    OBVIOUS
  <2>1. ASSUME NEW i \in Items, NEW e, Leaves(i, e), Mirrors(e) PROVE TagMirrorsStatus'
    <3>1. store \in [Items -> Entities]
      BY DEF SerialInv, Inv, TypeOK
    <3> QED BY <2>1, <3>1 DEF Leaves, TagMirrorsStatus, StatusTags
  <2>2. ASSUME NEW i \in Items, NEW e, Retagged(i, e) PROVE Mirrors(e)
    BY <2>2 DEF Retagged, TagMirrorsStatus, StatusTags
  <2>3. ASSUME NEW c \in Calls, Step(c) PROVE TagMirrorsStatus'
    <3> DEFINE k == call[c]
    <3>1. PICK e : Leaves(k.item, e) /\ (Retagged(k.item, e) \/ Rewritten(k, e))
      BY <2>3, StepEntity DEF SerialInv
    <3>2. k.item \in Items /\ k.read.doc \in Docs
      BY <2>3, StepEntity DEF SerialInv, Inv, TypeOK, CallStates
    <3>3. k.pc = "write" => k.read.doc = store[k.item].doc
      BY DEF SerialInv, Current
    <3>4. Written(k).status = IF k.op \in Transitions THEN ToStatus[k.op] ELSE k.read.doc.status
      BY <3>2 DEF Written, Appended, Docs
    <3> HIDE DEF k
    <3>5. CASE Rewritten(k, e)
      <4>1. store[k.item].kind = "inbox" /\ e.doc = Written(k) /\ k.pc = "write"
        BY <3>5 DEF Rewritten
      <4>2. StatusTags(store[k.item]) = {<<"status", k.read.doc.status>>}
        BY <3>2, <3>3, <4>1 DEF TagMirrorsStatus, StatusTags
      <4>3. StatusTags(e) = {<<"status", e.doc.status>>}
        BY <3>4, <3>5, <4>1, <4>2 DEF Rewritten
      <4> QED BY <2>1, <3>1, <3>2, <4>3
    <3> QED BY <2>1, <2>2, <3>1, <3>2, <3>5
  <2>4. ASSUME NEW c \in Calls, NEW i \in Items, NEW a \in Actors, Start(c, i, a)
        PROVE  TagMirrorsStatus'
    <3>1. PICK e : /\ Leaves(i, e)
                   /\ \/ Retagged(i, e)
                      \/ /\ \E key \in Keys \union {NoKey} : Created(i, e, a, key)
                         /\ StatusTags(e) = {<<"status", "open">>}
      BY <2>4, StartEntity DEF SerialInv
    <3>2. Mirrors(e)
      <4>1. CASE Retagged(i, e)
        BY <2>2, <4>1
      <4>2. ASSUME NEW key, Created(i, e, a, key), StatusTags(e) = {<<"status", "open">>}
            PROVE  Mirrors(e)
        <5>1. e.doc.status = "open"
          BY <4>2 DEF Created
        <5> QED BY <4>2, <5>1
      <4> QED BY <3>1, <4>1, <4>2
    <3> QED BY <2>1, <3>1, <3>2
  <2>5. CASE UNCHANGED vars
    BY <2>5 DEF vars, TagMirrorsStatus
  <2> QED BY <2>3, <2>4, <2>5 DEF SerialNext, Next
<1> QED BY <1>1, <1>2, SerialCorrect, PTL DEF SerialSpec

-----------------------------------------------------------------------------
(* Claims *)

\* Call k ended with the answer that its actor has claimed the item.
Told(k) == k.op = "claim" /\ k.res = "ok"

HasClaim(log) == \E j \in DOMAIN log : log[j].type = "ItemClaimed"

Released(log) ==
  \E j, k \in DOMAIN log : j < k /\ log[j].type = "ItemClaimed" /\ log[k].type = "ItemReleased"

\* The claim of who was told so is in the log, and he has the item, or
\* somebody released it or ended it since.
ClaimsStand ==
  \A c \in Calls : Told(call[c]) =>
    /\ call[c].item \in Items
    /\ HasClaim(store[call[c].item].doc.events)
    /\ \/ store[call[c].item].doc.status \notin {"none", "open"}
       \/ Released(store[call[c].item].doc.events)

\* Only the acknowledged write of a Claim tells its caller so.
LEMMA ReturnTells ==
  ASSUME NEW c \in Calls, NEW op, NEW i, NEW res, op # "claim" \/ res # "ok",
         call \in [Calls -> CallStates], Return(c, op, i, res)
  PROVE  ~Told(call'[c])
  BY DEF Return, IdleCall, Told

LEMMA GetTells ==
  ASSUME NEW c \in Calls, NEW op, NEW i, NEW evt, NEW item, NEW allowed, NEW refusal,
         call \in [Calls -> CallStates], refusal # "ok",
         Get(c, op, i, evt, item, allowed, refusal)
  PROVE  ~Told(call'[c])
<1>1. op # "claim" \/ Answer(op, "notFound") # "ok"
  BY DEF Answer
<1>2. CASE \E res : Return(c, op, i, res) /\ (op # "claim" \/ res # "ok")
  BY <1>2, ReturnTells
<1>3. CASE ~\E res : Return(c, op, i, res) /\ (op # "claim" \/ res # "ok")
  <2>1. call'[c] = [IdleCall EXCEPT !.pc = "write", !.op = op, !.item = i, !.evt = evt,
                                    !.to = call[c].to, !.read = item]
    BY <1>1, <1>3 DEF Get
  <2> QED BY <2>1 DEF IdleCall, Told
<1> QED BY <1>2, <1>3

LEMMA ContinueTells ==
  ASSUME NEW c \in Calls, NEW pc, NEW op, NEW i, NEW evt, NEW to,
         call \in [Calls -> CallStates], Continue(c, pc, op, i, evt, to)
  PROVE  ~Told(call'[c])
  BY DEF Continue, IdleCall, Told

LEMMA StartTells ==
  ASSUME call \in [Calls -> CallStates], NEW c \in Calls, NEW i \in Items, NEW a \in Actors,
         Start(c, i, a)
  PROVE  ~Told(call'[c])
<1> SUFFICES ~Told(call'[c])
  OBVIOUS
<1>1. ASSUME NEW ts, NEW k, Create(c, i, a, ts, k) PROVE ~Told(call'[c])
  <2>1. \E res : Return(c, "create", i, res)
    BY <1>1 DEF Create
  <2> QED BY <2>1, ReturnTells
<1>2. CASE GetItem(c, i)
  <2>1. \E res : Return(c, "get", i, res)
    BY <1>2 DEF GetItem
  <2> QED BY <2>1, ReturnTells
<1>3. CASE Claim(c, i, a)
  BY <1>3, ReturnTells, GetTells DEF Claim, Transition
<1>4. CASE Release(c, i, a)
  BY <1>4, GetTells DEF Release
<1>5. CASE Close(c, i, a)
  BY <1>5, GetTells DEF Close
<1>6. ASSUME NEW type, AddEvent(c, i, a, type) PROVE ~Told(call'[c])
  BY <1>6, GetTells DEF AddEvent
<1>7. CASE Comment(c, i, a)
  BY <1>7, GetTells DEF Comment
<1>8. ASSUME NEW from, NEW to, Reassign(c, i, a, from, to) PROVE ~Told(call'[c])
  BY <1>8, ReturnTells, ContinueTells DEF Reassign
<1>9. ASSUME NEW op \in {"tag", "untag"}, NEW e, ChangeTags(c, op, i, a, e)
      PROVE  ~Told(call'[c])
  BY <1>9, ReturnTells, ContinueTells DEF ChangeTags
<1> QED BY <1>1, <1>2, <1>3, <1>4, <1>5, <1>6, <1>7, <1>8, <1>9 DEF Start, Tag, Untag

\* The step appends a claim to the log of item i.
Claims(i) ==
  \E evt \in Events : /\ evt.type = "ItemClaimed"
                      /\ store'[i].doc.events = Append(store[i].doc.events, evt)

LEMMA StepTells ==
  ASSUME SerialInv, NEW c \in Calls, Step(c), Told(call'[c])
  PROVE  /\ call'[c].item = call[c].item /\ call[c].item \in Items
         /\ store[call[c].item].doc.status = "open"
         /\ store'[call[c].item].doc.status = "claimed"
         /\ Claims(call[c].item)
<1> DEFINE k   == call[c]
           i   == k.item
           doc == [Appended(k.read.doc, k.evt) EXCEPT !.status = ToStatus[k.op]]
           e   == TransitionWrite(store[i], doc, Merge(WithStatus(k.read.tags, ToStatus[k.op]),
                                                       ExtraTags(k.op, k.evt)))
<1>1. /\ call \in [Calls -> CallStates] /\ store \in [Items -> Entities]
      /\ k \in CallStates /\ CallGood(k)
      /\ k.pc # "idle" => i \in Items
  BY DEF SerialInv, Inv, TypeOK, Idle
<1>2. ~ReadForEvent(c)
  BY <1>1, GetTells DEF ReadForEvent
<1>3. ~AddAssignee(c)
  BY <1>1, ReturnTells, ContinueTells DEF AddAssignee
<1>4. ~AppendEvent(c)
  <2> SUFFICES ASSUME AppendEvent(c) PROVE FALSE
    OBVIOUS
  <2>1. k.op # "claim" /\ \E res : Return(c, k.op, i, res)
    BY DEF AppendEvent, ToStatus
  <2> QED BY <1>1, <2>1, ReturnTells
<1>5. DoTransition(c)
  BY <1>2, <1>3, <1>4 DEF Step
<1>6. PICK ack \in BOOLEAN : /\ StoreCall(i, e, ack)
                             /\ Return(c, k.op, i, IF ack THEN "ok" ELSE "internal")
  BY <1>5 DEF DoTransition
<1>7. k.op = "claim" /\ call'[c].item = i /\ (IF ack THEN "ok" ELSE "internal") = "ok"
  <2>1. call'[c] = [IdleCall EXCEPT !.op = k.op, !.item = i, !.res = IF ack THEN "ok" ELSE "internal"]
    BY <1>1, <1>6 DEF Return
  <2> HIDE DEF i, k
  <2>2. call'[c].op = k.op /\ call'[c].item = i /\ call'[c].res = IF ack THEN "ok" ELSE "internal"
    BY <2>1 DEF IdleCall
  <2> QED BY <2>2 DEF Told
<1>8. k.pc = "write" /\ i \in Items /\ ToStatus[k.op] = "claimed"
  <2>1. k.pc = "write"
    BY <1>5 DEF DoTransition
  <2>2. ToStatus["claim"] = "claimed"
    BY DEF ToStatus
  <2> HIDE DEF k, i
  <2> QED BY <1>1, <1>7, <2>1, <2>2
<1>9. k.read.doc.status = "open" /\ k.evt.type = "ItemClaimed"
  <2>1. /\ k.evt.type \in {"ItemClaimed", "ItemReleased", "ItemClosed"}
        /\ k.read.doc.status \in StatusBefore[k.evt.type]
        /\ ToStatus[k.op] = StatusAfter[k.evt.type]
    <3> HIDE DEF k, i
    <3>1. k.op \in Transitions
      BY <1>7 DEF Transitions
    <3> QED BY <1>1, <1>8, <3>1 DEF CallGood
  <2> QED BY <1>8, <2>1 DEF StatusBefore, StatusAfter
<1>10. store'[i].doc.status = "claimed" /\ store'[i].doc.events = Append(k.read.doc.events, k.evt)
  <2>1. e.doc = doc /\ store' = [store EXCEPT ![i] = e]
    BY <1>1, <1>6, <1>7, <1>8 DEF StoreCall, TransitionWrite, UpdateAll, Entities
  <2>2. doc.status = "claimed" /\ doc.events = Append(k.read.doc.events, k.evt)
    BY <1>1, <1>8 DEF CallStates, Docs, Appended
  <2> HIDE DEF e, doc
  <2> QED BY <1>1, <1>8, <2>1, <2>2
<1>11. k.read.doc = store[i].doc /\ k.evt \in Events
  BY <1>1, <1>8, <1>9 DEF SerialInv, Current, Inv, TypeOK, Idle
<1> QED BY <1>7, <1>8, <1>9, <1>10, <1>11 DEF Claims

\* A release stays in the log, and nothing else opens what was claimed.
LEMMA ClaimsLast ==
  ASSUME SerialInv, [SerialNext]_vars, NEW i \in Items
  PROVE  /\ HasClaim(store[i].doc.events) => HasClaim(store'[i].doc.events)
         /\ Released(store[i].doc.events) => Released(store'[i].doc.events)
         /\ ReleasedBetweenClaims(store[i].doc.events)
              => ReleasedBetweenClaims(store'[i].doc.events)
         /\ HasClaim(store[i].doc.events) /\ store[i].doc.status \notin {"none", "open"} =>
              \/ store'[i].doc.status \notin {"none", "open"}
              \/ Released(store'[i].doc.events)
<1> DEFINE old == store[i].doc.events
           new == store'[i].doc.events
<1>1. store[i].doc.events \in Seq(Events)
  BY DEF SerialInv, Inv, TypeOK, Entities, Docs
<1>2. Same(i) \/ \E evt \in Events : Advanced(i, evt)
  BY SerialAdvances DEF Advanced
<1>3. CASE Same(i)
  BY <1>3 DEF Same
<1>4. ASSUME NEW evt \in Events, Advanced(i, evt)
      PROVE  /\ HasClaim(old) => HasClaim(new)
             /\ Released(old) => Released(new)
             /\ ReleasedBetweenClaims(old) => ReleasedBetweenClaims(new)
             /\ HasClaim(old) /\ store[i].doc.status \notin {"none", "open"} =>
                  store'[i].doc.status \notin {"none", "open"} \/ Released(new)
  <2>1. /\ DOMAIN old = 1..Len(old) /\ Len(old) \in Nat
        /\ DOMAIN Append(old, evt) = 1..(Len(old) + 1)
        /\ Append(old, evt)[Len(old) + 1] = evt
        /\ \A j \in 1..Len(old) : Append(old, evt)[j] = old[j]
    BY <1>1
  <2>2. new = Append(old, evt)
    BY <1>4 DEF Advanced
  <2>3. store[i].doc.status \notin {"none", "open"} =>
          store'[i].doc.status \notin {"none", "open"} \/ evt.type = "ItemReleased"
    BY <1>4 DEF Advanced, StatusAfter
  <2> HIDE DEF old, new
  <2>4. HasClaim(old) => HasClaim(new)
    BY <2>1, <2>2 DEF HasClaim
  <2>5. Released(old) => Released(new)
    BY <2>1, <2>2 DEF Released
  <2>6. ReleasedBetweenClaims(old) => ReleasedBetweenClaims(new)
    BY <2>1, <2>2 DEF ReleasedBetweenClaims
  <2>7. HasClaim(old) /\ evt.type = "ItemReleased" => Released(new)
    BY <2>1, <2>2 DEF HasClaim, Released
  <2> QED BY <2>3, <2>4, <2>5, <2>6, <2>7
<1> QED BY <1>2, <1>3, <1>4

\* A claim after a release after a claim.
LEMMA ClaimAgain ==
  ASSUME NEW log \in Seq(Events), NEW evt \in Events, evt.type = "ItemClaimed"
  PROVE  /\ HasClaim(Append(log, evt))
         /\ Released(log) => ReleasedBetweenClaims(Append(log, evt))
<1>1. /\ DOMAIN log = 1..Len(log) /\ Len(log) \in Nat
      /\ DOMAIN Append(log, evt) = 1..(Len(log) + 1)
      /\ Append(log, evt)[Len(log) + 1] = evt
      /\ \A j \in 1..Len(log) : Append(log, evt)[j] = log[j]
  OBVIOUS
<1>2. HasClaim(Append(log, evt))
  BY <1>1 DEF HasClaim
<1>3. Released(log) => ReleasedBetweenClaims(Append(log, evt))
  BY <1>1 DEF Released, ReleasedBetweenClaims
<1> QED BY <1>2, <1>3

\* And two callers are told that they claimed an item only if somebody
\* released it between the two claims (lifecycle.go:12-20): what a caller is
\* told stands until then.
THEOREM SerialClaims == SerialSpec => []ClaimIsExclusive
<1>1. Init => ClaimsStand /\ ClaimIsExclusive
  BY DEF Init, IdleCall, ClaimsStand, ClaimIsExclusive, Told
<1>2. SerialInv /\ ClaimsStand /\ ClaimIsExclusive /\ [SerialNext]_vars
        => (ClaimsStand /\ ClaimIsExclusive)'
  <2> SUFFICES ASSUME SerialInv, ClaimsStand, ClaimIsExclusive, [SerialNext]_vars
               PROVE  ClaimsStand' /\ ClaimIsExclusive'
    OBVIOUS
  <2>0. \A i \in Items : store[i].doc.events \in Seq(Events)
    BY DEF SerialInv, Inv, TypeOK, Entities, Docs
  <2>1. ASSUME NEW d \in Calls, Told(call'[d])
        PROVE  \/ call'[d] = call[d]
               \/ /\ call'[d].item = call[d].item /\ call[d].item \in Items
                  /\ store[call[d].item].doc.status = "open"
                  /\ store'[call[d].item].doc.status = "claimed"
                  /\ Claims(call[d].item)
                  /\ \A c \in Calls \ {d} : call'[c] = call[c]
    <3>1. call \in [Calls -> CallStates]
      BY DEF SerialInv, Inv, TypeOK
    <3>2. ASSUME NEW c \in Calls, Step(c)
          PROVE  \A b \in Calls \ {c} : call'[b] = call[b]
      BY <3>1, <3>2, StepEffect DEF SerialInv, Inv, Moves
    <3>3. ASSUME NEW c \in Calls, NEW i \in Items, NEW a \in Actors, Start(c, i, a)
          PROVE  \A b \in Calls \ {c} : call'[b] = call[b]
      BY <3>1, <3>3, StartEffect DEF SerialInv, Inv, Moves
    <3>4. CASE Step(d)
      BY <2>1, <3>2, <3>4, StepTells
    <3>5. CASE \E c \in Calls \ {d} : Step(c)
      BY <3>2, <3>5
    <3>6. CASE \E c \in Calls, i \in Items, a \in Actors : Start(c, i, a)
      BY <2>1, <3>1, <3>3, <3>6, StartTells
    <3>7. CASE UNCHANGED vars
      BY <3>7 DEF vars
    <3> QED BY <3>4, <3>5, <3>6, <3>7 DEF SerialNext, Next
  <2>2. ClaimsStand'
    <3> SUFFICES ASSUME NEW d \in Calls, Told(call'[d])
                 PROVE  /\ call'[d].item \in Items
                        /\ HasClaim(store'[call'[d].item].doc.events)
                        /\ \/ store'[call'[d].item].doc.status \notin {"none", "open"}
                           \/ Released(store'[call'[d].item].doc.events)
      BY DEF ClaimsStand, Told, HasClaim, Released
    <3>1. CASE call'[d] = call[d]
      BY <3>1, ClaimsLast DEF ClaimsStand
    <3>2. CASE /\ call'[d].item \in Items /\ store'[call'[d].item].doc.status = "claimed"
               /\ Claims(call'[d].item)
      BY <2>0, <3>2, ClaimAgain DEF Claims
    <3> QED BY <2>1, <3>1, <3>2
  <2>3. ClaimIsExclusive'
    <3> SUFFICES ASSUME NEW c \in Calls, NEW d \in Calls, c # d, call'[c].item = call'[d].item,
                        Told(call'[c]), Told(call'[d])
                 PROVE  ReleasedBetweenClaims(store'[call'[c].item].doc.events)
      BY DEF ClaimIsExclusive, Told, ReleasedBetweenClaims
    <3>1. ASSUME NEW b \in Calls, Told(call[b]), Claims(call[b].item),
                 store[call[b].item].doc.status \in {"none", "open"}
          PROVE  ReleasedBetweenClaims(store'[call[b].item].doc.events)
      <4>1. call[b].item \in Items /\ Released(store[call[b].item].doc.events)
        BY <3>1 DEF ClaimsStand
      <4> QED BY <2>0, <3>1, <4>1, ClaimAgain DEF Claims
    <3>2. CASE call'[c] = call[c] /\ call'[d] = call[d]
      <4>1. call[c].item \in Items
        BY <3>2 DEF ClaimsStand
      <4>2. ReleasedBetweenClaims(store[call[c].item].doc.events)
        BY <3>2 DEF ClaimIsExclusive, Told
      <4> QED BY <3>2, <4>1, <4>2, ClaimsLast
    <3>3. CASE call'[c] # call[c]
      BY <2>1, <3>1, <3>3
    <3>4. CASE call'[d] # call[d]
      BY <2>1, <3>1, <3>4
    <3> QED BY <3>2, <3>3, <3>4
  <2> QED BY <2>2, <2>3
<1> QED BY <1>1, <1>2, SerialCorrect, PTL DEF SerialSpec

=============================================================================
