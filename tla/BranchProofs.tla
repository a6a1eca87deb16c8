---------------------------- MODULE BranchProofs ----------------------------
(***************************************************************************)
(* However calls race, the inbox implements Branching.  The document a     *)
(* call has read may be stale when it writes, but it is one that the item  *)
(* has had, so what is written is one legal event after that.              *)
(***************************************************************************)
EXTENDS BranchInbox, EntityProofs

\* The history keeps what is stored, and what calls have read.
Kept ==
  /\ past = [i \in Items |-> past[i]]
  /\ \A i \in Items : Version(store[i]) \in past[i]
  /\ \A c \in Calls : call[c].pc = "write" => Version(call[c].read) \in past[call[c].item]

BranchInv == Inv /\ AbsentHasNoDoc /\ Kept

SameVersion(i) == Version(store'[i]) = Version(store[i])

\* Item i becomes its past version base with event evt more.
Branched(i, base, evt) ==
  /\ i \notin Foreign /\ evt \in Events /\ base \in past[i]
  /\ \A j \in Items \ {i} : SameVersion(j)
  /\ Version(store'[i]).log = Append(base.log, evt)
  /\ \/ /\ evt.type = "ItemCreated"
        /\ Version(store[i]).status = "none" /\ base.status = "none"
        /\ Version(store'[i]).status = "open"
     \/ /\ evt.type \in {"ItemClaimed", "ItemReleased", "ItemClosed"}
        /\ base.status \in StatusBefore[evt.type]
        /\ Version(store'[i]).status = StatusAfter[evt.type]
     \/ /\ evt.type \in NoteEvents
        /\ base.status # "none" /\ Version(store'[i]).status = base.status

LEMMA BranchInitInv == BranchInit => BranchInv
<1> SUFFICES ASSUME BranchInit PROVE AbsentHasNoDoc /\ Kept
  BY InitInv DEF BranchInit, BranchInv
<1>1. AbsentHasNoDoc
  BY DEF BranchInit, Init, AbsentHasNoDoc, ForeignEntity, LegacyEntity, Absent
<1>2. \A c \in Calls : call[c].pc = "idle"
  BY DEF BranchInit, Init, IdleCall
<1>3. past = [i \in Items |-> {Version(store[i])}]
  BY DEF BranchInit
<1> QED BY <1>1, <1>2, <1>3 DEF Kept

\* What a call goes on with it has read just now, or before.
LEMMA KeptStays ==
  ASSUME Inv, Kept, Remember, NEW c \in Calls, NEW j \in Items, NEW evt, Moves(c, j, evt)
  PROVE  Kept'
<1>1. call \in [Calls -> CallStates]
  BY DEF Inv, TypeOK
<1>2. \A i \in Items : past[i] \subseteq past'[i] /\ Version(store'[i]) \in past'[i]
  BY DEF Remember
<1>3. past' = [i \in Items |-> past'[i]]
  BY DEF Remember
<1>4. ASSUME NEW d \in Calls, call'[d].pc = "write"
      PROVE  Version(call'[d].read) \in past'[call'[d].item]
  <2>1. CASE d = c
    <3>1. PICK k : call' = [call EXCEPT ![c] = k] /\ (k.pc # "idle" => Carries(k, j, evt))
      BY DEF Moves
    <3>2. call'[d] = k
      BY <1>1, <2>1, <3>1
    <3>3. k.item = j /\ k.read.doc = store[j].doc
      BY <1>4, <3>1, <3>2 DEF Carries
    <3>4. Version(k.read) = Version(store[j])
      BY <3>3 DEF Version
    <3> QED BY <1>2, <3>2, <3>3, <3>4 DEF Kept
  <2>2. CASE d # c
    <3>1. call'[d] = call[d]
      BY <1>1, <2>2 DEF Moves
    <3>2. call[d].item \in Items
      BY <1>4, <3>1 DEF Inv, TypeOK, Idle
    <3> QED BY <1>2, <1>4, <3>1, <3>2 DEF Kept
  <2> QED BY <2>1, <2>2
<1>5. ASSUME NEW i \in Items PROVE Version(store[i])' \in past'[i]
  BY <1>2 DEF Version
<1>6. ASSUME NEW d \in Calls, call'[d].pc = "write"
      PROVE  Version(call[d].read)' \in past'[call'[d].item]
  BY <1>4, <1>6 DEF Version
<1> QED BY <1>3, <1>5, <1>6 DEF Kept

LEMMA BranchStep ==
  ASSUME BranchInv, NEW c \in Calls, Step(c), Remember
  PROVE  /\ BranchInv'
         /\ \/ \A j \in Items : SameVersion(j)
            \/ \E i \in Items, evt \in Events : \E base \in past[i] : Branched(i, base, evt)
<1> DEFINE k == call[c]
           i == k.item
           base == Version(k.read)
<1>1. PICK e : Leaves(i, e) /\ (Retagged(i, e) \/ Rewritten(k, e))
  BY StepEntity DEF BranchInv
<1>2. /\ i \in Items /\ Moves(c, i, k.evt) /\ k.pc # "idle"
      /\ store \in [Items -> Entities]
      /\ k.evt \in Events /\ k.read.doc \in Docs /\ CallGood(k)
  BY StepEntity, StepEffect DEF BranchInv, Inv, TypeOK, CallStates, Idle
<1>3. \A l \in Items \ {i} : SameVersion(l)
  BY <1>1, <1>2 DEF Leaves, SameVersion
<1>4. k.pc = "write" => base \in past[i]
  BY DEF BranchInv, Kept
<1>5. Kept' /\ Inv'
  BY <1>2, KeptStays, StepInv DEF BranchInv
<1>6. base.status = k.read.doc.status /\ base.log = k.read.doc.events
  BY DEF Version
<1> HIDE DEF i, k, base
<1>7. CASE Retagged(i, e)
  <2>1. SameVersion(i)
    BY <1>1, <1>2, <1>7 DEF Leaves, Retagged, SameVersion, Version
  <2>2. AbsentHasNoDoc'
    BY <1>1, <1>2, <1>7, AbsentStays DEF Retagged, BranchInv
  <2> QED BY <1>3, <1>5, <2>1, <2>2 DEF BranchInv
<1>8. CASE Rewritten(k, e)
  <2>1. AbsentHasNoDoc'
    BY <1>1, <1>2, <1>8, AbsentStays DEF Rewritten, BranchInv
  <2>2. store'[i] = store[i] \/ store'[i].doc = Written(k)
    BY <1>1, <1>2, <1>8 DEF Leaves, Rewritten
  <2>3. ASSUME store'[i].doc = Written(k) PROVE Branched(i, base, k.evt)
    <3>1. k.pc = "write" /\ store[i].kind = "inbox" /\ GoodDoc(i, k.read.doc)
      BY <1>2, <1>8 DEF Rewritten, CallGood, i
    <3>2. i \notin Foreign
      BY <1>2, <3>1 DEF BranchInv, Inv, StoreGood
    <3>3. base.status # "none" /\ base \in past[i]
      BY <1>2, <1>4, <1>6, <3>1, HasStatus
    <3>4. /\ Version(store'[i]).log = Written(k).events
          /\ Version(store'[i]).status = Written(k).status
      BY <2>3 DEF Version
    <3>5. CASE k.op \in Transitions
      <4>1. /\ k.evt.type \in {"ItemClaimed", "ItemReleased", "ItemClosed"}
            /\ k.read.doc.status \in StatusBefore[k.evt.type]
            /\ ToStatus[k.op] = StatusAfter[k.evt.type]
        BY <1>2, <3>1, <3>5 DEF CallGood
      <4>2. /\ Written(k).events = Append(k.read.doc.events, k.evt)
            /\ Written(k).status = ToStatus[k.op]
        BY <1>2, <3>5 DEF Written, Appended, Docs
      <4> QED BY <1>2, <1>3, <1>6, <3>2, <3>3, <3>4, <4>1, <4>2 DEF Branched
    <3>6. CASE k.op \notin Transitions
      <4>1. k.evt.type \in NoteEvents
        BY <1>2, <3>1, <3>6 DEF CallGood
      <4>2. /\ Written(k).events = Append(k.read.doc.events, k.evt)
            /\ Written(k).status = k.read.doc.status
        BY <1>2, <3>6 DEF Written, Appended, Docs
      <4> QED BY <1>2, <1>3, <1>6, <3>2, <3>3, <3>4, <4>1, <4>2 DEF Branched
    <3> QED BY <3>5, <3>6
  <2>4. CASE store'[i] = store[i]
    BY <1>3, <1>5, <2>1, <2>4 DEF SameVersion, BranchInv
  <2>5. CASE store'[i].doc = Written(k)
    <3>1. Branched(i, base, k.evt) /\ base \in past[i]
      BY <2>3, <2>5 DEF Branched
    <3> QED BY <1>2, <1>5, <2>1, <3>1 DEF BranchInv
  <2> QED BY <2>2, <2>4, <2>5
<1> QED BY <1>1, <1>7, <1>8

LEMMA BranchStart ==
  ASSUME BranchInv, NEW c \in Calls, NEW i \in Items, NEW a \in Actors, Start(c, i, a), Remember
  PROVE  /\ BranchInv'
         /\ \/ \A j \in Items : SameVersion(j)
            \/ \E evt \in Events : \E base \in past[i] : Branched(i, base, evt)
<1>1. PICK e : /\ Leaves(i, e)
               /\ \/ Retagged(i, e)
                  \/ \E key \in Keys \union {NoKey} : Created(i, e, a, key)
  BY StartEntity DEF BranchInv
<1>2. PICK type : Moves(c, i, Event(type, a))
  BY StartEffect DEF BranchInv, Inv
<1>3. store \in [Items -> Entities]
  BY DEF BranchInv, Inv, TypeOK
<1>4. \A l \in Items \ {i} : SameVersion(l)
  BY <1>1, <1>3 DEF Leaves, SameVersion
<1>5. Kept' /\ Inv'
  BY <1>2, KeptStays, StartInv DEF BranchInv
<1>6. CASE Retagged(i, e)
  <2>1. SameVersion(i)
    BY <1>1, <1>3, <1>6 DEF Leaves, Retagged, SameVersion, Version
  <2>2. AbsentHasNoDoc'
    BY <1>1, <1>6, AbsentStays DEF Retagged, BranchInv
  <2> QED BY <1>4, <1>5, <2>1, <2>2 DEF BranchInv
<1>7. ASSUME NEW key \in Keys \union {NoKey}, Created(i, e, a, key)
      PROVE  /\ AbsentHasNoDoc'
             /\ \/ \A j \in Items : SameVersion(j)
                \/ \E evt \in Events : \E base \in past[i] : Branched(i, base, evt)
  <2> DEFINE base == Version(store[i])
             evt  == Event("ItemCreated", a)
  <2>1. /\ store[i].kind = "absent" /\ e.kind = "inbox"
        /\ e.doc.status = "open" /\ e.doc.events = <<evt>>
    BY <1>7 DEF Created, Fresh
  <2>2. AbsentHasNoDoc'
    BY <1>1, <2>1, AbsentStays DEF BranchInv
  <2>3. base.status = "none" /\ base.log = <<>> /\ i \notin Foreign /\ base \in past[i]
    BY <2>1 DEF BranchInv, AbsentHasNoDoc, NoDoc, Inv, StoreGood, Version, Kept
  <2>4. store'[i] = store[i] \/ store'[i].doc = e.doc
    BY <1>1, <1>3 DEF Leaves
  <2>5. evt \in Events /\ evt.type = "ItemCreated" /\ Append(<<>>, evt) = <<evt>>
    BY DEF Event, Events, EventTypes, LifecycleEvents
  <2>6. ASSUME store'[i].doc = e.doc PROVE Branched(i, base, evt)
    <3>1. Version(store'[i]).log = <<evt>> /\ Version(store'[i]).status = "open"
      BY <2>1, <2>6 DEF Version
    <3> HIDE DEF evt
    <3> QED BY <1>4, <2>3, <2>5, <3>1 DEF Branched
  <2>7. CASE store'[i] = store[i]
    BY <1>4, <2>2, <2>7 DEF SameVersion
  <2> HIDE DEF evt, base
  <2>8. CASE store'[i].doc = e.doc
    BY <2>2, <2>3, <2>5, <2>6, <2>8
  <2> QED BY <2>4, <2>7, <2>8
<1> QED BY <1>1, <1>5, <1>6, <1>7 DEF BranchInv

\* BranchNext lists the actions of Next, and adds the version they leave.
LEMMA BranchNextIsNext == BranchNext => Next /\ Remember
<1>1. ASSUME NEW c \in Calls,
             \/ DoTransition(c) /\ Remember
             \/ ReadForEvent(c) /\ Remember
             \/ AppendEvent(c) /\ Remember
             \/ AddAssignee(c) /\ Remember
      PROVE  Next /\ Remember
  BY <1>1 DEF Next, Step
<1>2. ASSUME NEW c \in Calls, NEW i \in Items, NEW a \in Actors, Remember,
             \/ \E ts \in SUBSET RouteTags, k \in Keys \union {NoKey} : Create(c, i, a, ts, k)
             \/ GetItem(c, i)
             \/ Claim(c, i, a)
             \/ Release(c, i, a)
             \/ Close(c, i, a)
             \/ \E type \in DomainEvents : AddEvent(c, i, a, type)
             \/ Comment(c, i, a)
             \/ \E from, to \in Actors \union {NoActor} : Reassign(c, i, a, from, to)
             \/ \E ts \in SUBSET RouteTags : Tag(c, i, a, ts)
             \/ \E t \in RouteTags : Untag(c, i, a, t)
      PROVE  Next /\ Remember
  <2>1. Start(c, i, a)
    BY <1>2 DEF Start
  <2> QED BY <1>2, <2>1 DEF Next
<1> QED BY <1>1, <1>2 DEF BranchNext

\* One step keeps the invariant and branches one item, or none.

LEMMA BranchAdvances ==
  ASSUME BranchInv, [BranchNext]_branchVars
  PROVE  /\ BranchInv'
         /\ \/ UNCHANGED branchVars
            \/ Remember /\ \A j \in Items : SameVersion(j)
            \/ Remember /\ \E i \in Items, evt \in Events : \E base \in past[i] : Branched(i, base, evt)
<1>1. ASSUME NEW c \in Calls, Step(c), Remember
      PROVE  /\ BranchInv'
             /\ \/ \A j \in Items : SameVersion(j)
                \/ \E i \in Items, evt \in Events : \E base \in past[i] : Branched(i, base, evt)
  BY <1>1, BranchStep
<1>2. ASSUME NEW c \in Calls, NEW i \in Items, NEW a \in Actors, Start(c, i, a), Remember
      PROVE  /\ BranchInv'
             /\ \/ \A j \in Items : SameVersion(j)
                \/ \E l \in Items, evt \in Events : \E base \in past[l] : Branched(l, base, evt)
  BY <1>2, BranchStart
<1>3. CASE UNCHANGED branchVars
  <2>1. Inv'
    BY <1>3 DEF branchVars, BranchInv, Inv, TypeOK, StoreGood, CallGood, GoodDoc, Idle
  <2>2. AbsentHasNoDoc' /\ Kept'
    BY <1>3 DEF branchVars, BranchInv, AbsentHasNoDoc, Kept, Version
  <2> QED BY <1>3, <2>1, <2>2 DEF BranchInv
<1>4. CASE Next /\ Remember
  BY <1>1, <1>2, <1>4 DEF Next
<1> QED BY <1>3, <1>4, BranchNextIsNext

LEMMA BranchCorrect == BranchSpec => []BranchInv
<1>1. BranchInv /\ [BranchNext]_branchVars => BranchInv'
  BY BranchAdvances
<1> QED BY <1>1, BranchInitInv, PTL DEF BranchSpec

-----------------------------------------------------------------------------
(* The refinement *)

\* A branched item makes a step of Branching.
LEMMA BranchIsMove ==
  ASSUME BranchInv, Remember, NEW i \in Items, NEW base, NEW evt \in Events,
         Branched(i, base, evt)
  PROVE  Branches!Next
<1> DEFINE version == [j \in Items |-> Version(store[j])]
           after   == [j \in Items |-> Version(store'[j])]
           a       == evt.actor
<1>1. a \in Actors /\ i \in Items \ Foreign /\ base \in past[i]
      /\ evt = [type |-> evt.type, actor |-> a]
  BY DEF Events, Branched
<1>2. version' = after
  BY DEF Version
<1>3. version[i].status = Version(store[i]).status
  OBVIOUS
<1>4. PICK s : s = Version(store'[i]).status
  OBVIOUS
<1>5. Version(store'[i]) = [status |-> s, log |-> Append(base.log, evt)]
  <2>1. Version(store'[i]).log = Append(base.log, evt)
    BY DEF Branched
  <2>2. PICK v : v = Version(store'[i])
    OBVIOUS
  <2>3. v = [status |-> v.status, log |-> v.log]
    BY <2>2 DEF Version
  <2> QED BY <1>4, <2>1, <2>2, <2>3
<1>6. /\ after = [version EXCEPT ![i] = [status |-> s, log |-> Append(base.log, evt)]]
      /\ past' = [past EXCEPT ![i] = @ \union {[status |-> s, log |-> Append(base.log, evt)]}]
  <2>1. PICK new : new = [status |-> s, log |-> Append(base.log, evt)]
    OBVIOUS
  <2>2. ASSUME NEW j \in Items PROVE Version(store'[j]) = IF j = i THEN new ELSE Version(store[j])
    BY <1>5, <2>1 DEF Branched, SameVersion
  <2>3. after = [version EXCEPT ![i] = new]
    BY <2>2
  <2>4. past' = [j \in Items |-> past[j] \union {Version(store'[j])}]
    BY DEF Remember
  <2>5. \A j \in Items : Version(store[j]) \in past[j]
    BY DEF BranchInv, Kept
  <2>6. \A j \in Items : past'[j] = IF j = i THEN past[i] \union {new} ELSE past[j]
    BY <2>2, <2>4, <2>5
  <2>7. past' = [past EXCEPT ![i] = past[i] \union {new}]
    BY <2>4, <2>6 DEF BranchInv, Kept
  <2> QED BY <2>1, <2>3, <2>7
<1>7. Branches!Branch(i, base, s, evt)
  BY <1>2, <1>6 DEF Branches!Branch
<1> HIDE DEF version, after
<1>8. ASSUME NEW before, base.status \in before PROVE Branches!Move(i, before, s, evt)
  BY <1>1, <1>7, <1>8 DEF Branches!Move
<1>9. CASE /\ evt.type = "ItemCreated" /\ Version(store[i]).status = "none"
           /\ base.status = "none" /\ Version(store'[i]).status = "open"
  <2>1. evt = Branches!By("ItemCreated", a) /\ s = "open"
    BY <1>1, <1>4, <1>9 DEF Branches!By
  <2>2. Branches!Move(i, {"none"}, "open", Branches!By("ItemCreated", a))
    BY <1>8, <1>9, <2>1
  <2>3. Branches!Create(i, a)
    BY <1>3, <1>9, <2>2 DEF Branches!Create, version
  <2> QED BY <1>1, <2>3 DEF Branches!Next
<1>10. CASE /\ evt.type \in {"ItemClaimed", "ItemReleased", "ItemClosed"}
            /\ base.status \in StatusBefore[evt.type]
            /\ Version(store'[i]).status = StatusAfter[evt.type]
  <2>1. CASE evt.type = "ItemClaimed"
    <3>1. evt = Branches!By("ItemClaimed", a) /\ s = "claimed" /\ base.status \in {"open"}
      BY <1>1, <1>4, <1>10, <2>1 DEF Branches!By, StatusBefore, StatusAfter
    <3>2. Branches!Claim(i, a)
      BY <1>8, <3>1 DEF Branches!Claim
    <3> QED BY <1>1, <3>2 DEF Branches!Next
  <2>2. CASE evt.type = "ItemReleased"
    <3>1. evt = Branches!By("ItemReleased", a) /\ s = "open" /\ base.status \in {"claimed"}
      BY <1>1, <1>4, <1>10, <2>2 DEF Branches!By, StatusBefore, StatusAfter
    <3>2. Branches!Release(i, a)
      BY <1>8, <3>1 DEF Branches!Release
    <3> QED BY <1>1, <3>2 DEF Branches!Next
  <2>3. CASE evt.type = "ItemClosed"
    <3>1. /\ evt = Branches!By("ItemClosed", a) /\ s = "closed"
          /\ base.status \in {"open", "claimed"}
      BY <1>1, <1>4, <1>10, <2>3 DEF Branches!By, StatusBefore, StatusAfter
    <3>2. Branches!Close(i, a)
      BY <1>8, <3>1 DEF Branches!Close
    <3> QED BY <1>1, <3>2 DEF Branches!Next
  <2> QED BY <1>10, <2>1, <2>2, <2>3
<1>11. CASE /\ evt.type \in NoteEvents
            /\ base.status # "none" /\ Version(store'[i]).status = base.status
  <2>1. evt = Branches!By(evt.type, a) /\ s = base.status
    BY <1>1, <1>4, <1>11 DEF Branches!By
  <2>2. Branches!Note(i, a)
    BY <1>1, <1>7, <1>11, <2>1 DEF Branches!Note
  <2> QED BY <1>1, <2>2 DEF Branches!Next
<1> QED BY <1>9, <1>10, <1>11 DEF Branched

\* However many calls race, and whichever store calls fail or lose their
\* answer, an item is one legal event after a version it has had: a stale
\* write may take back what was written since, and nothing worse
\* (lifecycle.go:63-97, events.go:21-37, create.go:60-75).
THEOREM BranchImplements == BranchSpec => ImplementsBranching
<1>1. BranchInit => Branches!Init
  <2> SUFFICES ASSUME BranchInit PROVE Branches!Init
    OBVIOUS
  <2>1. PICK a \in Actors :
          store = [i \in Items |-> CASE i \in Foreign -> ForeignEntity
                                     [] i \in Legacy  -> LegacyEntity(a)
                                     [] OTHER         -> Absent]
    BY DEF BranchInit, Init
  <2>2. ASSUME NEW i \in Items
        PROVE  Version(store[i]) =
                 IF i \in Legacy
                 THEN [status |-> "expired", log |-> <<[type |-> "ItemCreated", actor |-> a]>>]
                 ELSE [status |-> "none", log |-> <<>>]
    BY <2>1, ItemsAssumption
       DEF ForeignEntity, LegacyEntity, Absent, NoDoc, Event, Version
  <2>3. past = [i \in Items |-> {Version(store[i])}]
    BY DEF BranchInit
  <2> QED BY <2>2, <2>3 DEF Branches!Init, Branches!By, Branches!NoVersion
<1>2. BranchInv /\ [BranchNext]_branchVars =>
        [Branches!Next]_<<[i \in Items |-> Version(store[i])], past>>
  <2> SUFFICES ASSUME BranchInv, [BranchNext]_branchVars
               PROVE  [Branches!Next]_<<[i \in Items |-> Version(store[i])], past>>
    OBVIOUS
  <2>1. CASE UNCHANGED branchVars
    BY <2>1 DEF branchVars
  <2>2. CASE Remember /\ \A j \in Items : SameVersion(j)
    <3>1. [i \in Items |-> Version(store[i])]' = [i \in Items |-> Version(store[i])]
      BY <2>2 DEF SameVersion, Version
    <3>2. past' = past
      BY <2>2 DEF SameVersion, Remember, BranchInv, Kept
    <3> QED BY <3>1, <3>2
  <2>3. ASSUME Remember, NEW i \in Items, NEW base, NEW evt \in Events, Branched(i, base, evt)
        PROVE  Branches!Next
    BY <2>3, BranchIsMove
  <2> QED BY <2>1, <2>2, <2>3, BranchAdvances
<1> QED BY <1>1, <1>2, BranchCorrect, PTL DEF BranchSpec, ImplementsBranching, Branches!Spec

=============================================================================
