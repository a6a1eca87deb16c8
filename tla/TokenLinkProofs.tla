-------------------------- MODULE TokenLinkProofs --------------------------
(***************************************************************************)
(* Proofs about TokenLink, for any number of links, callers and items: the *)
(* inbox with links in use is still the inbox, and all that holders of     *)
(* links do is respond.                                                    *)
(***************************************************************************)
EXTENDS TokenLink, InboxProofs

-----------------------------------------------------------------------------
(* Types *)

LEMMA AnswerType ==
  ASSUME LinkTypeOK, link' = link, clock' = clock, NEW c \in Calls,
         posted' \in [Links -> SUBSET Nat], NEW claims \in ClaimSets, NEW answer \in Answers,
         Answered(c, claims, answer)
  PROVE  LinkTypeOK'
  BY DEF LinkTypeOK, Answered

LEMMA NoClaimsType == NoClaims \in ClaimSets
  BY DEF NoClaims, ClaimSets

\* The holder of a link that is not refused is one of the inbox's actors,
\* under his own name and under the one the request is made with.
LEMMA VerifiedType ==
  ASSUME LinkTypeOK, NEW l \in Links, Verify(link[l])
  PROVE  /\ link[l].item \in Items /\ link[l].actor \in Holders
         /\ link[l].actor \in Actors /\ PrincipalOf(link[l].actor) \in Actors
  BY PeopleAssumption DEF LinkTypeOK, ClaimSets, Verify, PrincipalOf

LEMMA LinkTypeStep == LinkTypeOK /\ [LinkNext]_linkVars => LinkTypeOK'
<1> SUFFICES ASSUME LinkTypeOK, [LinkNext]_linkVars PROVE LinkTypeOK'
  OBVIOUS
<1>1. ASSUME NEW l \in Links, NEW i \in Items, NEW a \in Holders \union {NoActor},
             NEW scope \in {"view", "respond"}, NEW expiry \in {0, 1},
             HandOut(l, i, a, scope, expiry)
      PROVE  LinkTypeOK'
  <2>1. Sign(i, a, scope, expiry) \in ClaimSets
    BY DEF Sign, ClaimSets, LinkTypeOK
  <2> QED BY <1>1, <2>1 DEF HandOut, LinkTypeOK
<1>2. ASSUME NEW c \in Calls, NEW l \in Links, handleGet(c, l)
      PROVE  LinkTypeOK'
  <2>1. link[l] \in ClaimSets
    BY DEF LinkTypeOK
  <2>2. PICK answer \in Answers : Answered(c, link[l], answer)
    BY <1>2 DEF handleGet, Page, Form, Answers
  <2>3. posted' \in [Links -> SUBSET Nat]
    BY <1>2 DEF handleGet, LinkTypeOK
  <2> QED BY <1>2, <2>1, <2>2, <2>3, AnswerType DEF handleGet
<1>3. ASSUME NEW c \in Calls, NEW l \in Links, handlePost(c, l)
      PROVE  LinkTypeOK'
  <2>1. link[l] \in ClaimSets
    BY DEF LinkTypeOK
  <2>2. PICK answer \in Answers : Answered(c, link[l], answer)
    BY <1>3 DEF handlePost, Toast, Answers
  <2>3. link' = link /\ clock' = clock /\ posted' \in [Links -> SUBSET Nat]
    BY <1>3 DEF handlePost, LinkTypeOK
  <2> QED BY <2>1, <2>2, <2>3, AnswerType
<1>4. ASSUME NEW c \in Calls, Continues(c)
      PROVE  LinkTypeOK'
  <2>1. CASE UNCHANGED visit
    BY <1>4, <2>1 DEF Continues, LinkTypeOK
  <2>2. CASE Answered(c, visit[c].claims, Toast(call'[c].res))
    <3>1. visit[c].claims \in ClaimSets /\ Toast(call'[c].res) \in Answers
      BY DEF LinkTypeOK, Toast, Answers
    <3>2. link' = link /\ clock' = clock /\ posted' \in [Links -> SUBSET Nat]
      BY <1>4 DEF Continues, LinkTypeOK
    <3> QED BY <2>2, <3>1, <3>2, AnswerType
  <2> QED BY <1>4, <2>1, <2>2 DEF Continues
<1>5. ASSUME NEW c \in Calls, Works(c)
      PROVE  LinkTypeOK'
  <2>1. NoVisit \in [claims : ClaimSets, answer : Answers]
    BY NoClaimsType DEF NoVisit, Answers
  <2> QED BY <1>5, <2>1 DEF Works, LinkTypeOK
<1>6. CASE Tick
  BY <1>6 DEF Tick, LinkTypeOK
<1>7. CASE UNCHANGED linkVars
  BY <1>7 DEF linkVars, LinkTypeOK
<1> QED BY <1>1, <1>2, <1>3, <1>4, <1>5, <1>6, <1>7 DEF LinkNext

\* Links, requests and the clock have their types (handler.go, tokens.go).
THEOREM LinkTypes == LinkSpec => []LinkTypeOK
<1>1. LinkInit => LinkTypeOK
  BY NoClaimsType DEF LinkInit, LinkTypeOK, NoVisit, Answers
<1> QED BY <1>1, LinkTypeStep, PTL DEF LinkSpec

-----------------------------------------------------------------------------
(* Refinement: a request is a call of the inbox, or nothing to it. *)

LEMMA LinkStepsAreSteps == LinkTypeOK /\ [LinkNext]_linkVars => [Next]_vars
<1> SUFFICES ASSUME LinkTypeOK, [LinkNext]_linkVars PROVE [Next]_vars
  OBVIOUS
<1>1. CASE UNCHANGED <<store, call>>
  BY <1>1 DEF vars
<1>2. ASSUME NEW c \in Calls, NEW l \in Links, handleGet(c, l)
      PROVE  [Next]_vars
  <2>1. CASE ~Verify(link[l])
    BY <1>1, <1>2, <2>1 DEF handleGet
  <2>2. CASE Verify(link[l])
    <3>1. link[l].item \in Items /\ link[l].actor \in Actors /\ GetItem(c, link[l].item)
      BY <1>2, <2>2, VerifiedType DEF handleGet
    <3> QED BY <3>1 DEF Next, Start
  <2> QED BY <2>1, <2>2
<1>3. ASSUME NEW c \in Calls, NEW l \in Links, handlePost(c, l)
      PROVE  [Next]_vars
  <2>1. CASE ~(Verify(link[l]) /\ MayRespond(link[l]))
    BY <1>1, <1>3, <2>1 DEF handlePost
  <2>2. CASE Verify(link[l]) /\ MayRespond(link[l])
    <3>1. /\ link[l].item \in Items /\ PrincipalOf(link[l].actor) \in Actors
          /\ Close(c, link[l].item, PrincipalOf(link[l].actor))
      BY <1>3, <2>2, VerifiedType DEF handlePost
    <3> QED BY <3>1 DEF Next, Start
  <2> QED BY <2>1, <2>2
<1>4. ASSUME NEW c \in Calls, Continues(c)
      PROVE  [Next]_vars
  BY <1>4 DEF Continues, Next
<1>5. ASSUME NEW c \in Calls, Works(c)
      PROVE  [Next]_vars
  BY <1>5, PeopleAssumption DEF Works, Next
<1>6. CASE \E l \in Links, i \in Items, a \in Holders \union {NoActor},
              scope \in {"view", "respond"}, expiry \in {0, 1} : HandOut(l, i, a, scope, expiry)
  BY <1>1, <1>6 DEF HandOut
<1> QED BY <1>1, <1>2, <1>3, <1>4, <1>5, <1>6 DEF LinkNext, Tick, linkVars

\* Whatever is done with links, the inbox below them behaves as without them
\* (handler.go:96-110: a submission is one Close under a proper identity).
THEOREM LinksRefine == LinkSpec => ImplementsInbox
<1>1. LinkInit => Init
  BY DEF LinkInit
<1> QED BY <1>1, LinkTypes, LinkStepsAreSteps, PTL DEF LinkSpec, Spec, ImplementsInbox

\* So the histories of items stay legal also with links in use.
COROLLARY LinksKeepHistories == LinkSpec => [](LegalHistories /\ StatusMatchesLog)
BY LinksRefine, HistoriesCorrect DEF ImplementsInbox

-----------------------------------------------------------------------------
(* Holders only respond.  The same is true of the log every call has read   *)
(* and not yet written back, and of the event it will append to it.        *)

LogFine(i, log) == i \notin Legacy => \A n \in DOMAIN log : StaffsOrResponse(i, log[n])

CallFine(k) ==
  k.pc # "idle" =>
    /\ StaffsOrResponse(k.item, k.evt)
    /\ k.pc = "write" => LogFine(k.item, k.read.doc.events)

HoldersInv ==
  /\ LinkTypeOK /\ TypeOK
  /\ \A i \in Items : LogFine(i, store[i].doc.events)
  /\ \A c \in Calls : CallFine(call[c])

\* Handing out another link leaves the ones events refer to, and no time of
\* a submission is forgotten.
LEMMA LinksStay ==
  ASSUME LinkTypeOK, [LinkNext]_linkVars, NEW i, NEW evt, StaffsOrResponse(i, evt)
  PROVE  StaffsOrResponse(i, evt)'
<1>1. ASSUME NEW l \in Links, link[l].actor \in Holders
      PROVE  link'[l] = link[l] /\ posted[l] \subseteq posted'[l]
  <2>1. link[l] # NoClaims
    BY <1>1, PeopleAssumption, ActorsAssumption DEF NoClaims
  <2>2. CASE UNCHANGED <<link, posted>>
    BY <2>2
  <2>3. ASSUME NEW m \in Links, link' = link, posted' = [posted EXCEPT ![m] = @ \union {clock}]
        PROVE  link'[l] = link[l] /\ posted[l] \subseteq posted'[l]
    BY <2>3 DEF LinkTypeOK
  <2>4. ASSUME NEW m \in Links, NEW claims, link[m] = NoClaims,
               link' = [link EXCEPT ![m] = claims], posted' = [posted EXCEPT ![m] = {}]
        PROVE  link'[l] = link[l] /\ posted[l] \subseteq posted'[l]
    BY <2>1, <2>4 DEF LinkTypeOK
  <2> QED BY <2>2, <2>3, <2>4 DEF LinkNext, linkVars, HandOut, handleGet, handlePost,
                                   Continues, Works, Tick
<1>2. ASSUME NEW l \in Links, link[l].actor \in Holders, NEW t \in posted[l], t < link[l].exp
      PROVE  link'[l] = link[l] /\ t \in posted'[l] /\ t < link'[l].exp
  BY <1>1, <1>2
<1> QED BY <1>2 DEF StaffsOrResponse, PrincipalOf

LEMMA FineStays ==
  ASSUME LinkTypeOK, [LinkNext]_linkVars
  PROVE  /\ \A i, log : LogFine(i, log) => LogFine(i, log)'
         /\ \A k : CallFine(k) => CallFine(k)'
  BY LinksStay DEF LogFine, CallFine

\* The staff's events say nothing of links, and a response is what its link
\* allows once the time of its submission is noted.
LEMMA StaffsFine ==
  \A a \in Staff : \A type, i : StaffsOrResponse(i, Event(type, a)) /\ StaffsOrResponse(i, Event(type, a))'
  BY NamesAssumption DEF StaffsOrResponse, Event, PrincipalOf

LEMMA ResponseFine ==
  ASSUME LinkTypeOK, NEW l \in Links, Verify(link[l]), MayRespond(link[l]),
         link' = link, posted' = [posted EXCEPT ![l] = @ \union {clock}],
         NEW i, NEW evt, i = link[l].item,
         evt = Event("ItemClosed", PrincipalOf(link[l].actor))
  PROVE  StaffsOrResponse(i, evt)'
<1>1. clock \in posted'[l] /\ clock < link'[l].exp
  BY DEF LinkTypeOK, Verify
<1>2. link'[l].item = link[l].item /\ link'[l].scope = "respond" /\ link'[l].actor \in Holders
  BY VerifiedType DEF MayRespond
<1> QED BY <1>1, <1>2 DEF StaffsOrResponse, Event, PrincipalOf

LEMMA MovesFine ==
  ASSUME HoldersInv, [LinkNext]_linkVars, NEW c \in Calls, NEW i \in Items, NEW evt,
         StaffsOrResponse(i, evt)', Moves(c, i, evt)
  PROVE  \A d \in Calls : CallFine(call[d])'
<1>1. PICK k : call' = [call EXCEPT ![c] = k] /\ (k.pc # "idle" => Carries(k, i, evt))
  BY DEF Moves
<1>2. CallFine(k)'
  <2>1. ASSUME NEW log, LogFine(i, log) PROVE LogFine(i, log)'
    BY <2>1, FineStays DEF HoldersInv
  <2>2. k.pc = "write" => LogFine(i, k.read.doc.events)
    BY <1>1 DEF Carries, HoldersInv, CallFine
  <2>3. k.pc = "write" => LogFine(i, k.read.doc.events)'
    BY <2>1, <2>2
  <2> QED BY <1>1, <2>3 DEF CallFine, Carries
<1>3. SUFFICES ASSUME NEW d \in Calls PROVE CallFine(call[d])'
  OBVIOUS
<1>4. PICK m : m = call'[d] /\ CallFine(m)'
  <2>1. CASE d = c
    BY <1>1, <1>2, <2>1 DEF HoldersInv, TypeOK
  <2>2. CASE d # c
    <3>1. PICK m : m = call[d] /\ CallFine(m)
      BY DEF HoldersInv
    <3>2. CallFine(m)'
      BY <3>1, FineStays DEF HoldersInv
    <3>3. m = call'[d]
      BY <1>1, <2>2, <3>1 DEF HoldersInv, TypeOK
    <3> QED BY <3>2, <3>3
  <2> QED BY <2>1, <2>2
<1> QED BY <1>4 DEF CallFine, LogFine, StaffsOrResponse

\* A log that is fine, or stays, is fine afterwards.
LEMMA LogsFine ==
  ASSUME HoldersInv, [LinkNext]_linkVars,
         \A i \in Items : \/ store'[i].doc.events = store[i].doc.events
                         \/ LogFine(i, store'[i].doc.events)
  PROVE  \A i \in Items : LogFine(i, store[i].doc.events)'
<1> SUFFICES ASSUME NEW i \in Items PROVE LogFine(i, store[i].doc.events)'
  OBVIOUS
<1>1. PICK log : log = store'[i].doc.events /\ LogFine(i, log)
  BY DEF HoldersInv
<1>2. LogFine(i, log)'
  BY <1>1, FineStays DEF HoldersInv
<1> QED BY <1>1, <1>2 DEF LogFine, StaffsOrResponse

LEMMA HoldersStep == HoldersInv /\ [LinkNext]_linkVars => HoldersInv'
<1> SUFFICES ASSUME HoldersInv, [LinkNext]_linkVars PROVE HoldersInv'
  OBVIOUS
<1>1. LinkTypeOK' /\ TypeOK'
  <2>1. [Next]_vars
    BY LinkStepsAreSteps DEF HoldersInv
  <2>2. TypeOK'
    BY <2>1, StepType, StartType DEF HoldersInv, Next, vars, TypeOK, Idle
  <2> QED BY <2>2, LinkTypeStep DEF HoldersInv
<1>2. CASE UNCHANGED <<store, call>>
  <2>1. \A d \in Calls : CallFine(call[d])'
    <3> SUFFICES ASSUME NEW d \in Calls PROVE CallFine(call[d])'
      OBVIOUS
    <3>1. PICK m : m = call[d] /\ CallFine(m)
      BY DEF HoldersInv
    <3>2. CallFine(m)'
      BY <3>1, FineStays DEF HoldersInv
    <3> QED BY <1>2, <3>1, <3>2 DEF CallFine, LogFine, StaffsOrResponse
  <2> QED BY <1>1, <1>2, <2>1, LogsFine DEF HoldersInv
<1>3. ASSUME NEW c \in Calls, NEW i \in Items, NEW a \in Staff, Start(c, i, a)
      PROVE  HoldersInv'
  <2>1. a \in Actors
    BY PeopleAssumption
  <2>2. PICK type : Moves(c, i, Event(type, a))
    BY <1>3, <2>1, StartEffect DEF HoldersInv
  <2>3. LogFine(i, <<Event("ItemCreated", a)>>)
    BY StaffsFine DEF LogFine
  <2>4. \A j \in Items : \/ store'[j].doc.events = store[j].doc.events
                        \/ LogFine(j, store'[j].doc.events)
    BY <1>3, <2>1, <2>3, StartEffect DEF HoldersInv
  <2> QED BY <1>1, <2>2, <2>4, StaffsFine, MovesFine, LogsFine DEF HoldersInv
<1>4. ASSUME NEW c \in Calls, NEW l \in Links, handlePost(c, l)
      PROVE  HoldersInv'
  <2>1. CASE ~(Verify(link[l]) /\ MayRespond(link[l]))
    BY <1>2, <1>4, <2>1 DEF handlePost
  <2>2. CASE Verify(link[l]) /\ MayRespond(link[l])
    <3> DEFINE i == link[l].item
               evt == Event("ItemClosed", PrincipalOf(link[l].actor))
    <3>1. i \in Items /\ Close(c, i, PrincipalOf(link[l].actor))
      BY <1>4, <2>2, VerifiedType DEF HoldersInv, handlePost
    <3>2. PICK j, e : j = i /\ e = evt /\ StaffsOrResponse(j, e)'
      <4>1. link' = link /\ posted' = [posted EXCEPT ![l] = @ \union {clock}]
        BY <1>4 DEF handlePost
      <4>2. PICK j, e : j = i /\ e = evt
        OBVIOUS
      <4>3. StaffsOrResponse(j, e)'
        BY <2>2, <4>1, <4>2, ResponseFine DEF HoldersInv
      <4> QED BY <4>2, <4>3
    <3>3. ItemOf(store[i]).doc = store[i].doc
      BY DEF ItemOf
    <3>4. store' = store /\ Moves(c, i, evt)
      BY <3>1, <3>3, GetEffect DEF Close
    <3> HIDE DEF i, evt
    <3> QED BY <1>1, <3>1, <3>2, <3>4, MovesFine, LogsFine DEF HoldersInv
  <2> QED BY <2>1, <2>2
<1>5. ASSUME NEW c \in Calls, NEW l \in Links, handleGet(c, l)
      PROVE  HoldersInv'
  <2>1. CASE ~Verify(link[l])
    BY <1>2, <1>5, <2>1 DEF handleGet
  <2>2. CASE Verify(link[l])
    <3>1. store' = store /\ \E res : Return(c, "get", link[l].item, res)
      BY <1>5, <2>2 DEF handleGet, GetItem
    <3>2. \A i, evt : Moves(c, i, evt)
      BY <3>1, ReturnEffect
    <3>3. \A i : StaffsOrResponse(i, NoEvent)'
      BY PeopleAssumption, ActorsAssumption DEF StaffsOrResponse, NoEvent, Event, PrincipalOf
    <3> QED BY <1>1, <2>2, <3>1, <3>2, <3>3, VerifiedType, MovesFine, LogsFine DEF HoldersInv
  <2> QED BY <2>1, <2>2
<1>6. ASSUME NEW c \in Calls, Step(c)
      PROVE  HoldersInv'
  <2> DEFINE i == call[c].item
             evt == call[c].evt
             log == call[c].read.doc.events
  <2>1. /\ i \in Items /\ evt \in Events /\ log \in Seq(Events)
        /\ StaffsOrResponse(i, evt) /\ (call[c].pc = "write" => LogFine(i, log))
    BY <1>6, StepEffect DEF HoldersInv, TypeOK, CallFine, Idle, CallStates, Docs
  <2>2. call[c].pc = "write" => LogFine(i, Append(log, evt))
    BY <2>1 DEF LogFine
  <2>3. \A j \in Items : \/ store'[j].doc.events = store[j].doc.events
                        \/ LogFine(j, store'[j].doc.events)
    BY <1>6, <2>2, StepEffect DEF HoldersInv
  <2>4. Moves(c, i, evt)
    BY <1>6, StepEffect DEF HoldersInv
  <2>5. \A j, e : StaffsOrResponse(j, e) => StaffsOrResponse(j, e)'
    BY LinksStay DEF HoldersInv
  <2>6. PICK j, e : j \in Items /\ j = i /\ e = evt /\ StaffsOrResponse(j, e)' /\ Moves(c, j, e)
    BY <2>1, <2>4, <2>5
  <2> HIDE DEF i, evt, log
  <2> QED BY <1>1, <2>3, <2>6, MovesFine, LogsFine DEF HoldersInv
<1> QED BY <1>2, <1>3, <1>4, <1>5, <1>6
        DEF LinkNext, linkVars, HandOut, Continues, Works, Tick

\* All a holder of links ever does to an item is close it with a respond
\* link for it (handler.go:91-94, 96-110), whatever the staff does at the
\* same time and however calls overlap.
THEOREM HoldersCorrect == LinkSpec => []HoldersOnlyRespond
<1>1. LinkInit => HoldersInv
  <2> SUFFICES ASSUME LinkInit PROVE HoldersInv
    OBVIOUS
  <2>1. LinkTypeOK /\ TypeOK
    BY InitType, NoClaimsType DEF LinkInit, LinkTypeOK, NoVisit, Answers
  <2>2. \A c \in Calls : CallFine(call[c])
    BY DEF LinkInit, Init, CallFine, IdleCall
  <2>3. ASSUME NEW i \in Items \ Legacy PROVE store[i].doc.events = <<>>
    BY <2>3 DEF LinkInit, Init, ForeignEntity, Absent, NoDoc
  <2>4. \A i \in Items : LogFine(i, store[i].doc.events)
    BY <2>3 DEF LogFine
  <2> QED BY <2>1, <2>2, <2>4 DEF HoldersInv
<1>2. HoldersInv => HoldersOnlyRespond
  BY DEF HoldersInv, LogFine, HoldersOnlyRespond
<1> QED BY <1>1, <1>2, HoldersStep, PTL DEF LinkSpec

-----------------------------------------------------------------------------
(* What "submitted" means *)

\* A submission that has no answer yet is a Close of its link's item, about
\* to write.
Responds(c) ==
  visit[c].answer = "pending" =>
    call[c].pc = "write" /\ call[c].op = "close" /\ call[c].item = visit[c].claims.item

PendingInv == LinkTypeOK /\ TypeOK /\ \A c \in Calls : Responds(c)

\* Caller c is told that its response was submitted when its item is closed.
ToldRight(c) ==
  visit[c].answer # "submitted" /\ visit'[c].answer = "submitted"
    => IsTerminal(store'[visit'[c].claims.item].doc.status)

LEMMA AnsweredKeeps ==
  ASSUME LinkTypeOK, NEW c \in Calls, NEW claims, NEW answer, Answered(c, claims, answer)
  PROVE  /\ visit'[c].claims = claims /\ visit'[c].answer = answer
         /\ \A d \in Calls : d # c => visit'[d] = visit[d]
<1>1. visit' = [visit EXCEPT ![c] = [claims |-> claims, answer |-> answer]]
  BY DEF Answered
<1> QED BY <1>1 DEF LinkTypeOK

\* A Close reads an item that is open, or is refused for one that is closed.
LEMMA CloseStarts ==
  ASSUME TypeOK, NEW c \in Calls, NEW i \in Items, NEW a, Close(c, i, a)
  PROVE  /\ store' = store /\ \A d \in Calls : d # c => call'[d] = call[d]
         /\ \/ call'[c].pc = "idle" /\ call'[c].res = "notFound"
            \/ /\ call'[c].pc = "idle" /\ call'[c].res = "terminal"
               /\ IsTerminal(store[i].doc.status)
            \/ call'[c].pc = "write" /\ call'[c].op = "close" /\ call'[c].item = i
<1>1. Get(c, "close", i, Event("ItemClosed", a), ItemOf(store[i]),
          ~IsTerminal(store[i].doc.status), "terminal")
  BY DEF Close
<1>2. store' = store
  BY <1>1 DEF Get
<1>3. ASSUME NEW res, Return(c, "close", i, res)
      PROVE  /\ call'[c].pc = "idle" /\ call'[c].res = res
             /\ \A d \in Calls : d # c => call'[d] = call[d]
  BY <1>3 DEF Return, IdleCall, TypeOK
<1>4. CASE Return(c, "close", i, Answer("close", "notFound"))
  BY <1>2, <1>3, <1>4 DEF Answer
<1>5. CASE IsTerminal(store[i].doc.status) /\ Return(c, "close", i, "terminal")
  BY <1>2, <1>3, <1>5
<1>6. CASE call' = [call EXCEPT ![c] =
             [IdleCall EXCEPT !.pc = "write", !.op = "close", !.item = i,
                              !.evt = Event("ItemClosed", a), !.to = call[c].to,
                              !.read = ItemOf(store[i])]]
  BY <1>2, <1>6 DEF IdleCall, TypeOK
<1> QED BY <1>1, <1>4, <1>5, <1>6 DEF Get

\* The Close that writes returns, and with success only what it has closed.
LEMMA CloseWrites ==
  ASSUME TypeOK, NEW c \in Calls, Step(c), call[c].pc = "write", call[c].op = "close"
  PROVE  /\ call'[c].pc = "idle"
         /\ \/ call'[c].res = "internal"
            \/ call'[c].res = "ok" /\ store'[call[c].item].doc.status = "closed"
<1> DEFINE k    == call[c]
           doc  == [Appended(k.read.doc, k.evt) EXCEPT !.status = "closed"]
           tags == Merge(WithStatus(k.read.tags, "closed"), ExtraTags("close", k.evt))
           e    == TransitionWrite(store[k.item], doc, tags)
<1>1. k.item \in Items /\ k.read.doc \in Docs /\ k.evt \in Events /\ store[k.item] \in Entities
  BY DEF TypeOK, Idle, CallStates
<1>2. DoTransition(c)
  BY DEF Step, ReadForEvent, AddAssignee, AppendEvent, ToStatus
<1>3. PICK ack \in BOOLEAN : /\ StoreCall(k.item, e, ack)
                             /\ Return(c, "close", k.item, IF ack THEN "ok" ELSE "internal")
  BY <1>2 DEF DoTransition, ToStatus
<1>4. e.doc.status = "closed"
  <2>1. Appended(k.read.doc, k.evt) \in Docs
    BY <1>1, AppendedType
  <2>2. doc.status = "closed"
    BY <2>1 DEF Docs
  <2> HIDE DEF doc
  <2> QED BY <1>1, <2>2 DEF TransitionWrite, UpdateAll, Entities
<1> HIDE DEF e
<1>5. call'[c].pc = "idle" /\ call'[c].res = IF ack THEN "ok" ELSE "internal"
  BY <1>3 DEF Return, IdleCall, TypeOK
<1>6. ack => store'[k.item].doc.status = "closed"
  BY <1>1, <1>3, <1>4 DEF StoreCall, TypeOK
<1> QED BY <1>5, <1>6

LEMMA PendingStep ==
  ASSUME PendingInv, [LinkNext]_linkVars, NEW c \in Calls
  PROVE  Responds(c)' /\ ToldRight(c)
<1> DEFINE Told == Responds(c)' /\ ToldRight(c)
<1> SUFFICES Told
  OBVIOUS
<1>0. LinkTypeOK /\ TypeOK /\ Responds(c) /\ \A d \in Calls : Responds(d)
  BY DEF PendingInv
<1>1. CASE visit'[c] = visit[c] /\ call'[c] = call[c]
  BY <1>0, <1>1 DEF Responds, ToldRight
<1>2. CASE UNCHANGED <<call, visit>>
  BY <1>1, <1>2
<1>3. ASSUME NEW d \in Calls, NEW claims, NEW answer \in Answers \ {"pending", "submitted"},
             Answered(d, claims, answer), d # c => call'[c] = call[c]
      PROVE  Told
  <2>1. CASE d = c
    BY <1>0, <1>3, <2>1, AnsweredKeeps DEF Responds, ToldRight
  <2>2. CASE d # c
    BY <1>0, <1>1, <1>3, <2>2, AnsweredKeeps
  <2> QED BY <2>1, <2>2
<1>4. ASSUME NEW d \in Calls, NEW l \in Links, handleGet(d, l) PROVE Told
  <2>1. PICK answer \in Answers \ {"pending", "submitted"} : Answered(d, link[l], answer)
    BY <1>4 DEF handleGet, Page, Form, Answers
  <2>2. d # c => call'[c] = call[c]
    BY <1>0, <1>4 DEF handleGet, GetItem, Return, TypeOK
  <2> QED BY <1>3, <2>1, <2>2
<1>5. ASSUME NEW d \in Calls, NEW l \in Links, handlePost(d, l) PROVE Told
  <2>1. CASE call' = call /\ \E answer \in {"forbidden", "viewOnly"} : Answered(d, link[l], answer)
    BY <1>3, <2>1 DEF Answers
  <2>2. CASE /\ Verify(link[l]) /\ Close(d, link[l].item, PrincipalOf(link[l].actor))
             /\ Answered(d, link[l],
                         IF call'[d].pc = "idle" THEN Toast(call'[d].res) ELSE "pending")
    <3>1. link[l].item \in Items
      BY <1>0, <2>2, VerifiedType
    <3>2. CASE d # c
      <4>1. call'[c] = call[c]
        BY <1>0, <2>2, <3>1, <3>2, CloseStarts
      <4>2. visit'[c] = visit[c]
        BY <1>0, <2>2, <3>2, AnsweredKeeps
      <4> QED BY <1>1, <4>1, <4>2
    <3>3. CASE d = c
      <4>1. /\ visit'[c].claims = link[l]
            /\ visit'[c].answer = IF call'[c].pc = "idle" THEN Toast(call'[c].res) ELSE "pending"
        BY <1>0, <2>2, <3>3, AnsweredKeeps
      <4> DEFINE i == link[l].item
      <4>2. /\ store' = store
            /\ \/ call'[c].pc = "idle" /\ call'[c].res = "notFound"
               \/ call'[c].pc = "idle" /\ call'[c].res = "terminal" /\ IsTerminal(store[i].doc.status)
               \/ call'[c].pc = "write" /\ call'[c].op = "close" /\ call'[c].item = i
        BY <1>0, <2>2, <3>1, <3>3, CloseStarts
      <4>3. Responds(c)'
        BY <4>1, <4>2 DEF Responds, Toast
      <4>4. ToldRight(c)
        BY <4>1, <4>2 DEF ToldRight, Toast
      <4> QED BY <4>3, <4>4
    <3> QED BY <3>2, <3>3
  <2> QED BY <1>5, <2>1, <2>2 DEF handlePost
<1>6. ASSUME NEW d \in Calls, Continues(d) PROVE Told
  <2>1. PICK k : call' = [call EXCEPT ![d] = k]
    BY <1>0, <1>6, StepEffect DEF Continues, Moves
  <2>2. CASE d # c
    <3>1. call'[c] = call[c]
      BY <1>0, <2>1, <2>2 DEF TypeOK
    <3>2. visit'[c] = visit[c]
      BY <1>0, <1>6, <2>2, AnsweredKeeps DEF Continues
    <3> QED BY <1>1, <3>1, <3>2
  <2>3. CASE d = c /\ visit[c].answer = "pending"
    <3>1. /\ call'[c].pc = "idle"
          /\ call'[c].res = "internal" \/
             (call'[c].res = "ok" /\ store'[call[c].item].doc.status = "closed")
      BY <1>0, <1>6, <2>3, CloseWrites DEF Continues, Responds
    <3>2. visit'[c].claims = visit[c].claims /\ visit'[c].answer = Toast(call'[c].res)
      BY <1>0, <1>6, <2>3, <3>1, AnsweredKeeps DEF Continues
    <3>3. call[c].item = visit[c].claims.item
      BY <1>0, <2>3 DEF Responds
    <3>4. Responds(c)'
      BY <3>2 DEF Responds, Toast
    <3>5. ToldRight(c)
      BY <3>1, <3>2, <3>3 DEF ToldRight, Toast, IsTerminal
    <3> QED BY <3>4, <3>5
  <2>4. CASE d = c /\ visit[c].answer # "pending"
    <3>1. visit' = visit
      BY <1>6, <2>4 DEF Continues
    <3> QED BY <2>4, <3>1 DEF Responds, ToldRight
  <2> QED BY <2>2, <2>3, <2>4
<1>7. ASSUME NEW d \in Calls, Works(d) PROVE Told
  <2>1. PICK i \in Items, a \in Staff : Start(d, i, a)
    BY <1>7 DEF Works
  <2>2. a \in Actors
    BY PeopleAssumption
  <2>3. PICK k : call' = [call EXCEPT ![d] = k]
    BY <1>0, <2>1, <2>2, StartEffect DEF Moves
  <2>4. d # c => call'[c] = call[c]
    BY <1>0, <2>3 DEF TypeOK
  <2>5. Answered(d, NoClaims, "none")
    BY <1>7 DEF Works, Answered, NoVisit
  <2> QED BY <1>3, <2>4, <2>5 DEF Answers
<1>8. CASE Tick \/ UNCHANGED linkVars \/ \E l, i, a, scope, expiry : HandOut(l, i, a, scope, expiry)
  BY <1>2, <1>8 DEF Tick, linkVars, HandOut
<1> HIDE DEF Told
<1> QED BY <1>4, <1>5, <1>6, <1>7, <1>8 DEF LinkNext

\* Whoever is told that his response was submitted finds his item closed, for
\* any number of links, holders and callers and any store failures
\* (handler.go:110-117).
THEOREM SubmissionsCorrect == LinkSpec => SubmittedIsClosed
<1>1. LinkInit => PendingInv
  <2> SUFFICES ASSUME LinkInit PROVE PendingInv
    OBVIOUS
  <2>1. LinkTypeOK /\ TypeOK
    BY InitType, NoClaimsType DEF LinkInit, LinkTypeOK, NoVisit, Answers
  <2> QED BY <2>1 DEF LinkInit, PendingInv, Responds, NoVisit
<1>2. PendingInv /\ [LinkNext]_linkVars => PendingInv'
  <2> SUFFICES ASSUME PendingInv, [LinkNext]_linkVars PROVE PendingInv'
    OBVIOUS
  <2>1. LinkTypeOK' /\ TypeOK'
    <3>1. LinkTypeOK' /\ [Next]_vars
      BY LinkTypeStep, LinkStepsAreSteps DEF PendingInv
    <3>2. TypeOK'
      BY <3>1, StepType, StartType DEF PendingInv, Next, vars, TypeOK, Idle
    <3> QED BY <3>1, <3>2
  <2>2. \A c \in Calls : Responds(c)'
    BY PendingStep
  <2> QED BY <2>1, <2>2 DEF PendingInv
<1>3. PendingInv /\ [LinkNext]_linkVars => [\A c \in Calls : ToldRight(c)]_linkVars
  BY PendingStep
<1> QED BY <1>1, <1>2, <1>3, PTL DEF LinkSpec, SubmittedIsClosed, ToldRight

=============================================================================
