--------------------------- MODULE BrowserProofs ---------------------------
(***************************************************************************)
(* Proofs about the service and the pages, for any number of browsers,     *)
(* connections and RPC clients.                                            *)
(*                                                                         *)
(* Every step of the pages is a step of the inbox or leaves it alone, so   *)
(* what InboxProofs shows of the store holds under the pages too.  What    *)
(* the pages show then follows from what the answers under way hold.       *)
(***************************************************************************)
EXTENDS Browser, InboxProofs

-----------------------------------------------------------------------------
(* The service implements the inbox *)

LEMMA RpcIsStart ==
  ASSUME NEW c \in Calls, NEW id \in Identities \union {NoIdentity}, NEW i \in Items,
         Rpc(c, id, i)
  PROVE  UNCHANGED vars \/ (Accepts(id) /\ ActorOf(id) \in Actors /\ Start(c, i, ActorOf(id)))
<1>1. CASE InvalidArgument(c, id)
  BY <1>1 DEF InvalidArgument
<1>2. CASE ~InvalidArgument(c, id)
  <2>1. Accepts(id)
    BY <1>2 DEF Rpc, CreateItem, ReadItem, ClaimItem, ReleaseItem, CloseItem, ReassignItem,
                CommentOnItem, AddEventTo, TagItem, UntagItem, Handled
  <2>2. ActorOf(id) \in Actors
    BY <2>1, IdentitiesAssumption DEF Accepts
  <2>3. Start(c, i, ActorOf(id))
    BY <1>2 DEF Rpc, CreateItem, ReadItem, ClaimItem, ReleaseItem, CloseItem, ReassignItem,
                CommentOnItem, AddEventTo, TagItem, UntagItem, Start
  <2> QED BY <2>1, <2>2, <2>3
<1> QED BY <1>1, <1>2

\* Every step of the service is one of the inbox, or answers a request that
\* runs nothing.
LEMMA ServiceStep == [ServiceNext]_serviceVars => [Next]_vars
<1> SUFFICES ASSUME [ServiceNext]_serviceVars PROVE [Next]_vars
  OBVIOUS
<1>1. CASE ServiceNext
  <2>1. PICK c \in Calls :
          \/ Proceed(c)
          \/ \E id \in Identities \union {NoIdentity}, i \in Items : Rpc(c, id, i)
    BY <1>1 DEF ServiceNext
  <2>2. CASE Proceed(c)
    BY <2>2 DEF Proceed, Next
  <2>3. CASE \E id \in Identities \union {NoIdentity}, i \in Items : Rpc(c, id, i)
    BY <2>3, RpcIsStart DEF Next
  <2> QED BY <2>1, <2>2, <2>3
<1>2. CASE UNCHANGED serviceVars
  BY <1>2 DEF serviceVars, vars
<1> QED BY <1>1, <1>2

\* The service implements the inbox: what is shown of racing callers holds
\* for racing clients, whatever identities they send.
THEOREM ServiceImplementsInbox == ServiceSpec => Spec
<1>1. ServiceInit => Init
  BY DEF ServiceInit
<1> QED BY <1>1, ServiceStep, PTL DEF ServiceSpec, Spec

-----------------------------------------------------------------------------
(* The pages implement the inbox *)

\* The five reads and writes of the pages.
ItemCall(c, id, i) ==
  \/ ReadItem(c, id, i) \/ ClaimItem(c, id, i) \/ ReleaseItem(c, id, i)
  \/ CloseItem(c, id, i) \/ CommentOnItem(c, id, i)

LEMMA ItemCallIsStart ==
  ASSUME NEW c, NEW id, NEW i, ItemCall(c, id, i)
  PROVE  Start(c, i, ActorOf(id))
  BY DEF ItemCall, ReadItem, ClaimItem, ReleaseItem, CloseItem, CommentOnItem, Start

\* What a connection asks of the inbox at once: a read, or nothing.
LEMMA RequestIsStart ==
  ASSUME NEW c \in Conns, NEW b \in Browsers, Request(c, b)
  PROVE  /\ c \in Calls /\ ActorOf(IdentityOf[b]) \in Actors
         /\ UNCHANGED vars \/ \E i \in Items : Start(c, i, ActorOf(IdentityOf[b]))
<1>1. c \in Calls /\ ActorOf(IdentityOf[b]) \in Actors
  BY BrowserAssumption, IdentitiesAssumption
<1>2. ASSUME NEW page, Query(c, b, page) PROVE UNCHANGED vars
  BY <1>2 DEF Query, QueryItems
<1>3. CASE (\E page \in Tabs : Visit(c, b, page)) \/ Reload(c, b) \/ SearchAgain(c, b)
  BY <1>1, <1>2, <1>3 DEF Visit, Reload, SearchAgain
<1>4. ASSUME NEW i \in Items, (\E what : OpenRow(c, b, i, what)) \/ ReloadDrawer(c, b, i)
      PROVE  Start(c, i, ActorOf(IdentityOf[b]))
  BY <1>4, ItemCallIsStart DEF OpenRow, ReloadDrawer, ItemCall
<1>5. ASSUME NEW i \in Items, NEW op, Press(c, b, i, op) PROVE UNCHANGED vars
  BY <1>5 DEF Press
<1> QED BY <1>1, <1>3, <1>4, <1>5 DEF Request

Buttons == {"claim", "release", "close", "comment"}

\* The server takes up a button's request: it starts the call it was pressed
\* for, or answers that it cannot read it.
LEMMA HandleCases ==
  ASSUME NEW c \in Conns, NEW b \in Browsers, Handle(c, b)
  PROVE  /\ Idle(c) /\ reply[c] = NoReply /\ ask[c].what \in Buttons /\ UNCHANGED uiVars
         /\ \E i \in Items :
              /\ ask[c].item = i
              /\ \/ ItemCall(c, IdentityOf[b], i)
                 \/ Answer_(c, [NoReply EXCEPT !.code = "Unreadable"]) /\ UNCHANGED vars
  BY DEF Handle, handleClaim, handleRelease, handleClose, handleComment, Posted, Buttons, ItemCall

LEMMA OwnerType == \A c \in Conns : c \in Calls /\ Owner[c] \in Browsers
  BY BrowserAssumption

\* Every step of the pages is one of the inbox, or leaves it alone.
LEMMA BrowserStep == [BrowserNext]_browserVars => [Next]_vars
<1> SUFFICES ASSUME [BrowserNext]_browserVars PROVE [Next]_vars
  OBVIOUS
<1>1. ASSUME NEW c \in Conns, Connection(c) PROVE [Next]_vars
  <2>1. CASE Request(c, Owner[c])
    BY <2>1, OwnerType, RequestIsStart DEF Next
  <2>2. CASE Deliver(c, Owner[c]) \/ Lose(c) \/ Discard(c)
    BY <2>2 DEF Deliver, Lose, Discard
  <2>3. CASE Handle(c, Owner[c])
    <3>1. c \in Calls /\ ActorOf(IdentityOf[Owner[c]]) \in Actors
      BY BrowserAssumption, IdentitiesAssumption
    <3> QED BY <2>3, <3>1, OwnerType, HandleCases, ItemCallIsStart DEF Next
  <2> QED BY <1>1, <2>1, <2>2, <2>3 DEF Connection
<1>2. ASSUME NEW c \in Clients, Client(c) PROVE [Next]_vars
  BY <1>2, RpcIsStart DEF Client, Clients, Next
<1>3. ASSUME NEW c \in Calls, Serve(c) PROVE [Next]_vars
  BY <1>3 DEF Serve, Proceed, Next
<1>4. CASE Notify
  BY <1>4 DEF Notify
<1>5. CASE UNCHANGED browserVars
  BY <1>5 DEF browserVars, vars
<1> QED BY <1>1, <1>2, <1>3, <1>4, <1>5 DEF BrowserNext

\* The pages and the RPC clients together implement the inbox: nothing a
\* browser does, in whatever order its answers arrive, is more than a client
\* could do.
THEOREM BrowserImplementsInbox == BrowserSpec => Spec
<1>1. BrowserInit => Init
  BY DEF BrowserInit, ServiceInit
<1> QED BY <1>1, BrowserStep, PTL DEF BrowserSpec, Spec

\* Under the pages too the stored logs are legal histories and the statuses
\* are what they lead to.
THEOREM BrowserHistories == BrowserSpec => [](LegalHistories /\ StatusMatchesLog)
  BY BrowserImplementsInbox, HistoriesCorrect, PTL

-----------------------------------------------------------------------------
(* What a caller is answered *)

\* A call that returns has a result, and one that returns an item returns an
\* inbox item.
OkIsItem(c, i) ==
  call[c].pc = "idle" =>
    /\ call[c].res # "none"
    /\ call[c].res = "ok" /\ call[c].op \notin {"tag", "untag"} => store[i].kind = "inbox"

LEMMA ReturnKeeps ==
  ASSUME TypeOK, NEW c \in Calls, NEW op, NEW i, NEW res, Return(c, op, i, res)
  PROVE  /\ call'[c].op = op /\ call'[c].item = i
         /\ call'[c].pc = "idle" /\ call'[c].res = res
         /\ \A d \in Calls : d # c => call'[d] = call[d]
  BY DEF Return, IdleCall, TypeOK

LEMMA ContinueKeeps ==
  ASSUME TypeOK, NEW c \in Calls, NEW pc, NEW op, NEW i, NEW evt, NEW to,
         Continue(c, pc, op, i, evt, to)
  PROVE  /\ call'[c].op = op /\ call'[c].item = i /\ call'[c].pc = pc
         /\ \A d \in Calls : d # c => call'[d] = call[d]
  BY DEF Continue, IdleCall, TypeOK

LEMMA GetKeeps ==
  ASSUME TypeOK, NEW c \in Calls, NEW op, NEW i, NEW evt, NEW item, NEW allowed \in BOOLEAN,
         NEW refusal, refusal # "ok", allowed \/ refusal # "none",
         Get(c, op, i, evt, item, allowed, refusal)
  PROVE  /\ call'[c].op = op /\ call'[c].item = i /\ OkIsItem(c, i)'
         /\ \A d \in Calls : d # c => call'[d] = call[d]
         /\ store' = store
<1>1. CASE Return(c, op, i, Answer(op, "notFound"))
  BY <1>1, ReturnKeeps DEF Answer, OkIsItem, Get
<1>2. CASE ~allowed /\ Return(c, op, i, refusal)
  BY <1>2, ReturnKeeps DEF OkIsItem, Get
<1>3. CASE call' = [call EXCEPT ![c] =
             [IdleCall EXCEPT !.pc = "write", !.op = op, !.item = i, !.evt = evt,
                              !.to = call[c].to, !.read = item]]
  BY <1>3 DEF IdleCall, TypeOK, OkIsItem, Get
<1> QED BY <1>1, <1>2, <1>3 DEF Get

LEMMA StepKeeps ==
  ASSUME Inv, NEW c \in Calls, Step(c),
         NEW i, call[c].item = i, NEW op, call[c].op = op, NEW evt, call[c].evt = evt
  PROVE  /\ call'[c].op = op /\ call'[c].item = i /\ OkIsItem(c, i)'
         /\ \A d \in Calls : d # c => call'[d] = call[d]
<1> DEFINE k == call[c]
<1>1. TypeOK /\ ~Idle(c) /\ i \in Items /\ CallGood(call[c]) /\ store[i] \in Entities
  BY StepEffect DEF Inv, TypeOK
<1>2. ASSUME call[c].pc = "write", NEW e, e.kind = store[i].kind, NEW ack \in BOOLEAN,
             StoreCall(i, e, ack), NEW res, res # "none", Return(c, op, i, res)
      PROVE  OkIsItem(c, i)'
  <2>1. store[i].kind = "inbox"
    BY <1>1, <1>2 DEF CallGood
  <2>2. store'[i].kind = "inbox"
    BY <1>1, <1>2, <2>1 DEF StoreCall, TypeOK
  <2> QED BY <1>1, <1>2, <2>2, ReturnKeeps DEF OkIsItem
<1>3. CASE DoTransition(c)
  <2> DEFINE to   == ToStatus[op]
             doc  == [Appended(k.read.doc, evt) EXCEPT !.status = to]
             tags == Merge(WithStatus(k.read.tags, to), ExtraTags(op, evt))
             e    == TransitionWrite(store[i], doc, tags)
  <2>1. e.kind = store[i].kind
    BY <1>1 DEF TransitionWrite, UpdateAll, Entities
  <2>2. PICK ack \in BOOLEAN : /\ StoreCall(i, e, ack)
                               /\ Return(c, op, i, IF ack THEN "ok" ELSE "internal")
    BY <1>3 DEF DoTransition
  <2>3. k.pc = "write"
    BY <1>3 DEF DoTransition
  <2> HIDE DEF e
  <2> QED BY <1>1, <1>2, <2>1, <2>2, <2>3, ReturnKeeps
<1>4. CASE AppendEvent(c)
  <2> DEFINE e == EventWrite(store[i], Appended(k.read.doc, evt))
  <2>1. e.kind = store[i].kind
    BY <1>1 DEF EventWrite, UpdateData, Entities
  <2>2. PICK ack \in BOOLEAN :
          /\ StoreCall(i, e, ack)
          /\ Return(c, op, i, IF ack THEN "ok" ELSE Answer(op, "internal"))
    BY <1>4 DEF AppendEvent
  <2>3. k.pc = "write"
    BY <1>4 DEF AppendEvent
  <2>4. PICK res : res = IF ack THEN "ok" ELSE Answer(op, "internal")
    OBVIOUS
  <2>5. res # "none" /\ Return(c, op, i, res)
    BY <2>2, <2>4 DEF Answer
  <2> HIDE DEF e
  <2> QED BY <1>1, <1>2, <2>1, <2>2, <2>3, <2>5, ReturnKeeps
<1>5. CASE ReadForEvent(c)
  <2>1. PICK item : item = ItemOf(store[i])
    OBVIOUS
  <2>2. Get(c, op, i, evt, item, TRUE, "none")
    BY <1>5, <2>1 DEF ReadForEvent
  <2> QED BY <1>1, <2>2, GetKeeps
<1>6. CASE AddAssignee(c)
  <2>1. \/ Return(c, op, i, "internal")
        \/ Continue(c, "read", op, i, evt, k.to)
    BY <1>6 DEF AddAssignee
  <2> QED BY <1>1, <2>1, ReturnKeeps, ContinueKeeps DEF OkIsItem
<1> QED BY <1>3, <1>4, <1>5, <1>6 DEF Step

LEMMA StartKeeps ==
  ASSUME TypeOK, NEW c \in Calls, NEW i \in Items, NEW a \in Actors, Start(c, i, a)
  PROVE  /\ call'[c].item = i /\ OkIsItem(c, i)'
         /\ \A d \in Calls : d # c => call'[d] = call[d]
<1> DEFINE Kept == /\ call'[c].item = i /\ OkIsItem(c, i)'
                   /\ \A d \in Calls : d # c => call'[d] = call[d]
<1> SUFFICES Kept
  OBVIOUS
<1>1. ASSUME NEW op, NEW res, res \notin {"ok", "none"}, Return(c, op, i, res) PROVE Kept
  BY <1>1, ReturnKeeps DEF OkIsItem
<1>2. ASSUME NEW pc \in {"assign", "read"}, NEW op, NEW evt, NEW to,
             Continue(c, pc, op, i, evt, to)
      PROVE  Kept
  BY <1>2, ContinueKeeps DEF OkIsItem
<1>3. ASSUME NEW op, NEW evt, NEW item, NEW allowed \in BOOLEAN, NEW refusal, refusal # "ok",
             allowed \/ refusal # "none", Get(c, op, i, evt, item, allowed, refusal)
      PROVE  Kept
  BY <1>3, GetKeeps
<1>4. ASSUME NEW ts, NEW key, Create(c, i, a, ts, key) PROVE Kept
  <2> DEFINE e == [kind |-> "inbox", anchor |-> Anchor(key), tags |-> WithStatus(ts, "open"),
                   doc |-> [status |-> "open", events |-> <<Event("ItemCreated", a)>>,
                            key |-> key]]
  <2>1. CASE Return(c, "create", i, "internal")
    BY <1>1, <2>1
  <2>2. CASE \E ack \in BOOLEAN : /\ StoreCall(i, e, ack)
                                  /\ Return(c, "create", i, IF ack THEN "ok" ELSE "internal")
    <3>1. PICK ack \in BOOLEAN : /\ StoreCall(i, e, ack)
                                 /\ Return(c, "create", i, IF ack THEN "ok" ELSE "internal")
      BY <2>2
    <3>2. e.kind = "inbox"
      OBVIOUS
    <3> HIDE DEF e
    <3>3. ack => store'[i].kind = "inbox"
      BY <3>1, <3>2 DEF StoreCall, TypeOK
    <3> QED BY <3>1, <3>3, ReturnKeeps DEF OkIsItem
  <2> QED BY <1>4, <2>1, <2>2 DEF Create
<1>5. CASE GetItem(c, i)
  BY <1>1, <1>5, ReturnKeeps DEF GetItem, OkIsItem, IsItem
<1>6. CASE Claim(c, i, a)
  <2>1. CASE a \in Unbuildable
    BY <1>1, <1>6, <2>1 DEF Claim
  <2>2. CASE a \notin Unbuildable
    <3>1. PICK allowed \in BOOLEAN :
            Get(c, "claim", i, Event("ItemClaimed", a), ItemOf(store[i]), allowed,
                "invalidTransition")
      BY <1>6, <2>2 DEF Claim, Transition
    <3> QED BY <1>3, <3>1
  <2> QED BY <2>1, <2>2
<1>7. CASE Release(c, i, a)
  <2>1. PICK item : \E allowed \in BOOLEAN :
          Get(c, "release", i, Event("ItemReleased", a), item, allowed, "invalidTransition")
    BY <1>7 DEF Release
  <2> QED BY <1>3, <2>1
<1>8. CASE Close(c, i, a)
  <2>1. PICK allowed \in BOOLEAN :
          Get(c, "close", i, Event("ItemClosed", a), ItemOf(store[i]), allowed, "terminal")
    BY <1>8 DEF Close
  <2> QED BY <1>3, <2>1
<1>9. ASSUME NEW type, AddEvent(c, i, a, type) PROVE Kept
  BY <1>3, <1>9 DEF AddEvent
<1>10. CASE Comment(c, i, a)
  BY <1>3, <1>10 DEF Comment
<1>11. ASSUME NEW from, NEW to, Reassign(c, i, a, from, to) PROVE Kept
  BY <1>1, <1>2, <1>11 DEF Reassign
<1>12. ASSUME NEW op, NEW e, ChangeTags(c, op, i, a, e) PROVE Kept
  BY <1>1, <1>2, <1>12 DEF ChangeTags
<1> HIDE DEF Kept
<1> QED BY <1>4, <1>5, <1>6, <1>7, <1>8, <1>9, <1>10, <1>11, <1>12 DEF Start, Tag, Untag

-----------------------------------------------------------------------------
(* What an answer under way holds *)

ItemAsks == {"detail", "row", "claim", "release", "close", "comment"}

AllAsks == Tabs \union {"none", "table"} \union ItemAsks

\* A connection that is free holds no answer.  One that was asked for an item
\* runs, if anything, a call on that item, and has been answered, if at all,
\* with a document the item had.
AskGood(a, k, r) ==
  /\ a.what \in AllAsks
  /\ a.what = "none" => r = NoReply
  /\ k.pc # "idle" => a.what \in ItemAsks /\ k.item = a.item /\ k.op \notin {"tag", "untag"}
  /\ a.what \in ItemAsks =>
       /\ a.item \in Items
       /\ k.pc = "idle" /\ r.code = "OK" =>
            \E it : r.items = {<<a.item, it>>} /\ GoodDoc(a.item, it.doc)

\* What a drawer shows is a document its item had.
DrawerGood(d) == d # NoDrawer => d.item \in Items /\ GoodDoc(d.item, d)

\* A record with the fields of a screen.
IsScreen(s) ==
  s \in [page : {s.page}, rows : {s.rows}, watched : {s.watched}, drawer : {s.drawer}]

Shapes == /\ reply = [c \in Calls |-> reply[c]]
          /\ ask = [c \in Conns |-> ask[c]]
          /\ screen = [b \in Browsers |-> screen[b]]

AsksGood == \A c \in Conns : AskGood(ask[c], call[c], reply[c])

ScreensGood == \A b \in Browsers : IsScreen(screen[b]) /\ DrawerGood(screen[b].drawer)

PagesInv == Shapes /\ AsksGood /\ ScreensGood

\* An answer holds the document that is stored when the call returns.
LEMMA AnswerGood ==
  ASSUME Inv', NEW c \in Calls, NEW i \in Items, OkIsItem(c, i)',
         call'[c].op \notin {"tag", "untag"},
         call'[c].pc = "idle", toProto(c, i).code = "OK"
  PROVE  \E it : toProto(c, i).items = {<<i, it>>} /\ GoodDoc(i, it.doc)
<1>1. call'[c].res \in Results \union {"none"}
  BY DEF Inv, TypeOK, CallStates
<1>2. toProto(c, i).code = mapError[call'[c].res]
  BY DEF toProto, Idle
<1>3. call'[c].res = "ok"
  BY <1>1, <1>2 DEF mapError, Results, OkIsItem
<1>4. toProto(c, i).items = {<<i, Returned(c, i)>>}
  BY <1>3 DEF toProto, Idle
<1>5. Returned(c, i).doc = store'[i].doc
  BY DEF Returned, ItemOf
<1>6. GoodDoc(i, store'[i].doc)
  BY <1>3 DEF OkIsItem, Inv, StoreGood
<1> QED BY <1>4, <1>5, <1>6

\* A call that has been asked for an item and takes a step is good after it.
LEMMA AskStaysGood ==
  ASSUME Inv', NEW c \in Calls, NEW a, a.what \in ItemAsks, a.item \in Items,
         call'[c].item = a.item, call'[c].op \notin {"tag", "untag"},
         OkIsItem(c, a.item)', NEW r, r = toProto(c, a.item)
  PROVE  AskGood(a, call'[c], r)
<1>1. a.what \in AllAsks /\ a.what # "none"
  BY DEF AllAsks, ItemAsks
<1> QED BY <1>1, AnswerGood DEF AskGood

\* The operations the pages run.
LEMMA RequestOp ==
  ASSUME TypeOK, NEW c \in Calls, NEW id, NEW i \in Items,
         ItemCall(c, id, i)
  PROVE  call'[c].op \notin {"tag", "untag"} /\ Answer_(c, toProto(c, i))
<1> DEFINE Ok1(op) == \/ \E res : Return(c, op, i, res)
                      \/ \E evt, item, allowed, refusal :
                           Get(c, op, i, evt, item, allowed, refusal)
<1>1. ASSUME NEW op \in {"get", "claim", "release", "close", "comment"}, Ok1(op)
      PROVE  call'[c].op = op
  <2>1. ASSUME NEW res, Return(c, op, i, res) PROVE call'[c].op = op
    BY <2>1, ReturnKeeps
  <2>2. ASSUME NEW evt, NEW item, NEW allowed, NEW refusal,
               Get(c, op, i, evt, item, allowed, refusal)
        PROVE  call'[c].op = op
    BY <2>1, <2>2 DEF Get, IdleCall, TypeOK
  <2> QED BY <1>1, <2>1, <2>2
<1>2. ReadItem(c, id, i) => Ok1("get")
  BY DEF ReadItem, GetItem
<1>3. ClaimItem(c, id, i) => Ok1("claim")
  BY DEF ClaimItem, Claim, Transition
<1>4. ReleaseItem(c, id, i) => Ok1("release")
  BY DEF ReleaseItem, Release
<1>5. CloseItem(c, id, i) => Ok1("close")
  BY DEF CloseItem, Close
<1>6. CommentOnItem(c, id, i) => Ok1("comment")
  BY DEF CommentOnItem, Comment
<1>7. Answer_(c, toProto(c, i))
  BY DEF ItemCall, ReadItem, ClaimItem, ReleaseItem, CloseItem, CommentOnItem, Handled
<1> HIDE DEF Ok1
<1> QED BY <1>1, <1>2, <1>3, <1>4, <1>5, <1>6, <1>7 DEF ItemCall

LEMMA AnswerShape ==
  ASSUME Shapes, NEW c \in Calls, NEW r, Answer_(c, r)
  PROVE  /\ reply' = [d \in Calls |-> reply'[d]]
         /\ reply'[c] = r /\ \A d \in Calls : d # c => reply'[d] = reply[d]
BY DEF Shapes, Answer_

LEMMA AsksShape ==
  ASSUME Shapes, NEW c \in Conns, NEW what, NEW i, Asks(c, what, i)
  PROVE  /\ ask' = [d \in Conns |-> ask'[d]]
         /\ ask'[c] = [NoAsk EXCEPT !.what = what, !.item = i]
         /\ ask'[c].what = what /\ ask'[c].item = i
         /\ \A d \in Conns : d # c => ask'[d] = ask[d]
BY DEF Shapes, Asks, NoAsk

\* A button that is pressed only asks.
LEMMA PressAsks ==
  ASSUME Shapes, NEW c \in Conns, NEW b, NEW i, NEW op, Press(c, b, i, op)
  PROVE  /\ ask'[c] = [what |-> op, item |-> i, shown |-> screen[b].drawer.status, gone |-> FALSE]
         /\ ask' = [d \in Conns |-> ask'[d]] /\ \A d \in Conns : d # c => ask'[d] = ask[d]
<1>1. PICK a : a = [what |-> op, item |-> i, shown |-> screen[b].drawer.status, gone |-> FALSE]
  OBVIOUS
<1>2. ask' = [ask EXCEPT ![c] = a]
  BY <1>1 DEF Press
<1> QED BY <1>1, <1>2 DEF Shapes

LEMMA PressShape ==
  ASSUME Shapes, NEW c \in Conns, NEW b, NEW i, NEW op, Press(c, b, i, op)
  PROVE  /\ ask' = [d \in Conns |-> ask'[d]] /\ \A d \in Conns : d # c => ask'[d] = ask[d]
         /\ ask'[c].what = op /\ ask'[c].item = i /\ ask'[c].shown = screen[b].drawer.status
         /\ call' = call /\ reply' = reply /\ screen' = screen /\ signalled' = signalled
         /\ call[c].pc = "idle" /\ call'[c].pc = "idle" /\ ask[c] = NoAsk /\ ask[c].what = "none"
<1>1. ask'[c] = [what |-> op, item |-> i, shown |-> screen[b].drawer.status, gone |-> FALSE]
  BY PressAsks
<1>2. /\ call' = call /\ reply' = reply /\ screen' = screen /\ signalled' = signalled
      /\ call[c].pc = "idle" /\ ask[c] = NoAsk
  BY DEF Press, Free, Idle, vars
<1>3. ask'[c].what = op /\ ask'[c].item = i /\ ask'[c].shown = screen[b].drawer.status
  BY <1>1
<1>4. ask' = [d \in Conns |-> ask'[d]] /\ \A d \in Conns : d # c => ask'[d] = ask[d]
  BY PressAsks
<1>5. NoAsk.what = "none"
  BY DEF NoAsk
<1> QED BY <1>2, <1>3, <1>4, <1>5

\* A request keeps the invariant: it starts the call it asks for.
LEMMA RequestGood ==
  ASSUME Inv, Inv', PagesInv, NEW c \in Conns, Request(c, Owner[c])
  PROVE  PagesInv'
<1> DEFINE b == Owner[c]
<1>1. c \in Calls /\ ActorOf(IdentityOf[b]) \in Actors /\ TypeOK
  BY BrowserAssumption, IdentitiesAssumption DEF Inv
<1>2. screen' = screen
  BY DEF Request, Visit, Reload, SearchAgain, OpenRow, ReloadDrawer, Press
<1>3. ASSUME /\ \A d \in Calls : d # c => call'[d] = call[d] /\ reply'[d] = reply[d]
             /\ \A d \in Conns : d # c => ask'[d] = ask[d]
             /\ Shapes' /\ AskGood(ask'[c], call'[c], reply'[c])
      PROVE  PagesInv'
  BY <1>2, <1>3, BrowserAssumption DEF PagesInv, AsksGood, ScreensGood
<1>4. ASSUME NEW page, Query(c, b, page), NEW what \in Tabs \union {"table"},
             Asks(c, what, NoItem)
      PROVE  PagesInv'
  <2>1. UNCHANGED vars /\ call'[c].pc = "idle" /\ \E r : Answer_(c, r)
    BY <1>4 DEF Query, QueryItems, Idle, vars
  <2>2. AskGood(ask'[c], call'[c], reply'[c])
    <3>1. Shapes /\ Asks(c, what, NoItem)
      BY <1>4 DEF PagesInv
    <3>2. ask'[c].what = what
      BY <3>1, AsksShape
    <3>3. what \in AllAsks /\ what \notin ItemAsks /\ what # "none"
      BY <1>4 DEF AllAsks, ItemAsks, Tabs
    <3> QED BY <2>1, <3>2, <3>3 DEF AskGood
  <2>3. Shapes'
    BY <1>1, <1>2, <1>4, <2>1, AsksShape, AnswerShape DEF PagesInv, Shapes
  <2>4. \A d \in Calls : d # c => call'[d] = call[d] /\ reply'[d] = reply[d]
    BY <1>1, <2>1, AnswerShape DEF vars, PagesInv
  <2>5. \A d \in Conns : d # c => ask'[d] = ask[d]
    BY <1>4, AsksShape DEF PagesInv
  <2> QED BY <1>3, <2>2, <2>3, <2>4, <2>5
<1>5. ASSUME NEW i \in Items, NEW what \in ItemAsks, Asks(c, what, i),
             ItemCall(c, IdentityOf[b], i)
      PROVE  PagesInv'
  <2>1. call'[c].op \notin {"tag", "untag"} /\ Answer_(c, toProto(c, i))
    BY <1>1, <1>5, RequestOp
  <2>2. Start(c, i, ActorOf(IdentityOf[b]))
    BY <1>5, ItemCallIsStart
  <2>3. /\ call'[c].item = i /\ OkIsItem(c, i)'
        /\ \A d \in Calls : d # c => call'[d] = call[d]
    BY <1>1, <2>2, StartKeeps
  <2>4. /\ reply' = [d \in Calls |-> reply'[d]]
        /\ reply'[c] = toProto(c, i) /\ \A d \in Calls : d # c => reply'[d] = reply[d]
    BY <1>1, <2>1, AnswerShape DEF PagesInv
  <2>5. /\ ask' = [d \in Conns |-> ask'[d]]
        /\ ask'[c].what = what /\ ask'[c].item = i
        /\ \A d \in Conns : d # c => ask'[d] = ask[d]
    BY <1>5, AsksShape DEF PagesInv
  <2>6. AskGood(ask'[c], call'[c], reply'[c])
    BY <1>1, <1>5, <2>1, <2>3, <2>4, <2>5, AskStaysGood
  <2>7. Shapes'
    BY <1>2, <2>4, <2>5 DEF PagesInv, Shapes
  <2> QED BY <1>3, <2>3, <2>4, <2>5, <2>6, <2>7
<1>6. CASE \E page \in Tabs : Visit(c, b, page)
  BY <1>4, <1>6 DEF Visit
<1>7. CASE Reload(c, b)
  BY <1>4, <1>7 DEF Reload
<1>8. CASE SearchAgain(c, b)
  BY <1>4, <1>8 DEF SearchAgain
<1>9. ASSUME NEW i \in Items, NEW what \in {"detail", "row"}, OpenRow(c, b, i, what)
      PROVE  PagesInv'
  BY <1>5, <1>9 DEF OpenRow, ItemAsks, ItemCall
<1>10. ASSUME NEW i \in Items, ReloadDrawer(c, b, i) PROVE PagesInv'
  BY <1>5, <1>10 DEF ReloadDrawer, ItemAsks, ItemCall
<1>11. ASSUME NEW i \in Items, NEW op \in Buttons, Press(c, b, i, op) PROVE PagesInv'
  <2>1. AskGood(ask'[c], call'[c], reply'[c])
    <3>1. reply[c] = NoReply /\ call'[c].pc = "idle" /\ reply' = reply
      BY <1>1, <1>11, PressShape DEF PagesInv, AsksGood, AskGood
    <3>2. Shapes /\ Press(c, b, i, op)
      BY <1>11 DEF PagesInv
    <3>4. ask'[c].what = op /\ ask'[c].item = i
      BY <3>2, PressShape
    <3>3. op \in AllAsks /\ op # "none" /\ reply[c].code # "OK"
      BY <3>1 DEF Buttons, AllAsks, ItemAsks, NoReply
    <3> QED BY <3>1, <3>3, <3>4 DEF AskGood
  <2>2. /\ ask' = [d \in Conns |-> ask'[d]] /\ \A d \in Conns : d # c => ask'[d] = ask[d]
        /\ call' = call /\ reply' = reply
    BY <1>11, PressShape DEF PagesInv
  <2>3. Shapes'
    BY <1>2, <2>2 DEF PagesInv, Shapes
  <2> QED BY <1>3, <2>1, <2>2, <2>3
<1> QED BY <1>6, <1>7, <1>8, <1>9, <1>10, <1>11 DEF Request, Buttons

LEMMA PatchKeeps ==
  ASSUME NEW s, IsScreen(s), NEW i, NEW it
  PROVE  IsScreen(PatchRow(s, i, it)) /\ PatchRow(s, i, it).drawer = s.drawer
BY DEF IsScreen, PatchRow

\* What an answer makes of a page shows a document its item had.
LEMMA AfterGood ==
  ASSUME NEW c \in Conns, AskGood(ask[c], call[c], reply[c]), Answered(c),
         NEW s, IsScreen(s), DrawerGood(s.drawer)
  PROVE  IsScreen(After(c, s)) /\ DrawerGood(After(c, s).drawer)
<1> DEFINE k == ask[c]
<1>1. k.what \in Tabs \union {"table"} \union ItemAsks
  BY DEF AskGood, AllAsks, Answered
<1>2. CASE k.what \in Tabs
  <2>1. After(c, s) = PageAfter(c)
    BY <1>2 DEF After, Tabs
  <2>2. IsScreen(Blank) /\ Blank.drawer = NoDrawer
    BY DEF Blank, IsScreen
  <2>3. IsScreen(PageAfter(c)) /\ PageAfter(c).drawer = NoDrawer
    BY <2>2 DEF PageAfter, IsScreen, Blank
  <2> QED BY <2>1, <2>3 DEF DrawerGood
<1>3. CASE k.what \notin Tabs /\ ~Ok(c)
  BY <1>3 DEF After
<1>4. CASE k.what = "table" /\ Ok(c)
  <2>1. After(c, s) = TableAfter(c, s)
    BY <1>4 DEF After, Tabs
  <2>2. IsScreen(TableAfter(c, s)) /\ TableAfter(c, s).drawer = s.drawer
    BY DEF TableAfter, IsScreen
  <2> QED BY <2>1, <2>2
<1>5. CASE k.what \in ItemAsks /\ Ok(c)
  <2>1. PICK it : reply[c].items = {<<k.item, it>>} /\ GoodDoc(k.item, it.doc)
    BY <1>5 DEF AskGood, Answered, Idle, Ok
  <2>2. TheItem(c) = it
    <3>1. PICK x : x = CHOOSE e \in reply[c].items : TRUE
      OBVIOUS
    <3>2. x = <<k.item, it>>
      BY <2>1, <3>1
    <3>3. TheItem(c) = x[2]
      BY <3>1, Zenon DEF TheItem
    <3> QED BY <3>2, <3>3
  <2>3. k.item \in Items
    BY <1>5 DEF AskGood
  <2>4. Drawer(k.item, it).item = k.item /\ GoodDoc(k.item, Drawer(k.item, it))
    BY <2>1 DEF Drawer, Activity, GoodDoc
  <2>5. DrawerGood(Drawer(k.item, it))
    BY <2>3, <2>4 DEF DrawerGood
  <2>6. IsScreen(PatchRow(s, k.item, it)) /\ PatchRow(s, k.item, it).drawer = s.drawer
    BY PatchKeeps
  <2>7. \/ After(c, s) = [s EXCEPT !.drawer = Drawer(k.item, it)]
        \/ After(c, s) = PatchRow(s, k.item, it)
        \/ After(c, s) = respondWithDetail(s, k.item, it)
    BY <1>5, <2>2 DEF After, ItemAsks, Tabs
  <2>8. \A t : IsScreen(t) => /\ IsScreen([t EXCEPT !.drawer = Drawer(k.item, it)])
                              /\ [t EXCEPT !.drawer = Drawer(k.item, it)].drawer = Drawer(k.item, it)
    BY DEF IsScreen
  <2> HIDE DEF k
  <2> QED BY <2>5, <2>6, <2>7, <2>8 DEF respondWithDetail
<1> QED BY <1>1, <1>2, <1>3, <1>4, <1>5

\* The delivery of an answer changes no other request, but that a page it
\* replaces no longer waits for it.
LEMMA OnlyGone ==
  ASSUME NEW c \in Conns, NEW b, Deliver(c, b), NEW d \in Conns, d # c
  PROVE  /\ ask'[d].what = ask[d].what /\ ask'[d].item = ask[d].item
         /\ ask'[d].shown = ask[d].shown
         /\ ask'[d] = ask[d] \/ ask'[d] = [ask[d] EXCEPT !.gone = TRUE]
         /\ ask[c].what \in Tabs /\ Owner[d] = b =>
              ask[d] = NoAsk \/ ask'[d] = [ask[d] EXCEPT !.gone = TRUE]
<1>1. ask'[d] = IF ask[c].what \in Tabs /\ Owner[d] = b /\ ask[d] # NoAsk
                THEN [ask[d] EXCEPT !.gone = TRUE] ELSE ask[d]
  BY DEF Deliver
<1> QED BY <1>1

\* The delivery of an answer keeps the invariant.
LEMMA DeliverGood ==
  ASSUME PagesInv, NEW c \in Conns, Deliver(c, Owner[c])
  PROVE  PagesInv'
<1>1. c \in Calls /\ Owner[c] \in Browsers /\ call' = call
  BY BrowserAssumption DEF Deliver, vars
<1>2. /\ reply' = [d \in Calls |-> reply'[d]]
      /\ reply'[c] = NoReply /\ \A d \in Calls : d # c => reply'[d] = reply[d]
  BY <1>1, AnswerShape DEF PagesInv, Deliver
<1>3. ask' = [d \in Conns |-> ask'[d]]
  BY DEF Deliver
<1>4. ASSUME NEW d \in Conns PROVE AskGood(ask'[d], call'[d], reply'[d])
  <2>1. CASE d = c
    <3>1. ask'[d] = NoAsk /\ call'[d].pc = "idle"
      BY <1>1, <2>1 DEF Deliver, Answered, Idle
    <3> QED BY <1>2, <2>1, <3>1 DEF AskGood, NoAsk, AllAsks, ItemAsks
  <2>2. CASE d # c
    <3>1. ask'[d].what = ask[d].what /\ ask'[d].item = ask[d].item
      BY <2>2, OnlyGone
    <3>2. AskGood(ask[d], call[d], reply[d]) /\ call'[d] = call[d] /\ reply'[d] = reply[d]
      BY <1>1, <1>2, <2>2, BrowserAssumption DEF PagesInv, AsksGood
    <3> QED BY <3>1, <3>2 DEF AskGood
  <2> QED BY <2>1, <2>2
<1>5. screen' = [screen EXCEPT ![Owner[c]] = After(c, @)]
  BY DEF Deliver
<1>6. IsScreen(After(c, screen[Owner[c]])) /\ DrawerGood(After(c, screen[Owner[c]]).drawer)
  BY <1>1, AfterGood DEF PagesInv, AsksGood, ScreensGood, Deliver
<1>7. screen' = [b \in Browsers |-> screen'[b]]
  BY <1>5 DEF PagesInv, Shapes
<1>8. ScreensGood'
  BY <1>1, <1>5, <1>6 DEF PagesInv, Shapes, ScreensGood
<1> QED BY <1>2, <1>3, <1>4, <1>7, <1>8 DEF PagesInv, Shapes, AsksGood

\* What touches no question of a connection and no screen keeps the invariant.
LEMMA OthersGood ==
  ASSUME PagesInv, screen' = screen, ask' = ask, Shapes',
         \A c \in Conns : \/ call'[c] = call[c] /\ reply'[c] = reply[c]
                          \/ AskGood(ask[c], call'[c], reply'[c])
  PROVE  PagesInv'
BY DEF PagesInv, AsksGood, ScreensGood

\* A step of a handler keeps the invariant.
LEMMA ServeGood ==
  ASSUME Inv, Inv', PagesInv, NEW c \in Calls, Serve(c)
  PROVE  PagesInv'
<1>1. PICK i : i = call[c].item
  OBVIOUS
<1>2. Step(c) /\ Answer_(c, toProto(c, i)) /\ screen' = screen /\ ask' = ask
  BY <1>1 DEF Serve, Proceed, uiVars
<1>3. PICK op, evt : op = call[c].op /\ evt = call[c].evt
  OBVIOUS
<1>4. /\ call'[c].op = op /\ call'[c].item = i /\ OkIsItem(c, i)'
      /\ \A d \in Calls : d # c => call'[d] = call[d]
  BY <1>1, <1>2, <1>3, StepKeeps
<1>5. /\ reply' = [d \in Calls |-> reply'[d]]
      /\ reply'[c] = toProto(c, i) /\ \A d \in Calls : d # c => reply'[d] = reply[d]
  BY <1>2, AnswerShape DEF PagesInv
<1>6. Shapes'
  BY <1>2, <1>5 DEF PagesInv, Shapes
<1>7. ASSUME c \in Conns PROVE AskGood(ask[c], call'[c], reply'[c])
  <2>1. AskGood(ask[c], call[c], reply[c]) /\ call[c].pc # "idle"
    BY <1>2, <1>7, StepEffect DEF PagesInv, AsksGood, Inv, Idle
  <2>2. /\ ask[c].what \in ItemAsks /\ ask[c].item \in Items
        /\ ask[c].item = i /\ op \notin {"tag", "untag"}
    BY <1>1, <1>3, <2>1 DEF AskGood
  <2> QED BY <1>4, <1>5, <2>2, AskStaysGood
<1> QED BY <1>2, <1>4, <1>5, <1>6, <1>7, OthersGood, BrowserAssumption

\* So does the server when it takes up the request of a button.
LEMMA HandleGood ==
  ASSUME Inv, Inv', PagesInv, NEW c \in Conns, Handle(c, Owner[c])
  PROVE  PagesInv'
<1>1. c \in Calls /\ Owner[c] \in Browsers /\ ActorOf(IdentityOf[Owner[c]]) \in Actors /\ TypeOK
  BY BrowserAssumption, IdentitiesAssumption DEF Inv
<1>2. /\ Idle(c) /\ ask[c].what \in ItemAsks /\ screen' = screen /\ ask' = ask
      /\ AskGood(ask[c], call[c], reply[c])
  BY <1>1, HandleCases DEF Buttons, ItemAsks, uiVars, PagesInv, AsksGood
<1>3. PICK i \in Items :
        /\ ask[c].item = i
        /\ \/ ItemCall(c, IdentityOf[Owner[c]], i)
           \/ Answer_(c, [NoReply EXCEPT !.code = "Unreadable"]) /\ UNCHANGED vars
  BY <1>1, HandleCases
<1>4. CASE ItemCall(c, IdentityOf[Owner[c]], i)
  <2>1. call'[c].op \notin {"tag", "untag"} /\ Answer_(c, toProto(c, i))
    BY <1>1, <1>4, RequestOp
  <2>2. /\ call'[c].item = i /\ OkIsItem(c, i)'
        /\ \A d \in Calls : d # c => call'[d] = call[d]
    BY <1>1, <1>4, ItemCallIsStart, StartKeeps
  <2>3. /\ reply' = [d \in Calls |-> reply'[d]]
        /\ reply'[c] = toProto(c, i) /\ \A d \in Calls : d # c => reply'[d] = reply[d]
    BY <1>1, <2>1, AnswerShape DEF PagesInv
  <2>4. AskGood(ask[c], call'[c], reply'[c])
    BY <1>1, <1>2, <1>3, <2>1, <2>2, <2>3, AskStaysGood
  <2>5. Shapes'
    BY <1>2, <2>3 DEF PagesInv, Shapes
  <2> QED BY <1>2, <2>2, <2>3, <2>4, <2>5, OthersGood, BrowserAssumption
<1>5. CASE Answer_(c, [NoReply EXCEPT !.code = "Unreadable"]) /\ UNCHANGED vars
  <2>1. /\ reply' = [d \in Calls |-> reply'[d]] /\ call' = call
        /\ reply'[c] = [NoReply EXCEPT !.code = "Unreadable"]
        /\ \A d \in Calls : d # c => reply'[d] = reply[d]
    BY <1>1, <1>5, AnswerShape DEF PagesInv, vars
  <2>2. AskGood(ask[c], call'[c], reply'[c])
    <3>1. reply'[c].code # "OK" /\ ask[c].what # "none"
      BY <1>2, <2>1 DEF NoReply, ItemAsks
    <3> QED BY <1>2, <2>1, <3>1 DEF AskGood, Idle
  <2>3. Shapes'
    BY <1>2, <2>1 DEF PagesInv, Shapes
  <2> QED BY <1>2, <2>1, <2>2, <2>3, OthersGood, BrowserAssumption
<1> QED BY <1>3, <1>4, <1>5

LEMMA ClientGood ==
  ASSUME Inv, PagesInv, NEW c \in Clients, Client(c)
  PROVE  PagesInv'
<1>1. c \in Calls /\ c \notin Conns /\ TypeOK
  BY DEF Clients, Inv
<1>2. PICK id \in Identities \union {NoIdentity}, i \in Items : Rpc(c, id, i)
  BY DEF Client
<1>3. screen' = screen /\ ask' = ask
  BY DEF Client, uiVars
<1>4. \E r : Answer_(c, r)
  BY <1>2 DEF Rpc, InvalidArgument, CreateItem, ReadItem, ClaimItem, ReleaseItem, CloseItem,
              ReassignItem, CommentOnItem, AddEventTo, TagItem, UntagItem, Handled
<1>5. \A d \in Calls : d # c => call'[d] = call[d]
  BY <1>1, <1>2, RpcIsStart, StartKeeps DEF vars
<1>6. /\ reply' = [d \in Calls |-> reply'[d]]
      /\ \A d \in Calls : d # c => reply'[d] = reply[d]
  BY <1>1, <1>4, AnswerShape DEF PagesInv
<1>7. Shapes'
  BY <1>3, <1>6 DEF PagesInv, Shapes
<1> QED BY <1>1, <1>3, <1>5, <1>6, <1>7, OthersGood, BrowserAssumption

\* An answer that is lost, or that nobody waits for, keeps the invariant.
LEMMA LostGood ==
  ASSUME PagesInv, NEW c \in Conns, Lose(c) \/ Discard(c)
  PROVE  PagesInv'
<1>1. c \in Calls /\ call' = call /\ screen' = screen /\ call'[c].pc = "idle"
  BY BrowserAssumption DEF Lose, Discard, Idle, vars
<1>2. ask' = [ask EXCEPT ![c] = NoAsk] /\ Answer_(c, NoReply)
  BY DEF Lose, Discard
<1>3. /\ reply' = [d \in Calls |-> reply'[d]] /\ reply'[c] = NoReply
      /\ \A d \in Calls : d # c => reply'[d] = reply[d]
  BY <1>1, <1>2, AnswerShape DEF PagesInv
<1>4. /\ ask' = [d \in Conns |-> ask'[d]]
      /\ ask'[c] = NoAsk /\ \A d \in Conns : d # c => ask'[d] = ask[d]
  BY <1>2 DEF PagesInv, Shapes
<1>5. AskGood(ask'[c], call'[c], reply'[c])
  BY <1>1, <1>3, <1>4 DEF AskGood, NoAsk, AllAsks, ItemAsks
<1>6. AsksGood'
  BY <1>1, <1>3, <1>4, <1>5, BrowserAssumption DEF PagesInv, AsksGood
<1> QED BY <1>1, <1>3, <1>4, <1>6 DEF PagesInv, Shapes, ScreensGood

LEMMA PagesStep == Inv /\ Inv' /\ PagesInv /\ [BrowserNext]_browserVars => PagesInv'
<1> SUFFICES ASSUME Inv, Inv', PagesInv, [BrowserNext]_browserVars PROVE PagesInv'
  OBVIOUS
<1>1. ASSUME NEW c \in Conns, Connection(c) PROVE PagesInv'
  BY <1>1, RequestGood, HandleGood, DeliverGood, LostGood DEF Connection
<1>2. ASSUME NEW c \in Clients, Client(c) PROVE PagesInv'
  BY <1>2, ClientGood
<1>3. ASSUME NEW c \in Calls, Serve(c) PROVE PagesInv'
  BY <1>3, ServeGood
<1>4. CASE Notify \/ UNCHANGED browserVars
  <2>1. UNCHANGED <<call, reply, ask, screen>>
    BY <1>4 DEF Notify, vars, browserVars
  <2> QED BY <2>1 DEF PagesInv, Shapes, AsksGood, ScreensGood
<1> QED BY <1>1, <1>2, <1>3, <1>4 DEF BrowserNext

LEMMA PagesInit == BrowserInit => PagesInv
<1> SUFFICES ASSUME BrowserInit PROVE PagesInv
  OBVIOUS
<1>1. Shapes
  BY DEF BrowserInit, ServiceInit, Shapes
<1>2. AsksGood
  BY BrowserAssumption DEF BrowserInit, ServiceInit, Init, IdleCall, AsksGood, AskGood, NoAsk, AllAsks, ItemAsks
<1>3. ScreensGood
  BY DEF BrowserInit, ScreensGood, IsScreen, DrawerGood, Blank
<1> QED BY <1>1, <1>2, <1>3 DEF PagesInv

LEMMA PagesInvCorrect == BrowserSpec => [](Inv /\ PagesInv)
<1>1. BrowserSpec => []Inv
  BY BrowserImplementsInbox, InvCorrect, PTL
<1> QED BY <1>1, PagesInit, PagesStep, PTL DEF BrowserSpec

\* What a drawer shows of an item, the item was at some moment, however many
\* requests and answers are under way and in whatever order they arrive
\* (actions.go:97-104, detail_templ.go:17).
THEOREM ScreensCorrect == BrowserSpec => ScreensHaveBeen
<1>1. PagesInv' => \A b \in Browsers :
        LET d == screen'[b].drawer
        IN d # NoDrawer /\ d.item \notin Legacy =>
             LegalHistory(d.events) /\ LeadsTo(d.events, Len(d.events), d.status)
  BY DEF PagesInv, ScreensGood, DrawerGood, GoodDoc
<1>2. PagesInv /\ PagesInv' =>
        [\A b \in Browsers :
           LET d == screen'[b].drawer
           IN d # screen[b].drawer /\ d # NoDrawer /\ d.item \notin Legacy =>
                LegalHistory(d.events) /\ LeadsTo(d.events, Len(d.events), d.status)]_browserVars
  BY <1>1
<1> QED BY <1>2, PagesInvCorrect, PTL DEF ScreensHaveBeen

-----------------------------------------------------------------------------
(* What the pages show *)

Codes == {"none", "OK", "InvalidArgument", "NotFound", "FailedPrecondition", "Internal",
          "Unreadable"}

\* An answer a drawer can show every item of.
ReplyGood(r) ==
  r.code \in Codes /\ \A e \in r.items : e[1] \in Items /\ Drawer(e[1], e[2]) \in Drawers

\* A table is asked for by a page that has one, and its answer still finds
\* such a page: a new page drops the answers to the one before.
TableAsked(c) == ask[c].what = "table" /\ ~ask[c].gone => screen[Owner[c]].page \in Tabs

ScreenGood(s) ==
  /\ s.page \in Tabs \union {"none"}
  /\ DOMAIN s.rows \subseteq Items
  /\ s.watched => s.page \in {"queue", "mywork"}
  /\ s.drawer \in Drawers \union {NoDrawer}

RepliesGood == \A c \in Calls : ReplyGood(reply[c])
TablesAsked == \A c \in Conns : TableAsked(c)
ScreensShow == \A b \in Browsers : ScreenGood(screen[b])
SignalsGood == signalled \subseteq {b \in Browsers : screen[b].watched}
AskTypes    == [what : AllAsks, item : Items \union {NoItem}, gone : BOOLEAN,
                shown : {"none", "open", "claimed", "closed", "expired"}]
AsksTyped   == \A c \in Conns : ask[c] \in AskTypes

ShownInv == RepliesGood /\ AsksTyped /\ TablesAsked /\ ScreensShow /\ SignalsGood

LEMMA TagValueType ==
  ASSUME NEW ts \in TagSets PROVE TagValue(ts, "assignee") \in Assignees
<1>1. CASE Tagged(ts, "assignee") = {}
  BY <1>1 DEF TagValue, Assignees
<1>2. CASE Tagged(ts, "assignee") # {}
  <2>1. PICK v : v = TagValue(ts, "assignee")
    OBVIOUS
  <2>2. v = CHOOSE x \in ValuesOf(ts, "assignee") : TRUE
    BY <1>2, <2>1, Zenon DEF TagValue
  <2>3. \E x : x \in ValuesOf(ts, "assignee")
    BY <1>2 DEF ValuesOf
  <2>4. v \in ValuesOf(ts, "assignee")
    BY <2>2, <2>3, Zenon
  <2>5. PICK t \in ts : t[1] = "assignee" /\ t[2] = v
    BY <2>4 DEF ValuesOf, Tagged
  <2>6. \/ t \in {"status"} \X {"open", "claimed", "closed", "expired"}
        \/ t \in {"assignee"} \X Actors
        \/ t \in RouteTags
    BY DEF TagSets
  <2>7. v \in Actors \/ v \in ValuesOf(RouteTags, "assignee")
    BY <2>5, <2>6 DEF ValuesOf, Tagged
  <2> QED BY <2>1, <2>7 DEF Assignees
<1> QED BY <1>1, <1>2

\* What a drawer shows of a good document is well typed.
LEMMA DrawerType ==
  ASSUME NEW i \in Items, NEW it, it.doc \in Docs, GoodDoc(i, it.doc), it.tags \in TagSets
  PROVE  Drawer(i, it) \in Drawers
<1>1. it.doc.status \in {"open", "claimed", "closed", "expired"} /\ it.doc.events \in Seq(Events)
  BY HasStatus DEF Docs
<1>2. TagValue(it.tags, "assignee") \in Assignees
  BY TagValueType
<1> QED BY <1>1, <1>2 DEF Drawer, Activity, Drawers

LEMMA StoredType ==
  ASSUME TypeOK, StoreGood, NEW i \in Items, store[i].kind = "inbox"
  PROVE  ReplyGood([code |-> "OK", items |-> {}]) /\ Drawer(i, ItemOf(store[i])) \in Drawers
<1>1. store[i].doc \in Docs /\ store[i].tags \in TagSets /\ GoodDoc(i, store[i].doc)
  BY DEF TypeOK, StoreGood, Entities
<1>2. PICK it : it = ItemOf(store[i])
  OBVIOUS
<1>3. it.doc = store[i].doc /\ it.tags = store[i].tags
  BY <1>2 DEF ItemOf
<1>4. Drawer(i, it) \in Drawers
  BY <1>1, <1>3, DrawerType
<1> QED BY <1>2, <1>4 DEF ReplyGood, Codes

\* Whatever a call returns, a drawer can show it.
LEMMA AnswerShows ==
  ASSUME TypeOK, Inv', NEW c \in Calls, NEW i \in Items, OkIsItem(c, i)'
  PROVE  ReplyGood(toProto(c, i))
<1>1. CASE ~Idle(c)'
  BY <1>1 DEF toProto, NoReply, ReplyGood, Codes
<1>2. CASE Idle(c)'
  <2>1. call'[c].res \in Results
    BY <1>2 DEF Inv, TypeOK, CallStates, OkIsItem, Idle
  <2>2. toProto(c, i).code = mapError[call'[c].res]
    BY <1>2 DEF toProto
  <2>3. toProto(c, i).code \in Codes
    BY <2>1, <2>2 DEF Results, mapError, Codes
  <2>4. CASE call'[c].res = "ok" /\ call'[c].op \notin {"tag", "untag"}
    <3>1. store'[i].doc \in Docs /\ store'[i].tags \in TagSets /\ GoodDoc(i, store'[i].doc)
      BY <1>2, <2>4 DEF OkIsItem, Idle, Inv, TypeOK, StoreGood, Entities
    <3>2. call[c].read.tags \in TagSets
      BY DEF TypeOK, CallStates
    <3>3. PICK it : it = Returned(c, i)
      OBVIOUS
    <3>4. it.doc = store'[i].doc /\ it.tags \in TagSets
      BY <3>1, <3>2, <3>3 DEF Returned, ItemOf
    <3>5. Drawer(i, it) \in Drawers
      BY <3>1, <3>4, DrawerType
    <3>6. toProto(c, i).items = {<<i, it>>}
      BY <1>2, <2>4, <3>3 DEF toProto
    <3> QED BY <2>3, <3>5, <3>6 DEF ReplyGood
  <2>5. CASE ~(call'[c].res = "ok" /\ call'[c].op \notin {"tag", "untag"})
    <3>1. toProto(c, i).items = {}
      BY <1>2, <2>5 DEF toProto
    <3> QED BY <2>3, <3>1 DEF ReplyGood
  <2> QED BY <2>4, <2>5
<1> QED BY <1>1, <1>2

LEMMA NoReplyGood ==
  /\ ReplyGood(NoReply) /\ ReplyGood([NoReply EXCEPT !.code = "InvalidArgument"])
  /\ ReplyGood([NoReply EXCEPT !.code = "Unreadable"])
  BY DEF NoReply, ReplyGood, Codes

\* So it is with what a query answers.
LEMMA QueryShows ==
  ASSUME Inv, NEW c \in Calls, NEW b, NEW page, Query(c, b, page)
  PROVE  \E r : Answer_(c, r) /\ ReplyGood(r)
<1>1. PICK found \in SUBSET Items :
        Listed(page, b, found) /\ QueryItems(c, IdentityOf[b], found)
  BY DEF Query
<1>2. PICK fails \in {FALSE, StoreFaults} :
        Answer_(c, [code  |-> IF fails THEN mapError.internal ELSE mapError.ok,
                    items |-> IF fails THEN {} ELSE {<<i, ItemOf(store[i])>> : i \in found}])
  BY <1>1 DEF QueryItems
<1>3. PICK r : r = [code  |-> IF fails THEN mapError.internal ELSE mapError.ok,
                    items |-> IF fails THEN {} ELSE {<<i, ItemOf(store[i])>> : i \in found}]
  OBVIOUS
<1>4. r.code \in Codes
  BY <1>3 DEF mapError, Codes
<1>5. ASSUME NEW e \in r.items PROVE e[1] \in Items /\ Drawer(e[1], e[2]) \in Drawers
  <2>1. PICK i \in found : e = <<i, ItemOf(store[i])>>
    BY <1>3, <1>5
  <2>2. i \in Items /\ store[i].kind = "inbox"
    BY <1>1 DEF Listed, Searchable, IsItem
  <2>3. PICK it : it = ItemOf(store[i])
    OBVIOUS
  <2>4. e[1] = i /\ e[2] = it
    BY <2>1, <2>3
  <2>5. Drawer(i, it) \in Drawers
    BY <2>2, <2>3, StoredType DEF Inv
  <2> QED BY <2>2, <2>4, <2>5
<1> QED BY <1>2, <1>3, <1>4, <1>5 DEF ReplyGood

\* A connection's new answer leaves the others.
LEMMA AnswerStaysGood ==
  ASSUME Shapes, RepliesGood, NEW c \in Calls, NEW r, ReplyGood(r), Answer_(c, r)
  PROVE  RepliesGood'
BY AnswerShape DEF RepliesGood

LEMMA RpcShows ==
  ASSUME Inv, Inv', NEW c \in Calls, NEW id \in Identities \union {NoIdentity}, NEW i \in Items,
         Rpc(c, id, i)
  PROVE  \E r : Answer_(c, r) /\ ReplyGood(r)
<1>1. CASE InvalidArgument(c, id)
  BY <1>1, NoReplyGood DEF InvalidArgument
<1>2. CASE ~InvalidArgument(c, id)
  <2>1. Accepts(id) /\ Answer_(c, toProto(c, i))
    BY <1>2 DEF Rpc, CreateItem, ReadItem, ClaimItem, ReleaseItem, CloseItem, ReassignItem,
                CommentOnItem, AddEventTo, TagItem, UntagItem, Handled
  <2>2. ActorOf(id) \in Actors
    BY <2>1, IdentitiesAssumption DEF Accepts
  <2>3. Start(c, i, ActorOf(id))
    BY <1>2 DEF Rpc, CreateItem, ReadItem, ClaimItem, ReleaseItem, CloseItem, ReassignItem,
                CommentOnItem, AddEventTo, TagItem, UntagItem, Start
  <2>4. OkIsItem(c, i)'
    BY <2>2, <2>3, StartKeeps DEF Inv
  <2> QED BY <2>1, <2>4, AnswerShows DEF Inv
<1> QED BY <1>1, <1>2

\* So it is with what a call of the pages is answered.
LEMMA ItemCallShows ==
  ASSUME Inv, Inv', NEW c \in Conns, NEW i \in Items, ItemCall(c, IdentityOf[Owner[c]], i)
  PROVE  \E r : Answer_(c, r) /\ ReplyGood(r)
<1>1. PICK id \in Identities : id = IdentityOf[Owner[c]]
  BY BrowserAssumption
<1>2. Rpc(c, id, i) /\ c \in Calls
  BY <1>1, BrowserAssumption DEF ItemCall, Rpc
<1> QED BY <1>2, RpcShows

LEMMA RequestShown ==
  ASSUME Inv, Inv', PagesInv, ShownInv, NEW c \in Conns, Request(c, Owner[c])
  PROVE  ShownInv'
<1> DEFINE b == Owner[c]
<1>1. c \in Calls /\ b \in Browsers /\ Shapes
  BY BrowserAssumption DEF PagesInv
<1>2. screen' = screen /\ signalled' \subseteq signalled
  BY DEF Request, Visit, Reload, SearchAgain, OpenRow, ReloadDrawer, Press
<1>3. ASSUME NEW r, Answer_(c, r), ReplyGood(r), NEW what \in AllAsks,
             NEW i \in Items \union {NoItem}, Asks(c, what, i),
             what = "table" => screen[b].page \in Tabs
      PROVE  ShownInv'
  <2>1. RepliesGood'
    BY <1>1, <1>3, AnswerStaysGood DEF ShownInv
  <2>2. /\ ask'[c] = [NoAsk EXCEPT !.what = what, !.item = i] /\ ask'[c].what = what
        /\ \A d \in Conns : d # c => ask'[d] = ask[d]
    BY <1>1, <1>3, AsksShape
  <2>3. AsksTyped'
    <3>1. ask'[c] = [what |-> what, item |-> i, shown |-> "none", gone |-> FALSE]
      BY <2>2 DEF NoAsk
    <3>2. ask'[c] \in AskTypes
      BY <1>3, <3>1 DEF AskTypes
    <3> QED BY <2>2, <3>2 DEF ShownInv, AsksTyped
  <2>4. TablesAsked'
    BY <1>2, <1>3, <2>2 DEF ShownInv, TablesAsked, TableAsked
  <2> QED BY <1>2, <2>1, <2>3, <2>4 DEF ShownInv, ScreensShow, SignalsGood
<1>4. ASSUME NEW page, Query(c, b, page), NEW what \in Tabs \union {"table"}, Asks(c, what, NoItem),
             what = "table" => screen[b].page \in Tabs
      PROVE  ShownInv'
  <2>1. \E r : Answer_(c, r) /\ ReplyGood(r)
    BY <1>1, <1>4, QueryShows
  <2>2. what \in AllAsks
    BY <1>4 DEF AllAsks
  <2> QED BY <1>3, <1>4, <2>1, <2>2
<1>5. ASSUME NEW i \in Items, NEW what \in ItemAsks, Asks(c, what, i), ItemCall(c, IdentityOf[b], i)
      PROVE  ShownInv'
  <2>4. \E r : Answer_(c, r) /\ ReplyGood(r)
    BY <1>5, ItemCallShows
  <2>5. what \in AllAsks /\ what # "table"
    BY <1>5 DEF AllAsks, ItemAsks
  <2> QED BY <1>3, <1>5, <2>4, <2>5
<1>6. CASE \E page \in Tabs : Visit(c, b, page)
  <2>1. "table" \notin Tabs
    BY DEF Tabs
  <2> QED BY <1>4, <1>6, <2>1 DEF Visit
<1>7. CASE Reload(c, b)
  <2>1. screen[b].page \in Tabs
    BY <1>1, <1>7 DEF Reload, ShownInv, SignalsGood, ScreensShow, ScreenGood, Tabs
  <2> QED BY <1>4, <1>7, <2>1 DEF Reload
<1>8. CASE SearchAgain(c, b)
  <2>1. screen[b].page \in Tabs
    BY <1>8 DEF SearchAgain, Tabs
  <2> QED BY <1>4, <1>8, <2>1 DEF SearchAgain
<1>9. ASSUME NEW i \in Items, NEW what \in {"detail", "row"}, OpenRow(c, b, i, what)
      PROVE  ShownInv'
  BY <1>5, <1>9 DEF OpenRow, ItemAsks, ItemCall
<1>10. ASSUME NEW i \in Items, ReloadDrawer(c, b, i) PROVE ShownInv'
  BY <1>5, <1>10 DEF ReloadDrawer, ItemAsks, ItemCall
<1>11. ASSUME NEW i \in Items, NEW op \in Buttons, Press(c, b, i, op) PROVE ShownInv'
  <2>1. /\ ask'[c].what = op /\ \A d \in Conns : d # c => ask'[d] = ask[d]
        /\ reply' = reply /\ screen' = screen /\ signalled' = signalled
    BY <1>1, <1>11, PressShape
  <2>2. screen[b].drawer.status \in {"none", "open", "claimed", "closed", "expired"}
    BY <1>1 DEF ShownInv, ScreensShow, ScreenGood, Drawers, NoDrawer
  <2>3. op \in AllAsks /\ op # "table"
    BY DEF Buttons, AllAsks, ItemAsks
  <2>4. AsksTyped'
    <3>1. ask'[c] = [what |-> op, item |-> i, shown |-> screen[b].drawer.status, gone |-> FALSE]
      BY <1>1, <1>11, PressAsks
    <3>2. ask'[c] \in AskTypes
      BY <3>1, <2>2, <2>3 DEF AskTypes
    <3> QED BY <2>1, <3>2 DEF ShownInv, AsksTyped
  <2>5. TablesAsked'
    BY <2>1, <2>3 DEF ShownInv, TablesAsked, TableAsked
  <2> QED BY <2>1, <2>4, <2>5 DEF ShownInv, RepliesGood, ScreensShow, SignalsGood
<1> QED BY <1>6, <1>7, <1>8, <1>9, <1>10, <1>11 DEF Request, Buttons

\* What an answer makes of a page is a page again: the rows are items, only a
\* table is watched, and the drawer is typed.
LEMMA AfterShown ==
  ASSUME NEW c \in Conns, AskGood(ask[c], call[c], reply[c]), Answered(c), ReplyGood(reply[c]),
         NEW s, IsScreen(s), ScreenGood(s), ask[c].what = "table" => s.page \in Tabs
  PROVE  /\ ScreenGood(After(c, s))
         /\ ask[c].what \notin Tabs =>
              After(c, s).page = s.page /\ (s.watched => After(c, s).watched)
<1> DEFINE k == ask[c]
<1>1. k.what \in Tabs \union {"table"} \union ItemAsks
  BY DEF AskGood, AllAsks, Answered
<1>2. DOMAIN Table(reply[c].items) \subseteq Items
  BY DEF Table, ReplyGood
<1>3. CASE k.what \in Tabs
  <2>1. After(c, s) = PageAfter(c)
    BY <1>3 DEF After, Tabs
  <2>2. ScreenGood(Blank)
    BY DEF Blank, ScreenGood
  <2>3. CASE ~Ok(c)
    BY <1>3, <2>1, <2>2, <2>3 DEF PageAfter
  <2>4. CASE Ok(c)
    <3>1. PICK rows : rows = Table(reply[c].items)
      OBVIOUS
    <3>2. PageAfter(c) = [Blank EXCEPT !.page = k.what, !.rows = rows,
                                       !.watched = IsWatched(k.what, rows)]
      BY <2>4, <3>1 DEF PageAfter
    <3>3. /\ PageAfter(c).page = k.what /\ PageAfter(c).rows = rows
          /\ PageAfter(c).watched = IsWatched(k.what, rows)
          /\ PageAfter(c).drawer = NoDrawer
      BY <3>2 DEF Blank
    <3>4. PageAfter(c).watched => k.what \in {"queue", "mywork"}
      BY <3>3 DEF IsWatched
    <3> QED BY <1>2, <1>3, <2>1, <3>1, <3>3, <3>4 DEF ScreenGood
  <2> QED BY <1>3, <2>3, <2>4
<1>4. CASE k.what \notin Tabs /\ ~Ok(c)
  BY <1>4 DEF After
<1>5. CASE k.what = "table" /\ Ok(c)
  <2>1. After(c, s) = TableAfter(c, s)
    BY <1>5 DEF After, Tabs
  <2>2. /\ TableAfter(c, s).page = s.page /\ TableAfter(c, s).drawer = s.drawer
        /\ TableAfter(c, s).watched = (s.page # "search")
        /\ TableAfter(c, s).rows = Table(reply[c].items)
    BY DEF TableAfter, IsScreen
  <2>3. s.page \in Tabs
    BY <1>5
  <2> QED BY <1>2, <1>5, <2>1, <2>2, <2>3 DEF ScreenGood, Tabs
<1>6. CASE k.what \in ItemAsks /\ Ok(c)
  <2>1. PICK it : reply[c].items = {<<k.item, it>>}
    BY <1>6 DEF AskGood, Answered, Idle, Ok
  <2>2. TheItem(c) = it
    <3>1. PICK x : x = CHOOSE e \in reply[c].items : TRUE
      OBVIOUS
    <3>2. x = <<k.item, it>>
      BY <2>1, <3>1
    <3>3. TheItem(c) = x[2]
      BY <3>1, Zenon DEF TheItem
    <3> QED BY <3>2, <3>3
  <2>3. PICK d : d = Drawer(k.item, it)
    OBVIOUS
  <2>4. d \in Drawers
    BY <2>1, <2>3 DEF ReplyGood
  <2>5. PICK t : t = PatchRow(s, k.item, it)
    OBVIOUS
  <2>6. /\ t.page = s.page /\ t.watched = s.watched /\ t.drawer = s.drawer
        /\ DOMAIN t.rows = DOMAIN s.rows /\ IsScreen(t)
    BY <2>5 DEF PatchRow, IsScreen
  <2>7. \/ After(c, s) = [s EXCEPT !.drawer = d]
        \/ After(c, s) = t
        \/ After(c, s) = [t EXCEPT !.drawer = d]
    BY <1>6, <2>2, <2>3, <2>5 DEF After, ItemAsks, Tabs, respondWithDetail
  <2>8. /\ After(c, s).page = s.page /\ After(c, s).watched = s.watched
        /\ DOMAIN After(c, s).rows = DOMAIN s.rows /\ After(c, s).drawer \in {s.drawer, d}
    <3>1. PICK a : a = After(c, s)
      OBVIOUS
    <3> QED BY <2>6, <2>7, <3>1 DEF IsScreen
  <2> QED BY <2>4, <2>8 DEF ScreenGood
<1> QED BY <1>1, <1>3, <1>4, <1>5, <1>6

LEMMA DeliverShown ==
  ASSUME PagesInv, ShownInv, NEW c \in Conns, Deliver(c, Owner[c])
  PROVE  ShownInv'
<1> DEFINE b == Owner[c]
           s == After(c, screen[b])
<1>1. c \in Calls /\ b \in Browsers /\ Shapes
  BY BrowserAssumption DEF PagesInv
<1>2. ScreenGood(s) /\ (ask[c].what \notin Tabs =>
                          s.page = screen[b].page /\ (screen[b].watched => s.watched))
  <2>1. /\ AskGood(ask[c], call[c], reply[c]) /\ IsScreen(screen[b]) /\ ~ask[c].gone
        /\ ReplyGood(reply[c]) /\ ScreenGood(screen[b]) /\ TableAsked(c) /\ Answered(c)
    BY <1>1 DEF PagesInv, AsksGood, ScreensGood, ShownInv, RepliesGood, ScreensShow, TablesAsked,
                Deliver, Answered
  <2> QED BY <2>1, AfterShown DEF TableAsked
<1>3. screen'[b] = s /\ \A x \in Browsers : x # b => screen'[x] = screen[x]
  BY <1>1 DEF Deliver, Shapes
<1> HIDE DEF s
<1>4. RepliesGood'
  BY <1>1, NoReplyGood, AnswerStaysGood DEF ShownInv, Deliver
<1>5. ask'[c] = NoAsk /\ NoAsk \in AskTypes /\ NoAsk.what # "table"
  BY DEF Deliver, NoAsk, AskTypes, AllAsks
<1>6. ASSUME NEW a \in AskTypes
      PROVE  [a EXCEPT !.gone = TRUE] \in AskTypes /\ [a EXCEPT !.gone = TRUE].gone
  BY DEF AskTypes
<1>7. AsksTyped'
  <2>1. ASSUME NEW d \in Conns PROVE ask'[d] \in AskTypes
    BY <1>5, <1>6, OnlyGone DEF ShownInv, AsksTyped
  <2> QED BY <2>1 DEF AsksTyped, AskTypes
<1>8. ASSUME NEW d \in Conns, ask'[d].what = "table", ~ask'[d].gone
      PROVE  screen'[Owner[d]].page \in Tabs
  <2>1. Owner[d] \in Browsers
    BY BrowserAssumption
  <2>2. d # c /\ ask[d] # NoAsk
    BY <1>5, <1>8, OnlyGone
  <2>3. ask[d] \in AskTypes
    BY DEF ShownInv, AsksTyped
  <2>4. /\ ask'[d] = ask[d] /\ (ask[c].what \in Tabs => Owner[d] # b)
        /\ screen[Owner[d]].page \in Tabs
    BY <1>6, <1>8, <2>2, <2>3, OnlyGone DEF ShownInv, TablesAsked, TableAsked
  <2> QED BY <1>2, <1>3, <2>1, <2>4
<1>9. ScreensShow'
  BY <1>2, <1>3 DEF ShownInv, ScreensShow
<1>10. SignalsGood'
  <2>1. signalled' = IF ask[c].what \in Tabs THEN signalled \ {b} ELSE signalled
    BY DEF Deliver
  <2> QED BY <1>2, <1>3, <2>1 DEF ShownInv, SignalsGood
<1> QED BY <1>4, <1>7, <1>8, <1>9, <1>10 DEF ShownInv, TablesAsked, TableAsked

\* What leaves the screens, the questions and the signals alone.
LEMMA OthersShown ==
  ASSUME ShownInv, PagesInv, NEW c \in Calls, NEW r, Answer_(c, r), ReplyGood(r),
         screen' = screen, ask' = ask, signalled' = signalled
  PROVE  ShownInv'
<1>1. RepliesGood'
  BY AnswerStaysGood DEF PagesInv, ShownInv
<1> QED BY <1>1 DEF ShownInv, AsksTyped, TablesAsked, TableAsked, ScreensShow, SignalsGood

LEMMA LostShown ==
  ASSUME PagesInv, ShownInv, NEW c \in Conns, Lose(c) \/ Discard(c)
  PROVE  ShownInv'
<1>1. c \in Calls /\ screen' = screen /\ signalled' = signalled
  BY BrowserAssumption DEF Lose, Discard
<1>2. ask' = [ask EXCEPT ![c] = NoAsk] /\ Answer_(c, NoReply)
  BY DEF Lose, Discard
<1>3. RepliesGood'
  BY <1>1, <1>2, NoReplyGood, AnswerStaysGood DEF PagesInv, ShownInv
<1>4. ask'[c] = NoAsk /\ \A d \in Conns : d # c => ask'[d] = ask[d]
  BY <1>2 DEF PagesInv, Shapes
<1>5. NoAsk \in AskTypes /\ NoAsk.what # "table"
  BY DEF NoAsk, AllAsks, AskTypes
<1>6. AsksTyped' /\ TablesAsked'
  BY <1>1, <1>4, <1>5 DEF ShownInv, AsksTyped, TablesAsked, TableAsked
<1> QED BY <1>1, <1>3, <1>6 DEF ShownInv, ScreensShow, SignalsGood

LEMMA ShownStep ==
  Inv /\ Inv' /\ PagesInv /\ ShownInv /\ [BrowserNext]_browserVars => ShownInv'
<1> SUFFICES ASSUME Inv, Inv', PagesInv, ShownInv, [BrowserNext]_browserVars PROVE ShownInv'
  OBVIOUS
<1>1. ASSUME NEW c \in Conns, Connection(c) PROVE ShownInv'
  <2>1. CASE Handle(c, Owner[c])
    <3>1. c \in Calls /\ UNCHANGED uiVars /\ \E r : Answer_(c, r) /\ ReplyGood(r)
      BY <2>1, OwnerType, HandleCases, ItemCallShows, NoReplyGood
    <3> QED BY <3>1, OthersShown DEF uiVars
  <2> QED BY <1>1, <2>1, RequestShown, DeliverShown, LostShown DEF Connection
<1>2. ASSUME NEW c \in Clients, Client(c) PROVE ShownInv'
  <2>1. PICK id \in Identities \union {NoIdentity}, i \in Items : Rpc(c, id, i)
    BY <1>2 DEF Client
  <2>2. c \in Calls
    BY DEF Clients
  <2>3. \E r : Answer_(c, r) /\ ReplyGood(r)
    BY <2>1, <2>2, RpcShows
  <2> QED BY <1>2, <2>2, <2>3, OthersShown DEF Client, uiVars
<1>3. ASSUME NEW c \in Calls, Serve(c) PROVE ShownInv'
  <2>1. PICK i, op, evt : i = call[c].item /\ op = call[c].op /\ evt = call[c].evt
    OBVIOUS
  <2>2. OkIsItem(c, i)' /\ Answer_(c, toProto(c, i)) /\ TypeOK
    BY <1>3, <2>1, StepKeeps DEF Serve, Proceed, Inv
  <2>3. i \in Items
    BY <1>3, <2>1, StepEffect DEF Serve, Proceed, Inv, TypeOK
  <2>4. ReplyGood(toProto(c, i))
    BY <2>2, <2>3, AnswerShows
  <2> QED BY <1>3, <2>2, <2>4, OthersShown DEF Serve, uiVars
<1>4. CASE Notify
  BY <1>4 DEF Notify, ShownInv, RepliesGood, AsksTyped, TablesAsked, TableAsked, ScreensShow,
              SignalsGood
<1>5. CASE UNCHANGED browserVars
  BY <1>5 DEF browserVars, ShownInv, RepliesGood, AsksTyped, TablesAsked, TableAsked, ScreensShow,
              SignalsGood
<1> QED BY <1>1, <1>2, <1>3, <1>4, <1>5 DEF BrowserNext

LEMMA ShownInit == BrowserInit => ShownInv
<1> SUFFICES ASSUME BrowserInit PROVE ShownInv
  OBVIOUS
<1>1. RepliesGood
  BY NoReplyGood DEF BrowserInit, ServiceInit, RepliesGood
<1>2. AsksTyped /\ TablesAsked
  BY DEF BrowserInit, AsksTyped, AskTypes, TablesAsked, TableAsked, NoAsk, AllAsks
<1>3. ScreensShow /\ SignalsGood
  BY DEF BrowserInit, ScreensShow, ScreenGood, Blank, SignalsGood
<1> QED BY <1>1, <1>2, <1>3 DEF ShownInv

\* The pages are well typed whatever answers arrive in whatever order: a late
\* answer never leaves a table that is watched on a page without one, and
\* only a browser with a watched table is told of changes.
THEOREM BrowserTypes == BrowserSpec => []BrowserTypeOK
<1>1. ShownInv /\ Shapes => BrowserTypeOK
  <2> SUFFICES ASSUME ShownInv, Shapes PROVE BrowserTypeOK
    OBVIOUS
  <2>1. ask \in [Conns -> AskTypes]
    BY DEF ShownInv, AsksTyped, Shapes
  <2>2. AllAsks = Tabs \union {"none", "table", "detail", "row",
                              "claim", "release", "close", "comment"}
    BY DEF AllAsks, ItemAsks
  <2>3. \A c \in Calls : reply[c].code \in Codes
    BY DEF ShownInv, RepliesGood, ReplyGood
  <2>4. \A b \in Browsers : ScreenGood(screen[b])
    BY DEF ShownInv, ScreensShow
  <2>5. signalled \subseteq {b \in Browsers : screen[b].watched}
    BY DEF ShownInv, SignalsGood
  <2> QED BY <2>1, <2>2, <2>3, <2>4, <2>5 DEF BrowserTypeOK, AskTypes, Codes, ScreenGood
<1> QED BY <1>1, ShownInit, ShownStep, PagesInvCorrect, PTL DEF BrowserSpec, PagesInv

-----------------------------------------------------------------------------
(* What a step does to a connection *)

\* A step that leaves a connection's call, request and answer alone, but that
\* nobody may wait for them any more.
Untouched(c) ==
  /\ call'[c] = call[c] /\ reply'[c] = reply[c]
  /\ ask'[c].what = ask[c].what /\ ask'[c].item = ask[c].item /\ ask'[c].shown = ask[c].shown

\* A connection is used for a button of the drawer, or for a read.
LEMMA RequestSteps ==
  ASSUME Shapes, NEW c \in Conns, Request(c, Owner[c])
  PROVE  /\ call[c].pc = "idle" /\ ask[c] = NoAsk
         /\ \/ ask'[c].what \in Tabs \union {"table", "detail", "row"}
            \/ \E i \in Items, op \in Buttons : Press(c, Owner[c], i, op)
<1>1. ASSUME NEW what \in Tabs \union {"table", "detail", "row"}, NEW i, Asks(c, what, i)
      PROVE  ask'[c].what \in Tabs \union {"table", "detail", "row"}
  BY <1>1, AsksShape
<1>2. CASE \E i \in Items, op \in Buttons : Press(c, Owner[c], i, op)
  BY <1>2 DEF Press, Free, Idle
<1>3. CASE ~\E i \in Items, op \in Buttons : Press(c, Owner[c], i, op)
  <2>1. /\ Free(c)
        /\ \E what \in Tabs \union {"table", "detail", "row"} : \E i : Asks(c, what, i)
    BY <1>3 DEF Request, Visit, Reload, SearchAgain, OpenRow, ReloadDrawer, Buttons
  <2> QED BY <1>1, <2>1 DEF Free, Idle
<1> QED BY <1>2, <1>3

LEMMA ConnSteps ==
  ASSUME Inv, PagesInv, BrowserNext, NEW c \in Conns
  PROVE  \/ Untouched(c)
         \/ ask'[c] = NoAsk /\ reply'[c] = NoReply
         \/ Serve(c) \/ Handle(c, Owner[c]) \/ Request(c, Owner[c])
<1> DEFINE Fine == \/ Untouched(c)
                   \/ ask'[c] = NoAsk /\ reply'[c] = NoReply
                   \/ Serve(c) \/ Handle(c, Owner[c]) \/ Request(c, Owner[c])
<1> SUFFICES Fine
  OBVIOUS
<1>0. TypeOK /\ Shapes /\ c \in Calls
  BY BrowserAssumption DEF Inv, PagesInv
<1>1. ASSUME NEW d \in Calls, d # c, NEW i \in Items, NEW a \in Actors,
             UNCHANGED vars \/ Start(d, i, a)
      PROVE  call'[c] = call[c]
  BY <1>0, <1>1, StartKeeps DEF vars
<1>2. ASSUME NEW d \in Conns, Request(d, Owner[d]), d # c PROVE Fine
  <2>1. d \in Calls /\ call'[c] = call[c]
    BY <1>0, <1>2, OwnerType, RequestIsStart, StartKeeps DEF vars
  <2>2. CASE \E i, op : Press(d, Owner[d], i, op)
    BY <1>0, <1>2, <2>1, <2>2, PressShape DEF Untouched
  <2>3. CASE ~\E i, op : Press(d, Owner[d], i, op)
    <3>1. \E r : Answer_(d, r)
      BY <1>2, <2>3 DEF Request, Visit, Reload, SearchAgain, Query, QueryItems, OpenRow,
                        ReloadDrawer, ReadItem, Handled
    <3>2. \E what, i : Asks(d, what, i)
      BY <1>2, <2>3 DEF Request, Visit, Reload, SearchAgain, OpenRow, ReloadDrawer
    <3>3. reply'[c] = reply[c]
      BY <1>0, <1>2, <2>1, <3>1, AnswerShape
    <3>4. ask'[c] = ask[c]
      BY <1>0, <1>2, <3>2, AsksShape
    <3> QED BY <2>1, <3>3, <3>4 DEF Untouched
  <2> QED BY <2>2, <2>3
<1>3. ASSUME NEW d \in Conns, Handle(d, Owner[d]), d # c PROVE Fine
  <2>1. d \in Calls /\ ActorOf(IdentityOf[Owner[d]]) \in Actors /\ ask' = ask
    BY <1>3, OwnerType, HandleCases, BrowserAssumption, IdentitiesAssumption DEF uiVars
  <2>2. PICK i \in Items :
          \/ ItemCall(d, IdentityOf[Owner[d]], i)
          \/ Answer_(d, [NoReply EXCEPT !.code = "Unreadable"]) /\ UNCHANGED vars
    BY <1>3, OwnerType, HandleCases
  <2>3. call'[c] = call[c]
    BY <1>1, <1>3, <2>1, <2>2, ItemCallIsStart
  <2>4. \E r : Answer_(d, r)
    BY <1>0, <2>1, <2>2, RequestOp
  <2>5. reply'[c] = reply[c]
    BY <1>0, <1>3, <2>1, <2>4, AnswerShape
  <2> QED BY <2>1, <2>3, <2>5 DEF Untouched
<1>4. ASSUME NEW d \in Conns, Deliver(d, Owner[d]) PROVE Fine
  <2>1. CASE d = c
    <3>1. ask'[c] = NoAsk /\ reply'[c] = NoReply
      BY <1>0, <1>4, <2>1, AnswerShape DEF Deliver
    <3> QED BY <3>1
  <2>2. CASE d # c
    <3>1. call'[c] = call[c] /\ reply'[c] = reply[c]
      BY <1>0, <1>4, <2>2, AnswerShape, BrowserAssumption DEF Deliver, vars
    <3> QED BY <1>4, <2>2, <3>1, OnlyGone DEF Untouched
  <2> QED BY <2>1, <2>2
<1>5. ASSUME NEW d \in Conns, Lose(d) \/ Discard(d) PROVE Fine
  <2>1. ask' = [ask EXCEPT ![d] = NoAsk] /\ Answer_(d, NoReply) /\ call' = call
    BY <1>5 DEF Lose, Discard, vars
  <2>2. CASE d = c
    BY <1>0, <2>1, <2>2, AnswerShape DEF Shapes
  <2>3. CASE d # c
    <3>1. reply'[c] = reply[c]
      BY <1>0, <2>1, <2>3, AnswerShape, BrowserAssumption
    <3> QED BY <1>0, <2>1, <2>3, <3>1 DEF Shapes, Untouched
  <2> QED BY <2>2, <2>3
<1>6. ASSUME NEW d \in Clients, Client(d) PROVE Fine
  <2>1. d \in Calls /\ d # c
    BY <1>6 DEF Clients
  <2>2. PICK id \in Identities \union {NoIdentity}, i \in Items : Rpc(d, id, i)
    BY <1>6 DEF Client
  <2>3. call'[c] = call[c]
    BY <1>1, <2>1, <2>2, RpcIsStart DEF vars
  <2>4. \E r : Answer_(d, r)
    BY <2>2 DEF Rpc, InvalidArgument, CreateItem, ReadItem, ClaimItem, ReleaseItem, CloseItem,
                ReassignItem, CommentOnItem, AddEventTo, TagItem, UntagItem, Handled
  <2>5. reply'[c] = reply[c]
    BY <1>0, <2>1, <2>4, AnswerShape
  <2> QED BY <1>6, <2>3, <2>5 DEF Untouched, Client, uiVars
<1>7. ASSUME NEW d \in Calls, Serve(d), d # c PROVE Fine
  <2>1. PICK i, op, evt : i = call[d].item /\ op = call[d].op /\ evt = call[d].evt
    OBVIOUS
  <2>2. call'[c] = call[c]
    BY <1>0, <1>7, <2>1, StepKeeps DEF Serve, Proceed
  <2>3. reply'[c] = reply[c]
    BY <1>0, <1>7, <2>1, AnswerShape DEF Serve, Proceed
  <2> QED BY <1>7, <2>2, <2>3 DEF Untouched, Serve, uiVars
<1>8. CASE Notify
  BY <1>8 DEF Notify, vars, Untouched
<1>9. Serve(c) \/ Handle(c, Owner[c]) \/ Request(c, Owner[c]) => Fine
  OBVIOUS
<1> HIDE DEF Fine
<1> QED BY <1>2, <1>3, <1>4, <1>5, <1>6, <1>7, <1>8, <1>9 DEF BrowserNext, Connection

-----------------------------------------------------------------------------
(* The buttons fit the service's guards *)

\* The results of a call that may have written.
LateResults == {"ok", "internal", "notFound"}

LEMMA NotRefused ==
  ASSUME NEW res \in LateResults
  PROVE  mapError[res] \notin {"FailedPrecondition", "InvalidArgument"}
  BY DEF LateResults, mapError

\* A call that has begun returns no refusal.
LEMMA StepNeverRefuses ==
  ASSUME Inv, NEW c \in Calls, Step(c)
  PROVE  ~Idle(c)' \/ call'[c].res \in LateResults
<1> DEFINE k == call[c]
           Kept == ~Idle(c)' \/ call'[c].res \in LateResults
<1> SUFFICES Kept
  OBVIOUS
<1>1. TypeOK
  BY DEF Inv
<1>2. ASSUME NEW op, NEW i, NEW res \in LateResults, Return(c, op, i, res) PROVE Kept
  BY <1>1, <1>2, ReturnKeeps
<1>3. Answer(k.op, "internal") \in LateResults /\ Answer(k.op, "notFound") \in LateResults
  BY DEF Answer, LateResults
<1>4. CASE DoTransition(c)
  <2>1. \E ack \in BOOLEAN : Return(c, k.op, k.item, IF ack THEN "ok" ELSE "internal")
    BY <1>4 DEF DoTransition
  <2> QED BY <1>2, <2>1 DEF LateResults
<1>5. CASE AppendEvent(c)
  <2>1. \E ack \in BOOLEAN :
          Return(c, k.op, k.item, IF ack THEN "ok" ELSE Answer(k.op, "internal"))
    BY <1>5 DEF AppendEvent
  <2> QED BY <1>2, <1>3, <2>1 DEF LateResults
<1>6. CASE ReadForEvent(c)
  <2>1. PICK item : Get(c, k.op, k.item, k.evt, item, TRUE, "none")
    BY <1>6 DEF ReadForEvent
  <2>2. CASE Return(c, k.op, k.item, Answer(k.op, "notFound"))
    BY <1>2, <1>3, <2>2
  <2>3. CASE call' = [call EXCEPT ![c] =
               [IdleCall EXCEPT !.pc = "write", !.op = k.op, !.item = k.item, !.evt = k.evt,
                                !.to = k.to, !.read = item]]
    BY <1>1, <2>3 DEF TypeOK, IdleCall, Idle
  <2> QED BY <2>1, <2>2, <2>3 DEF Get
<1>7. CASE AddAssignee(c)
  <2>1. \/ Return(c, k.op, k.item, "internal")
        \/ Continue(c, "read", k.op, k.item, k.evt, k.to)
    BY <1>7 DEF AddAssignee
  <2>2. CASE Return(c, k.op, k.item, "internal")
    BY <1>2, <2>2 DEF LateResults
  <2>3. CASE Continue(c, "read", k.op, k.item, k.evt, k.to)
    BY <1>1, <2>3, ContinueKeeps DEF Idle
  <2> QED BY <2>1, <2>2, <2>3
<1> QED BY <1>4, <1>5, <1>6, <1>7 DEF Step

\* An operation that is allowed is not refused.
LEMMA AllowedAnswer ==
  ASSUME TypeOK, NEW c \in Calls, NEW i, NEW op, op \notin {"tag", "untag"},
         NEW evt, NEW item, NEW allowed, allowed, NEW refusal,
         Get(c, op, i, evt, item, allowed, refusal)
  PROVE  toProto(c, i).code # "FailedPrecondition"
<1>1. CASE Return(c, op, i, Answer(op, "notFound"))
  <2>1. call'[c].pc = "idle" /\ call'[c].res = "notFound"
    BY <1>1, ReturnKeeps DEF Answer
  <2> QED BY <2>1 DEF toProto, Idle, mapError
<1>2. CASE ~Idle(c)'
  BY <1>2 DEF toProto, NoReply
<1>3. CASE call' = [call EXCEPT ![c] =
             [IdleCall EXCEPT !.pc = "write", !.op = op, !.item = i, !.evt = evt,
                              !.to = call[c].to, !.read = item]]
  BY <1>2, <1>3 DEF IdleCall, TypeOK, Idle
<1> QED BY <1>1, <1>3 DEF Get

\* A button shows up at a status its guard allows.
FitsStatus(op, status) ==
  /\ op = "claim"   => status = "open"
  /\ op = "release" => status = "claimed"
  /\ op = "close"   => ~IsTerminal(status)

PressedInv == \A c \in Conns : FitsStatus(ask[c].what, ask[c].shown)

LEMMA PressedFits ==
  ASSUME NEW d, NEW me, NEW op \in Controls(d, me) PROVE FitsStatus(op, d.status)
  BY DEF Controls, ActionButtons, SubmitButton, CommentForm, FitsStatus

LEMMA PressedStep ==
  ASSUME Inv, PagesInv, PressedInv, [BrowserNext]_browserVars PROVE PressedInv'
<1> SUFFICES ASSUME NEW c \in Conns PROVE FitsStatus(ask'[c].what, ask'[c].shown)
  BY DEF PressedInv, FitsStatus, IsTerminal
<1>1. FitsStatus(ask[c].what, ask[c].shown)
  BY DEF PressedInv
<1>2. CASE Untouched(c)
  BY <1>1, <1>2 DEF Untouched
<1>3. CASE Serve(c) \/ Handle(c, Owner[c]) \/ UNCHANGED browserVars
  BY <1>1, <1>3 DEF Serve, Handle, uiVars, browserVars
<1>4. CASE ask'[c].what \in Tabs \union {"none", "table", "detail", "row"}
  BY <1>4 DEF FitsStatus, Tabs
<1>5. ASSUME NEW i, NEW op, Press(c, Owner[c], i, op)
      PROVE  FitsStatus(ask'[c].what, ask'[c].shown)
  <2>1. ask'[c].what = op /\ ask'[c].shown = screen[Owner[c]].drawer.status
    BY <1>5, PressShape DEF PagesInv
  <2>2. op \in Controls(screen[Owner[c]].drawer, Me(Owner[c]))
    BY <1>5 DEF Press
  <2> QED BY <2>1, <2>2, PressedFits
<1>6. CASE Request(c, Owner[c])
  BY <1>4, <1>5, <1>6, RequestSteps DEF PagesInv
<1> QED BY <1>2, <1>3, <1>4, <1>6, ConnSteps DEF NoAsk

\* A request that finds the status its button was pressed at is not refused.
LEMMA HandledFits ==
  ASSUME TypeOK, NEW c \in Conns, NEW b, NEW i \in Items,
         handleClaim(c, b, i) \/ handleRelease(c, b, i) \/ handleClose(c, b, i),
         FitsStatus(ask[c].what, store[i].doc.status)
  PROVE  toProto(c, i).code # "FailedPrecondition"
<1>1. c \in Calls
  BY BrowserAssumption
<1>2. CASE handleClaim(c, b, i)
  <2>1. store[i].doc.status = "open"
    BY <1>2 DEF handleClaim, Posted, FitsStatus
  <2>2. CASE Return(c, "claim", i, "internal")
    <3>1. call'[c].pc = "idle" /\ call'[c].res = "internal"
      BY <1>1, <2>2, ReturnKeeps
    <3> QED BY <3>1 DEF toProto, Idle, mapError
  <2>3. CASE Transition(c, "claim", i, Event("ItemClaimed", ActorOf(IdentityOf[b])), "open")
    BY <1>1, <2>1, <2>3, AllowedAnswer DEF Transition
  <2> QED BY <1>2, <2>2, <2>3 DEF handleClaim, ClaimItem, Claim
<1>3. CASE handleRelease(c, b, i)
  <2>1. store[i].doc.status = "claimed"
    BY <1>3 DEF handleRelease, Posted, FitsStatus
  <2>2. PICK item : Get(c, "release", i, Event("ItemReleased", ActorOf(IdentityOf[b])), item,
                        store[i].doc.status = "claimed", "invalidTransition")
    BY <1>3 DEF handleRelease, ReleaseItem, Release
  <2> QED BY <1>1, <2>1, <2>2, AllowedAnswer
<1>4. CASE handleClose(c, b, i)
  <2>1. ~IsTerminal(store[i].doc.status)
    BY <1>4 DEF handleClose, Posted, FitsStatus
  <2>2. PICK item : Get(c, "close", i, Event("ItemClosed", ActorOf(IdentityOf[b])), item,
                        ~IsTerminal(store[i].doc.status), "terminal")
    BY <1>4 DEF handleClose, CloseItem, Close
  <2> QED BY <1>1, <2>1, <2>2, AllowedAnswer
<1> QED BY <1>2, <1>3, <1>4

\* A button is refused only when the server finds a status that is not the
\* one its drawer showed, for any number of browsers, connections and clients
\* that press, write and overtake each other meanwhile (actions_templ.go,
\* schemaprovider.go:34, lifecycle.go:34, 52 and 67).
THEOREM ButtonsCorrect == BrowserSpec => ButtonsFit
<1> DEFINE Fits(c) ==
      /\ ask[c].what \in {"claim", "release", "close"}
      /\ reply[c].code = "none" /\ reply'[c].code = "FailedPrecondition"
      => store[ask[c].item].doc.status # ask[c].shown
<1>1. BrowserInit => PressedInv
  BY DEF BrowserInit, PressedInv, FitsStatus, NoAsk
<1>2. ASSUME Inv, PagesInv, PressedInv, BrowserNext, NEW c \in Conns,
             ask[c].what \in {"claim", "release", "close"},
             reply[c].code = "none", reply'[c].code = "FailedPrecondition"
      PROVE  store[ask[c].item].doc.status # ask[c].shown
  <2>1. c \in Calls /\ Shapes /\ TypeOK
    BY <1>2, BrowserAssumption DEF PagesInv, Inv
  <2>2. ~Untouched(c) /\ reply'[c] # NoReply
    BY <1>2 DEF Untouched, NoReply
  <2>3. ~Request(c, Owner[c])
    BY <1>2, <2>1, RequestSteps DEF NoAsk
  <2>4. ASSUME Serve(c) PROVE FALSE
    <3>1. PICK i : i = call[c].item
      OBVIOUS
    <3>2. Step(c) /\ reply'[c] = toProto(c, i)
      BY <2>1, <2>4, <3>1, AnswerShape DEF Serve, Proceed
    <3>3. ~Idle(c)' \/ call'[c].res \in LateResults
      BY <1>2, <2>1, <3>2, StepNeverRefuses
    <3>4. CASE ~Idle(c)'
      BY <1>2, <3>2, <3>4 DEF toProto, NoReply
    <3>5. CASE Idle(c)'
      BY <1>2, <3>2, <3>3, <3>5, NotRefused DEF toProto
    <3> QED BY <3>4, <3>5
  <2>5. PICK i \in Items : \/ handleClaim(c, Owner[c], i) \/ handleRelease(c, Owner[c], i)
                          \/ handleClose(c, Owner[c], i)
    <3>1. Handle(c, Owner[c])
      BY <1>2, <2>2, <2>3, <2>4, ConnSteps
    <3> QED BY <1>2, <3>1 DEF Handle, handleComment, Posted
  <2>6. ask[c].item = i
    BY <2>5 DEF handleClaim, handleRelease, handleClose, Posted
  <2>7. Answer_(c, toProto(c, i))
    BY <2>5 DEF handleClaim, handleRelease, handleClose, ClaimItem, ReleaseItem, CloseItem, Handled
  <2>8. reply'[c] = toProto(c, i)
    BY <2>1, <2>7, AnswerShape
  <2>9. ~FitsStatus(ask[c].what, store[i].doc.status)
    BY <1>2, <2>1, <2>5, <2>8, HandledFits
  <2> QED BY <1>2, <2>6, <2>9 DEF PressedInv
<1>3. Inv /\ PagesInv /\ PressedInv /\ [BrowserNext]_browserVars
        => [\A c \in Conns : Fits(c)]_browserVars
  BY <1>2
<1> QED BY <1>1, <1>3, PressedStep, PagesInvCorrect, PTL DEF BrowserSpec, ButtonsFit

-----------------------------------------------------------------------------
(* Who has claimed an item is offered to release it *)

\* An answer says that item i is claimed, and by a.
Claimed(r, i, a) ==
  \E it : /\ r.items = {<<i, it>>}
          /\ it.doc.status = "claimed" /\ <<"assignee", a>> \in it.tags

\* A connection whose Claim button was pressed runs a claim in the name of
\* its browser's actor, and was answered, if at all, with the item claimed.
ClaimGood(a, me, k, r) ==
  a.what = "claim" =>
    /\ k.pc # "idle" => k.op = "claim" /\ k.pc = "write" /\ k.evt.actor = me
    /\ k.pc = "idle" /\ r.code = "OK" => Claimed(r, a.item, me)

ClaimsInv == \A c \in Conns : ClaimGood(ask[c], Me(Owner[c]), call[c], reply[c])

LEMMA MeIsActor ==
  ASSUME NEW b \in Browsers PROVE ActorOf(IdentityOf[b]) = Me(b)
  BY BrowserAssumption DEF ActorOf, Me

\* What a step may do to a connection whose Claim button was pressed.
LEMMA ClaimSteps ==
  ASSUME Inv, PagesInv, BrowserNext, NEW c \in Conns
  PROVE  \/ Untouched(c)
         \/ ask'[c].what # "claim"
         \/ Serve(c)
         \/ \E i \in Items : handleClaim(c, Owner[c], i) /\ UNCHANGED uiVars
         \/ \E i \in Items : Press(c, Owner[c], i, "claim")
<1>1. CASE Request(c, Owner[c])
  <2>1. CASE ask'[c].what \in Tabs \union {"table", "detail", "row"}
    BY <2>1 DEF Tabs
  <2>2. ASSUME NEW i \in Items, NEW op \in Buttons, Press(c, Owner[c], i, op)
        PROVE  ask'[c].what # "claim" \/ op = "claim"
    BY <2>2, PressShape DEF PagesInv
  <2> QED BY <1>1, <2>1, <2>2, RequestSteps DEF PagesInv
<1>2. CASE Handle(c, Owner[c])
  BY <1>2 DEF Handle, handleRelease, handleClose, handleComment, Posted, uiVars
<1> QED BY <1>1, <1>2, ConnSteps DEF NoAsk

\* The server takes up the request: a claim starts, or an error answers it.
LEMMA ClaimStarts ==
  ASSUME Inv, PagesInv, NEW c \in Conns, NEW i \in Items, handleClaim(c, Owner[c], i),
         UNCHANGED uiVars
  PROVE  ClaimGood(ask'[c], Me(Owner[c]), call'[c], reply'[c])
<1> DEFINE me == Me(Owner[c])
<1>0. TypeOK /\ Shapes /\ c \in Calls /\ ActorOf(IdentityOf[Owner[c]]) = me
  BY BrowserAssumption, MeIsActor DEF Inv, PagesInv
<1>1. Claim(c, i, me) /\ Answer_(c, toProto(c, i))
  BY <1>0 DEF handleClaim, ClaimItem, Handled
<1>2. reply'[c] = toProto(c, i)
  BY <1>0, <1>1, AnswerShape
<1>3. ASSUME NEW res \in {"internal", "notFound", "invalidTransition"},
             Return(c, "claim", i, res)
      PROVE  ClaimGood(ask'[c], me, call'[c], reply'[c])
  <2>1. call'[c].op = "claim" /\ call'[c].pc = "idle" /\ call'[c].res = res
    BY <1>0, <1>3, ReturnKeeps
  <2>2. reply'[c].code # "OK"
    BY <1>2, <2>1 DEF toProto, Idle, mapError
  <2> QED BY <2>1, <2>2 DEF ClaimGood
<1>4. CASE call' = [call EXCEPT ![c] =
             [IdleCall EXCEPT !.pc = "write", !.op = "claim", !.item = i,
                              !.evt = Event("ItemClaimed", me), !.to = call[c].to,
                              !.read = ItemOf(store[i])]]
  BY <1>0, <1>4 DEF IdleCall, TypeOK, ClaimGood, Event
<1>5. CASE Transition(c, "claim", i, Event("ItemClaimed", me), "open")
  <2>1. Answer("claim", "notFound") = "notFound"
    BY DEF Answer
  <2> QED BY <1>3, <1>4, <1>5, <2>1 DEF Transition, Get
<1> QED BY <1>1, <1>3, <1>5 DEF Claim

\* A claim that writes and is answered with its item has claimed it.
LEMMA ClaimReturns ==
  ASSUME Inv, PagesInv, ClaimsInv, NEW c \in Conns, Serve(c)
  PROVE  ClaimGood(ask'[c], Me(Owner[c]), call'[c], reply'[c])
<1> DEFINE me   == Me(Owner[c])
           k    == call[c]
           i    == k.item
           doc  == [Appended(k.read.doc, k.evt) EXCEPT !.status = "claimed"]
           tags == Merge(WithStatus(k.read.tags, "claimed"), ExtraTags("claim", k.evt))
           e    == TransitionWrite(store[i], doc, tags)
<1> SUFFICES ASSUME ask[c].what = "claim"
             PROVE  ClaimGood(ask'[c], me, call'[c], reply'[c])
  BY DEF Serve, uiVars, ClaimGood
<1>1. /\ TypeOK /\ Shapes /\ c \in Calls /\ ~Idle(c) /\ Step(c) /\ ask' = ask
      /\ Answer_(c, toProto(c, i))
  BY BrowserAssumption, StepEffect DEF Inv, PagesInv, Serve, Proceed, uiVars
<1>2. i \in Items /\ k.read.doc \in Docs /\ k.evt \in Events /\ store[i] \in Entities
  BY <1>1 DEF TypeOK, CallStates
<1>3. k.op = "claim" /\ k.pc = "write" /\ k.evt.actor = me /\ ask[c].item = i
  BY <1>1 DEF ClaimsInv, ClaimGood, Idle, PagesInv, AsksGood, AskGood, ItemAsks
<1>4. DoTransition(c)
  BY <1>1, <1>3 DEF Step, ReadForEvent, AddAssignee, AppendEvent, ToStatus
<1>5. PICK ack \in BOOLEAN : /\ StoreCall(i, e, ack)
                             /\ Return(c, "claim", i, IF ack THEN "ok" ELSE "internal")
  BY <1>3, <1>4 DEF DoTransition, ToStatus
<1>6. e.doc.status = "claimed" /\ <<"assignee", me>> \in e.tags
  <2>1. Appended(k.read.doc, k.evt) \in Docs
    BY <1>2, AppendedType
  <2>2. doc.status = "claimed"
    BY <2>1 DEF Docs
  <2>3. <<"assignee", me>> \in tags
    BY <1>3 DEF Merge, ExtraTags
  <2> HIDE DEF doc, tags
  <2> QED BY <1>2, <2>2, <2>3 DEF TransitionWrite, UpdateAll, Entities
<1> HIDE DEF e
<1>7. /\ call'[c].op = "claim" /\ call'[c].pc = "idle"
      /\ call'[c].res = IF ack THEN "ok" ELSE "internal"
  BY <1>1, <1>5, ReturnKeeps
<1>8. reply'[c] = toProto(c, i)
  BY <1>1, AnswerShape
<1>9. CASE ~ack
  <2>1. reply'[c].code # "OK"
    BY <1>7, <1>8, <1>9 DEF toProto, Idle, mapError
  <2> QED BY <1>7, <2>1 DEF ClaimGood
<1>10. CASE ack
  <2>1. store'[i] = e
    BY <1>1, <1>2, <1>5, <1>10 DEF StoreCall, TypeOK
  <2>2. Returned(c, i) = ItemOf(e)
    BY <1>3, <2>1 DEF Returned, ToStatus
  <2>3. reply'[c].items = {<<i, ItemOf(e)>>}
    BY <1>7, <1>8, <1>10, <2>2 DEF toProto, Idle
  <2>4. Claimed(reply'[c], i, me)
    <3>1. PICK it : it = ItemOf(e)
      OBVIOUS
    <3>2. it.doc.status = "claimed" /\ <<"assignee", me>> \in it.tags
      BY <1>6, <3>1 DEF ItemOf
    <3> QED BY <2>3, <3>1, <3>2 DEF Claimed
  <2> QED BY <1>1, <1>3, <1>7, <2>4 DEF ClaimGood
<1> QED BY <1>9, <1>10

LEMMA ClaimsStep ==
  ASSUME Inv, PagesInv, ClaimsInv, [BrowserNext]_browserVars
  PROVE  ClaimsInv'
<1> SUFFICES ASSUME NEW c \in Conns
             PROVE  ClaimGood(ask'[c], Me(Owner[c]), call'[c], reply'[c])
  BY DEF ClaimsInv, Me
<1>1. CASE Untouched(c)
  BY <1>1 DEF Untouched, ClaimsInv, ClaimGood
<1>2. CASE ask'[c].what # "claim"
  BY <1>2 DEF ClaimGood
<1>3. CASE UNCHANGED browserVars
  BY <1>1, <1>3 DEF browserVars, Untouched
<1>4. ASSUME NEW i \in Items, Press(c, Owner[c], i, "claim")
      PROVE  ClaimGood(ask'[c], Me(Owner[c]), call'[c], reply'[c])
  <2>1. /\ ask[c].what = "none" /\ reply' = reply /\ call'[c].pc = "idle"
    BY <1>4, PressShape DEF PagesInv
  <2>2. reply'[c] = NoReply
    BY <2>1 DEF PagesInv, AsksGood, AskGood
  <2>3. reply'[c].code # "OK"
    BY <2>2 DEF NoReply
  <2> QED BY <2>1, <2>3 DEF ClaimGood
<1> QED BY <1>1, <1>2, <1>3, <1>4, ClaimSteps, ClaimStarts, ClaimReturns

\* Who claims an item and is its only assignee is offered its Release button
\* by the answer, whatever other requests are under way (handler.go:59-62,
\* convert.go:32-45, actions_templ.go:16).
THEOREM ReleaseOffered == BrowserSpec => ClaimerMayRelease
<1> DEFINE Offered(c) ==
      /\ Deliver(c, Owner[c]) /\ ask[c].what = "claim" /\ Ok(c)
      /\ ValuesOf(TheItem(c).tags, "assignee") \subseteq {TagValue(TheItem(c).tags, "assignee")}
      => "release" \in Controls(screen'[Owner[c]].drawer, Me(Owner[c]))
<1>1. BrowserInit => ClaimsInv
  BY DEF BrowserInit, ClaimsInv, ClaimGood, NoAsk
<1>2. ASSUME PagesInv, ClaimsInv, NEW c \in Conns, Deliver(c, Owner[c]), ask[c].what = "claim",
             Ok(c),
             ValuesOf(TheItem(c).tags, "assignee")
               \subseteq {TagValue(TheItem(c).tags, "assignee")}
      PROVE  "release" \in Controls(screen'[Owner[c]].drawer, Me(Owner[c]))
  <2> DEFINE b == Owner[c]
             i == ask[c].item
  <2>1. Claimed(reply[c], i, Me(b))
    BY <1>2 DEF ClaimsInv, ClaimGood, Deliver, Answered, Idle, Ok
  <2>2. PICK it : /\ reply[c].items = {<<i, it>>}
                  /\ it.doc.status = "claimed" /\ <<"assignee", Me(b)>> \in it.tags
    BY <2>1 DEF Claimed
  <2>3. TheItem(c) = it
    <3>1. PICK x : x = CHOOSE e \in reply[c].items : TRUE
      OBVIOUS
    <3>2. x = <<i, it>>
      BY <2>2, <3>1
    <3>3. TheItem(c) = x[2]
      BY <3>1, Zenon DEF TheItem
    <3> QED BY <3>2, <3>3
  <2>4. TagValue(it.tags, "assignee") = Me(b)
    <3>1. Me(b) \in ValuesOf(it.tags, "assignee")
      BY <2>2 DEF ValuesOf, Tagged
    <3> QED BY <1>2, <2>3, <3>1
  <2>5. screen'[b].drawer = Drawer(i, it)
    <3>1. b \in Browsers /\ screen'[b] = After(c, screen[b])
      BY <1>2, BrowserAssumption DEF Deliver, PagesInv, Shapes
    <3>2. After(c, screen[b]) = respondWithDetail(screen[b], i, it)
      BY <1>2, <2>3 DEF After, Tabs
    <3> QED BY <3>1, <3>2 DEF respondWithDetail, PatchRow, PagesInv, ScreensGood, IsScreen
  <2>6. screen'[b].drawer.status = "claimed" /\ screen'[b].drawer.assignee = Me(b)
    BY <2>2, <2>4, <2>5 DEF Drawer, Activity
  <2> QED BY <2>6 DEF Controls, ActionButtons, HasActions, IsClaimant
<1>3. PagesInv /\ ClaimsInv /\ [BrowserNext]_browserVars
        => [\A c \in Conns : Offered(c)]_browserVars
  BY <1>2
<1> QED BY <1>1, <1>3, ClaimsStep, PagesInvCorrect, PTL DEF BrowserSpec, ClaimerMayRelease

-----------------------------------------------------------------------------
(* What a refused client may rely on *)

\* The first store call of a call writes, and returns a refusal, never both.
LEMMA StartRefuses ==
  ASSUME TypeOK, NEW c \in Calls, NEW i \in Items, NEW a \in Actors, Start(c, i, a)
  PROVE  Idle(c) /\ (store' = store \/ ~Idle(c)' \/ call'[c].res \in LateResults)
<1> DEFINE Kept == store' = store \/ ~Idle(c)' \/ call'[c].res \in LateResults
<1>1. Idle(c)
  BY DEF Start, Create, GetItem, Claim, Release, Close, AddEvent, Comment, Reassign, Tag,
         Untag, ChangeTags, May
<1> SUFFICES Kept
  BY <1>1
<1>2. ASSUME NEW op, NEW res \in LateResults, Return(c, op, i, res) PROVE Kept
  BY <1>2, ReturnKeeps
<1>3. ASSUME NEW pc \in {"assign", "read"}, NEW op, NEW evt, NEW to,
             Continue(c, pc, op, i, evt, to)
      PROVE  Kept
  BY <1>3, ContinueKeeps DEF Idle
<1>4. CASE \E ts, k : Create(c, i, a, ts, k)
  <2>1. \E ack \in BOOLEAN : Return(c, "create", i, IF ack THEN "ok" ELSE "internal")
    BY <1>4 DEF Create
  <2> QED BY <1>2, <2>1 DEF LateResults
<1>5. CASE GetItem(c, i)
  BY <1>5 DEF GetItem
<1>6. CASE Claim(c, i, a) \/ Release(c, i, a) \/ Close(c, i, a) \/ Comment(c, i, a)
           \/ \E type : AddEvent(c, i, a, type)
  <2>1. store' = store
    BY <1>6 DEF Claim, Release, Close, Comment, AddEvent, Transition, Get
  <2> QED BY <2>1
<1>7. ASSUME NEW from, NEW to, Reassign(c, i, a, from, to) PROVE Kept
  BY <1>2, <1>3, <1>7 DEF Reassign, LateResults
<1>8. ASSUME NEW op, NEW e, ChangeTags(c, op, i, a, e) PROVE Kept
  BY <1>2, <1>3, <1>8 DEF ChangeTags, LateResults
<1> HIDE DEF Kept
<1> QED BY <1>4, <1>5, <1>6, <1>7, <1>8 DEF Start, Tag, Untag

Replies == reply = [c \in Calls |-> reply[c]]

\* A client refused with FailedPrecondition or InvalidArgument may correct and
\* repeat its call: nothing of it was done (service.go:221-232 over the order of
\* checks and writes in lifecycle.go and events.go).
THEOREM RefusalsCorrect == ServiceSpec => RefusalsChangeNothing
<1> DEFINE Refused(c) == /\ reply'[c].code \in {"FailedPrecondition", "InvalidArgument"}
                         /\ reply'[c] # reply[c]
<1>1. ServiceInit => Replies
  BY DEF ServiceInit, Replies
<1>2. Replies /\ [ServiceNext]_serviceVars => Replies'
  BY DEF Replies, ServiceNext, serviceVars, Answer_, Proceed, Rpc, InvalidArgument, CreateItem,
         ReadItem, ClaimItem, ReleaseItem, CloseItem, ReassignItem, CommentOnItem, AddEventTo,
         TagItem, UntagItem, Handled
<1>3. ASSUME Inv, Replies, ServiceNext, NEW c \in Calls, Refused(c)
      PROVE  Idle(c) /\ store' = store
  <2>1. ASSUME NEW d, NEW r, Answer_(d, r) PROVE d = c /\ reply'[c] = r
    BY <1>3, <2>1 DEF Answer_, Replies
  <2>2. TypeOK
    BY <1>3 DEF Inv
  <2>3. ASSUME NEW i, toProto(c, i).code \in {"FailedPrecondition", "InvalidArgument"}
        PROVE  Idle(c)' /\ call'[c].res \notin LateResults
    <3>1. Idle(c)' /\ toProto(c, i).code = mapError[call'[c].res]
      BY <2>3 DEF toProto, NoReply
    <3> QED BY <2>3, <3>1, NotRefused
  <2>4. PICK d \in Calls :
          \/ Proceed(d)
          \/ \E id \in Identities \union {NoIdentity}, i \in Items : Rpc(d, id, i)
    BY <1>3 DEF ServiceNext
  <2>5. CASE Proceed(d)
    <3>1. d = c /\ reply'[c] = toProto(d, call[d].item) /\ Step(d)
      BY <2>1, <2>5 DEF Proceed
    <3> QED BY <1>3, <2>3, <3>1, StepNeverRefuses
  <2>6. ASSUME NEW id \in Identities \union {NoIdentity}, NEW i \in Items, Rpc(d, id, i)
        PROVE  Idle(c) /\ store' = store
    <3>1. CASE InvalidArgument(d, id)
      <4>1. d = c
        BY <2>1, <3>1 DEF InvalidArgument
      <4> QED BY <3>1, <4>1 DEF InvalidArgument, vars
    <3>2. CASE ~InvalidArgument(d, id)
      <4>1. Handled(d, id, i)
        BY <2>6, <3>2 DEF Rpc, CreateItem, ReadItem, ClaimItem, ReleaseItem, CloseItem,
                          ReassignItem, CommentOnItem, AddEventTo, TagItem, UntagItem
      <4>2. d = c /\ reply'[c] = toProto(d, i) /\ Accepts(id)
        BY <2>1, <4>1 DEF Handled
      <4>3. ActorOf(id) \in Actors
        BY <4>2, IdentitiesAssumption DEF Accepts
      <4>4. Start(d, i, ActorOf(id))
        BY <2>6, <3>2 DEF Rpc, CreateItem, ReadItem, ClaimItem, ReleaseItem, CloseItem,
                          ReassignItem, CommentOnItem, AddEventTo, TagItem, UntagItem, Start
      <4> QED BY <1>3, <2>2, <2>3, <4>2, <4>3, <4>4, StartRefuses
    <3> QED BY <3>1, <3>2
  <2> QED BY <2>4, <2>5, <2>6
<1>4. Inv /\ Replies /\ [ServiceNext]_serviceVars
        => [\A c \in Calls : Refused(c) => Idle(c) /\ store' = store]_serviceVars
  BY <1>3
<1> QED BY <1>1, <1>2, <1>4, ServiceImplementsInbox, InvCorrect, PTL
        DEF ServiceSpec, RefusalsChangeNothing

=============================================================================
