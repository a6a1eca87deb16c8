------------------------------ MODULE Browser ------------------------------
(***************************************************************************)
(* The web pages over the service.  A browser shows one page: a table of   *)
(* items and perhaps an item's drawer.  It sends each request over a       *)
(* connection of its own, so several may be under way, and their answers   *)
(* change the page in the order they arrive.  The remaining callers of the *)
(* service are RPC clients.                                                *)
(***************************************************************************)
EXTENDS Service, Pages

CONSTANTS
  Browsers,
  Owner,        \* the browser of every connection; its domain are the connections
  IdentityOf    \* the identity WithIdentity's function finds for a browser

Conns   == DOMAIN Owner
Clients == Calls \ Conns

VARIABLES
  ask,        \* what every connection has been asked for
  screen,     \* what every browser shows
  signalled   \* the browsers the stream has told that some item changed

uiVars      == <<ask, screen, signalled>>
browserVars == <<store, call, reply, ask, screen, signalled>>

\* The UI's own actor string, from the identity of the request.
Me(b) == <<IdentityOf[b].type, IdentityOf[b].name>>

\* identity.New has made the identities of requests, and always with a type.
ASSUME BrowserAssumption ==
  /\ Owner \in [Conns -> Browsers] /\ Conns \subseteq Calls
  /\ \A b \in Browsers : /\ IdentityOf[b] \in Identities /\ Accepts(IdentityOf[b])
                         /\ IdentityOf[b].type # ""

\* What a connection was asked for, on which item, what status the drawer
\* showed when a button was pressed, and whether the page that asked is gone.
NoAsk == [what |-> "none", item |-> NoItem, shown |-> "none", gone |-> FALSE]
Blank == [page |-> "none", rows |-> <<>>, watched |-> FALSE, drawer |-> NoDrawer]

Free(c) == Idle(c) /\ ask[c] = NoAsk

Asks(c, what, i) ==
  ask' = [ask EXCEPT ![c] = [NoAsk EXCEPT !.what = what, !.item = i]]

-----------------------------------------------------------------------------
(* Requests.  A read changes nothing, so it is made when it is asked for   *)
(* and only its answer takes time; a button's request travels.             *)

\* What a search may find: the words of the items are not modelled, but no
\* entity of another type is found.
Searchable == {i \in Items : IsItem(store[i])}

\* The items a page lists.  A search finds any of those it may find.
Listed(page, b, found) ==
  /\ found \subseteq Searchable
  /\ page = "queue"  => found = {i \in Searchable :
                          HasAll(store[i].tags, {<<"status", "open">>})}
  /\ page = "mywork" => found = {i \in Searchable :
                          HasAll(store[i].tags, {<<"status", "claimed">>, <<"assignee", Me(b)>>})}

Query(c, b, page) ==
  \E found \in SUBSET Items : Listed(page, b, found) /\ QueryItems(c, IdentityOf[b], found)

\* A tab is followed: a request for a whole page.
Visit(c, b, page) ==
  /\ Free(c) /\ page \in Tabs
  /\ Query(c, b, page)
  /\ Asks(c, page, NoItem)
  /\ UNCHANGED <<screen, signalled>>

\* The stream reloads the table alone.
Reload(c, b) ==
  /\ Free(c) /\ b \in signalled
  /\ Query(c, b, screen[b].page)
  /\ Asks(c, "table", NoItem)
  /\ signalled' = signalled \ {b}
  /\ UNCHANGED screen

\* The search box replaces the results; without a query there are none.
SearchAgain(c, b) ==
  /\ Free(c) /\ screen[b].page = "search"
  /\ Query(c, b, "search")
  /\ Asks(c, "table", NoItem)
  /\ UNCHANGED <<screen, signalled>>

\* A row is clicked, or its reload route is asked.
OpenRow(c, b, i, what) ==
  /\ Free(c) /\ i \in DOMAIN screen[b].rows /\ what \in {"detail", "row"}
  /\ ReadItem(c, IdentityOf[b], i)
  /\ Asks(c, what, i)
  /\ UNCHANGED <<screen, signalled>>

\* The drawer's reload route is asked.
ReloadDrawer(c, b, i) ==
  /\ Free(c) /\ i = screen[b].drawer.item
  /\ ReadItem(c, IdentityOf[b], i)
  /\ Asks(c, "detail", i)
  /\ UNCHANGED <<screen, signalled>>

\* A button of the drawer is pressed, or its comment form is sent.
Press(c, b, i, op) ==
  /\ Free(c)
  /\ i = screen[b].drawer.item /\ op \in Controls(screen[b].drawer, Me(b))
  /\ ask' = [ask EXCEPT ![c] = [what |-> op, item |-> i,
                                shown |-> screen[b].drawer.status, gone |-> FALSE]]
  /\ UNCHANGED <<vars, reply, screen, signalled>>

\* Its request has not reached the server.
Posted(c, op, i) == Idle(c) /\ reply[c] = NoReply /\ ask[c].what = op /\ ask[c].item = i

handleClaim(c, b, i)   == Posted(c, "claim", i) /\ ClaimItem(c, IdentityOf[b], i)

handleRelease(c, b, i) == Posted(c, "release", i) /\ ReleaseItem(c, IdentityOf[b], i)

\* Without signals that can be read the reason is "closed".
handleClose(c, b, i)   == Posted(c, "close", i) /\ CloseItem(c, IdentityOf[b], i)

\* A comment that cannot be read is answered with a message and not made.
handleComment(c, b, i) ==
  /\ Posted(c, "comment", i)
  /\ \/ CommentOnItem(c, IdentityOf[b], i)
     \/ Answer_(c, [NoReply EXCEPT !.code = "Unreadable"]) /\ UNCHANGED vars

\* The server takes up the request of a button.
Handle(c, b) ==
  /\ \E i \in Items : \/ handleClaim(c, b, i) \/ handleRelease(c, b, i)
                      \/ handleClose(c, b, i) \/ handleComment(c, b, i)
  /\ UNCHANGED uiVars

-----------------------------------------------------------------------------
(* Answers *)

Answered(c) == Idle(c) /\ reply[c].code # "none" /\ ask[c].what # "none" /\ ~ask[c].gone

Ok(c) == reply[c].code = "OK"

TheItem(c) == (CHOOSE e \in reply[c].items : TRUE)[2]

\* A whole page: it replaces what the browser shows, the error page too.
PageAfter(c) ==
  IF ~Ok(c) THEN Blank
  ELSE LET rows == Table(reply[c].items)
       IN [Blank EXCEPT !.page = ask[c].what, !.rows = rows,
                        !.watched = IsWatched(ask[c].what, rows)]

\* The table of the page that is shown, patched in place.
TableAfter(c, s) ==
  [s EXCEPT !.rows = Table(reply[c].items), !.watched = s.page # "search"]

PatchRow(s, i, it) ==
  [s EXCEPT !.rows = [j \in DOMAIN @ |-> IF j = i THEN Row(it) ELSE @[j]]]

\* The drawer is rendered anew, and the item's row where there is one.
respondWithDetail(s, i, it) == [PatchRow(s, i, it) EXCEPT !.drawer = Drawer(i, it)]

\* What answers a request changes on the page: an error shows a message.
After(c, s) ==
  LET k == ask[c]
  IN CASE k.what \in Tabs                     -> PageAfter(c)
       [] k.what \notin Tabs /\ ~Ok(c)         -> s
       [] k.what = "table" /\ Ok(c)            -> TableAfter(c, s)
       [] k.what = "detail" /\ Ok(c)           -> [s EXCEPT !.drawer = Drawer(k.item, TheItem(c))]
       [] k.what = "row" /\ Ok(c)              -> PatchRow(s, k.item, TheItem(c))
       [] OTHER                                -> respondWithDetail(s, k.item, TheItem(c))

\* An answer arrives.  With a whole page the browser drops the answers that
\* were under way to the page it showed.  Nothing is published.
Deliver(c, b) ==
  /\ Answered(c)
  /\ screen' = [screen EXCEPT ![b] = After(c, @)]
  /\ ask' = [d \in Conns |->
               IF d = c THEN NoAsk
               ELSE IF ask[c].what \in Tabs /\ Owner[d] = b /\ ask[d] # NoAsk
                    THEN [ask[d] EXCEPT !.gone = TRUE]
               ELSE ask[d]]
  /\ signalled' = IF ask[c].what \in Tabs THEN signalled \ {b} ELSE signalled
  /\ Answer_(c, NoReply)
  /\ UNCHANGED vars

\* The request or its answer is lost with the connection.
Lose(c) ==
  /\ Idle(c) /\ ask[c] # NoAsk /\ ~ask[c].gone
  /\ ask' = [ask EXCEPT ![c] = NoAsk]
  /\ Answer_(c, NoReply)
  /\ UNCHANGED <<vars, screen, signalled>>

\* Nobody waits for this answer any more.
Discard(c) ==
  /\ Idle(c) /\ ask[c].gone
  /\ ask' = [ask EXCEPT ![c] = NoAsk]
  /\ Answer_(c, NoReply)
  /\ UNCHANGED <<vars, screen, signalled>>

-----------------------------------------------------------------------------
(* The stream: whoever publishes to it is outside this code. *)

Notify ==
  /\ signalled' = {b \in Browsers : screen[b].watched}
  /\ UNCHANGED <<vars, reply, ask, screen>>

-----------------------------------------------------------------------------
BrowserInit ==
  /\ ServiceInit
  /\ ask = [c \in Conns |-> NoAsk]
  /\ screen = [b \in Browsers |-> Blank]
  /\ signalled = {}

Request(c, b) ==
  \/ \E page \in Tabs : Visit(c, b, page)
  \/ Reload(c, b)
  \/ SearchAgain(c, b)
  \/ \E i \in Items : \/ \E what \in {"detail", "row"} : OpenRow(c, b, i, what)
                      \/ ReloadDrawer(c, b, i)
                      \/ \E op \in {"claim", "release", "close", "comment"} : Press(c, b, i, op)

Connection(c) ==
  \/ Request(c, Owner[c])
  \/ Handle(c, Owner[c])
  \/ Deliver(c, Owner[c])
  \/ Lose(c)
  \/ Discard(c)

Serve(c) == Proceed(c) /\ UNCHANGED uiVars

Client(c) ==
  /\ \E id \in Identities \union {NoIdentity}, i \in Items : Rpc(c, id, i)
  /\ UNCHANGED uiVars

BrowserNext ==
  \/ \E c \in Conns : Connection(c)
  \/ \E c \in Clients : Client(c)
  \/ \E c \in Calls : Serve(c)
  \/ Notify

BrowserSpec == BrowserInit /\ [][BrowserNext]_browserVars

\* Handlers run on, answers arrive unless they are lost, and a browser acts
\* on the signal it got.
FairBrowserSpec ==
  /\ BrowserSpec
  /\ \A c \in Calls : WF_browserVars(Serve(c))
  /\ \A c \in Conns : /\ WF_browserVars(Handle(c, Owner[c]))
                      /\ WF_browserVars(Deliver(c, Owner[c]))
                      /\ WF_browserVars(Discard(c))
                      /\ WF_browserVars(Reload(c, Owner[c]))

-----------------------------------------------------------------------------
(* Properties *)

\* A client's own assignee tags need not name an actor.
Assignees == Actors \union {NoActor} \union ValuesOf(RouteTags, "assignee")

Drawers == [item : Items, status : {"open", "claimed", "closed", "expired"},
            events : Seq(Events), assignee : Assignees]

\* Types of the variables; only a table that is shown is watched, and only
\* a browser with a watched table is told of changes.
BrowserTypeOK ==
  /\ ask \in [Conns -> [what : Tabs \union {"none", "table", "detail", "row",
                                            "claim", "release", "close", "comment"},
                        item : Items \union {NoItem}, gone : BOOLEAN,
                        shown : {"none", "open", "claimed", "closed", "expired"}]]
  /\ \A c \in Calls : reply[c].code \in {"none", "OK", "InvalidArgument", "NotFound",
                                          "FailedPrecondition", "Internal", "Unreadable"}
  /\ \A b \in Browsers :
       /\ screen[b].page \in Tabs \union {"none"}
       /\ DOMAIN screen[b].rows \subseteq Items
       /\ screen[b].watched => screen[b].page \in {"queue", "mywork"}
       /\ screen[b].drawer \in Drawers \union {NoDrawer}
  /\ signalled \subseteq {b \in Browsers : screen[b].watched}

\* An item was, at some moment, what a drawer shows of it: the status is
\* the one the activity list leads to, and that list is a history the
\* lifecycle allows, whatever requests ran while it was read, written and
\* rendered, and in whatever order the answers came (actions.go:97-104
\* renders what the handler returned, detail_templ.go:17).
ScreensHaveBeen ==
  [][\A b \in Browsers :
       LET d == screen'[b].drawer
       IN d # screen[b].drawer /\ d # NoDrawer /\ d.item \notin Legacy =>
            LegalHistory(d.events) /\ LeadsTo(d.events, Len(d.events), d.status)]_browserVars

\* A button is refused only when its drawer is out of date: if a pressed
\* Claim, Release or Close is answered with FailedPrecondition, the status the
\* server has found is not the one the drawer showed, since the same button
\* pressed twice or another caller has changed it meanwhile (actions_templ.go
\* and schemaprovider.go:34 repeat the guards of lifecycle.go:34, 52 and 67).
ButtonsFit ==
  [][\A c \in Conns :
       /\ ask[c].what \in {"claim", "release", "close"}
       /\ reply[c].code = "none" /\ reply'[c].code = "FailedPrecondition"
       => store[ask[c].item].doc.status # ask[c].shown]_browserVars

\* Who has claimed an item is offered its Release button by the answer, as
\* long as nobody else is assigned too: the actor of the assignee tag,
\* which the service derives from the identity message (convert.go:32-45),
\* is the actor the drawer compares it with (handler.go:59-62).
ClaimerMayRelease ==
  [][\A c \in Conns :
       /\ Deliver(c, Owner[c]) /\ ask[c].what = "claim" /\ Ok(c)
       /\ ValuesOf(TheItem(c).tags, "assignee") \subseteq {TagValue(TheItem(c).tags, "assignee")}
       => "release" \in Controls(screen'[Owner[c]].drawer, Me(Owner[c]))]_browserVars

\* A queue does not go on offering an item somebody has closed ("publishes
\* a bus notification", actions.go:96-97).
RowsCatchUp ==
  \A b \in Browsers, i \in Items :
    LET Stale == /\ screen[b].watched /\ i \in DOMAIN screen[b].rows
                 /\ screen[b].rows[i].status = "open"
                 /\ store[i].doc.status = "closed"
    IN Stale ~> ~Stale

=============================================================================
