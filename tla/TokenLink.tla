----------------------------- MODULE TokenLink -----------------------------
(***************************************************************************)
(* Presigned links: people without an account open a page for one item and *)
(* submit it, which closes the item under the name the link was signed     *)
(* for, while everybody else works on the item through the inbox.          *)
(*                                                                         *)
(* A visit is one request to /respond.  It runs as a call of the inbox, so *)
(* its Close reads and writes in two steps like any other.                 *)
(***************************************************************************)
EXTENDS Inbox

CONSTANTS
  Links,      \* the tokens that can be handed out
  Holders,    \* the actors links are signed for
  Staff,      \* the actors that use the inbox itself
  Users,      \* the actors of the type "user"
  AsService,  \* what any other actor is called: the type "service", the same id
  MaxClock    \* bound: the clock stops there

ASSUME PeopleAssumption ==
  /\ Holders \subseteq Actors /\ Staff \subseteq Actors /\ Users \subseteq Actors
  /\ AsService \in [Actors -> Actors]
ASSUME ClockAssumption == MaxClock \in Nat

VARIABLES
  link,    \* the claims of every link, NoClaims before it is handed out
  visit,   \* the request every caller serves, and what it was answered
  clock,
  posted   \* history: the times at which each link was submitted, in vain or not

linkVars == <<store, call, link, visit, clock, posted>>

NoClaims == [item |-> NoItem, actor |-> NoActor, scope |-> "none", exp |-> 0]

NoVisit == [claims |-> NoClaims, answer |-> "none"]

\* Mutant: item and actor change places.
SignSwapped(i, a, scope, expiry) ==
  [item |-> a, actor |-> i, scope |-> scope, exp |-> clock + expiry]

Sign(i, a, scope, expiry) == [item |-> i, actor |-> a, scope |-> scope, exp |-> clock + expiry]

\* Mutant: the expiry is not looked at.
Eternal(claims) == claims.item # NoItem /\ claims.actor # NoActor

\* A token that is expired, or was signed for nobody or nothing, is refused.
Verify(claims) ==
  claims.item # NoItem /\ claims.actor # NoActor /\ clock < claims.exp

\* Mutant: the request has no identity of its own.
Anonymous(a) == NoActor

\* The caller a link's actor string makes: a user stays one, everybody else
\* is a service, and so is the nameless caller of a string without an id, for
\* the error of building the identity is dropped.
PrincipalOf(a) == IF a \in Users THEN a ELSE AsService[a]

\* What holders do is told from what the staff does by the name.
ASSUME NamesAssumption == \A h \in Holders : PrincipalOf(h) \notin Staff

\* Mutant: every error is taken for a repeated submission.
AlwaysSubmitted(res) == "submitted"

\* An item that is closed already is as good as submitted.
Toast(res) == IF res \in {"ok", "terminal"} THEN "submitted" ELSE "error"

\* Mutant: every link may respond.
AnyScope(claims) == TRUE

MayRespond(claims) == claims.scope = "respond"

-----------------------------------------------------------------------------
(* Requests *)

\* The application hands out a link: nobody but its holder has it.
HandOut(l, i, a, scope, expiry) ==
  /\ link[l] = NoClaims
  /\ store[i].kind = "inbox"
  /\ link' = [link EXCEPT ![l] = Sign(i, a, scope, expiry)]
  /\ posted' = [posted EXCEPT ![l] = {}]
  /\ UNCHANGED <<store, call, visit, clock>>

Answered(c, claims, answer) ==
  visit' = [visit EXCEPT ![c] = [claims |-> claims, answer |-> answer]]

\* The form of an item: what can be filled in and submitted is left out
\* unless the link may submit it.
Form(claims) == IF MayRespond(claims) THEN "form" ELSE "readOnly"

\* What the page shows of an item whose payload may have a form or not.
Page(claims, hasForm) ==
  IF IsTerminal(store[claims.item].doc.status) THEN "completed"
  ELSE IF hasForm THEN Form(claims) ELSE "noForm"

handleGet(c, l) ==
  /\ Idle(c)
  /\ \/ /\ ~Verify(link[l])
        /\ Answered(c, link[l], "forbidden")
        /\ UNCHANGED <<store, call>>
     \/ /\ Verify(link[l])
        /\ GetItem(c, link[l].item)
        /\ \E hasForm \in BOOLEAN :
             Answered(c, link[l],
               IF call'[c].res = "ok" THEN Page(link[l], hasForm) ELSE "notFound")
  /\ UNCHANGED <<link, clock, posted>>

handlePost(c, l) ==
  /\ Idle(c)
  /\ \/ /\ ~Verify(link[l])
        /\ Answered(c, link[l], "forbidden")
        /\ UNCHANGED <<store, call>>
     \/ /\ Verify(link[l]) /\ ~MayRespond(link[l])
        /\ Answered(c, link[l], "viewOnly")
        /\ UNCHANGED <<store, call>>
     \/ /\ Verify(link[l]) /\ MayRespond(link[l])
        /\ Close(c, link[l].item, PrincipalOf(link[l].actor))
        /\ Answered(c, link[l], IF call'[c].pc = "idle" THEN Toast(call'[c].res) ELSE "pending")
  /\ posted' = [posted EXCEPT ![l] = @ \union {clock}]
  /\ UNCHANGED <<link, clock>>

\* A call goes on; a submission that returns is answered.
Continues(c) ==
  /\ Step(c)
  /\ IF visit[c].answer = "pending" /\ call'[c].pc = "idle"
     THEN Answered(c, visit[c].claims, Toast(call'[c].res))
     ELSE UNCHANGED visit
  /\ UNCHANGED <<link, clock, posted>>

\* Somebody uses the inbox itself.
Works(c) ==
  /\ \E i \in Items, a \in Staff : Start(c, i, a)
  /\ visit' = [visit EXCEPT ![c] = NoVisit]
  /\ UNCHANGED <<link, clock, posted>>

Tick ==
  /\ clock < MaxClock
  /\ clock' = clock + 1
  /\ UNCHANGED <<store, call, link, visit, posted>>

-----------------------------------------------------------------------------
LinkInit ==
  /\ Init
  /\ link = [l \in Links |-> NoClaims]
  /\ visit = [c \in Calls |-> NoVisit]
  /\ clock = 0
  /\ posted = [l \in Links |-> {}]

LinkNext ==
  \/ \E l \in Links, i \in Items, a \in Holders \union {NoActor},
        scope \in {"view", "respond"}, expiry \in {0, 1} : HandOut(l, i, a, scope, expiry)
  \/ \E c \in Calls, l \in Links : handleGet(c, l) \/ handlePost(c, l)
  \/ \E c \in Calls : Continues(c) \/ Works(c)
  \/ Tick

LinkSpec == LinkInit /\ [][LinkNext]_linkVars

-----------------------------------------------------------------------------
(* Properties *)

ClaimSets == [item : Items \union {NoItem}, actor : Holders \union {NoActor},
              scope : {"none", "view", "respond"}, exp : Nat]

Answers == {"none", "forbidden", "viewOnly", "completed", "form", "readOnly",
            "noForm", "notFound", "pending", "submitted", "error"}

LinkTypeOK ==
  /\ link \in [Links -> ClaimSets]
  /\ visit \in [Calls -> [claims : ClaimSets, answer : Answers]]
  /\ clock \in Nat
  /\ posted \in [Links -> SUBSET Nat]

\* To the inbox the visits are calls like any other: every step taken for a
\* link, with its identity and its checks, is one the inbox can take
\* (handler.go:96-110), so what holds of the inbox holds with links in use.
ImplementsInbox == Spec

\* An event of item i that is no holder's, or a response to a link.
StaffsOrResponse(i, evt) ==
  evt.actor \in {PrincipalOf(h) : h \in Holders} =>
    /\ evt.type = "ItemClosed"
    /\ \E l \in Links : /\ link[l].item = i /\ link[l].scope = "respond"
                        /\ link[l].actor \in Holders
                        /\ PrincipalOf(link[l].actor) = evt.actor
                        /\ \E t \in posted[l] : t < link[l].exp

\* All a holder ever does to an item is close it, with a respond link for
\* that item signed for him and submitted before it expired (handler.go:85-94,
\* 96-110), whatever else he submits when and how often: a link that was only
\* submitted when it had expired has left nothing.  (Who created the items of
\* older releases is unknown.)
HoldersOnlyRespond ==
  \A i \in Items \ Legacy : \A k \in DOMAIN store[i].doc.events :
    StaffsOrResponse(i, store[i].doc.events[k])

\* A holder is told that his response was submitted only when the item is
\* closed by then, by his own close or by an earlier one (handler.go:111-117),
\* also when the store failed or others work on the item meanwhile.
SubmittedIsClosed ==
  [][\A c \in Calls :
       visit[c].answer # "submitted" /\ visit'[c].answer = "submitted"
         => IsTerminal(store'[visit'[c].claims.item].doc.status)]_linkVars

=============================================================================
