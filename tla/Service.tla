------------------------------ MODULE Service ------------------------------
(***************************************************************************)
(* The RPC service over the inbox: a handler checks the identity of the    *)
(* request, runs one operation as the caller's goroutine, and answers with *)
(* the item the operation returned or with the code of its error.  The     *)
(* in-process client calls the same handlers over the same messages.       *)
(***************************************************************************)
EXTENDS Inbox

CONSTANTS
  Identities,   \* the identity messages clients send: [type, name]
  NoIdentity,   \* a request without one
  Rejected      \* the identities package identity refuses to make

VARIABLE reply  \* what every caller was answered, NoReply while it waits

serviceVars == <<store, call, reply>>

NoReply == [code |-> "none", items |-> {}]

-----------------------------------------------------------------------------
(* Identities and errors *)

Accepts(id) == id \notin Rejected \union {NoIdentity}

\* Mutant: a principal of any type acts as a user.
UserOf(id) == <<"user", id.name>>

\* The actor "type:name" a request acts as; without a type it is a user.
ActorOf(id) == <<IF id.type = "" THEN "user" ELSE id.type, id.name>>

ASSUME IdentitiesAssumption ==
  \A id \in Identities : Accepts(id) => ActorOf(id) \in Actors

\* Mutant: an error of no known kind is taken for a failed precondition.
mapAnyError == [ok                |-> "OK",
                notFound          |-> "NotFound",
                invalidTransition |-> "FailedPrecondition",
                terminal          |-> "FailedPrecondition",
                internal          |-> "FailedPrecondition"]

mapError == [ok                |-> "OK",
             notFound          |-> "NotFound",
             invalidTransition |-> "FailedPrecondition",
             terminal          |-> "FailedPrecondition",
             internal          |-> "Internal"]

-----------------------------------------------------------------------------
(* Answers *)

\* Mutant: an event's answer holds the item as it was read.
ReturnedAsRead(c, i) ==
  IF call[c].pc = "write" /\ call[c].op \notin DOMAIN ToStatus
  THEN [doc |-> call[c].read.doc, tags |-> {}] ELSE ItemOf(store'[i])

\* The item an operation returns: as stored, except that AddEvent returns it
\* with the tags it has read.
Returned(c, i) ==
  IF call[c].pc = "write" /\ call[c].op \notin DOMAIN ToStatus
  THEN [doc |-> store'[i].doc, tags |-> call[c].read.tags]
  ELSE ItemOf(store'[i])

\* The answer to call c on item i after this step.
toProto(c, i) ==
  IF ~Idle(c)' THEN NoReply
  ELSE [code  |-> mapError[call'[c].res],
        items |-> IF call'[c].res = "ok" /\ call'[c].op \notin {"tag", "untag"}
                  THEN {<<i, Returned(c, i)>>} ELSE {}]

Answer_(c, r) == reply' = [reply EXCEPT ![c] = r]

Handled(c, id, i) == Accepts(id) /\ Answer_(c, toProto(c, i))

\* A request without an identity that can be made runs nothing.
InvalidArgument(c, id) ==
  /\ Idle(c) /\ ~Accepts(id)
  /\ Answer_(c, [NoReply EXCEPT !.code = "InvalidArgument"])
  /\ UNCHANGED vars

-----------------------------------------------------------------------------
(* Handlers *)

CreateItem(c, id, i) ==
  /\ \E ts \in SUBSET RouteTags, k \in Keys \union {NoKey} : Create(c, i, ActorOf(id), ts, k)
  /\ Handled(c, id, i)

ReadItem(c, id, i) == GetItem(c, i) /\ Handled(c, id, i)

\* ListItems and SearchItems: one query of the store.
QueryItems(c, id, found) ==
  /\ Idle(c) /\ Accepts(id)
  /\ \E fails \in {FALSE, StoreFaults} :
       Answer_(c, [code  |-> IF fails THEN mapError.internal ELSE mapError.ok,
                   items |-> IF fails THEN {} ELSE {<<i, ItemOf(store[i])>> : i \in found}])
  /\ UNCHANGED vars

ClaimItem(c, id, i)   == Claim(c, i, ActorOf(id)) /\ Handled(c, id, i)

ReleaseItem(c, id, i) == Release(c, i, ActorOf(id)) /\ Handled(c, id, i)

CloseItem(c, id, i)   == Close(c, i, ActorOf(id)) /\ Handled(c, id, i)

ReassignItem(c, id, i) ==
  /\ \E from, to \in Actors \union {NoActor} : Reassign(c, i, ActorOf(id), from, to)
  /\ Handled(c, id, i)

CommentOnItem(c, id, i) == Comment(c, i, ActorOf(id)) /\ Handled(c, id, i)

AddEventTo(c, id, i) ==
  /\ \E type \in DomainEvents : AddEvent(c, i, ActorOf(id), type)
  /\ Handled(c, id, i)

TagItem(c, id, i) ==
  /\ \E ts \in SUBSET RouteTags : Tag(c, i, ActorOf(id), ts)
  /\ Handled(c, id, i)

UntagItem(c, id, i) ==
  /\ \E t \in RouteTags : Untag(c, i, ActorOf(id), t)
  /\ Handled(c, id, i)

\* A handler's operation goes on to its next store call, or returns.
Proceed(c) == Step(c) /\ Answer_(c, toProto(c, call[c].item))

\* A request of an RPC client.
Rpc(c, id, i) ==
  \/ InvalidArgument(c, id)
  \/ CreateItem(c, id, i)  \/ ReadItem(c, id, i)
  \/ ClaimItem(c, id, i)   \/ ReleaseItem(c, id, i) \/ CloseItem(c, id, i)
  \/ ReassignItem(c, id, i) \/ CommentOnItem(c, id, i) \/ AddEventTo(c, id, i)
  \/ TagItem(c, id, i)     \/ UntagItem(c, id, i)

ServiceInit == Init /\ reply = [c \in Calls |-> NoReply]

ServiceNext ==
  \E c \in Calls :
    \/ Proceed(c)
    \/ \E id \in Identities \union {NoIdentity}, i \in Items : Rpc(c, id, i)

ServiceSpec == ServiceInit /\ [][ServiceNext]_serviceVars

-----------------------------------------------------------------------------
(* Properties *)

\* FailedPrecondition and InvalidArgument promise the client that its call
\* changed nothing, so that it may correct and repeat it; NotFound and
\* Internal do not, since Reassign and Tag fail after a first change
\* (service.go:221-232 over lifecycle.go and events.go:60-90).
RefusalsChangeNothing ==
  [][\A c \in Calls :
       /\ reply'[c].code \in {"FailedPrecondition", "InvalidArgument"}
       /\ reply'[c] # reply[c]
       => Idle(c) /\ store' = store]_serviceVars

=============================================================================
