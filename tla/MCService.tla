----------------------------- MODULE MCService -----------------------------
(***************************************************************************)
(* Instances of the service for TLC.                                       *)
(***************************************************************************)
EXTENDS Service, TLC

Id(type, name) == [type |-> type, name |-> name]

\* Identities without a type and one that cannot be made; Ann's assignee tag
\* cannot be built, Bob's can.
Ann    == Id("", "ann")
Bob    == Id("user", "bob")
Nobody == Id("user", "")
None   == Id("none", "none")

TwoClients  == {Ann, Bob, Nobody}
NobodyOnly  == {Nobody}
AnnAndBob   == {<<"user", "ann">>, <<"user", "bob">>}
AnnAlone    == {<<"user", "ann">>}
NoActorYet  == <<"", "">>

TeamTag == {<<"team", "finance">>}

AllOps == {"create", "get", "claim", "release", "close", "comment", "addEvent",
           "reassign", "tag", "untag"}

\* What a step depends on: not the answers given, not the routing tags, not
\* which kind of note an event is, and no more of a running call than its next
\* store calls use; every other operation has one type of event.
Summary(doc) ==
  <<doc.status, doc.key,
    [k \in DOMAIN doc.events |->
       IF doc.events[k].type \in NoteEvents THEN "note" ELSE doc.events[k].type]>>

Running(k) ==
  CASE k.pc = "idle"   -> <<>>
    [] k.pc = "assign" -> <<k.item, k.to>>
    [] k.pc = "read"   -> <<k.item>>
    [] k.pc = "write" /\ k.op \in DOMAIN ToStatus ->
         <<k.item, k.op, Summary(k.read.doc), k.read.tags \ RouteTags>>
    [] OTHER           -> <<k.item, Summary(k.read.doc)>>

Essentials ==
  <<[i \in Items |-> <<store[i].kind, store[i].anchor, Summary(store[i].doc),
                      store[i].tags \ RouteTags>>],
    [c \in Calls |-> Running(call[c])]>>

\* An item that is only created, so that a key has two items to be used for.
CONSTANT Spare

\* Bound: of the items of the inbox one is reassigned.
KindsNext ==
  /\ ServiceNext
  /\ \A c \in Calls : /\ call'[c].item = Spare => call'[c].op = "create"
                      /\ call'[c].item \in Legacy => call'[c].op # "reassign"

\* A handler goes on running, and every store call returns in the end.
KindsSpec ==
  ServiceInit /\ [][KindsNext]_serviceVars /\ \A c \in Calls : WF_vars(Step(c))

=============================================================================
