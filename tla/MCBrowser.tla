----------------------------- MODULE MCBrowser -----------------------------
(***************************************************************************)
(* Instances of the pages for TLC.                                         *)
(***************************************************************************)
EXTENDS Browser, FiniteSets, TLC

CONSTANTS b1, b2, p, q

Id(type, name) == [type |-> type, name |-> name]

\* A person at the pages, a service that calls without naming its type, and
\* an identity that cannot be made.
Ann     == Id("user", "ann")
Triage  == Id("agent", "triage")
Untyped == Id("", "ann")
Nobody  == Id("user", "")
None    == Id("none", "none")

AnnAndTriage == {Ann, Triage, Nobody}
TwoKinds    == {Triage, Untyped, Nobody}
NobodyOnly  == {Nobody}
SomeActors  == {<<"user", "ann">>, <<"agent", "triage">>, <<"user", "triage">>}
NoActorYet  == <<"", "">>

\* One browser with two connections.
OneBrowser == (p :> b1) @@ (q :> b1)
AnAgent    == b1 :> Triage

\* Two people, one connection each.
TwoBrowsers == (p :> b1) @@ (q :> b2)
Both        == (b1 :> Triage) @@ (b2 :> Ann)

\* What the pages and a client that creates an item run.
PageOps == {"create", "get", "claim", "release", "close", "comment"}

\* What a step depends on and what the properties of a step look at: not
\* the actors of events, the answers to RPC clients, what a call that is over
\* returned, which error an answer is, nor what rows and activity lists show.
Types(log)    == [k \in DOMAIN log |-> log[k].type]
Plain(it)     == <<it.doc.status, it.doc.key, Types(it.doc.events), it.tags>>
Fetched(c)    == IF ask[c].gone THEN {}
                 ELSE {<<e[1], Plain(e[2])>> : e \in reply[c].items}
Code(c)       == <<reply[c] # NoReply, Ok(c) /\ ~ask[c].gone>>
Doing(c)      == IF Idle(c) THEN <<>>
                 ELSE <<call[c].pc, call[c].op, call[c].item, call[c].to,
                        IF call[c].op = "claim" THEN call[c].evt.actor ELSE NoActor,
                        call[c].evt.type, Plain(call[c].read)>>
Asked(c)      == IF Idle(c) /\ reply[c] = NoReply THEN ask[c]
                 ELSE IF ask[c].gone THEN [NoAsk EXCEPT !.gone = TRUE]
                 ELSE [ask[c] EXCEPT !.shown = "none",
                         !.what = IF @ \in {"release", "close", "comment"} THEN "done" ELSE @]
Shown(b)      == <<screen[b].page, DOMAIN screen[b].rows, screen[b].watched,
                   screen[b].drawer.item, screen[b].drawer.status,
                   Controls(screen[b].drawer, Me(b))>>
Essentials ==
  <<[i \in Items |-> <<store[i].kind, store[i].anchor, Plain(store[i])>>],
    [c \in Calls |-> Doing(c)],
    [c \in Conns |-> <<Fetched(c), Code(c)>>],
    [c \in Conns |-> Asked(c)], [b \in Browsers |-> Shown(b)], signalled>>

\* Bounds: two of the callers are at work at a time, both connections of the
\* browser only on items with at most two events, and only one when the
\* stream tells of a change.
Busy == {c \in Calls : ~Idle(c) \/ (c \in Conns /\ ask[c] # NoAsk)}

AtMostTwo ==
  /\ Cardinality(Busy) <= 2
  /\ Busy = Conns => \A i \in Items : Len(store[i].doc.events) <= 2
  /\ signalled # {} => Cardinality(Busy) <= 1

\* The RPC client of stale_pages only creates items and reads them.
ClientsOnlyCreate == \A c \in Clients : call[c].op \in {"none", "create", "get"}

ModelSymmetry == Permutations({p, q})

=============================================================================
