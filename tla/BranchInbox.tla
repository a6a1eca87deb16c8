---------------------------- MODULE BranchInbox ----------------------------
(***************************************************************************)
(* The inbox with a history variable that keeps the versions every item    *)
(* has had.  It changes nothing about what calls do; with it the inbox can *)
(* be shown to implement Branching, however calls race.                    *)
(***************************************************************************)
EXTENDS Inbox

VARIABLE past   \* the versions of every item, see Branching

branchVars == <<store, call, past>>

\* The part of an entity, or of what a call has read of it, that writes of
\* the document replace.
Version(e) == [status |-> e.doc.status, log |-> e.doc.events]

BranchInit == Init /\ past = [i \in Items |-> {Version(store[i])}]

Remember == past' = [i \in Items |-> past[i] \union {Version(store'[i])}]

\* The actions of Next, each with the version it leaves.
BranchNext ==
  \E c \in Calls :
    \/ DoTransition(c) /\ Remember
    \/ ReadForEvent(c) /\ Remember
    \/ AppendEvent(c) /\ Remember
    \/ AddAssignee(c) /\ Remember
    \/ \E i \in Items, a \in Actors :
         \/ \E ts \in SUBSET RouteTags, k \in Keys \union {NoKey} :
              Create(c, i, a, ts, k) /\ Remember
         \/ GetItem(c, i) /\ Remember
         \/ Claim(c, i, a) /\ Remember
         \/ Release(c, i, a) /\ Remember
         \/ Close(c, i, a) /\ Remember
         \/ \E type \in DomainEvents : AddEvent(c, i, a, type) /\ Remember
         \/ Comment(c, i, a) /\ Remember
         \/ \E from, to \in Actors \union {NoActor} : Reassign(c, i, a, from, to) /\ Remember
         \/ \E ts \in SUBSET RouteTags : Tag(c, i, a, ts) /\ Remember
         \/ \E t \in RouteTags : Untag(c, i, a, t) /\ Remember

BranchSpec == BranchInit /\ [][BranchNext]_branchVars

-----------------------------------------------------------------------------
Branches == INSTANCE Branching WITH version <- [i \in Items |-> Version(store[i])]

\* However calls interleave and store calls fail, an item is always one
\* legal event after a version it has had: the status, its event and the
\* events before it are written as one document (lifecycle.go:76-97,
\* events.go:21-37), and a document is only ever written to the item it was
\* read from.
ImplementsBranching == Branches!Spec

=============================================================================
