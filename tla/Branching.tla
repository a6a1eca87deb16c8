----------------------------- MODULE Branching -----------------------------
(***************************************************************************)
(* What the inbox promises of an item's life when calls race: a write      *)
(* makes the item what one of the versions it has had becomes by one event *)
(* that version allows.  It may be any of them, so what was written since  *)
(* may be gone; but no write mixes two versions, makes one up, moves the   *)
(* status without its event, or makes an item twice.  Lifecycle is the     *)
(* case where the version is always the present one.                       *)
(***************************************************************************)
EXTENDS Sequences

CONSTANTS
  Items, Foreign, Legacy,   \* see Inbox
  Actors,
  NoteEvents                \* the event types that change no status

VARIABLES
  version,   \* the status and the log of every item
  past       \* the versions it has had

By(type, a) == [type |-> type, actor |-> a]

NoVersion == [status |-> "none", log |-> <<>>]

Init ==
  \E a \in Actors :
    /\ version = [i \in Items |-> IF i \in Legacy
                                  THEN [status |-> "expired", log |-> <<By("ItemCreated", a)>>]
                                  ELSE NoVersion]
    /\ past = [i \in Items |-> {version[i]}]

\* Item i becomes version base with one event more and the status after.
Branch(i, base, after, evt) ==
  LET new == [status |-> after, log |-> Append(base.log, evt)]
  IN /\ version' = [version EXCEPT ![i] = new]
     /\ past' = [past EXCEPT ![i] = @ \union {new}]

\* The same from a version with one of the statuses before.
Move(i, before, after, evt) ==
  \E base \in past[i] : base.status \in before /\ Branch(i, base, after, evt)

\* Only what does not exist is created.
Create(i, a) ==
  /\ version[i].status = "none"
  /\ Move(i, {"none"}, "open", By("ItemCreated", a))

Claim(i, a)   == Move(i, {"open"}, "claimed", By("ItemClaimed", a))
Release(i, a) == Move(i, {"claimed"}, "open", By("ItemReleased", a))
Close(i, a)   == Move(i, {"open", "claimed"}, "closed", By("ItemClosed", a))

\* A note takes the status of its version along.
Note(i, a) ==
  \E base \in past[i], type \in NoteEvents :
    base.status # "none" /\ Branch(i, base, base.status, By(type, a))

Next ==
  \E i \in Items \ Foreign, a \in Actors :
    Create(i, a) \/ Claim(i, a) \/ Release(i, a) \/ Close(i, a) \/ Note(i, a)

Spec == Init /\ [][Next]_<<version, past>>

=============================================================================
