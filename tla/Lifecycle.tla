----------------------------- MODULE Lifecycle -----------------------------
(***************************************************************************)
(* What the inbox promises of an item's life: a status and a log that      *)
(* change together, in one atomic step each, open -> claimed -> open ...   *)
(* until closed, with notes at any time.                                   *)
(***************************************************************************)
EXTENDS Naturals, Sequences

CONSTANTS
  Items, Foreign, Legacy,   \* see Inbox
  Actors,
  NoteEvents                \* the event types that change no status

VARIABLES
  status,   \* the status of every item, "none" before it exists
  log       \* its events

By(type, a) == [type |-> type, actor |-> a]

Init ==
  \E a \in Actors :
    /\ status = [i \in Items |-> IF i \in Legacy THEN "expired" ELSE "none"]
    /\ log = [i \in Items |-> IF i \in Legacy THEN <<By("ItemCreated", a)>> ELSE <<>>]

\* Item i moves from one of the statuses to the status after, and logs evt.
Move(i, before, after, evt) ==
  /\ status[i] \in before
  /\ status' = [status EXCEPT ![i] = after]
  /\ log' = [log EXCEPT ![i] = Append(@, evt)]

Create(i, a)  == Move(i, {"none"}, "open", By("ItemCreated", a))
Claim(i, a)   == Move(i, {"open"}, "claimed", By("ItemClaimed", a))
Release(i, a) == Move(i, {"claimed"}, "open", By("ItemReleased", a))
Close(i, a)   == Move(i, {"open", "claimed"}, "closed", By("ItemClosed", a))

\* A note leaves the status alone, also when it is terminal.
Note(i, a) ==
  /\ status[i] # "none"
  /\ \E type \in NoteEvents : log' = [log EXCEPT ![i] = Append(@, By(type, a))]
  /\ UNCHANGED status

Next ==
  \E i \in Items \ Foreign, a \in Actors :
    Create(i, a) \/ Claim(i, a) \/ Release(i, a) \/ Close(i, a) \/ Note(i, a)

Spec == Init /\ [][Next]_<<status, log>>

=============================================================================
