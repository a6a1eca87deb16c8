----------------------------- MODULE Staleness -----------------------------
(***************************************************************************)
(* Reminders: a policy asks which items with some tags have been quiet for *)
(* an age.  The page is read first and the clock after it, so other calls  *)
(* may write items in between.                                             *)
(***************************************************************************)
EXTENDS Listing

CONSTANTS
  Ages,      \* the ages asked for, in ticks
  CallLimit  \* the page size of the policy

ASSUME AgesAssumption == Ages \subseteq Nat /\ CallLimit \in Nat

VARIABLES
  acted,     \* the time in the last event of each item, 0 when it is not there
  call       \* the policy's call

staleVars == <<vars, acted, call>>

-----------------------------------------------------------------------------
(* Writes *)

\* An operation puts its event on the log; it took the event's time before
\* it wrote the item, so the event may be older than the one before it.
Act(i, ts, at) ==
  /\ Write(i, ts)
  /\ acted' = [acted EXCEPT ![i] = at]
  /\ UNCHANGED call

\* Tags are written before their event, and also when that is never written.
Retag(i, ts) ==
  /\ updated[i] > 0
  /\ Write(i, ts)
  /\ UNCHANGED <<acted, call>>

-----------------------------------------------------------------------------
(* The call *)

\* Mutant: any write counts.
lastWriteBefore(item, cutoff) == item.updated < cutoff

lastEventBefore(item, cutoff) == item.acted < cutoff

\* The newest page of the items, less those without the tags.
StaleRead(required, age) ==
  /\ call.state # "read"
  /\ \E page \in SUBSET Items :
       /\ IsPage(page, NoCursor, Limit(CallLimit))
       /\ call' = [state |-> "read", required |-> required, age |-> age, began |-> now,
                   items |-> {[id |-> i, acted |-> acted[i], updated |-> updated[i]] :
                                i \in filterByTags(page, required)},
                   cutoff |-> 0, stale |-> {}]
  /\ UNCHANGED <<vars, acted>>

\* What is left are the items whose last event is before the cutoff.
StaleReturn ==
  /\ call.state = "read" /\ call.age <= now
  /\ LET cutoff == now - call.age
     IN call' = [call EXCEPT !.state = "done", !.cutoff = cutoff,
                             !.stale = {item.id : item \in
                                          {j \in call.items : lastEventBefore(j, cutoff)}}]
  /\ UNCHANGED <<vars, acted>>

-----------------------------------------------------------------------------
StaleInit ==
  /\ Init
  /\ acted = [i \in Items |-> 0]
  /\ call = [state |-> "none", required |-> {}, age |-> 0, began |-> 0, items |-> {},
             cutoff |-> 0, stale |-> {}]

StaleNext ==
  \/ \E i \in Items, ts \in ItemTags, at \in now..(now + 1) : Act(i, ts, at)
  \/ \E i \in Items, ts \in ItemTags : Retag(i, ts)
  \/ \E required \in Filters, age \in Ages : StaleRead(required, age)
  \/ StaleReturn

StaleSpec == StaleInit /\ [][StaleNext]_staleVars

-----------------------------------------------------------------------------
(* Properties *)

\* What was written since the list was read apart, a reminder goes to the
\* items of the page that have the tags and no newer last event than the
\* age allows, to all of them when the items fit on a page, and to no other:
\* neither a retagging nor a slow call takes an item in or out (get.go:72-90).
StaleIsExact ==
  [][StaleReturn =>
       LET cutoff == call'.cutoff
           Quiet(i) == HasAll(tags[i], call.required) /\ acted[i] < cutoff
           kept == {i \in Items : 0 < updated[i] /\ updated[i] <= call.began}
           fit  == Cardinality({i \in Items : updated[i] > 0}) <= Limit(CallLimit)
       IN \A i \in kept : /\ i \in call'.stale => Quiet(i)
                          /\ fit /\ Quiet(i) => i \in call'.stale]_staleVars

=============================================================================
