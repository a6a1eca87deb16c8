------------------------------ MODULE MCBranch ------------------------------
(***************************************************************************)
(* Instances of the core with the history of its items for TLC.            *)
(***************************************************************************)
EXTENDS BranchInbox, MCInbox

\* Bound: an actor whose tag cannot be built is claimed for and assigned to,
\* and leaves no event.
BuildableAct ==
  LET acting == {call[c].evt.actor : c \in Calls} \union
                UNION {{store[i].doc.events[k].actor : k \in DOMAIN store[i].doc.events} :
                          i \in Items}
  IN acting \intersect Unbuildable = {}

\* See WithoutAnswers.
BranchView == <<WithoutAnswers, past>>

=============================================================================
