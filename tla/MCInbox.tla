------------------------------ MODULE MCInbox ------------------------------
(***************************************************************************)
(* Instances of the core for TLC.                                          *)
(***************************************************************************)
EXTENDS SerialInbox, TLC

\* Callers, and the actors whose tag can be built, are interchangeable.
ModelSymmetry == Permutations(Calls) \union Permutations(Actors \ Unbuildable)

\* The operations that write a status.
Transitions == {"create", "get", "claim", "release", "close"}

\* Every operation of the package.
AllOps == Transitions \union
            {"addEvent", "comment", "reassign", "tag", "untag"}

\* One routing tag.
TeamTag == {<<"team", "finance">>}

\* The tags that route an item to an actor.
AssigneeTags == {"assignee"} \X Actors

\* What the last answer of an idle caller was changes nothing that happens
\* next, so runs that ask nothing of answers leave it out.
WithoutAnswers ==
  <<store, [c \in Calls |-> IF Idle(c) THEN IdleCall ELSE call[c]]>>

\* The same but for who was told that he claimed an item.
ClaimAnswers ==
  <<store, [c \in Calls |-> IF Idle(c) /\ ~(call[c].op = "claim" /\ call[c].res = "ok")
                            THEN IdleCall ELSE call[c]]>>

=============================================================================
