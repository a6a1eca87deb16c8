---------------------------- MODULE MCTokenLink ----------------------------
(***************************************************************************)
(* Instances of the presigned links for TLC.                               *)
(***************************************************************************)
EXTENDS TokenLink, TLC

CONSTANTS user, agent, service, staff

People == {user, agent, service, staff}

\* The agent becomes a service of its name.
Renamed == [a \in People |-> IF a = agent THEN service ELSE a]

\* The last result of an idle call changes nothing, nor does what its request
\* was answered, but for "submitted".  Of the times a link was submitted only
\* whether one was in time is told apart.
WithoutResults ==
  <<store, link, clock,
    [c \in Calls |-> IF Idle(c) THEN IdleCall ELSE call[c]],
    [c \in Calls |-> IF visit[c].answer = "pending" THEN visit[c]
                     ELSE [NoVisit EXCEPT !.answer = visit[c].answer = "submitted"]],
    [l \in Links |-> \E t \in posted[l] : t < link[l].exp]>>

LinkSymmetry == Permutations(Calls) \union Permutations(Links)

=============================================================================
