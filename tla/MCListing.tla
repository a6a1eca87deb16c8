----------------------------- MODULE MCListing -----------------------------
(***************************************************************************)
(* Instances of the lists, the reminders and the demo server for TLC: a    *)
(* client walks, a policy asks or a server seeds, while other calls write. *)
(***************************************************************************)
EXTENDS Staleness, Seed, TLC

CONSTANT Other   \* an actor who is not Me

TeamTags == {<<"team", "ops">>}

OthersTags == {<<"status", "claimed">>, <<"assignee", Other>>}

\* Items in the queue, with and without a team, mine, and somebody else's.
FourKinds == {OpenTags, OpenTags \union TeamTags, MineTags, OthersTags}

\* Everything, and the items of a team.
PlainAndTeam == {{}, TeamTags}

\* Demo items of a team and of none.
TwoEntries == <<TeamTags, {}>>

\* Of the walks, the policy's calls and the demo server one is used at a time,
\* so that they do not multiply; only the policy's events have times of their
\* own.
NotSeeding == server = NeverRun /\ UNCHANGED <<server, made, calm>>

\* The walks, and the writes before and during them.
Walk ==
  /\ NotSeeding /\ call.state = "none" /\ acted = updated
  /\ Next
  /\ acted' = updated' /\ UNCHANGED call

\* Bound: the last write before or during a policy's call.
LastAsked == 3

InQueue == {OpenTags, OpenTags \union TeamTags}

\* The policy's calls, where nothing is claimed.
Ask ==
  /\ NotSeeding /\ walk.state = "none"
  /\ StaleNext
  /\ now' <= LastAsked
  /\ \A i \in Items : tags'[i] \in InQueue \union {{}}

\* The demo server, from its first start.
SeedAlone ==
  /\ walk.state = "none" /\ call.state = "none" /\ acted = updated
  /\ server = NeverRun => now = 0
  /\ SeedNext
  /\ server' # NeverRun
  /\ acted' = updated' /\ UNCHANGED call

ListsInit ==
  /\ StaleInit
  /\ server = NeverRun /\ made = [k \in DOMAIN Entries |-> 0] /\ calm = TRUE

ListsNext == Walk \/ Ask \/ SeedAlone

listsVars == <<staleVars, seedVars>>

ListsSpec == ListsInit /\ [][ListsNext]_listsVars /\ WF_listsVars(Walk /\ NextPage)

=============================================================================
