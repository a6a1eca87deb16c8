-------------------------------- MODULE Seed --------------------------------
(***************************************************************************)
(* The seeding of the demo server: started with -seed, it asks for one     *)
(* open item, creates the demo items one after the other when it gets      *)
(* none, and exits when a creation fails.  It may be stopped and started   *)
(* again at any time, and other calls write items.                         *)
(***************************************************************************)
EXTENDS Listing, Sequences

CONSTANT Entries   \* the tags of the demo items, in the order of their creation

ASSUME EntriesAssumption == Entries \in Seq(SUBSET UNION ItemTags)

VARIABLES
  server,  \* what the server does, and the demo item it creates next
  made,    \* how often each demo item was created
  calm     \* history: every item was open when it was written, and no list failed

seedVars == <<vars, server, made, calm>>

Creating(k) == [state |-> "creating", entry |-> k]
Down == [state |-> "down", entry |-> 0]
Up == [state |-> "up", entry |-> 0]
NeverRun == [state |-> "new", entry |-> 0]

-----------------------------------------------------------------------------
\* Mutant: it looks for open items of the team of its first item.
SameTeam(page) == filterByTags(page, OpenTags \union Entries[1])

Existing(page) == filterByTags(page, OpenTags)

AfterEntry(k) == IF k = Len(Entries) THEN Up ELSE Creating(k + 1)

\* The server starts and asks for a page of one open item.  The error of that
\* call is dropped: without an answer it seeds.
seedData ==
  /\ server.state \in {"new", "down"}
  /\ \/ /\ \E page \in SUBSET Items :
             /\ IsPage(page, NoCursor, Limit(1))
             /\ server' = IF Existing(page) = {} THEN AfterEntry(0) ELSE Up
        /\ UNCHANGED calm
     \/ server' = AfterEntry(0) /\ calm' = FALSE
  /\ UNCHANGED <<vars, made>>

\* It creates the next demo item.  When the answer is lost, or the creation
\* fails, it exits.
SeedItem(k, i) ==
  /\ server = Creating(k) /\ updated[i] = 0
  /\ \/ /\ Write(i, OpenTags \union Entries[k])
        /\ made' = [made EXCEPT ![k] = @ + 1]
        /\ server' \in {AfterEntry(k), Down}
     \/ UNCHANGED <<vars, made>> /\ server' = Down
  /\ UNCHANGED calm

\* The process is stopped, between two items too.
Stop ==
  /\ server.state \notin {"new", "down"}
  /\ server' = Down
  /\ UNCHANGED <<vars, made, calm>>

\* Other calls, before the server ran as well.
OtherWrite(i, ts) ==
  /\ Write(i, ts)
  /\ calm' = (calm /\ HasAll(ts, OpenTags))
  /\ UNCHANGED <<server, made>>

-----------------------------------------------------------------------------
SeedInit ==
  /\ Init
  /\ server = NeverRun
  /\ made = [k \in DOMAIN Entries |-> 0]
  /\ calm = TRUE

SeedNext ==
  \/ seedData
  \/ \E k \in DOMAIN Entries, i \in Items : SeedItem(k, i)
  \/ Stop
  \/ \E i \in Items, ts \in ItemTags : OtherWrite(i, ts)

SeedSpec == SeedInit /\ [][SeedNext]_seedVars

-----------------------------------------------------------------------------
(* Properties *)

\* However often the server is stopped, fails or loses an answer while it
\* seeds, no demo item is there twice: as long as every item is open and no
\* list fails, a server that finds something skips the rest
\* (cmd/inboxui/seed.go:18-27).
SeededOnce == calm => \A k \in DOMAIN Entries : made[k] <= 1

=============================================================================
