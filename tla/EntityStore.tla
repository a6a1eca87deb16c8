---------------------------- MODULE EntityStore ----------------------------
(***************************************************************************)
(* The external entity store, one entity at a time, as the inbox uses it.  *)
(*                                                                         *)
(* An entity has a kind ("absent" when the id is not in the store, "inbox" *)
(* for inbox items, "other" for the entities of other applications), the   *)
(* stored document, its tag set and its idempotency anchor.  Each operator *)
(* below is the effect of one store call on one entity; each is atomic.    *)
(***************************************************************************)
EXTENDS TagSet, Sequences

\* What a write without tags does: the whole document is replaced, the tags
\* of the entity are left as they are in the store.
UpdateData(e, doc) == [e EXCEPT !.doc = doc]

\* What a write with tags does: document and tag set are both replaced.
UpdateAll(e, doc, ts) == [e EXCEPT !.doc = doc, !.tags = ts]

\* AddTags and RemoveTag work on the tags in the store and are no-ops on an
\* id that does not exist.
AddTags(e, ts) == IF e.kind = "absent" THEN e
                  ELSE [e EXCEPT !.tags = Merge(@, ts)]

RemoveTag(e, t) == IF e.kind = "absent" THEN e
                   ELSE [e EXCEPT !.tags = @ \ {t}]

=============================================================================
