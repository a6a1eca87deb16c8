---------------------------- MODULE SerialInbox ----------------------------
(***************************************************************************)
(* The inbox when no two calls on one item overlap, as when one actor at a *)
(* time works on it.  Calls on different items still interleave freely,    *)
(* and the store still fails.  This is the condition under which the code  *)
(* keeps every promise of its documents, and implements Lifecycle.         *)
(***************************************************************************)
EXTENDS Inbox

Serial ==
  \A c, d \in Calls :
    ~Idle(c) /\ ~Idle(d) /\ call[c].item = call[d].item => c = d

SerialNext == Next /\ Serial'

SerialSpec == Init /\ [][SerialNext]_vars

-----------------------------------------------------------------------------
Life == INSTANCE Lifecycle
          WITH status <- [i \in Items |-> store[i].doc.status],
               log    <- [i \in Items |-> store[i].doc.events]

\* Read as a machine on statuses and logs, the inbox makes one legal step
\* of an item's life at a time (lifecycle.go, events.go, create.go): the
\* read, the check and the write act as one.
ImplementsLifecycle == Life!Spec

=============================================================================
