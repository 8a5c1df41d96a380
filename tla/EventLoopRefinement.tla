------------------------- MODULE EventLoopRefinement -------------------------
(***************************************************************************)
(* EventLoop implements JobLoop: a push is what sends a job, the pop of a  *)
(* drain is what takes it.  The mailbox of an isolate is the slot queue it *)
(* is registered with; a queue no isolate is registered with any more is   *)
(* where the lost jobs are.                                                *)
(***************************************************************************)
EXTENDS EventLoop

Unsent(t) == pc[t] \in {"enqueue", "push"}
AddressOf(j) == IF \E t \in Threads : Unsent(t) /\ loc[t].job = j THEN NONE ELSE target[j]
BoxOf(b) == IF b = GLOBAL THEN queue[GLOBAL]
            ELSE IF slotOf[b] = NONE THEN <<>> ELSE queue[slotOf[b]]
Registered == {i \in Isolates : slotOf[i] # NONE}
RetiredSlots == usedSlots \ RegisteredSlots
HandOf(t) == IF pc[t] = "exec" THEN loc[t].job ELSE NONE
LostJobs == UNION {ToSet(queue[s]) : s \in RetiredSlots}

Loop == INSTANCE JobLoop WITH
          address <- [j \in Jobs |-> AddressOf(j)],
          box <- [b \in Isolates \cup {GLOBAL} |-> BoxOf(b)],
          present <- Registered,
          departed <- RetiredSlots # {},
          hand <- [t \in Threads |-> HandOf(t)],
          lost <- LostJobs

\* Under every interleaving of senders, runners, pumps, stops and registrations
\* the queues behave like mailboxes: jobs leave in the order they were pushed,
\* each to one runner, a targeted job to its own thread only, and a thread that
\* registers again does not find the jobs of its previous registration.
LoopContract == Loop!Spec
=============================================================================
