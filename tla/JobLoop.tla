------------------------------- MODULE JobLoop -------------------------------
(***************************************************************************)
(* What the event loop promises to the code that sends jobs through it     *)
(* (event_loop/mod.rs: the module doc and the docs of enqueue, enqueue_to, *)
(* run and pump): a job is sent once and run at most once, in the order of *)
(* its mailbox, a targeted one by its own thread and nobody else, and none *)
(* is lost but those of a registration that ended.                         *)
(***************************************************************************)
EXTENDS SequencesExt

CONSTANTS
    Threads, Isolates,
    Jobs,
    GLOBAL,         \* the mailbox of the jobs any thread may run
    NONE            \* not a job, no address

VARIABLES
    address,    \* address[j]: the mailbox j was sent to, or NONE
    box,        \* one FIFO mailbox per isolate, and the global one
    present,    \* the isolates that are registered
    departed,   \* some registration has ended
    hand,       \* hand[t]: the job t is running, or NONE
    executed,
    lost        \* the jobs that died with a registration

vars == <<address, box, present, departed, hand, executed, lost>>

Boxes == Isolates \cup {GLOBAL}

TypeOK ==
    /\ address \in [Jobs -> Boxes \cup {NONE}] /\ box \in [Boxes -> Seq(Jobs)]
    /\ present \in SUBSET Isolates /\ departed \in BOOLEAN
    /\ hand \in [Threads -> Jobs \cup {NONE}]
    /\ executed \in SUBSET Jobs /\ lost \in SUBSET Jobs

Init ==
    /\ address = [j \in Jobs |-> NONE] /\ box = [b \in Boxes |-> <<>>]
    /\ present = {} /\ departed = FALSE
    /\ hand = [t \in Threads |-> NONE] /\ executed = {} /\ lost = {}

Send(j, b) ==
    /\ address[j] = NONE
    /\ b \in present \cup {GLOBAL}
    /\ address' = [address EXCEPT ![j] = b]
    /\ box' = [box EXCEPT ![b] = Append(@, j)]
    /\ UNCHANGED <<present, departed, hand, executed, lost>>

\* The registration the sender looked up ended before it could push.
SendLate(j, i) ==
    /\ address[j] = NONE /\ departed
    /\ address' = [address EXCEPT ![j] = i]
    /\ lost' = lost \cup {j}
    /\ UNCHANGED <<box, present, departed, hand, executed>>

Take(t, b) ==
    /\ hand[t] = NONE /\ box[b] # <<>>
    /\ b = GLOBAL \/ b = t
    /\ hand' = [hand EXCEPT ![t] = Head(box[b])]
    /\ box' = [box EXCEPT ![b] = Tail(@)]
    /\ UNCHANGED <<address, present, departed, executed, lost>>

Complete(t) ==
    /\ hand[t] # NONE
    /\ executed' = executed \cup {hand[t]}
    /\ hand' = [hand EXCEPT ![t] = NONE]
    /\ UNCHANGED <<address, box, present, departed, lost>>

Join(i) ==
    /\ i \notin present
    /\ present' = present \cup {i}
    /\ UNCHANGED <<address, box, departed, hand, executed, lost>>

\* What is still in the mailbox is never run, not even if i registers again.
Leave(i) ==
    /\ i \in present /\ hand[i] = NONE
    /\ present' = present \ {i} /\ departed' = TRUE
    /\ lost' = lost \cup ToSet(box[i])
    /\ box' = [box EXCEPT ![i] = <<>>]
    /\ UNCHANGED <<address, hand, executed>>

Next ==
    \/ \E j \in Jobs, b \in Boxes : Send(j, b)
    \/ \E i \in Isolates : Join(i) \/ Leave(i) \/ \E j \in Jobs : SendLate(j, i)
    \/ \E t \in Threads : Complete(t) \/ \E b \in Boxes : Take(t, b)

Spec == Init /\ [][Next]_vars
=============================================================================
