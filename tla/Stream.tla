------------------------------- MODULE Stream -------------------------------
(***************************************************************************)
(* One stream of crates/bffi/src/stream: the entry behind its handle, the  *)
(* producers that feed its push buffer (or the iterator of a pull stream), *)
(* and the JS wrapper of packages/bffi/src/runtime/stream.ts that pulls    *)
(* chunks, waits for wakes and lets go of the stream.                      *)
(*                                                                         *)
(* Every operation on the entry holds its state mutex from its first       *)
(* access to its last, and the wrapper runs on one JS thread between its   *)
(* awaits: each is one step.  Only set_wake works outside of the mutex, in *)
(* two steps.  The entry is never taken out of the registry, so the handle *)
(* stays valid.  The event loop is taken by its contract: a targeted job   *)
(* runs on its thread, an untargeted one on any, a closed loop refuses.    *)
(* The producers are tasks of the built-in executor: one that is woken     *)
(* after its poll and before it is parked may miss the wake (Executor).    *)
(***************************************************************************)
EXTENDS Naturals, Sequences, FiniteSets, SequencesExt

CONSTANTS
    Producers,      \* tasks that hold a copy of the Ctx
    MaxItems,       \* bound: items pushed by all producers, or yielded by an iterator
    PUSH_CAPACITY,  \* 256 in the code
    INITIAL_MAX,    \* the first chunk budget, 32 in the wrapper
    MAX_BUDGET,     \* the largest, 1024 in the wrapper
    ITERATOR,       \* who yields the items of a pull stream
    Timers,         \* bound: fallback timers armed at once
    NONE            \* no timer

ASSUME StreamAssumption ==
    /\ ITERATOR \notin Producers /\ NONE \notin Timers
    /\ MaxItems \in Nat /\ PUSH_CAPACITY \in Nat \ {0}
    /\ INITIAL_MAX \in Nat \ {0} /\ MAX_BUDGET \in Nat /\ INITIAL_MAX <= MAX_BUDGET

Items == (Producers \cup {ITERATOR}) \X (1 .. MaxItems)
UNBOUND == "unbound"                        \* wake_thread = 0
JS == "js"                                  \* the isolate that wrapped the stream

VARIABLES
    state,                          \* StreamState: items, buffer, done or errored
    queue, completed, failed, producers,  \* PushState; failed: error is Some
    wake, wakeThread,               \* the registered trampoline and its owner
    jobs, closed,                   \* wake jobs in the event loop; TRUE: it refuses them
    pc, sent,                       \* the producers; lost: parked, and its wake thrown away
    js, chunk, done, max,           \* the wrapper: where it is, its queue, done, max
    trampoline, notify, timers, waitTimer,  \* wakeCb, wakeNotify, pending setTimeouts
    produced, received,             \* history: items pushed, items delivered,
    lost, seenError, dropped        \* a chunk was not stored, the stream failed, was let go

entry == <<state, queue, completed, failed, producers>>
registered == <<wake, wakeThread>>
wrapper == <<js, chunk, done, max, trampoline, notify, timers, waitTimer>>
history == <<produced, received, lost, seenError, dropped>>
vars == <<entry, registered, jobs, closed, pc, sent, wrapper, history>>

TypeOK ==
    /\ state \in {"items", "buffer", "done", "errored"}
    /\ queue \in Seq(Items) /\ Len(queue) <= PUSH_CAPACITY
    /\ completed \in BOOLEAN /\ failed \in BOOLEAN /\ producers \subseteq Producers
    /\ wake \in BOOLEAN /\ wakeThread \in {UNBOUND, JS}
    /\ jobs \in Seq({UNBOUND, JS}) /\ closed \in BOOLEAN
    /\ pc \in [Producers -> {"run", "parking", "parked", "lost", "ended"}]
    /\ sent \in [Producers \cup {ITERATOR} -> 0 .. MaxItems]
    /\ js \in {"new", "set_thread", "idle", "pull", "wait", "collected"}
    /\ chunk \in Seq(Items) /\ done \in BOOLEAN /\ max \in 1 .. MAX_BUDGET
    /\ trampoline \in {"none", "open", "closed"} /\ notify \in Timers \cup {NONE}
    /\ timers \subseteq Timers /\ waitTimer \in Timers \cup {NONE}
    /\ produced \in Seq(Items) /\ received \in Seq(Items) /\ lost \in BOOLEAN
    /\ seenError \in BOOLEAN /\ dropped \in BOOLEAN

\* spawn and spawn_push, then the wrapper is created around the handle.
Init ==
    /\ state \in {"items", "buffer"}
    /\ queue = <<>> /\ completed = FALSE /\ failed = FALSE /\ producers = {}
    /\ wake = FALSE /\ wakeThread = UNBOUND
    /\ jobs = <<>> /\ closed = FALSE
    /\ pc = [p \in Producers |-> IF state = "buffer" THEN "run" ELSE "ended"]
    /\ sent = [p \in Producers \cup {ITERATOR} |-> 0]
    /\ js = "new" /\ chunk = <<>> /\ done = FALSE /\ max = INITIAL_MAX
    /\ trampoline = "none" /\ notify = NONE /\ timers = {} /\ waitTimer = NONE
    /\ produced = <<>> /\ received = <<>> /\ lost = FALSE
    /\ seenError = FALSE /\ dropped = FALSE

-----------------------------------------------------------------------------
(* fire_wake and wake_producers *)

\* Without a trampoline nothing is sent; a stopped loop or a departed isolate
\* refuses the job and the pull is left to its timer.
FireWake == jobs' = IF ~wake \/ closed THEN jobs ELSE Append(jobs, wakeThread)

\* The wakers of the producers in P fire; those in over end.  One that its worker
\* has not parked yet is polled once it is, unless another worker pops its handle
\* before that.
Woken(P, over) ==
    \E unheard \in SUBSET {p \in P : pc[p] = "parking"} :
        pc' = [p \in Producers |-> IF p \in over THEN "ended"
                                   ELSE IF p \in unheard THEN "lost"
                                   ELSE IF p \in P /\ pc[p] \in {"parking", "parked"} THEN "run"
                                   ELSE pc[p]]

\* Mutant: one of the parked producers is woken only.
WakeProducers_One ==
    LET first == IF producers = {} THEN {} ELSE {CHOOSE p \in producers : TRUE}
    IN  producers' = producers \ first /\ Woken(first, {})

\* Every parked producer is woken.
WakeProducers == producers' = {} /\ Woken(producers, {})

-----------------------------------------------------------------------------
(* The producers: Push::poll, Ctx::complete, Ctx::fail *)

Open == state = "buffer" /\ ~completed /\ ~failed

\* The push fails (closed, completed or errored) and the producer's future ends.
PushRefused(p) ==
    /\ pc[p] = "run" /\ ~Open
    /\ pc' = [pc EXCEPT ![p] = "ended"]
    /\ UNCHANGED <<entry, registered, jobs, closed, sent, wrapper, history>>

\* The wake is for the pull that saw the buffer empty.
PushItem(p) ==
    /\ pc[p] = "run" /\ Open /\ Len(queue) < PUSH_CAPACITY /\ Len(produced) < MaxItems
    /\ sent' = [sent EXCEPT ![p] = @ + 1]
    /\ queue' = Append(queue, <<p, sent'[p]>>)
    /\ produced' = Append(produced, <<p, sent'[p]>>)
    /\ IF queue = <<>> THEN FireWake ELSE UNCHANGED jobs
    /\ UNCHANGED <<state, completed, failed, producers, registered, closed, pc, wrapper,
                   received, lost, seenError, dropped>>

\* Backpressure: the waker is kept once, however often the future is polled.
PushPending(p) ==
    /\ pc[p] = "run" /\ Open /\ Len(queue) >= PUSH_CAPACITY /\ Len(produced) < MaxItems
    /\ producers' = producers \cup {p}
    /\ pc' = [pc EXCEPT ![p] = "parking"]
    /\ UNCHANGED <<state, queue, completed, failed, registered, jobs, closed, sent, wrapper,
                   history>>

\* The worker parks the future whose poll was Pending.
ParkTask(p) ==
    /\ pc[p] = "parking" /\ pc' = [pc EXCEPT ![p] = "parked"]
    /\ UNCHANGED <<entry, registered, jobs, closed, sent, wrapper, history>>

\* A parked producer may be polled for a reason of its own.
PolledAgain(p) ==
    /\ pc[p] \in {"parked", "lost"} /\ pc' = [pc EXCEPT ![p] = "run"]
    /\ UNCHANGED <<entry, registered, jobs, closed, sent, wrapper, history>>

\* complete or fail, by any holder of the Ctx while the buffer lives: also after
\* another holder ended the stream already.
Ends(p) ==
    /\ state = "buffer" /\ pc[p] = "run"
    /\ \/ completed' = TRUE /\ UNCHANGED failed
       \/ failed' = TRUE /\ UNCHANGED completed
    /\ producers' = {} /\ Woken(producers, {p})
    /\ FireWake
    /\ UNCHANGED <<state, queue, registered, closed, sent, wrapper, history>>

-----------------------------------------------------------------------------
(* The wrapper: creation, and the end of the trampoline *)

\* A build without bffi_stream_set_wake, or a callback without a pointer.
WrapWithoutWake ==
    /\ js = "new" /\ js' = "idle"
    /\ UNCHANGED <<entry, registered, jobs, closed, pc, sent, chunk, done, max, trampoline,
                   notify, timers, waitTimer, history>>

\* set_wake stores the trampoline, then the thread it belongs to.
SetWakePtr ==
    /\ js = "new" /\ js' = "set_thread"
    /\ trampoline' = "open" /\ wake' = TRUE
    /\ UNCHANGED <<entry, wakeThread, jobs, closed, pc, sent, chunk, done, max, notify, timers,
                   waitTimer, history>>

SetWakeThread ==
    /\ js = "set_thread" /\ js' = "idle"
    /\ wakeThread' = JS
    /\ UNCHANGED <<entry, wake, jobs, closed, pc, sent, chunk, done, max, trampoline, notify,
                   timers, waitTimer, history>>

CloseTrampoline == trampoline' = IF trampoline = "open" THEN "closed" ELSE trampoline

-----------------------------------------------------------------------------
(* next(): next_chunk through bffi_stream_next *)

\* An item the wrapper holds already, or the end, needs no pull.
NextFromChunk ==
    /\ js = "idle" /\ chunk # <<>>
    /\ received' = Append(received, Head(chunk)) /\ chunk' = Tail(chunk)
    /\ UNCHANGED <<entry, registered, jobs, closed, pc, sent, js, done, max, trampoline, notify,
                   timers, waitTimer, produced, lost, seenError, dropped>>

NextPulls ==
    /\ js = "idle" /\ chunk = <<>> /\ ~done /\ js' = "pull"
    /\ UNCHANGED <<entry, registered, jobs, closed, pc, sent, chunk, done, max, trampoline,
                   notify, timers, waitTimer, history>>

\* A full chunk doubles the budget.
Grow(n) == max' = IF n = max /\ max < MAX_BUDGET
                  THEN IF 2 * max < MAX_BUDGET THEN 2 * max ELSE MAX_BUDGET ELSE max

\* The chunk's items; the call in progress takes the first, an empty chunk pulls
\* again.
Receive(items) ==
    /\ IF items = <<>> THEN UNCHANGED <<js, chunk, received>>
       ELSE js' = "idle" /\ chunk' = Tail(items) /\ received' = Append(received, Head(items))
    /\ Grow(Len(items))

\* The promise of the call is rejected; the wrapper may ask again.
Throw == js' = "idle" /\ seenError' = TRUE

EndReached == js' = "idle" /\ done' = TRUE /\ CloseTrampoline

\* Mutant: the budget is taken from the back of the buffer.
FirstItems_Newest(n) ==
    SubSeq(queue, (IF n < Len(queue) THEN Len(queue) - n ELSE 0) + 1, Len(queue))

FirstItems(n) == SubSeq(queue, 1, IF n < Len(queue) THEN n ELSE Len(queue))

\* The chunk is stored as a transient buffer; the table of these may be full, and
\* the call throws while its items are out of the stream already.  Bound: the
\* first chunk only, once.
StoreFails ==
    /\ received = <<>> /\ ~lost
    /\ js' = "idle" /\ lost' = TRUE
    /\ UNCHANGED <<chunk, received, max>>

\* Up to max items, and room for parked producers.
PullItems ==
    /\ js = "pull" /\ state = "buffer" /\ queue # <<>>
    /\ \/ Receive(FirstItems(max)) /\ UNCHANGED lost
       \/ StoreFails
    /\ queue' = SubSeq(queue, Len(FirstItems(max)) + 1, Len(queue))
    /\ WakeProducers
    /\ UNCHANGED <<state, completed, failed, registered, jobs, closed, sent, done, trampoline,
                   notify, timers, waitTimer, produced, seenError, dropped>>

\* The error outlives completion and every later pull.
PullError ==
    /\ js = "pull"
    /\ state = "errored" \/ (state = "buffer" /\ queue = <<>> /\ failed)
    /\ Throw
    /\ IF state = "buffer" THEN WakeProducers ELSE UNCHANGED <<producers, pc>>
    /\ UNCHANGED <<state, queue, completed, failed, registered, jobs, closed, sent, chunk, done,
                   max, trampoline, notify, timers, waitTimer, produced, received, lost, dropped>>

PullDone ==
    /\ js = "pull"
    /\ \/ state = "done" /\ UNCHANGED <<state, producers, pc>>
       \/ /\ state = "buffer" /\ queue = <<>> /\ completed /\ ~failed
          /\ state' = "done" /\ WakeProducers
    /\ EndReached
    /\ UNCHANGED <<queue, completed, failed, registered, jobs, closed, sent, chunk, max, notify,
                   timers, waitTimer, history>>

\* Pending: nothing there, and the producer is alive.  The wrapper waits for the
\* wake, or for a timer of its own.
PullPending ==
    /\ js = "pull" /\ Open /\ queue = <<>>
    /\ js' = "wait"
    /\ \E n \in Timers \ timers :
         /\ timers' = timers \cup {n} /\ waitTimer' = n
         /\ notify' = IF trampoline = "open" THEN n ELSE notify
    /\ WakeProducers
    /\ UNCHANGED <<state, queue, completed, failed, registered, jobs, closed, sent, chunk, done,
                   max, trampoline, history>>

\* The iterator of a pull stream, run by the pull itself: n items, then the
\* budget is spent, or it is exhausted, or an item is an error or it panics.  An
\* error throws away the items this pull had collected.
PullIterator ==
    /\ js = "pull" /\ state = "items"
    /\ \E n \in 0 .. max :
         LET items == [i \in 1 .. n |-> <<ITERATOR, sent[ITERATOR] + i>>]
         IN  /\ sent[ITERATOR] + n <= MaxItems
             /\ sent' = [sent EXCEPT ![ITERATOR] = @ + n]
             /\ produced' = produced \o items
             /\ \/ /\ state' = IF n = max THEN "items" ELSE "done"
                   /\ \/ Receive(items) /\ UNCHANGED lost
                      \/ StoreFails
                   /\ UNCHANGED seenError
                \/ /\ n < max /\ state' = "errored"
                   /\ Throw
                   /\ UNCHANGED <<received, chunk, max, lost>>
    /\ UNCHANGED <<queue, completed, failed, producers, registered, jobs, closed, pc, done,
                   trampoline, notify, timers, waitTimer, dropped>>

-----------------------------------------------------------------------------
(* The wait: wake jobs and timers on the JS thread *)

\* The promise of the wait resolves, once.
Resume(n) == IF js = "wait" /\ n = waitTimer
             THEN js' = (IF done THEN "idle" ELSE "pull") /\ waitTimer' = NONE
             ELSE UNCHANGED <<js, waitTimer>>

\* Mutant: the timer of an earlier wait takes the current wait's trampoline and
\* its own timer with it.
TimerFires_ClearsAll(n) ==
    /\ n \in timers /\ timers' = {} /\ notify' = NONE
    /\ Resume(n)
    /\ UNCHANGED <<entry, registered, jobs, closed, pc, sent, chunk, done, max, trampoline,
                   history>>

\* A timer clears wakeNotify, also that of a later wait, and resolves its own.
TimerFires(n) ==
    /\ n \in timers /\ timers' = timers \ {n}
    /\ notify' = IF trampoline = "none" THEN notify ELSE NONE
    /\ Resume(n)
    /\ UNCHANGED <<entry, registered, jobs, closed, pc, sent, chunk, done, max, trampoline,
                   history>>

\* The job calls the trampoline, whatever became of it.  wakeNotify stays set: a
\* second call resolves a promise that is resolved.
RunWake ==
    /\ jobs # <<>> /\ jobs' = Tail(jobs)
    /\ IF trampoline = "open" /\ notify # NONE THEN Resume(notify) ELSE UNCHANGED <<js, waitTimer>>
    /\ UNCHANGED <<entry, registered, closed, pc, sent, chunk, done, max, trampoline, notify,
                   timers, history>>

CloseLoop ==
    /\ ~closed /\ closed' = TRUE
    /\ UNCHANGED <<entry, registered, jobs, pc, sent, wrapper, history>>

-----------------------------------------------------------------------------
(* Letting go: drop_stream *)

\* Mutant: the parked producers are forgotten with the buffer.
DropStream_WakesNobody ==
    /\ state' = IF state \in {"buffer", "items"} THEN "done" ELSE state
    /\ queue' = <<>> /\ producers' = {} /\ UNCHANGED pc

\* The buffer and the iterator are dropped; a finished stream stays as it is.
DropStream ==
    /\ state' = IF state \in {"buffer", "items"} THEN "done" ELSE state
    /\ queue' = <<>>
    /\ WakeProducers

\* return() or Symbol.dispose: between two calls of next(), or while one waits.
Dispose ==
    /\ js \in {"idle", "wait"}
    /\ IF done THEN UNCHANGED <<state, queue, producers, pc, chunk, dropped>>
       ELSE DropStream /\ chunk' = <<>> /\ dropped' = TRUE
    /\ done' = TRUE /\ CloseTrampoline
    /\ UNCHANGED <<completed, failed, registered, jobs, closed, sent, js, max, notify, timers,
                   waitTimer, produced, received, lost, seenError>>

\* The wrapper is garbage: its finalizer drops the stream, disposed of or not.
Finalize ==
    /\ js = "idle" /\ js' = "collected"
    /\ DropStream
    /\ chunk' = <<>> /\ dropped' = TRUE
    /\ UNCHANGED <<completed, failed, registered, jobs, closed, sent, done, max, trampoline,
                   notify, timers, waitTimer, produced, received, lost, seenError>>

-----------------------------------------------------------------------------
NextChunk == PullItems \/ PullError \/ PullDone \/ PullPending \/ PullIterator
Produce(p) == PushRefused(p) \/ PushItem(p) \/ PushPending(p)
Create == WrapWithoutWake \/ SetWakePtr \/ SetWakeThread
CallNext == NextFromChunk \/ NextPulls

Next ==
    \/ \E p \in Producers : Produce(p) \/ ParkTask(p) \/ PolledAgain(p) \/ Ends(p)
    \/ Create \/ CallNext \/ NextChunk \/ RunWake \/ CloseLoop \/ Dispose \/ Finalize
    \/ \E n \in Timers : TimerFires(n)

\* The executor polls a producer whose wake it heard, and parks it; a JS thread
\* that iterates keeps calling next() (for await), runs its timers, and finishes
\* the calls it makes.  The drain of the loop is not fair: the timers have to do
\* without it.
Fairness ==
    /\ \A p \in Producers : WF_vars(Produce(p) \/ ParkTask(p))
    /\ WF_vars(Create) /\ WF_vars(CallNext) /\ WF_vars(NextChunk)
    /\ \A n \in Timers : WF_vars(TimerFires(n))
Spec == Init /\ [][Next]_vars /\ Fairness

-----------------------------------------------------------------------------
(* Properties *)

\* What is received, or on its way in the wrapper's chunk and the push buffer.
Given == received \o chunk \o queue

\* s leaves out some items of t and keeps the order of the others.
Subsequence(s, t) ==
    \E f \in [DOMAIN s -> DOMAIN t] :
        /\ \A m, n \in DOMAIN s : m < n => f[m] < f[n]
        /\ \A n \in DOMAIN s : s[n] = t[f[n]]

\* Items reach the consumer once each and in the order of the pushes, none is
\* lost between the buffer and next(), and the end or the error of a push stream
\* comes after them ("items already in the buffer stay deliverable").  A dropped
\* stream loses what was not received, a failing iterator its last chunk, and a
\* chunk that finds the transient table full is gone.
ItemsInOrder ==
    /\ IsInjective(Given) /\ Subsequence(Given, produced)
    /\ ~lost => IsPrefix(Given, produced)
    /\ ~lost /\ ~dropped /\ state # "errored" => Given = produced
    /\ seenError /\ state = "buffer" => queue = <<>> /\ chunk = <<>>

\* Backpressure parks a producer beside a full buffer of a live stream only, and
\* with its waker in the list: whoever frees room, ends the stream or drops it
\* has woken it.  (One whose wake the executor threw away sleeps on beside room.)
NoProducerSleepsBesideRoom ==
    \A p \in Producers :
        pc[p] \in {"parking", "parked"} => p \in producers /\ Open /\ Len(queue) = PUSH_CAPACITY

\* "A lost wake-up must not hang the pull" (stream.ts): however wakes, timers of
\* earlier waits and a closed loop interleave, a consumer that iterates gets
\* every item and learns of the end, unless it lets go of the stream (or, of the
\* items, had a chunk refused).
ConsumerServed ==
    /\ []<>(state = "buffer" => Len(received) = Len(produced) \/ dropped \/ lost)
    /\ completed \/ failed ~> done \/ seenError \/ dropped

\* "A producer pushing afterwards sees Closed and its future ends": no producer
\* outlives the stream, the parked ones included.  The stream wakes every one; a
\* producer that sleeps on is one whose wake the executor threw away.
ProducersEnd == ~Open ~> \A p \in Producers : pc[p] \in {"ended", "lost"}
=============================================================================
