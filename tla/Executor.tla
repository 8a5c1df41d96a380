------------------------------ MODULE Executor ------------------------------
(***************************************************************************)
(* The task executor of crates/bffi/src/async: executor.rs (ready queue,   *)
(* parked futures, workers), task.rs (the task record), runtime.rs (tasks  *)
(* that tokio polls instead) and the spawn, cancel and attach of mod.rs,   *)
(* down to the resolver call a JS thread makes when it drains the loop.    *)
(*                                                                         *)
(* A future is Pending until its event has happened; its waker is armed by *)
(* a Pending poll and fired by the event (a timer, a channel, a socket) or *)
(* spuriously.  The ready queue is a mutex and a condition variable tested *)
(* in one critical section: a pop waits until there is something to pop.   *)
(* Of tokio: it polls a spawned task once and after every wake, and an     *)
(* aborted one is dropped as soon as it is not being polled.               *)
(***************************************************************************)
EXTENDS Naturals, Sequences, FiniteSets, SequencesExt

CONSTANTS
    Workers,        \* executor worker threads, 1 .. MAX_WORKERS in the code
    Callers,        \* threads that call spawn, cancel and attach
    Tasks,
    TokioTasks,     \* those spawned on tokio; each is an actor of its own there
    NulMessages,    \* those whose error or panic message, if they fail, holds a NUL
    USIZE,          \* live_tasks wraps here, at 2^64 in the code
    NONE            \* no task

ASSUME ExecutorAssumption ==
    /\ Workers \cap Callers = {} /\ TokioTasks \subseteq Tasks /\ NONE \notin Tasks
    /\ NulMessages \subseteq Tasks
    /\ Tasks \cap (Workers \cup Callers) = {} /\ USIZE \in Nat \ {0}

\* A task is an allocation of its own: there are fewer than usize can count.
ASSUME CountAssumption == IsFiniteSet(Tasks) /\ Cardinality(Tasks) < USIZE

Actors == Workers \cup Callers \cup TokioTasks
Terminal == {"done", "failed", "cancelled"}

VARIABLES
    outcome, cancelRequested, attached, delivered,  \* the TaskRecords
    ready, parked, liveTasks,                       \* the Executor
    runtime, aborters,      \* RUNTIME (built at most once), ABORTERS
    event, armed,           \* the futures' own machinery
    jobs, closed,           \* deliveries in the event loop; TRUE: it refuses them
    settled,                \* what the attached promise saw, in order
    pc, loc

record == <<outcome, cancelRequested, attached, delivered>>
futures == <<event, armed>>
delivery == <<jobs, closed, settled>>
tokio == <<runtime, aborters>>
vars == <<record, ready, parked, liveTasks, tokio, futures, delivery, pc, loc>>

NoLocals == [task |-> NONE, result |-> "running"]

TypeOK ==
    /\ outcome \in [Tasks -> {"new", "running"} \cup Terminal]
    /\ cancelRequested \in [Tasks -> BOOLEAN]
    /\ attached \in [Tasks -> BOOLEAN] /\ delivered \in [Tasks -> BOOLEAN]
    /\ ready \in Seq(Tasks) /\ parked \in SUBSET Tasks /\ liveTasks \in 0 .. USIZE - 1
    /\ runtime \in {"unknown", "up", "down"} /\ aborters \subseteq TokioTasks
    /\ event \in [Tasks -> BOOLEAN] /\ armed \in [Tasks -> BOOLEAN]
    /\ jobs \in Seq(Tasks) /\ closed \in BOOLEAN
    /\ settled \in [Tasks -> Seq({"resolved", "rejected"})]
    /\ pc \in [Actors -> {"idle", "check", "take", "poll", "mark", "pending", "park",
                          "finish", "deliver", "deliver_outcome", "deliver_slot",
                          "register", "abort", "tokio_ready", "tokio_parked"}]
    /\ loc \in [Actors -> [task : Tasks \cup {NONE}, result : {"running"} \cup Terminal]]

Init ==
    /\ outcome = [k \in Tasks |-> "new"]
    /\ cancelRequested = [k \in Tasks |-> FALSE]
    /\ attached = [k \in Tasks |-> FALSE] /\ delivered = [k \in Tasks |-> FALSE]
    /\ ready = <<>> /\ parked = {} /\ liveTasks = 0
    /\ runtime = "unknown" /\ aborters = {}
    /\ event = [k \in Tasks |-> FALSE] /\ armed = [k \in Tasks |-> FALSE]
    /\ jobs = <<>> /\ closed = FALSE
    /\ settled = [k \in Tasks |-> <<>>]
    /\ pc = [a \in Actors |-> "idle"] /\ loc = [a \in Actors |-> NoLocals]

Goto(a, from, to) == pc[a] = from /\ pc' = [pc EXCEPT ![a] = to]
Finish(a) == pc' = [pc EXCEPT ![a] = "idle"] /\ loc' = [loc EXCEPT ![a] = NoLocals]
GotoOrFinish(a, go, to) == IF go THEN pc' = [pc EXCEPT ![a] = to] /\ UNCHANGED loc ELSE Finish(a)

-----------------------------------------------------------------------------
(* The callers: spawn, cancel, attach *)

\* Others reach the task through its handle, which launch pushes and returns
\* last: what launch does before is one step with it.
Launch(c, k) ==
    /\ pc[c] = "idle" /\ outcome[k] = "new" /\ k \notin TokioTasks
    /\ outcome' = [outcome EXCEPT ![k] = "running"]
    /\ liveTasks' = (liveTasks + 1) % USIZE
    /\ parked' = parked \cup {k}
    /\ ready' = Append(ready, k)
    /\ UNCHANGED <<cancelRequested, attached, delivered, tokio, futures, delivery, pc, loc>>

\* spawn_on_tokio: without a runtime the task is counted down at once, its
\* record stays as it is, and the caller gets a handle all the same.
LaunchOnTokio(c, k) ==
    /\ pc[c] = "idle" /\ outcome[k] = "new" /\ k \in TokioTasks
    /\ outcome' = [outcome EXCEPT ![k] = "running"]
    /\ \/ /\ runtime # "down" /\ runtime' = "up"
          /\ liveTasks' = (liveTasks + 1) % USIZE
          /\ pc' = [pc EXCEPT ![c] = "register", ![k] = "tokio_ready"]
          /\ loc' = [loc EXCEPT ![c].task = k, ![k].task = k]
       \/ /\ runtime # "up" /\ runtime' = "down"
          /\ UNCHANGED <<liveTasks, pc, loc>>
    /\ UNCHANGED <<cancelRequested, attached, delivered, ready, parked, aborters, futures, delivery>>

\* The task runs already when its aborter is stored; the handle is returned then.
RegisterAborter(c) ==
    /\ pc[c] = "register"
    /\ aborters' = aborters \cup {loc[c].task}
    /\ Finish(c)
    /\ UNCHANGED <<record, ready, parked, liveTasks, runtime, futures, delivery>>

Returned(k) == outcome[k] # "new" /\ \A c \in Callers : ~(pc[c] = "register" /\ loc[c].task = k)

\* mark_cancelled, mark_completed, mark_failed: only the first terminal
\* transition wins.
MarkOutcome(k, result) ==
    outcome' = [outcome EXCEPT ![k] = IF @ = "running" THEN result ELSE @]

\* The winner of the transition owns the terminal bookkeeping; a cancel that
\* loses returns false and changes nothing.
Cancel(c, k) ==
    /\ Returned(k) /\ outcome[k] = "running"
    /\ Goto(c, "idle", "abort")
    /\ loc' = [loc EXCEPT ![c].task = k]
    /\ MarkOutcome(k, "cancelled")
    /\ cancelRequested' = [cancelRequested EXCEPT ![k] = TRUE]
    /\ UNCHANGED <<attached, delivered, ready, parked, liveTasks, tokio, futures, delivery>>

\* Mutant: the aborter is taken and not run.
RunAborter_TakeOnly(c) ==
    /\ Goto(c, "abort", "finish")
    /\ aborters' = aborters \ {loc[c].task}
    /\ UNCHANGED <<record, ready, parked, liveTasks, runtime, futures, delivery, loc>>

\* run_aborter: tokio drops the future, unless its poll has an outcome already.
RunAborter(c) ==
    LET k == loc[c].task
        hit == k \in aborters /\ pc[k] \in {"tokio_ready", "tokio_parked"}
    IN  /\ pc[c] = "abort"
        /\ pc' = [a \in Actors |-> IF a = c THEN "finish" ELSE IF hit /\ a = k THEN "idle" ELSE pc[a]]
        /\ armed' = [armed EXCEPT ![k] = @ /\ ~hit]
        /\ aborters' = aborters \ {k}
        /\ UNCHANGED <<record, ready, parked, liveTasks, runtime, event, delivery, loc>>

\* Mutant: attach leaves the delivery to the terminal transition.
Attach_NoDelivery(c, k) ==
    /\ Returned(k) /\ ~attached[k] /\ pc[c] = "idle"
    /\ attached' = [attached EXCEPT ![k] = TRUE]
    /\ UNCHANGED <<outcome, cancelRequested, delivered, ready, parked, liveTasks, tokio, futures,
                   delivery, pc, loc>>

Attach(c, k) ==
    /\ Returned(k) /\ ~attached[k]
    /\ Goto(c, "idle", "deliver")
    /\ loc' = [loc EXCEPT ![c].task = k]
    /\ attached' = [attached EXCEPT ![k] = TRUE]
    /\ UNCHANGED <<outcome, cancelRequested, delivered, ready, parked, liveTasks, tokio, futures, delivery>>

-----------------------------------------------------------------------------
(* The workers: worker_loop and poll_task *)

PopReady(w) ==
    /\ w \in Workers /\ ready # <<>>
    /\ Goto(w, "idle", "check")
    /\ loc' = [loc EXCEPT ![w].task = Head(ready)]
    /\ ready' = Tail(ready)
    /\ UNCHANGED <<record, parked, liveTasks, tokio, futures, delivery>>

CheckCancelled(w) ==
    /\ pc[w] = "check"
    /\ GotoOrFinish(w, ~cancelRequested[loc[w].task], "take")
    /\ parked' = IF cancelRequested[loc[w].task] THEN parked \ {loc[w].task} ELSE parked
    /\ UNCHANGED <<record, ready, liveTasks, tokio, futures, delivery>>

\* Mutant: the future is polled where it is parked.
Take_InPlace(w) ==
    /\ pc[w] = "take"
    /\ GotoOrFinish(w, loc[w].task \in parked, "poll")
    /\ UNCHANGED <<record, ready, parked, liveTasks, tokio, futures, delivery>>

Take(w) ==
    /\ pc[w] = "take"
    /\ GotoOrFinish(w, loc[w].task \in parked, "poll")
    /\ parked' = parked \ {loc[w].task}
    /\ UNCHANGED <<record, ready, liveTasks, tokio, futures, delivery>>

\* Ready with a value, or with an error or a panic; Pending arms the waker.
Poll(w) ==
    /\ \/ /\ Goto(w, "poll", "mark") /\ event[loc[w].task]
          /\ \E r \in {"done", "failed"} : loc' = [loc EXCEPT ![w].result = r]
          /\ UNCHANGED armed
       \/ /\ Goto(w, "poll", "pending") /\ ~event[loc[w].task]
          /\ armed' = [armed EXCEPT ![loc[w].task] = TRUE]
          /\ UNCHANGED loc
    /\ UNCHANGED <<record, ready, parked, liveTasks, tokio, event, delivery>>

\* Mutant: the loser of the race does the terminal bookkeeping as well.
Mark_LoserFinishes(w) ==
    /\ Goto(w, "mark", "finish")
    /\ MarkOutcome(loc[w].task, loc[w].result)
    /\ UNCHANGED <<cancelRequested, attached, delivered, ready, parked, liveTasks, tokio, futures,
                   delivery, loc>>

Mark(w) ==
    /\ pc[w] = "mark"
    /\ GotoOrFinish(w, outcome[loc[w].task] = "running", "finish")
    /\ MarkOutcome(loc[w].task, loc[w].result)
    /\ UNCHANGED <<cancelRequested, attached, delivered, ready, parked, liveTasks, tokio, futures, delivery>>

\* Cancelled during the poll: the future is dropped here.  mark_cancelled then
\* finds the cancel's own outcome and loses.
Pending(w) ==
    /\ pc[w] = "pending"
    /\ GotoOrFinish(w, ~cancelRequested[loc[w].task], "park")
    /\ armed' = [armed EXCEPT ![loc[w].task] = @ /\ ~cancelRequested[loc[w].task]]
    /\ UNCHANGED <<record, ready, parked, liveTasks, tokio, event, delivery>>

Park(w) ==
    /\ pc[w] = "park"
    /\ parked' = parked \cup {loc[w].task}
    /\ Finish(w)
    /\ UNCHANGED <<record, ready, liveTasks, tokio, futures, delivery>>

\* A waker pushes the handle onto the ready queue, whatever the task is doing.
Wake(k) ==
    /\ armed' = [armed EXCEPT ![k] = FALSE]
    /\ IF k \in TokioTasks THEN Goto(k, "tokio_parked", "tokio_ready") /\ UNCHANGED ready
       ELSE ready' = Append(ready, k) /\ UNCHANGED pc
    /\ UNCHANGED <<record, parked, liveTasks, tokio, delivery, loc>>

\* The future exists: parked, or in the hands of a worker.
Polling(w) == pc[w] \in {"poll", "pending", "park"}
Alive(k) == (k \in TokioTasks /\ pc[k] \in {"tokio_ready", "tokio_parked"}) \/ k \in parked \/ \E w \in Workers : Polling(w) /\ loc[w].task = k

Fire(k) ==
    /\ Alive(k) /\ ~event[k]
    /\ event' = [event EXCEPT ![k] = TRUE]
    /\ IF armed[k] THEN Wake(k)
       ELSE UNCHANGED <<record, ready, parked, liveTasks, tokio, armed, delivery, pc, loc>>

SpuriousWake(k) == Alive(k) /\ armed[k] /\ ~event[k] /\ Wake(k) /\ UNCHANGED event

-----------------------------------------------------------------------------
(* launch_on_tokio: the spawned block, which ends like poll_task does *)

TokioPoll(k) ==
    /\ \/ /\ Goto(k, "tokio_ready", "mark") /\ event[k]
          /\ \E r \in {"done", "failed"} : loc' = [loc EXCEPT ![k].result = r]
          /\ UNCHANGED armed
       \/ /\ Goto(k, "tokio_ready", "tokio_parked") /\ ~event[k]
          /\ armed' = [armed EXCEPT ![k] = TRUE]
          /\ UNCHANGED loc
    /\ UNCHANGED <<record, ready, parked, liveTasks, tokio, event, delivery>>

-----------------------------------------------------------------------------
(* task_finished and try_deliver, by whoever won the transition or attached *)

\* Nothing reads live_tasks to decide, so it is counted down with the removal of
\* the future and of the aborter.
TaskFinished(a) ==
    /\ Goto(a, "finish", "deliver")
    /\ liveTasks' = (liveTasks + USIZE - 1) % USIZE
    /\ parked' = parked \ {loc[a].task} /\ aborters' = aborters \ {loc[a].task}
    /\ UNCHANGED <<record, ready, runtime, futures, delivery, loc>>

DeliverPair(a) ==
    /\ pc[a] = "deliver"
    /\ GotoOrFinish(a, attached[loc[a].task], "deliver_outcome")
    /\ UNCHANGED <<record, ready, parked, liveTasks, tokio, futures, delivery>>

\* Mutant: the delivery does not wait for an outcome.
DeliverOutcome_Any(a) ==
    /\ Goto(a, "deliver_outcome", "deliver_slot")
    /\ UNCHANGED <<record, ready, parked, liveTasks, tokio, futures, delivery, loc>>

DeliverOutcome(a) ==
    /\ pc[a] = "deliver_outcome"
    /\ GotoOrFinish(a, outcome[loc[a].task] \in Terminal, "deliver_slot")
    /\ UNCHANGED <<record, ready, parked, liveTasks, tokio, futures, delivery>>

\* Mutant: the delivery slot does not tell the first taker from the second.
DeliverSlot_Again(a) ==
    /\ pc[a] = "deliver_slot"
    /\ delivered' = [delivered EXCEPT ![loc[a].task] = TRUE]
    /\ jobs' = IF closed THEN jobs ELSE Append(jobs, loc[a].task)
    /\ Finish(a)
    /\ UNCHANGED <<outcome, cancelRequested, attached, ready, parked, liveTasks, tokio, futures, closed, settled>>

\* take_delivery_slot, then the job; a stopped loop or a departed isolate
\* refuses it, and the delivery is lost.
DeliverSlot(a) ==
    /\ pc[a] = "deliver_slot"
    /\ delivered' = [delivered EXCEPT ![loc[a].task] = TRUE]
    /\ jobs' = IF delivered[loc[a].task] \/ closed THEN jobs ELSE Append(jobs, loc[a].task)
    /\ Finish(a)
    /\ UNCHANGED <<outcome, cancelRequested, attached, ready, parked, liveTasks, tokio, futures, closed, settled>>

\* reject_with: the message goes to JS as a C string, and one with a NUL inside
\* is not delivered at all.
Unspeakable(k) == outcome[k] = "failed" /\ k \in NulMessages

\* deliver_on_js_thread, when the JS thread drains the loop.  A full buffer
\* table turns a value into a rejection.
RunDelivery ==
    /\ jobs # <<>>
    /\ jobs' = Tail(jobs)
    /\ IF Unspeakable(Head(jobs)) THEN UNCHANGED settled
       ELSE \E s \in IF outcome[Head(jobs)] = "done" THEN {"resolved", "rejected"} ELSE {"rejected"} :
              settled' = [settled EXCEPT ![Head(jobs)] = Append(@, s)]
    /\ UNCHANGED <<record, ready, parked, liveTasks, tokio, futures, closed, pc, loc>>

CloseLoop ==
    /\ ~closed /\ closed' = TRUE
    /\ UNCHANGED <<record, ready, parked, liveTasks, tokio, futures, jobs, settled, pc, loc>>

-----------------------------------------------------------------------------
Bookkeeping(a) == TaskFinished(a) \/ DeliverPair(a) \/ DeliverOutcome(a) \/ DeliverSlot(a)
Worker(w) == \/ PopReady(w) \/ CheckCancelled(w) \/ Take(w) \/ Poll(w) \/ Mark(w)
             \/ Pending(w) \/ Park(w) \/ Bookkeeping(w)
InCall(c) == RegisterAborter(c) \/ RunAborter(c) \/ Bookkeeping(c)
OnTokio(k) == TokioPoll(k) \/ Mark(k) \/ Bookkeeping(k)

Next ==
    \/ \E c \in Callers, k \in Tasks :
         Launch(c, k) \/ LaunchOnTokio(c, k) \/ Cancel(c, k) \/ Attach(c, k)
    \/ \E c \in Callers : InCall(c)
    \/ \E w \in Workers : Worker(w)
    \/ \E k \in TokioTasks : OnTokio(k)
    \/ \E k \in Tasks : Fire(k) \/ SpuriousWake(k)
    \/ RunDelivery \/ CloseLoop

\* Worker and tokio threads run, a call in progress continues, and the JS side
\* drains the loop (the module doc: a documented periodic pump).  Events need not
\* happen.
Fairness ==
    /\ \A w \in Workers : WF_vars(Worker(w))
    /\ \A c \in Callers : WF_vars(InCall(c))
    /\ \A k \in TokioTasks : WF_vars(OnTokio(k))
    /\ WF_vars(RunDelivery)
Spec == Init /\ [][Next]_vars /\ Fairness

-----------------------------------------------------------------------------
(* Properties *)

\* The tasks spawned on a runtime that could not be built, which launch_on_tokio
\* counts down at once; the failure is sticky.
Orphans == IF runtime = "down" THEN {k \in TokioTasks : outcome[k] # "new"} ELSE {}

\* pending_tasks() is exact up to the winner that has not counted down yet: no
\* race of cancel, abort and completion counts a task down twice or never.  Only
\* an orphan counts for nothing while it runs, and for one too few once it is
\* cancelled: the count wraps when the orphans outnumber the tasks.
LiveTasksExact ==
    LET counted == Cardinality({k \in Tasks : outcome[k] = "running"})
                   + Cardinality({a \in Actors : pc[a] \in {"abort", "finish"}})
        orphans == Cardinality(Orphans)
    IN  liveTasks = IF orphans <= counted THEN counted - orphans ELSE counted + USIZE - orphans

\* A future is polled by one worker at a time and is never parked meanwhile,
\* however often its wakers put the handle on the ready queue.
FutureInOnePlace ==
    \A k \in Tasks :
        LET holders == {w \in Workers : Polling(w) /\ loc[w].task = k}
        IN  Cardinality(holders) + (IF k \in parked THEN 1 ELSE 0) <= 1

\* The promise settles at most once, though attach and the winner of the outcome
\* both try to deliver, and it resolves only for a task that completed.
SettledOnce ==
    \A k \in Tasks :
        /\ Len(settled[k]) + Cardinality({n \in DOMAIN jobs : jobs[n] = k}) <= 1
        /\ Contains(settled[k], "resolved") => outcome[k] = "done"

\* An attached promise of a terminated task settles, also when attach and the
\* terminal transition overlap, unless the loop refuses deliveries or the message
\* has a NUL.  Both are for good, so []<> says that it leads to the settling.
AttachedPromiseSettles ==
    \A k \in Tasks :
        []<>(attached[k] /\ outcome[k] \in Terminal =>
               settled[k] # <<>> \/ closed \/ Unspeakable(k))

\* "Wakes the executor when the future's own machinery decides the task is ready
\* to poll again" (TaskWake): a task whose event happened reaches an outcome.
WokenTaskEnds ==
    \A k \in Tasks : event[k] /\ outcome[k] = "running" ~> outcome[k] \in Terminal

\* "Cancellation of a tokio task aborts it at the next await point": its aborter
\* is there before anybody can cancel it, and no wake revives it (a cancel is for
\* good: []<> says that it leads to the abort).
CancelAborts ==
    \A k \in TokioTasks : []<>(outcome[k] = "cancelled" => ~Alive(k))
=============================================================================
