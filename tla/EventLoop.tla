------------------------------ MODULE EventLoop ------------------------------
(***************************************************************************)
(* The job queues of crates/bffi/src/event_loop/mod.rs: a global queue,    *)
(* one slot queue per registered JS thread, blocking run(), non-blocking   *)
(* pump(), and the sticky stop().                                          *)
(*                                                                         *)
(* One step is one critical section or one atomic access; a mutex that     *)
(* the code keeps across several of them is held by the threads whose pc   *)
(* says so.  A condition variable is the set of threads that sleep on it.  *)
(* A job runs and returns (a panic is contained by run_extern_body); what  *)
(* it does is the business of the modules that enqueue it.                 *)
(***************************************************************************)
EXTENDS Naturals, Sequences, FiniteSets, SequencesExt

CONSTANTS
    Threads,
    Isolates,       \* the threads that may register as JS threads
    Runners,        \* the threads that may call run and pump
    Jobs,           \* every job is enqueued at most once
    SlotIds,        \* bound: slot queues ever created, one per registration
    GLOBAL,         \* the global queue
    NONE,           \* no slot, no job
    MaxSpurious     \* bound: spurious wakeups of condition variables

ASSUME LoopAssumption ==
    /\ Isolates \subseteq Threads /\ Runners \subseteq Threads
    /\ GLOBAL \notin SlotIds \cup Threads /\ NONE \notin SlotIds \cup {GLOBAL} \cup Jobs \cup Threads
    /\ MaxSpurious \in Nat

Queues == SlotIds \cup {GLOBAL}

VARIABLES
    stopped, runners,   \* STOPPED, RUNNERS
    queue, asleep,      \* per queue: its jobs, the threads waiting on its condvar
    slotOf,             \* THREAD_QUEUES: the slot queue of each JS thread
    usedSlots,          \* the slot queues created so far
    target,             \* target[j]: the isolate of an enqueue_to, or GLOBAL; NONE: not sent
    executed,           \* the jobs that have run
    pc, loc, spurious

vars == <<stopped, runners, queue, asleep, slotOf, usedSlots, target, executed, pc, loc, spurious>>

\* q: the queue at work (own slot of a runner, destination of an enqueue);
\* back: where a popped job returns to; work: the slots stop has not notified.
NoLocals == [q |-> NONE, job |-> NONE, primary |-> FALSE, back |-> "idle", work |-> {}]

RegisteredRunPc == {"drain", "drain_global", "run_stop", "run_lock", "recheck", "sleep", "asleep"}
PlainRunPc == {"g_pop", "g_stop", "g_wait", "g_asleep"}
PumpPc == {"pump", "pump_global"}
SendPc == {"enqueue", "push", "notify", "notify_slots"}
Pcs == RegisteredRunPc \cup PlainRunPc \cup PumpPc \cup SendPc
       \cup {"idle", "run_count", "run_primary", "run_exit", "exec", "stop_global", "stop_slots"}

TypeOK ==
    /\ stopped \in BOOLEAN /\ runners \in Nat
    /\ queue \in [Queues -> Seq(Jobs)]
    /\ asleep \in [Queues -> SUBSET Threads]
    /\ slotOf \in [Isolates -> SlotIds \cup {NONE}] /\ usedSlots \in SUBSET SlotIds
    /\ target \in [Jobs -> Isolates \cup {GLOBAL, NONE}] /\ executed \in SUBSET Jobs
    /\ pc \in [Threads -> Pcs]
    /\ loc \in [Threads -> [q : Queues \cup {NONE}, job : Jobs \cup {NONE}, primary : BOOLEAN,
                            back : Pcs, work : SUBSET SlotIds]]
    /\ spurious \in 0 .. MaxSpurious

Init ==
    /\ stopped = FALSE /\ runners = 0
    /\ queue = [q \in Queues |-> <<>>] /\ asleep = [q \in Queues |-> {}]
    /\ slotOf = [i \in Isolates |-> NONE] /\ usedSlots = {}
    /\ target = [j \in Jobs |-> NONE] /\ executed = {}
    /\ pc = [t \in Threads |-> "idle"] /\ loc = [t \in Threads |-> NoLocals]
    /\ spurious = 0

Goto(t, from, to) == pc[t] = from /\ pc' = [pc EXCEPT ![t] = to]
Finish(t) == pc' = [pc EXCEPT ![t] = "idle"] /\ loc' = [loc EXCEPT ![t] = NoLocals]

\* Mutexes kept across steps: a slot's by its runner between the emptiness
\* check and the wait, the global one by an unregistered runner from the failed
\* pop to the wait, the directory's by a stop that walks the slots.
QueueFree(q, t) == \A u \in Threads \ {t} :
    ~ \/ q # GLOBAL /\ loc[u].q = q /\ pc[u] \in {"recheck", "sleep"}
      \/ q = GLOBAL /\ pc[u] \in {"g_stop", "g_wait"}
DirectoryFree == \A u \in Threads : pc[u] # "stop_slots"

\* The queue a registered runner or a pump calls its own.
OwnSlot(t) == IF t \in Isolates THEN slotOf[t] ELSE NONE
RegisteredSlots == {slotOf[i] : i \in Isolates} \ {NONE}

-----------------------------------------------------------------------------
(* js_thread_registered and js_thread_gone *)

Register(t) ==
    /\ t \in Isolates /\ pc[t] = "idle" /\ slotOf[t] = NONE /\ DirectoryFree
    /\ \E s \in SlotIds \ usedSlots :
         slotOf' = [slotOf EXCEPT ![t] = s] /\ usedSlots' = usedSlots \cup {s}
    /\ UNCHANGED <<stopped, runners, queue, asleep, target, executed, pc, loc, spurious>>

\* Mutant: the jobs of a thread that goes are left to whoever runs next.
Gone_ToGlobal(t) ==
    /\ t \in Isolates /\ pc[t] = "idle" /\ slotOf[t] # NONE /\ DirectoryFree
    /\ slotOf' = [slotOf EXCEPT ![t] = NONE]
    /\ queue' = [queue EXCEPT ![GLOBAL] = @ \o queue[slotOf[t]], ![slotOf[t]] = <<>>]
    /\ UNCHANGED <<stopped, runners, asleep, usedSlots, target, executed, pc, loc, spurious>>

\* Jobs still queued stay in a queue nobody can reach any more.
Gone(t) ==
    /\ t \in Isolates /\ pc[t] = "idle" /\ slotOf[t] # NONE /\ DirectoryFree
    /\ slotOf' = [slotOf EXCEPT ![t] = NONE]
    /\ UNCHANGED <<stopped, runners, queue, asleep, usedSlots, target, executed, pc, loc, spurious>>

-----------------------------------------------------------------------------
(* enqueue, enqueue_to, marshal *)

CallEnqueue(t) ==
    /\ Goto(t, "idle", "enqueue")
    /\ \E j \in Jobs :
         /\ target[j] = NONE
         /\ target' = [target EXCEPT ![j] = GLOBAL]
         /\ loc' = [loc EXCEPT ![t].q = GLOBAL, ![t].job = j]
    /\ UNCHANGED <<stopped, runners, queue, asleep, slotOf, usedSlots, executed, spurious>>

\* marshal refuses (NotRunning) unless somebody is inside run.
CallMarshal(t) == runners # 0 /\ CallEnqueue(t)

\* Mutant: a targeted job is pushed to the global queue.
CallEnqueueTo_Global(t) ==
    /\ DirectoryFree /\ ~stopped
    /\ Goto(t, "idle", "push")
    /\ \E i \in Isolates, j \in Jobs :
         /\ target[j] = NONE /\ slotOf[i] # NONE
         /\ target' = [target EXCEPT ![j] = i]
         /\ loc' = [loc EXCEPT ![t].q = GLOBAL, ![t].job = j]
    /\ UNCHANGED <<stopped, runners, queue, asleep, slotOf, usedSlots, executed, spurious>>

\* The slot is looked up, and kept, before the push; unregistered: NotRunning.
CallEnqueueTo(t) ==
    /\ DirectoryFree /\ ~stopped
    /\ Goto(t, "idle", "push")
    /\ \E i \in Isolates, j \in Jobs :
         /\ target[j] = NONE /\ slotOf[i] # NONE
         /\ target' = [target EXCEPT ![j] = i]
         /\ loc' = [loc EXCEPT ![t].q = slotOf[i], ![t].job = j]
    /\ UNCHANGED <<stopped, runners, queue, asleep, slotOf, usedSlots, executed, spurious>>

\* A stopped loop rejects the job: it was never sent.
EnqueueCheck(t) ==
    /\ pc[t] = "enqueue"
    /\ IF stopped
       THEN Finish(t) /\ target' = [target EXCEPT ![loc[t].job] = NONE]
       ELSE Goto(t, "enqueue", "push") /\ UNCHANGED <<target, loc>>
    /\ UNCHANGED <<stopped, runners, queue, asleep, slotOf, usedSlots, executed, spurious>>

Push(t) ==
    /\ Goto(t, "push", "notify")
    /\ QueueFree(loc[t].q, t)
    /\ queue' = [queue EXCEPT ![loc[t].q] = Append(@, loc[t].job)]
    /\ UNCHANGED <<stopped, runners, asleep, slotOf, usedSlots, target, executed, loc, spurious>>

\* Mutant: an untargeted job notifies the slots only.
Notify_SlotsOnly(t) ==
    /\ pc[t] = "notify"
    /\ IF loc[t].q = GLOBAL
       THEN Goto(t, "notify", "notify_slots") /\ UNCHANGED <<asleep, loc>>
       ELSE /\ IF asleep[loc[t].q] = {} THEN UNCHANGED asleep
               ELSE \E u \in asleep[loc[t].q] : asleep' = [asleep EXCEPT ![loc[t].q] = @ \ {u}]
            /\ Finish(t)
    /\ UNCHANGED <<stopped, runners, queue, slotOf, usedSlots, target, executed, spurious>>

\* notify_one, outside of the queue's mutex.
Notify(t) ==
    /\ pc[t] = "notify"
    /\ IF asleep[loc[t].q] = {} THEN UNCHANGED asleep
       ELSE \E u \in asleep[loc[t].q] : asleep' = [asleep EXCEPT ![loc[t].q] = @ \ {u}]
    /\ IF loc[t].q = GLOBAL THEN Goto(t, "notify", "notify_slots") /\ UNCHANGED loc
       ELSE Finish(t)
    /\ UNCHANGED <<stopped, runners, queue, slotOf, usedSlots, target, executed, spurious>>

\* notify_slots takes no slot mutex.
NotifySlots(t) ==
    /\ pc[t] = "notify_slots" /\ DirectoryFree
    /\ asleep' = [q \in Queues |-> IF q \in RegisteredSlots THEN {} ELSE asleep[q]]
    /\ Finish(t)
    /\ UNCHANGED <<stopped, runners, queue, slotOf, usedSlots, target, executed, spurious>>

-----------------------------------------------------------------------------
(* run *)

CallRun(t) ==
    /\ t \in Runners /\ ~stopped /\ DirectoryFree
    /\ Goto(t, "idle", "run_count")
    /\ loc' = [loc EXCEPT ![t].q = OwnSlot(t)]
    /\ UNCHANGED <<stopped, runners, queue, asleep, slotOf, usedSlots, target, executed, spurious>>

RunCount(t) ==
    /\ Goto(t, "run_count", "run_primary")
    /\ runners' = runners + 1
    /\ UNCHANGED <<stopped, queue, asleep, slotOf, usedSlots, target, executed, loc, spurious>>

RunPrimary(t) ==
    /\ Goto(t, "run_primary", IF loc[t].q = NONE THEN "g_pop" ELSE "drain")
    /\ loc' = [loc EXCEPT ![t].primary = (runners = 1)]
    /\ UNCHANGED <<stopped, runners, queue, asleep, slotOf, usedSlots, target, executed, spurious>>

\* Mutant: the job is run and stays in the queue.
PopFrom_Peek(t, q, here, empty) ==
    /\ pc[t] = here /\ QueueFree(q, t)
    /\ IF queue[q] = <<>>
       THEN pc' = [pc EXCEPT ![t] = empty] /\ UNCHANGED loc
       ELSE /\ pc' = [pc EXCEPT ![t] = "exec"]
            /\ loc' = [loc EXCEPT ![t].job = Head(queue[q]), ![t].back = here]
    /\ UNCHANGED <<stopped, runners, queue, asleep, slotOf, usedSlots, target, executed, spurious>>

\* One pop of a drain of queue q: run the job and come back, or go on.
PopFrom(t, q, here, empty) ==
    /\ pc[t] = here /\ QueueFree(q, t)
    /\ IF queue[q] = <<>>
       THEN pc' = [pc EXCEPT ![t] = empty] /\ UNCHANGED <<queue, loc>>
       ELSE /\ pc' = [pc EXCEPT ![t] = "exec"]
            /\ loc' = [loc EXCEPT ![t].job = Head(queue[q]), ![t].back = here]
            /\ queue' = [queue EXCEPT ![q] = Tail(@)]
    /\ UNCHANGED <<stopped, runners, asleep, slotOf, usedSlots, target, executed, spurious>>

Exec(t) ==
    /\ Goto(t, "exec", loc[t].back)
    /\ executed' = executed \cup {loc[t].job}
    /\ loc' = [loc EXCEPT ![t].job = NONE, ![t].back = "idle"]
    /\ UNCHANGED <<stopped, runners, queue, asleep, slotOf, usedSlots, target, spurious>>

RunDrain(t) == PopFrom(t, loc[t].q, "drain", "drain_global")
RunDrainGlobal(t) == PopFrom(t, GLOBAL, "drain_global", "run_stop")

RunStopCheck(t) ==
    /\ Goto(t, "run_stop", IF stopped THEN "run_exit" ELSE "run_lock")
    /\ UNCHANGED <<stopped, runners, queue, asleep, slotOf, usedSlots, target, executed, loc, spurious>>

\* Mutant: the slot is not tested again once its mutex is held.
RunLock_NoTest(t) ==
    /\ Goto(t, "run_lock", "recheck") /\ QueueFree(loc[t].q, t)
    /\ UNCHANGED <<stopped, runners, queue, asleep, slotOf, usedSlots, target, executed, loc, spurious>>

\* Lock the slot; from here to the wait its mutex is held.
RunLock(t) ==
    /\ pc[t] = "run_lock" /\ QueueFree(loc[t].q, t)
    /\ Goto(t, "run_lock", IF queue[loc[t].q] = <<>> THEN "recheck" ELSE "drain")
    /\ UNCHANGED <<stopped, runners, queue, asleep, slotOf, usedSlots, target, executed, loc, spurious>>

RunRecheckGlobal(t) ==
    /\ QueueFree(GLOBAL, t)
    /\ Goto(t, "recheck", IF queue[GLOBAL] = <<>> THEN "sleep" ELSE "drain")
    /\ UNCHANGED <<stopped, runners, queue, asleep, slotOf, usedSlots, target, executed, loc, spurious>>

\* Condvar::wait releases the mutex and sleeps in one step.
SleepOn(t, q, from, to) ==
    /\ Goto(t, from, to)
    /\ asleep' = [asleep EXCEPT ![q] = @ \cup {t}]
    /\ UNCHANGED <<stopped, runners, queue, slotOf, usedSlots, target, executed, loc, spurious>>

RunSleep(t) == SleepOn(t, loc[t].q, "sleep", "asleep")

\* The unregistered loop: pop, test STOPPED and wait under one hold of the mutex.
PlainPop(t) == PopFrom(t, GLOBAL, "g_pop", "g_stop")
PlainStopCheck(t) ==
    /\ Goto(t, "g_stop", IF stopped \/ ~loc[t].primary THEN "run_exit" ELSE "g_wait")
    /\ UNCHANGED <<stopped, runners, queue, asleep, slotOf, usedSlots, target, executed, loc, spurious>>
PlainSleep(t) == SleepOn(t, GLOBAL, "g_wait", "g_asleep")

\* A notified sleeper takes its mutex again and loops.
WakeUp(t) ==
    /\ \/ Goto(t, "asleep", "drain") /\ t \notin asleep[loc[t].q] /\ QueueFree(loc[t].q, t)
       \/ Goto(t, "g_asleep", "g_pop") /\ t \notin asleep[GLOBAL] /\ QueueFree(GLOBAL, t)
    /\ UNCHANGED <<stopped, runners, queue, asleep, slotOf, usedSlots, target, executed, loc, spurious>>

\* A condition variable may wake a thread nobody notified.
SpuriousWake(t) ==
    /\ spurious < MaxSpurious /\ \E q \in Queues : t \in asleep[q]
    /\ asleep' = [q \in Queues |-> asleep[q] \ {t}]
    /\ spurious' = spurious + 1
    /\ UNCHANGED <<stopped, runners, queue, slotOf, usedSlots, target, executed, pc, loc>>

RunExit(t) ==
    /\ pc[t] = "run_exit"
    /\ runners' = runners - 1
    /\ Finish(t)
    /\ UNCHANGED <<stopped, queue, asleep, slotOf, usedSlots, target, executed, spurious>>

-----------------------------------------------------------------------------
(* pump and stop *)

CallPump(t) ==
    /\ t \in Runners /\ DirectoryFree
    /\ Goto(t, "idle", IF OwnSlot(t) = NONE THEN "pump_global" ELSE "pump")
    /\ loc' = [loc EXCEPT ![t].q = OwnSlot(t)]
    /\ UNCHANGED <<stopped, runners, queue, asleep, slotOf, usedSlots, target, executed, spurious>>

PumpDrain(t) == PopFrom(t, loc[t].q, "pump", "pump_global")

PumpDrainGlobal(t) ==
    \/ queue[GLOBAL] # <<>> /\ PopFrom(t, GLOBAL, "pump_global", "idle")
    \/ /\ pc[t] = "pump_global" /\ queue[GLOBAL] = <<>> /\ QueueFree(GLOBAL, t)
       /\ Finish(t)
       /\ UNCHANGED <<stopped, runners, queue, asleep, slotOf, usedSlots, target, executed, spurious>>

CallStop(t) ==
    /\ Goto(t, "idle", "stop_global")
    /\ stopped' = TRUE
    /\ UNCHANGED <<runners, queue, asleep, slotOf, usedSlots, target, executed, loc, spurious>>

\* Mutant: stop notifies the slots only.
StopGlobal_Silent(t) ==
    /\ DirectoryFree
    /\ Goto(t, "stop_global", "stop_slots")
    /\ loc' = [loc EXCEPT ![t].work = RegisteredSlots]
    /\ UNCHANGED <<stopped, runners, queue, asleep, slotOf, usedSlots, target, executed, spurious>>

\* The notification is made under the mutex, first the global one's.
StopGlobal(t) ==
    /\ QueueFree(GLOBAL, t) /\ DirectoryFree
    /\ Goto(t, "stop_global", "stop_slots")
    /\ asleep' = [asleep EXCEPT ![GLOBAL] = {}]
    /\ loc' = [loc EXCEPT ![t].work = RegisteredSlots]
    /\ UNCHANGED <<stopped, runners, queue, slotOf, usedSlots, target, executed, spurious>>

StopSlots(t) ==
    /\ pc[t] = "stop_slots"
    /\ \/ loc[t].work = {} /\ Finish(t) /\ UNCHANGED asleep
       \/ \E s \in loc[t].work :
            /\ QueueFree(s, t)
            /\ asleep' = [asleep EXCEPT ![s] = {}]
            /\ loc' = [loc EXCEPT ![t].work = @ \ {s}] /\ UNCHANGED pc
    /\ UNCHANGED <<stopped, runners, queue, slotOf, usedSlots, target, executed, spurious>>

-----------------------------------------------------------------------------
Caller(t) == \/ Register(t) \/ Gone(t) \/ CallEnqueue(t) \/ CallMarshal(t) \/ CallEnqueueTo(t)
             \/ CallRun(t) \/ CallPump(t) \/ CallStop(t)
Step(t) == \/ EnqueueCheck(t) \/ Push(t) \/ Notify(t) \/ NotifySlots(t)
           \/ RunCount(t) \/ RunPrimary(t) \/ RunDrain(t) \/ RunDrainGlobal(t) \/ Exec(t)
           \/ RunStopCheck(t) \/ RunLock(t) \/ RunRecheckGlobal(t) \/ RunSleep(t)
           \/ PlainPop(t) \/ PlainStopCheck(t) \/ PlainSleep(t) \/ WakeUp(t) \/ RunExit(t)
           \/ PumpDrain(t) \/ PumpDrainGlobal(t) \/ StopGlobal(t) \/ StopSlots(t)

Next == \E t \in Threads : Caller(t) \/ Step(t) \/ SpuriousWake(t)

\* A thread inside a call is scheduled again and again, and a mutex it waits for
\* is granted if it is free again and again; nobody has to make a call.
Spec == Init /\ [][Next]_vars /\ \A t \in Threads : SF_vars(Step(t))

-----------------------------------------------------------------------------
(* Properties *)

InQueue(j, q) == q # NONE /\ Contains(queue[q], j)

PlacesOf(j) ==
    (UNION {{q} \X {n \in DOMAIN queue[q] : queue[q][n] = j} : q \in Queues})
    \cup {<<t, 0>> : t \in {u \in Threads :
              loc[u].job = j /\ pc[u] \in {"enqueue", "push", "exec"}}}
    \cup {<<"executed", 0>> : x \in executed \cap {j}}

\* No job is lost, duplicated or run twice by concurrent run, pump, stop and
\* re-registration: a job that was sent is with its sender, in one queue, in the
\* hands of one runner, or executed ("every job executes exactly once", pump).
JobInOnePlace ==
    \A j \in Jobs : Cardinality(PlacesOf(j)) = IF target[j] = NONE THEN 0 ELSE 1

\* "A job never crosses an isolate boundary": only the thread it was sent to
\* runs a targeted job, whatever other runners drain meanwhile.
IsolateBoundary ==
    \A t \in Threads : pc[t] = "exec" => target[loc[t].job] \in {GLOBAL, t}

\* The unregistered runner RUNNERS elected to wait for work.
PrimaryRunners == {t \in Threads : loc[t].primary /\ loc[t].q = NONE}

\* The loop a thread is in, also while it runs a job.
Inside(t, pcs) == pc[t] \in pcs \/ (pc[t] = "exec" /\ loc[t].back \in pcs)

\* A job sent to an isolate whose thread is inside run is executed unless the
\* loop is stopped: the emptiness check and the wait share the slot mutex.
TargetedJobsRun ==
    \A j \in Jobs :
        (\E i \in Isolates : Inside(i, RegisteredRunPc) /\ InQueue(j, loc[i].q))
        ~> j \in executed \/ stopped

\* A global job is executed while a primary unregistered runner waits for work.
PrimaryServesGlobal ==
    \A j \in Jobs :
        InQueue(j, GLOBAL) /\ (\E t \in PrimaryRunners : Inside(t, PlainRunPc))
        ~> j \in executed \/ stopped

\* stop() ends every unregistered runner: the flag is tested under the mutex
\* stop() takes before it notifies.
StopEndsPlainRun ==
    \A t \in Runners : stopped /\ Inside(t, PlainRunPc) ~> pc[t] = "idle"

\* The module doc: "All wakeup sources notify every slot condvar, so a
\* registered runner never misses an untargeted arrival."
RegisteredRunnerServesGlobal ==
    \A j \in Jobs :
        InQueue(j, GLOBAL) /\ (\E i \in Isolates : Inside(i, RegisteredRunPc))
        ~> j \in executed \/ stopped
=============================================================================
