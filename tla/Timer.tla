-------------------------------- MODULE Timer --------------------------------
(***************************************************************************)
(* The timer thread of crates/bffi/src/async/timer.rs and the two futures  *)
(* that register deadlines with it: Sleep, and the Timeout combinator of   *)
(* async/mod.rs, which polls an inner future as well.                      *)
(*                                                                         *)
(* The mutex of the deadline table is held by the timer thread from the    *)
(* start of a scan until it waits; register, update_waker and the drop of  *)
(* a Registration hold it for one access.  The fired and detached flags    *)
(* are read without it.  Time is one bit per future: its deadline has      *)
(* passed.                                                                 *)
(*                                                                         *)
(* A future is polled by the task that owns it, and the tasks run on the   *)
(* built-in executor (Executor models it in full): a worker takes a task   *)
(* whose handle is on the ready queue, polls the futures the task owns and *)
(* parks it again.  A handle that another worker pops meanwhile finds      *)
(* nothing parked and is thrown away.                                      *)
(***************************************************************************)
EXTENDS Naturals, FiniteSets

CONSTANTS
    Sleeps, Timeouts,   \* the futures of each kind
    Tasks,              \* the tasks that poll
    Movable,            \* the futures that may change their task between two polls
    NONE

Futures == Sleeps \cup Timeouts

ASSUME TimerAssumption ==
    /\ Sleeps \cap Timeouts = {} /\ Movable \subseteq Futures
    /\ NONE \notin Futures \cup Tasks

VARIABLES
    entry,              \* per future: the waker of its table entry, NONE: no entry
    fired, detached,    \* the flags an entry shares with its Registration
    registered,         \* the future holds a Registration
    expired,            \* its deadline has passed
    owner,              \* the task that polls it
    fut,                \* per future: where its poll or its drop is
    ready, held,        \* tasks on the ready queue, and in the hands of a worker
    unpolled,           \* the futures that the poll of their task has still to poll
    unheard,            \* history: tasks whose last wake was thrown away
    misled,             \* history: futures whose deadline woke a task that had lost them
    timer, due, waking, \* the timer thread: where it is, entries to fire, the waker in hand
    notified            \* notify_all since the timer thread went to sleep

table == <<entry, fired, detached>>
thread == <<timer, due, waking, notified>>
workers == <<ready, held, unpolled, unheard>>
vars == <<table, registered, expired, owner, fut, workers, misled, thread>>

Polling == {"check", "inner", "register", "notify", "recheck", "update"}

TypeOK ==
    /\ entry \in [Futures -> Tasks \cup {NONE}]
    /\ fired \in [Futures -> BOOLEAN] /\ detached \in [Futures -> BOOLEAN]
    /\ registered \in [Futures -> BOOLEAN] /\ expired \in [Futures -> BOOLEAN]
    /\ owner \in [Futures -> Tasks]
    /\ fut \in [Futures -> {"pending", "remove", "gone"} \cup Polling]
    /\ ready \subseteq Tasks /\ held \subseteq Tasks /\ unheard \subseteq Tasks
    /\ unpolled \subseteq Futures /\ misled \subseteq Futures
    /\ timer \in {"scan", "fire", "park", "asleep"} /\ due \subseteq Futures
    /\ waking \subseteq Tasks /\ Cardinality(waking) <= 1 /\ notified \in BOOLEAN

Init ==
    /\ entry = [f \in Futures |-> NONE]
    /\ fired = [f \in Futures |-> FALSE] /\ detached = [f \in Futures |-> FALSE]
    /\ registered = [f \in Futures |-> FALSE] /\ expired = [f \in Futures |-> FALSE]
    /\ owner \in [Futures -> Tasks] /\ fut = [f \in Futures |-> "pending"]
    /\ ready = Tasks /\ held = {} /\ unpolled = {} /\ unheard = {} /\ misled = {}
    /\ timer = "scan" /\ due = {} /\ waking = {} /\ notified = FALSE

Goto(f, from, to) == fut[f] = from /\ fut' = [fut EXCEPT ![f] = to]
Unlocked == timer \in {"scan", "asleep"}
NotifyAll == notified' = (notified \/ timer = "asleep")

-----------------------------------------------------------------------------
(* timer_loop *)

\* Lock the table and collect what is due.
Scan ==
    /\ timer = "scan"
    /\ due' = {f \in Futures : entry[f] # NONE /\ expired[f]}
    /\ timer' = IF due' = {} THEN "park" ELSE "fire"
    /\ UNCHANGED <<table, registered, expired, owner, fut, workers, misled, waking, notified>>

\* Remove a due entry; unless its owner has detached, set its flag.
Fire(f) ==
    /\ timer = "fire" /\ waking = {} /\ f \in due
    /\ entry' = [entry EXCEPT ![f] = NONE]
    /\ fired' = [fired EXCEPT ![f] = @ \/ ~detached[f]]
    /\ due' = due \ {f}
    /\ waking' = IF detached[f] THEN {} ELSE {entry[f]}
    /\ timer' = IF due' = {} /\ waking' = {} THEN "park" ELSE "fire"
    /\ misled' = IF entry[f] = owner[f] THEN misled ELSE misled \cup {f}
    /\ UNCHANGED <<detached, registered, expired, owner, fut, workers, notified>>

\* The waker that was taken out with the entry puts its task on the ready queue.
WakeTask ==
    /\ timer = "fire" /\ waking # {} /\ waking' = {}
    /\ ready' = ready \cup waking /\ unheard' = unheard \ waking
    /\ timer' = IF due = {} THEN "park" ELSE "fire"
    /\ UNCHANGED <<table, registered, expired, owner, fut, held, unpolled, misled, due, notified>>

\* An empty table is waited for.  With a deadline ahead, wait_timeout_while is
\* given a condition that is false from the start: it returns without a wait.
Park ==
    /\ timer = "park"
    /\ IF \E f \in Futures : entry[f] # NONE
       THEN timer' = "scan" /\ UNCHANGED notified
       ELSE timer' = "asleep" /\ notified' = FALSE
    /\ UNCHANGED <<table, registered, expired, owner, fut, workers, misled, due, waking>>

Notified ==
    /\ timer = "asleep" /\ notified
    /\ timer' = "scan" /\ notified' = FALSE
    /\ UNCHANGED <<table, registered, expired, owner, fut, workers, misled, due, waking>>

-----------------------------------------------------------------------------
(* The executor: worker_loop and poll_task *)

Owned(k) == {f \in Futures : owner[f] = k}

\* No future of the task is being polled or dropped: its poll does one at a time.
Quiet(k) == \A f \in Owned(k) : fut[f] \in {"pending", "gone"}

\* A worker pops the handle of a parked task and takes the task.
Take(k) ==
    /\ k \in ready /\ k \notin held
    /\ ready' = ready \ {k} /\ held' = held \cup {k}
    /\ unpolled' = unpolled \cup {f \in Owned(k) : fut[f] = "pending"}
    /\ UNCHANGED <<table, registered, expired, owner, fut, unheard, misled, thread>>

\* Another worker pops the handle while the task is being polled.
PopUnparked(k) ==
    /\ k \in ready \cap held
    /\ ready' = ready \ {k} /\ unheard' = unheard \cup {k}
    /\ UNCHANGED <<table, registered, expired, owner, fut, held, unpolled, misled, thread>>

\* The poll of the task returned.
Polled(k) == Quiet(k) /\ Owned(k) \cap unpolled = {}

ParkTask(k) ==
    /\ k \in held /\ Polled(k) /\ held' = held \ {k}
    /\ UNCHANGED <<table, registered, expired, owner, fut, ready, unpolled, unheard, misled, thread>>

\* Something else wakes the task; during its poll that comes to a wake after it, or
\* to nothing.
Wake(k) ==
    /\ k \notin ready \cup held /\ ready' = ready \cup {k} /\ unheard' = unheard \ {k}
    /\ UNCHANGED <<table, registered, expired, owner, fut, held, unpolled, misled, thread>>

-----------------------------------------------------------------------------
(* Sleep::poll and Timeout::poll *)

Poll(f) ==
    /\ f \in unpolled /\ Quiet(owner[f]) /\ Goto(f, "pending", "check")
    /\ unpolled' = unpolled \ {f}
    /\ UNCHANGED <<table, registered, expired, owner, ready, held, unheard, misled, thread>>

\* Futures that are dropped; a Registration that one holds is detached.
Drop(F) ==
    /\ fut' = [f \in Futures |-> IF f \notin F THEN fut[f]
                                 ELSE IF registered[f] THEN "remove" ELSE "gone"]
    /\ detached' = [f \in Futures |-> IF f \in F THEN registered[f] ELSE detached[f]]
    /\ registered' = [f \in Futures |-> registered[f] /\ f \notin F]
    /\ unpolled' = unpolled \ F
    /\ UNCHANGED <<entry, fired, expired, owner, ready, unheard, misled, thread>>

\* The future is Ready, and dropped.
Done(f) == Drop({f}) /\ UNCHANGED held

CheckFired(f) ==
    /\ fut[f] = "check"
    /\ IF registered[f] /\ fired[f] THEN Done(f)
       ELSE /\ fut' = [fut EXCEPT ![f] = IF f \in Timeouts THEN "inner"
                                         ELSE IF registered[f] THEN "update" ELSE "register"]
            /\ UNCHANGED <<table, registered, expired, owner, workers, misled, thread>>

\* Timeout only: the inner future is done, or still pending.
PollInner(f) ==
    /\ fut[f] = "inner"
    /\ \/ Done(f)
       \/ /\ fut' = [fut EXCEPT ![f] = IF registered[f] THEN "update" ELSE "register"]
          /\ UNCHANGED <<table, registered, expired, owner, workers, misled, thread>>

RegisterDeadline(f) ==
    /\ Unlocked /\ Goto(f, "register", "notify")
    /\ entry' = [entry EXCEPT ![f] = owner[f]] /\ registered' = [registered EXCEPT ![f] = TRUE]
    /\ UNCHANGED <<fired, detached, expired, owner, workers, misled, thread>>

\* Mutant: a registration does not notify the timer thread.
Signal_Silent(f) ==
    /\ Goto(f, "notify", "recheck")
    /\ UNCHANGED <<table, registered, expired, owner, workers, misled, thread>>

\* notify_all, after the mutex was released.
Signal(f) ==
    /\ Goto(f, "notify", "recheck") /\ NotifyAll
    /\ UNCHANGED <<table, registered, expired, owner, workers, misled, timer, due, waking>>

\* A fired entry is gone from the table, and keeps its waker.  Timeout looks at
\* the flag once more, Sleep returns Pending.
UpdateWaker(f) ==
    /\ Unlocked
    /\ Goto(f, "update", IF f \in Timeouts THEN "recheck" ELSE "pending")
    /\ entry' = [entry EXCEPT ![f] = IF @ = NONE THEN NONE ELSE owner[f]]
    /\ UNCHANGED <<fired, detached, registered, expired, owner, workers, misled, thread>>

\* Mutant: Timeout trusts the waker it has just stored.
Recheck_Skipped(f) ==
    /\ Goto(f, "recheck", "pending")
    /\ UNCHANGED <<table, registered, expired, owner, workers, misled, thread>>

\* The lost-wakeup guard.
Recheck(f) ==
    /\ fut[f] = "recheck"
    /\ IF fired[f] THEN Done(f)
       ELSE /\ fut' = [fut EXCEPT ![f] = "pending"]
            /\ UNCHANGED <<table, registered, expired, owner, workers, misled, thread>>

-----------------------------------------------------------------------------
(* The drop of a future and of its Registration *)

\* The task drops a future of its own within its poll.
Discard(f) == owner[f] \in held /\ Quiet(owner[f]) /\ fut[f] = "pending" /\ Done(f)

\* A cancelled task is dropped where it is parked, or by the worker whose poll of
\* it returned: its futures are.
Cancel(k) ==
    /\ Polled(k) /\ held' = held \ {k}
    /\ \E f \in Owned(k) : fut[f] = "pending"
    /\ Drop({f \in Owned(k) : fut[f] = "pending"})

\* The entry goes, and the timer thread is notified for nothing.
RemoveEntry(f) ==
    /\ Unlocked /\ Goto(f, "remove", "gone") /\ NotifyAll
    /\ entry' = [entry EXCEPT ![f] = NONE]
    /\ UNCHANGED <<fired, detached, registered, expired, owner, workers, misled, timer, due, waking>>

\* A task that is being polled takes a future over from another, and polls it.
Move(f, k) ==
    /\ f \in Movable /\ fut[f] = "pending" /\ k # owner[f]
    /\ k \in held /\ Quiet(k)
    /\ owner' = [owner EXCEPT ![f] = k] /\ unpolled' = unpolled \cup {f}
    /\ UNCHANGED <<table, registered, expired, fut, ready, held, unheard, misled, thread>>

Expire(f) ==
    /\ ~expired[f] /\ expired' = [expired EXCEPT ![f] = TRUE]
    /\ UNCHANGED <<table, registered, owner, fut, workers, misled, thread>>

-----------------------------------------------------------------------------
TimerThread == Scan \/ (\E f \in Futures : Fire(f)) \/ WakeTask \/ Park \/ Notified
InPoll(f) == \/ CheckFired(f) \/ PollInner(f) \/ RegisterDeadline(f) \/ Signal(f)
             \/ UpdateWaker(f) \/ Recheck(f) \/ RemoveEntry(f)

Next ==
    \/ TimerThread
    \/ \E k \in Tasks : Take(k) \/ PopUnparked(k) \/ ParkTask(k) \/ Wake(k) \/ Cancel(k)
    \/ \E f \in Futures : Poll(f) \/ InPoll(f) \/ Discard(f) \/ Expire(f)
    \/ \E f \in Futures, k \in Tasks : Move(f, k)

\* The timer thread and the workers run.  A poll that has begun goes through the
\* futures of its task and returns, and a drop goes on, though others disable
\* their next step for a while: the mutex is free again and again.
Spec ==
    /\ Init /\ [][Next]_vars
    /\ WF_vars(TimerThread)
    /\ \A k \in Tasks : WF_vars(Take(k)) /\ SF_vars(ParkTask(k))
    /\ \A f \in Futures : SF_vars(Poll(f) \/ InPoll(f))

-----------------------------------------------------------------------------
(* Properties *)

\* A dropped future leaves no entry behind: whatever the order of its drop, a
\* scan and the deadline, the table holds entries of live futures only, apart
\* from the one whose drop is about to remove it.
EntriesOfLiveFutures ==
    \A f \in Futures : entry[f] # NONE => registered[f] \/ fut[f] = "remove"

\* "A new registration wakes the timer thread" (timer_loop), although the signal
\* is sent outside of the mutex: it sleeps only while the table is empty, or the
\* signal is still on its way.
NeverSleepsOverADeadline ==
    timer = "asleep" /\ ~notified =>
        \A f \in Futures : entry[f] # NONE => fut[f] \in {"notify", "remove"}

\* A registered deadline that passes ends its future: the timer loses no wake
\* between the polls, the changes of the waker and the scan.  Only the executor
\* loses one (the task is being polled when it comes), and so does a Sleep that
\* another task has taken over: its poll does not look at the flag again once the
\* waker is stored, and the wake went to the task it left.  An expired deadline
\* stays so, and a Registration goes with its future only: []<> says that they
\* lead to the future's end.
DeadlineServed ==
    \A f \in Futures :
        []<>(registered[f] /\ expired[f] => owner[f] \in unheard \/ f \in Sleeps \cap misled)
=============================================================================
