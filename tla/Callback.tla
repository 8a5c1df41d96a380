------------------------------ MODULE Callback ------------------------------
(***************************************************************************)
(* Callbacks of crates/bffi/src/callback: the two callback tables, the     *)
(* registered JS threads, and invoke_wait, which any thread may call and   *)
(* which runs the callback directly or marshals it to a JS thread and      *)
(* parks on a hand-off slot.                                               *)
(*                                                                         *)
(* A step is one access to a shared structure: a table lookup, the set of  *)
(* JS threads, a queue, the hand-off slot.  The event loop is taken by its *)
(* contract (a targeted job runs on its thread, any thread may drain the   *)
(* global queue, an enqueue_to may find its queue retired by the time it   *)
(* pushes).  A body runs to its end on its thread before that thread does  *)
(* anything else, except that it may revoke callbacks: so no thread parks  *)
(* inside a park, and the wait-depth gate of try_begin_wait never closes.  *)
(* Time is not modelled: a wait whose slot is empty may expire at any time.*)
(***************************************************************************)
EXTENDS Naturals, Sequences, FiniteSets, SequencesExt

CONSTANTS
    Isolates,       \* the JS threads, registered or not
    Natives,        \* the other threads
    Handles,        \* every handle is issued at most once
    Calls,          \* bound: calls of invoke_wait
    Misfits,        \* the calls whose arguments do not match the signature
    UNBOUND,        \* thread = 0: bound while its thread was not registered
    GLOBAL,         \* the untargeted queue
    NONE

Threads == Isolates \cup Natives

\* How a call ends without a value; Rejected is SignatureMismatch or
\* UnsupportedSignature.
NotRun == {"InvalidHandle", "WrongThread", "Rejected", "LoopStopped"}
Outcomes == Calls \cup NotRun \cup {"Timeout", "Panic"}

ASSUME CallbackAssumption ==
    /\ Isolates \cap Natives = {} /\ Misfits \subseteq Calls
    /\ {UNBOUND, GLOBAL, NONE} \cap (Threads \cup Calls) = {}
    /\ UNBOUND # GLOBAL /\ GLOBAL # NONE /\ UNBOUND # NONE
    /\ Calls \cap (NotRun \cup {"Timeout", "Panic"}) = {} /\ NONE \notin Outcomes

VARIABLES
    registered,     \* JS_THREADS
    slots,          \* the JS threads with a queue in the event loop
    queue, stopped, \* queue[q]: the calls of its jobs
    kind, live, thread,  \* per handle: its table, its slot is there, JsEntry.thread
    home, open,     \* per JS handle: the isolate of its JSCallback, not closed yet
    pc, call, dest, direct,  \* per thread: the call at work, where its job goes, no job
    caller, target, \* per call: who made it, its handle
    slot,           \* WaitSlot.outcome
    outcome, ran    \* what the call returned, how often its body was entered

tables == <<kind, live, thread, home, open>>
loop == <<registered, slots, queue, stopped>>
local == <<pc, call, dest, direct>>
calls == <<caller, target, slot, outcome, ran>>
vars == <<tables, loop, local, calls>>

Pcs == {"idle", "registering", "retiring", "find", "check", "route", "enqueue", "push", "wait",
        "lookup", "call", "body"}

TypeOK ==
    /\ registered \subseteq Isolates /\ slots \subseteq Isolates
    /\ queue \in [Isolates \cup {GLOBAL} -> Seq(Calls)] /\ stopped \in BOOLEAN
    /\ kind \in [Handles -> {"none", "native", "js"}] /\ live \in [Handles -> BOOLEAN]
    /\ thread \in [Handles -> Isolates \cup {UNBOUND}]
    /\ home \in [Handles -> Isolates \cup {NONE}] /\ open \in [Handles -> BOOLEAN]
    /\ pc \in [Threads -> Pcs] /\ call \in [Threads -> Calls \cup {NONE}]
    /\ dest \in [Threads -> Isolates \cup {GLOBAL, NONE}] /\ direct \in [Threads -> BOOLEAN]
    /\ caller \in [Calls -> Threads \cup {NONE}] /\ target \in [Calls -> Handles \cup {NONE}]
    /\ slot \in [Calls -> (Outcomes \ {"LoopStopped", "Timeout", "Panic"}) \cup {NONE}]
    /\ outcome \in [Calls -> Outcomes \cup {NONE}]
    /\ ran \in [Calls -> Nat]

Init ==
    /\ registered = {} /\ slots = {}
    /\ queue = [q \in Isolates \cup {GLOBAL} |-> <<>>] /\ stopped = FALSE
    /\ kind = [h \in Handles |-> "none"] /\ live = [h \in Handles |-> FALSE]
    /\ thread = [h \in Handles |-> UNBOUND]
    /\ home = [h \in Handles |-> NONE] /\ open = [h \in Handles |-> FALSE]
    /\ pc = [t \in Threads |-> "idle"] /\ call = [t \in Threads |-> NONE]
    /\ dest = [t \in Threads |-> NONE] /\ direct = [t \in Threads |-> FALSE]
    /\ caller = [c \in Calls |-> NONE] /\ target = [c \in Calls |-> NONE]
    /\ slot = [c \in Calls |-> NONE] /\ outcome = [c \in Calls |-> NONE]
    /\ ran = [c \in Calls |-> 0]

Goto(t, from, to) == pc[t] = from /\ pc' = [pc EXCEPT ![t] = to]

-----------------------------------------------------------------------------
(* set_js_thread, unset_js_thread, ensure_js_thread *)

SetThread(i) ==
    /\ \/ /\ i \notin registered /\ Goto(i, "idle", "registering")
          /\ registered' = registered \cup {i} /\ UNCHANGED slots
       \/ /\ Goto(i, "registering", "idle")
          /\ slots' = slots \cup {i} /\ UNCHANGED registered
    /\ UNCHANGED <<tables, queue, stopped, call, dest, direct, calls>>

\* The retired queue takes its jobs with it, and what is pushed to it later.
UnsetThread(i) ==
    /\ \/ /\ i \in registered /\ Goto(i, "idle", "retiring")
          /\ registered' = registered \ {i} /\ UNCHANGED <<slots, queue, dest>>
       \/ /\ Goto(i, "retiring", "idle")
          /\ slots' = slots \ {i} /\ UNCHANGED registered
          /\ queue' = [queue EXCEPT ![i] = <<>>]
          /\ dest' = [t \in Threads |-> IF pc[t] = "push" /\ dest[t] = i THEN NONE ELSE dest[t]]
    /\ UNCHANGED <<tables, stopped, call, direct, calls>>

\* Everybody is admitted while there is no JS thread.  The two looks at the set
\* are one: only a thread itself changes whether it is a member.
Admitted(t) == registered = {} \/ t \in registered

StopLoop ==
    /\ ~stopped /\ stopped' = TRUE
    /\ UNCHANGED <<tables, registered, slots, queue, local, calls>>

-----------------------------------------------------------------------------
(* register, bind_js_callback, revoke *)

Register(t, h) ==
    /\ pc[t] = "idle" /\ kind[h] = "none"
    /\ kind' = [kind EXCEPT ![h] = "native"] /\ live' = [live EXCEPT ![h] = TRUE]
    /\ UNCHANGED <<thread, home, open, loop, local, calls>>

\* bindJsCallback: a JSCallback of this isolate, then its entry.
Bind(i, h) ==
    /\ pc[i] = "idle" /\ kind[h] = "none"
    /\ kind' = [kind EXCEPT ![h] = "js"] /\ live' = [live EXCEPT ![h] = TRUE]
    /\ thread' = [thread EXCEPT ![h] = IF i \in registered THEN i ELSE UNBOUND]
    /\ home' = [home EXCEPT ![h] = i] /\ open' = [open EXCEPT ![h] = TRUE]
    /\ UNCHANGED <<loop, local, calls>>

\* revoke of either direction, by any thread; the JSCallback stays open.
Revoke(t, h) ==
    /\ pc[t] \in {"idle", "body"} /\ live[h]
    /\ live' = [live EXCEPT ![h] = FALSE]
    /\ UNCHANGED <<kind, thread, home, open, loop, local, calls>>

\* revoke() of the JS binding closes the JSCallback behind a live entry; it
\* throws, and leaves it open, when the entry is gone already.
RevokeJs(i, h) ==
    /\ home[h] = i /\ pc[i] \in {"idle", "body"} /\ live[h]
    /\ live' = [live EXCEPT ![h] = FALSE] /\ open' = [open EXCEPT ![h] = FALSE]
    /\ UNCHANGED <<kind, thread, home, loop, local, calls>>

-----------------------------------------------------------------------------
(* invoke_wait on the calling thread *)

CallWait(t, c, h) ==
    /\ caller[c] = NONE /\ kind[h] # "none" /\ Goto(t, "idle", "find")
    /\ call' = [call EXCEPT ![t] = c] /\ direct' = [direct EXCEPT ![t] = TRUE]
    /\ caller' = [caller EXCEPT ![c] = t] /\ target' = [target EXCEPT ![c] = h]
    /\ UNCHANGED <<tables, loop, dest, slot, outcome, ran>>

LiveJs(h) == live[h] /\ kind[h] = "js"

\* The JS table is asked first; whatever is not there takes the native path.
Find(t) ==
    /\ Goto(t, "find", IF LiveJs(target[call[t]]) THEN "check" ELSE "route")
    /\ dest' = [dest EXCEPT ![t] = GLOBAL]
    /\ UNCHANGED <<tables, loop, call, direct, calls>>

Idle(t) ==
    /\ pc' = [pc EXCEPT ![t] = "idle"] /\ call' = [call EXCEPT ![t] = NONE]
    /\ dest' = [dest EXCEPT ![t] = NONE] /\ direct' = [direct EXCEPT ![t] = FALSE]

Return(t, o) == Idle(t) /\ outcome' = [outcome EXCEPT ![call[t]] = o]

\* invoke_js_entry_wait looks the entry up again, fails fast, and remembers
\* where the job has to go.
Check(t) ==
    LET c == call[t]
        h == target[c]
    IN  /\ pc[t] = "check"
        /\ IF ~live[h] THEN Return(t, "InvalidHandle")
           ELSE IF c \in Misfits THEN Return(t, "Rejected")
           ELSE /\ pc' = [pc EXCEPT ![t] = "route"]
                /\ dest' = [dest EXCEPT ![t] = IF thread[h] = UNBOUND THEN GLOBAL ELSE thread[h]]
                /\ UNCHANGED <<call, direct, outcome>>
        /\ UNCHANGED <<tables, loop, caller, target, slot, ran>>

\* The call runs here, or is marshalled.
Route(t) ==
    /\ Goto(t, "route", IF Admitted(t) THEN "lookup" ELSE "enqueue")
    /\ UNCHANGED <<tables, loop, call, dest, direct, calls>>

\* Mutant: the job is queued although the loop was stopped.
Enqueue_Late(t) ==
    /\ pc[t] = "enqueue"
    /\ IF stopped \/ dest[t] \notin slots \cup {GLOBAL}
       THEN /\ Return(t, "LoopStopped")
            /\ queue' = [queue EXCEPT ![dest[t]] = Append(@, call[t])]
       ELSE pc' = [pc EXCEPT ![t] = "push"] /\ UNCHANGED <<queue, call, dest, direct, outcome>>
    /\ UNCHANGED <<tables, registered, slots, stopped, caller, target, slot, ran>>

\* enqueue, or enqueue_to of an isolate that has a queue.
Enqueue(t) ==
    /\ pc[t] = "enqueue"
    /\ IF stopped \/ dest[t] \notin slots \cup {GLOBAL} THEN Return(t, "LoopStopped")
       ELSE pc' = [pc EXCEPT ![t] = "push"] /\ UNCHANGED <<call, dest, direct, outcome>>
    /\ UNCHANGED <<tables, loop, caller, target, slot, ran>>

Push(t) ==
    /\ Goto(t, "push", "wait")
    /\ queue' = IF dest[t] = NONE THEN queue ELSE [queue EXCEPT ![dest[t]] = Append(@, call[t])]
    /\ UNCHANGED <<tables, registered, slots, stopped, call, dest, direct, calls>>

\* Mutant: the wait has no deadline.
WaitEnds_NoDeadline(t) ==
    /\ pc[t] = "wait" /\ slot[call[t]] # NONE /\ Return(t, slot[call[t]])
    /\ UNCHANGED <<tables, loop, caller, target, slot, ran>>

\* take_within: a filled slot wins over the deadline.
WaitEnds(t) ==
    /\ pc[t] = "wait"
    /\ Return(t, IF slot[call[t]] # NONE THEN slot[call[t]] ELSE "Timeout")
    /\ UNCHANGED <<tables, loop, caller, target, slot, ran>>

-----------------------------------------------------------------------------
(* The invocation, on the calling thread or in a job *)

\* A drain of the thread's own queue or of the global one takes a job.
TakeJob(t) ==
    /\ pc[t] = "idle"
    /\ \E q \in {GLOBAL} \cup ({t} \cap slots) :
         /\ queue[q] # <<>>
         /\ call' = [call EXCEPT ![t] = Head(queue[q])]
         /\ queue' = [queue EXCEPT ![q] = Tail(@)]
    /\ pc' = [pc EXCEPT ![t] = "lookup"]
    /\ UNCHANGED <<tables, registered, slots, stopped, dest, direct, calls>>

\* The caller gets it, or the job fills the slot; nobody may be waiting there.
Deliver(t, o) ==
    IF direct[t] THEN Return(t, o) /\ UNCHANGED slot
    ELSE Idle(t) /\ slot' = [slot EXCEPT ![call[t]] = o] /\ UNCHANGED outcome

\* Mutant: the isolate of the entry is not compared with the current thread.
Gate_AnyThread(t, h) == TRUE

\* A native body wants a JS thread; a JSCallback its own isolate, unless the
\* entry was bound outside of one.
Gate(t, h) ==
    IF kind[h] = "native" THEN Admitted(t) ELSE thread[h] \in {UNBOUND, t}

\* invoke tests the signature before the thread, invoke_js_entry after it.
Refusal(t, c, h) ==
    IF ~live[h] THEN "InvalidHandle"
    ELSE IF c \in Misfits /\ (kind[h] = "native" \/ Gate(t, h)) THEN "Rejected"
    ELSE IF ~Gate(t, h) THEN "WrongThread" ELSE NONE

\* A fresh lookup of the entry, and its checks.
Lookup(t) ==
    LET refused == Refusal(t, call[t], target[call[t]])
    IN  /\ pc[t] = "lookup"
        /\ IF refused # NONE THEN Deliver(t, refused)
           ELSE pc' = [pc EXCEPT ![t] = "call"] /\ UNCHANGED <<call, dest, direct, slot, outcome>>
        /\ UNCHANGED <<tables, loop, caller, target, ran>>

\* The pointer read from the entry is called, or the closure.
Enter(t) ==
    /\ Goto(t, "call", "body")
    /\ ran' = [ran EXCEPT ![call[t]] = @ + 1]
    /\ UNCHANGED <<tables, loop, call, dest, direct, caller, target, slot, outcome>>

BodyReturns(t) ==
    /\ pc[t] = "body" /\ Deliver(t, call[t])
    /\ UNCHANGED <<tables, loop, caller, target, ran>>

\* A panic of a native body unwinds to a direct caller; the loop contains that
\* of a job, whose slot stays empty.
BodyPanics(t) ==
    /\ pc[t] = "body" /\ kind[target[call[t]]] = "native"
    /\ IF direct[t] THEN Return(t, "Panic") ELSE Idle(t) /\ UNCHANGED outcome
    /\ UNCHANGED <<tables, loop, caller, target, slot, ran>>

-----------------------------------------------------------------------------
InCall(t) == \/ Find(t) \/ Check(t) \/ Route(t) \/ Enqueue(t) \/ Push(t) \/ WaitEnds(t)
             \/ Lookup(t) \/ Enter(t) \/ BodyReturns(t) \/ BodyPanics(t)

Next ==
    \/ StopLoop
    \/ \E i \in Isolates : SetThread(i) \/ UnsetThread(i)
    \/ \E i \in Isolates, h \in Handles : Bind(i, h) \/ RevokeJs(i, h)
    \/ \E t \in Threads, h \in Handles : Register(t, h) \/ Revoke(t, h)
    \/ \E t \in Threads, c \in Calls, h \in Handles : CallWait(t, c, h)
    \/ \E t \in Threads : TakeJob(t) \/ InCall(t)

\* A thread inside a call goes on, deadlines pass and bodies end; nobody has to
\* drain a queue.
Spec == Init /\ [][Next]_vars /\ \A t \in Threads : WF_vars(InCall(t))

-----------------------------------------------------------------------------
(* Properties *)

Enters(t) == pc[t] = "call" /\ pc'[t] = "body"

\* A JSCallback bound by a registered isolate is only ever called on that
\* isolate, and never once its owner has closed it, whoever else revokes,
\* drains, registers or retires between the call and its job ("a revocation
\* during the wait lands here: no call through a dead slot").
TrampolineSafe ==
    [][\A t \in Threads :
         Enters(t) /\ kind[target[call[t]]] = "js" /\ thread[target[call[t]]] # UNBOUND
         => home[target[call[t]]] = t /\ open[target[call[t]]]]_vars

\* The answer tells what happened: a value is that of the call's own body, which
\* ran once; a call that was refused never runs, then or later; and no body runs
\* twice.  A late outcome never answers another call (ignore-after-timeout).
AnswerTellsTheTruth ==
    \A c \in Calls :
        /\ ran[c] <= 1
        /\ outcome[c] \in Calls => outcome[c] = c /\ ran[c] = 1
        /\ outcome[c] \in NotRun => ran[c] = 0

\* invoke_wait always returns: the loop may be stopped, never drained, its queue
\* retired before or after the push, or the body may panic.
EveryCallReturns == \A c \in Calls : caller[c] # NONE ~> outcome[c] # NONE
=============================================================================
