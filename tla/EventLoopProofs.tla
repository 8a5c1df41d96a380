-------------------------- MODULE EventLoopProofs --------------------------
(***************************************************************************)
(* Theorems about EventLoop, for every set of threads, jobs and slots.     *)
(*                                                                         *)
(* A job that was sent is in one place: with the thread that sends it, in  *)
(* one queue, with the thread that runs it, or executed (OnePlace).  What  *)
(* is in a slot queue, or about to be pushed to it, is meant for the       *)
(* thread the slot is registered for, and a slot queue is never given to   *)
(* another thread (SlotsOwned, Addressed): a job whose thread is gone      *)
(* stays where nobody looks.  With that, every step is one of JobLoop's,   *)
(* or changes nothing JobLoop can see.                                     *)
(***************************************************************************)
EXTENDS EventLoopRefinement, FiniteSetTheorems, TLAPS

Locals == [q : Queues \cup {NONE}, job : Jobs \cup {NONE}, primary : BOOLEAN, back : Pcs,
           work : SUBSET SlotIds]

\* The loop a thread is in, also while it runs a job.
Where(t) == IF pc[t] = "exec" THEN loc[t].back ELSE pc[t]

\* What a thread works on at each step: a registered runner on its own slot.
Fit(t) ==
    /\ Where(t) \in RegisteredRunPc \cup {"pump"} =>
         t \in Isolates /\ slotOf[t] # NONE /\ loc[t].q = slotOf[t]
    /\ pc[t] = "exec" => loc[t].back \in {"drain", "drain_global", "g_pop", "pump", "pump_global"}
    /\ pc[t] \in {"run_count", "run_primary"} => loc[t].q = OwnSlot(t)
    /\ pc[t] \in {"push", "notify"} => loc[t].q \in Queues
    /\ pc[t] = "enqueue" => loc[t].q = GLOBAL

LocalsFit == \A t \in Threads : Fit(t)

\* RUNNERS counts the threads inside run.
InRun(t) == Where(t) \in {"run_primary", "run_exit"} \cup RegisteredRunPc \cup PlainRunPc
InsideRun == {t \in Threads : InRun(t)}

Counted == IsFiniteSet(InsideRun) /\ runners = Cardinality(InsideRun)

\* A thread that has a job in hand: it has still to push it, or runs it.
Holds(t) == pc[t] \in {"enqueue", "push", "exec"}
Sent(j) == j \in Jobs /\ target[j] # NONE /\ j \notin executed

OnePlace ==
    /\ \A t \in Threads : Holds(t) => Sent(loc[t].job)
    /\ \A t, u \in Threads : Holds(t) /\ Holds(u) /\ loc[t].job = loc[u].job => t = u
    /\ \A q \in Queues : \A n \in 1 .. Len(queue[q]) :
         /\ Sent(queue[q][n])
         /\ \A t \in Threads : Holds(t) => loc[t].job # queue[q][n]
         /\ \A r \in Queues : \A m \in 1 .. Len(queue[r]) : queue[q][n] = queue[r][m] => q = r /\ n = m
    /\ \A j \in executed : target[j] # NONE
    /\ \A j \in Jobs : target[j] # NONE =>
         \/ j \in executed
         \/ \E t \in Threads : Holds(t) /\ loc[t].job = j
         \/ \E q \in Queues : \E n \in 1 .. Len(queue[q]) : queue[q][n] = j

\* A slot queue is of one registration, and nothing was pushed to it before.
SlotsOwned ==
    /\ \A i \in Isolates : slotOf[i] # NONE => slotOf[i] \in usedSlots
    /\ \A i, k \in Isolates : slotOf[i] = slotOf[k] /\ slotOf[i] # NONE => i = k
    /\ \A s \in SlotIds \ usedSlots : queue[s] = <<>>
    /\ \A t \in Threads : pc[t] = "push" => loc[t].q \in usedSlots \cup {GLOBAL}

\* A job is on its way to where it was sent.
Addressed ==
    /\ \A n \in 1 .. Len(queue[GLOBAL]) : target[queue[GLOBAL][n]] = GLOBAL
    /\ \A i \in Isolates : slotOf[i] # NONE =>
         \A n \in 1 .. Len(queue[slotOf[i]]) : target[queue[slotOf[i]][n]] = i
    /\ \A t \in Threads : pc[t] \in {"enqueue", "push"} /\ loc[t].q = GLOBAL => target[loc[t].job] = GLOBAL
    /\ \A t \in Threads, i \in Isolates : pc[t] = "push" /\ loc[t].q = slotOf[i] => target[loc[t].job] = i
    /\ \A t \in Threads : pc[t] = "exec" => target[loc[t].job] \in {GLOBAL, t}

LInv == TypeOK /\ LocalsFit /\ Counted /\ OnePlace /\ SlotsOwned /\ Addressed

-----------------------------------------------------------------------------
(* What the actions are made of *)

\* A step of one thread.
Only(t) ==
    /\ pc' \in [Threads -> Pcs] /\ loc' \in [Threads -> Locals]
    /\ \A u \in Threads : u # t => pc'[u] = pc[u] /\ loc'[u] = loc[u]

LEMMA StepOnly ==
    ASSUME TypeOK, NEW t \in Threads, NEW to \in Pcs, NEW l \in Locals,
           pc' = [pc EXCEPT ![t] = to], loc' = [loc EXCEPT ![t] = l]
    PROVE  Only(t) /\ pc'[t] = to /\ loc'[t] = l
<1>1. pc \in [Threads -> Pcs] /\ loc \in [Threads -> Locals]
  BY DEF TypeOK, Locals
<1> QED  BY <1>1 DEF Only

\* The thread goes on with what it works on.
LEMMA GotoOnly ==
    ASSUME TypeOK, NEW t \in Threads, NEW to \in Pcs, pc' = [pc EXCEPT ![t] = to], loc' = loc
    PROVE  Only(t) /\ pc'[t] = to /\ loc'[t] = loc[t]
<1>1. pc \in [Threads -> Pcs] /\ loc \in [Threads -> Locals]
  BY DEF TypeOK, Locals
<1> QED  BY <1>1 DEF Only

\* Its call returns.
LEMMA FinishOnly ==
    ASSUME TypeOK, NEW t \in Threads, Finish(t)
    PROVE  Only(t) /\ pc'[t] = "idle" /\ loc'[t] = NoLocals
<1>1. "idle" \in Pcs /\ NoLocals \in Locals
  BY DEF NoLocals, Locals, Pcs
<1> QED  BY <1>1, StepOnly DEF Finish

\* The thread changes part of what it works on.
LEMMA ChangeLocals ==
    ASSUME TypeOK, NEW t \in Threads, NEW q \in Queues \cup {NONE}, NEW j \in Jobs \cup {NONE},
           NEW b \in Pcs, NEW p \in BOOLEAN, NEW w \in SUBSET SlotIds
    PROVE  /\ \A l : l = [loc[t] EXCEPT !.q = q, !.job = j] =>
                l \in Locals /\ l.q = q /\ l.job = j /\ l.back = loc[t].back
           /\ \A l : l = [loc[t] EXCEPT !.q = q] =>
                l \in Locals /\ l.q = q /\ l.job = loc[t].job /\ l.back = loc[t].back
           /\ \A l : l = [loc[t] EXCEPT !.job = j, !.back = b] =>
                l \in Locals /\ l.q = loc[t].q /\ l.job = j /\ l.back = b
           /\ \A l : l = [loc[t] EXCEPT !.primary = p] =>
                l \in Locals /\ l.q = loc[t].q /\ l.job = loc[t].job /\ l.back = loc[t].back
           /\ \A l : l = [loc[t] EXCEPT !.work = w] =>
                l \in Locals /\ l.q = loc[t].q /\ l.job = loc[t].job /\ l.back = loc[t].back
<1>1. loc[t] \in Locals
  BY DEF TypeOK, Locals
<1>2. \A l : l = [loc[t] EXCEPT !.q = q, !.job = j] =>
          l \in Locals /\ l.q = q /\ l.job = j /\ l.back = loc[t].back
  BY <1>1 DEF Locals
<1>3. \A l : l = [loc[t] EXCEPT !.q = q] =>
          l \in Locals /\ l.q = q /\ l.job = loc[t].job /\ l.back = loc[t].back
  BY <1>1 DEF Locals
<1>4. \A l : l = [loc[t] EXCEPT !.job = j, !.back = b] =>
          l \in Locals /\ l.q = loc[t].q /\ l.job = j /\ l.back = b
  BY <1>1 DEF Locals
<1>5. \A l : l = [loc[t] EXCEPT !.primary = p] =>
          l \in Locals /\ l.q = loc[t].q /\ l.job = loc[t].job /\ l.back = loc[t].back
  BY <1>1 DEF Locals
<1>6. \A l : l = [loc[t] EXCEPT !.work = w] =>
          l \in Locals /\ l.q = loc[t].q /\ l.job = loc[t].job /\ l.back = loc[t].back
  BY <1>1 DEF Locals
<1> QED  BY <1>2, <1>3, <1>4, <1>5, <1>6

\* What a push appends and a pop takes off.
LEMMA AppendElements ==
    ASSUME NEW S, NEW s \in Seq(S), NEW e \in S
    PROVE  /\ Append(s, e) \in Seq(S) /\ Len(Append(s, e)) = Len(s) + 1 /\ Len(s) \in Nat
           /\ Append(s, e)[Len(s) + 1] = e
           /\ \A n \in 1 .. Len(s) : Append(s, e)[n] = s[n]
  OBVIOUS

LEMMA TailElements ==
    ASSUME NEW S, NEW s \in Seq(S), s # <<>>
    PROVE  /\ Tail(s) \in Seq(S) /\ Len(s) \in Nat \ {0} /\ Len(Tail(s)) = Len(s) - 1
           /\ Head(s) = s[1] /\ s[1] \in S
           /\ \A n \in 1 .. Len(s) - 1 : Tail(s)[n] = s[n + 1]
  OBVIOUS

-----------------------------------------------------------------------------
(* Steps that move no job *)

\* The other threads and their slots are as they were.
LEMMA FitKept ==
    ASSUME TypeOK, LocalsFit, NEW t \in Threads, Only(t), Fit(t)',
           \A i \in Isolates : i # t => slotOf'[i] = slotOf[i]
    PROVE  LocalsFit'
<1> SUFFICES ASSUME NEW u \in Threads, u # t PROVE Fit(u)'
  BY DEF LocalsFit
<1>1. Fit(u) /\ pc'[u] = pc[u] /\ loc'[u] = loc[u] /\ (u \in Isolates => slotOf'[u] = slotOf[u])
  BY DEF LocalsFit, Only
<1> QED  BY <1>1 DEF Fit, Where, OwnSlot

\* A thread neither enters nor leaves run.
LEMMA CountKept ==
    ASSUME Counted, NEW t \in Threads, Only(t), InRun(t)' <=> InRun(t), UNCHANGED runners
    PROVE  Counted'
<1>1. \A u \in Threads : InRun(u)' <=> InRun(u)
  BY DEF Only, InRun, Where
<1>2. InsideRun' = InsideRun
  BY <1>1 DEF InsideRun
<1> QED  BY <1>2 DEF Counted

Quiet(t) ==
    /\ Only(t) /\ (Holds(t)' <=> Holds(t)) /\ (Holds(t) => loc'[t].job = loc[t].job)
    /\ pc[t] # "exec" /\ pc'[t] # "exec"
    /\ pc'[t] \in {"enqueue", "push"} => loc'[t].q = GLOBAL /\ pc[t] = "enqueue"
    /\ UNCHANGED <<queue, slotOf, usedSlots, target, executed>>

LEMMA QuietKept ==
    ASSUME LInv, NEW t \in Threads, Quiet(t)
    PROVE  OnePlace' /\ SlotsOwned' /\ Addressed'
<1> USE DEF LInv, Quiet
<1>1. \A u \in Threads : (Holds(u)' <=> Holds(u)) /\ (Holds(u) => loc'[u].job = loc[u].job)
  BY DEF Only, Holds
<1>2. \A j : Sent(j)' <=> Sent(j)
  BY DEF Sent
<1>3. OnePlace'
  BY <1>1, <1>2 DEF OnePlace
<1>4. SlotsOwned'
  BY DEF SlotsOwned, Only
<1>5. Addressed'
  <2>1. \A u \in Threads : pc'[u] = "push" => loc'[u].q = loc[u].q \/ u = t
    BY DEF Only
  <2>2. pc'[t] \in {"enqueue", "push"} => target'[loc'[t].job] = GLOBAL
    BY DEF Addressed, Fit, LocalsFit, Holds
  <2>3. \A i \in Isolates : pc'[t] = "push" => slotOf'[i] # loc'[t].q
    BY LoopAssumption DEF TypeOK
  <2> QED  BY <2>1, <2>2, <2>3 DEF Addressed, Only
<1> QED  BY <1>3, <1>4, <1>5

\* What the condition variables and the flags may do besides.
Signals ==
    /\ stopped' \in BOOLEAN /\ asleep' \in [Queues -> SUBSET Threads] /\ spurious' \in 0 .. MaxSpurious

LEMMA QuietStep ==
    ASSUME LInv, NEW t \in Threads, Quiet(t), Fit(t)', InRun(t)' <=> InRun(t), UNCHANGED runners, Signals
    PROVE  LInv'
<1>1. TypeOK'
  BY DEF LInv, TypeOK, Quiet, Only, Signals, Locals
<1>2. LocalsFit'
  <2>1. \A i \in Isolates : slotOf'[i] = slotOf[i]
    BY DEF Quiet
  <2> QED  BY <2>1, FitKept DEF LInv, Quiet
<1>3. Counted'
  BY CountKept DEF LInv, Quiet
<1>4. OnePlace' /\ SlotsOwned' /\ Addressed'
  BY QuietKept
<1> QED  BY <1>1, <1>2, <1>3, <1>4 DEF LInv

\* A thread goes on in the loop or the call it is in, with the same locals.
LEMMA GoesOn ==
    ASSUME LInv, NEW t \in Threads, NEW to, pc' = [pc EXCEPT ![t] = to],
           UNCHANGED <<runners, queue, slotOf, usedSlots, target, executed, loc>>, Signals,
           \/ pc[t] \in RegisteredRunPc /\ to \in RegisteredRunPc \cup {"run_exit"}
           \/ pc[t] \in PlainRunPc /\ to \in PlainRunPc \cup {"run_exit"}
           \/ pc[t] = "notify" /\ to = "notify_slots"
           \/ pc[t] = "enqueue" /\ to = "push"
           \/ pc[t] = "idle" /\ to = "stop_global"
           \/ pc[t] = "pump" /\ to = "pump_global"
    PROVE  LInv'
<1>1. to \in Pcs
  BY DEF Pcs, RegisteredRunPc, PlainRunPc, PumpPc, SendPc
<1>2. Only(t) /\ pc'[t] = to /\ loc'[t] = loc[t]
  BY <1>1, GotoOnly DEF LInv
<1>3. Fit(t)
  BY DEF LInv, LocalsFit
<1>4. pc[t] # "exec" /\ to # "exec"
  BY DEF RegisteredRunPc, PlainRunPc
<1>5. Holds(t)' <=> Holds(t)
  BY <1>2 DEF Holds, RegisteredRunPc, PlainRunPc
<1>6. InRun(t)' <=> InRun(t)
  BY <1>2, <1>4 DEF InRun, Where, RegisteredRunPc, PlainRunPc
<1>7. Fit(t)'
  BY <1>2, <1>3, <1>4 DEF Fit, Where, OwnSlot, RegisteredRunPc, PlainRunPc, Queues
<1>8. to \in {"enqueue", "push"} => loc'[t].q = GLOBAL /\ pc[t] = "enqueue"
  BY <1>2, <1>3 DEF Fit, RegisteredRunPc, PlainRunPc
<1> QED  BY <1>2, <1>4, <1>5, <1>6, <1>7, <1>8, QuietStep DEF Quiet

\* A call returns with nothing in hand.
LEMMA Returns ==
    ASSUME LInv, NEW t \in Threads, Finish(t), ~Holds(t), ~InRun(t),
           UNCHANGED <<runners, queue, slotOf, usedSlots, target, executed>>, Signals
    PROVE  LInv'
<1>1. Only(t) /\ pc'[t] = "idle" /\ loc'[t] = NoLocals
  BY FinishOnly DEF LInv
<1>2. /\ ~(Holds(t)') /\ ~(InRun(t)') /\ Fit(t)'
  BY <1>1 DEF Holds, InRun, Fit, Where, RegisteredRunPc, PlainRunPc
<1>3. Quiet(t)
  BY <1>1, <1>2 DEF Quiet, Holds
<1> QED  BY <1>2, <1>3, QuietStep

LEMMA SignalsSame == ASSUME TypeOK, UNCHANGED <<stopped, asleep, spurious>> PROVE Signals
  BY DEF TypeOK, Signals

LEMMA NotifyStep == ASSUME LInv, NEW t \in Threads, Notify(t) \/ NotifySlots(t) PROVE LInv'
<1>1. /\ pc[t] \in {"notify", "notify_slots"}
      /\ UNCHANGED <<stopped, runners, queue, slotOf, usedSlots, target, executed, spurious>>
  BY DEF Notify, NotifySlots
<1>2. asleep' \in [Queues -> SUBSET Threads]
  <2> DEFINE q == loc[t].q
  <2>1. asleep \in [Queues -> SUBSET Threads]
    BY DEF LInv, TypeOK
  <2>2. CASE Notify(t)
    <3>1. CASE UNCHANGED asleep
      BY <2>1, <3>1
    <3>2. CASE \E u \in asleep[q] : asleep' = [asleep EXCEPT ![q] = @ \ {u}]
      <4>1. PICK u : asleep' = [asleep EXCEPT ![q] = @ \ {u}]
        BY <3>2
      <4> HIDE DEF q
      <4> QED  BY <2>1, <4>1
    <3> QED  BY <2>2, <3>1, <3>2 DEF Notify
  <2>3. CASE NotifySlots(t)
    BY <2>1, <2>3 DEF NotifySlots
  <2> QED  BY <2>2, <2>3
<1>3. Signals
  BY <1>1, <1>2 DEF LInv, TypeOK, Signals
<1>4. CASE Finish(t)
  <2>1. ~Holds(t) /\ ~InRun(t)
    BY <1>1 DEF Holds, InRun, Where, RegisteredRunPc, PlainRunPc
  <2> QED  BY <1>1, <1>3, <1>4, <2>1, Returns
<1>5. CASE Goto(t, "notify", "notify_slots") /\ UNCHANGED loc
  BY <1>1, <1>3, <1>5, GoesOn DEF Goto
<1> QED  BY <1>4, <1>5 DEF Notify, NotifySlots

LEMMA RunStep ==
    ASSUME LInv, NEW t \in Threads,
           \/ RunStopCheck(t) \/ RunLock(t) \/ RunRecheckGlobal(t) \/ RunSleep(t)
           \/ PlainStopCheck(t) \/ PlainSleep(t) \/ WakeUp(t) \/ CallStop(t)
    PROVE  LInv'
<1> USE DEF Goto, RegisteredRunPc, PlainRunPc
<1>1. UNCHANGED <<runners, queue, slotOf, usedSlots, target, executed, loc>>
  BY DEF RunStopCheck, RunLock, RunRecheckGlobal, RunSleep, PlainStopCheck, PlainSleep, WakeUp,
         CallStop, SleepOn
<1>2. stopped' \in BOOLEAN /\ spurious' \in 0 .. MaxSpurious
  BY DEF LInv, TypeOK, RunStopCheck, RunLock, RunRecheckGlobal, RunSleep, PlainStopCheck, PlainSleep,
         WakeUp, CallStop, SleepOn
<1>3. CASE RunStopCheck(t) \/ RunLock(t) \/ RunRecheckGlobal(t) \/ PlainStopCheck(t) \/ WakeUp(t) \/ CallStop(t)
  <2>1. Signals
    BY <1>2, <1>3 DEF LInv, TypeOK, Signals, RunStopCheck, RunLock, RunRecheckGlobal, PlainStopCheck,
                      WakeUp, CallStop
  <2>2. CASE RunStopCheck(t)
    BY <1>1, <2>1, <2>2, GoesOn DEF RunStopCheck
  <2>3. CASE RunLock(t)
    BY <1>1, <2>1, <2>3, GoesOn DEF RunLock
  <2>4. CASE RunRecheckGlobal(t)
    BY <1>1, <2>1, <2>4, GoesOn DEF RunRecheckGlobal
  <2>5. CASE PlainStopCheck(t)
    BY <1>1, <2>1, <2>5, GoesOn DEF PlainStopCheck
  <2>6. CASE WakeUp(t)
    BY <1>1, <2>1, <2>6, GoesOn DEF WakeUp
  <2>7. CASE CallStop(t)
    BY <1>1, <2>1, <2>7, GoesOn DEF CallStop
  <2> QED  BY <1>3, <2>2, <2>3, <2>4, <2>5, <2>6, <2>7
<1>4. CASE RunSleep(t) \/ PlainSleep(t)
  <2>1. PICK q : asleep' = [asleep EXCEPT ![q] = @ \cup {t}]
    BY <1>4 DEF RunSleep, PlainSleep, SleepOn
  <2>2. asleep' \in [Queues -> SUBSET Threads]
    BY <2>1 DEF LInv, TypeOK
  <2>3. Signals
    BY <1>2, <2>2 DEF Signals
  <2> QED  BY <1>1, <1>4, <2>3, GoesOn DEF RunSleep, PlainSleep, SleepOn
<1> QED  BY <1>3, <1>4

LEMMA StopStep == ASSUME LInv, NEW t \in Threads, StopGlobal(t) \/ StopSlots(t) PROVE LInv'
<1>1. /\ UNCHANGED <<stopped, runners, queue, slotOf, usedSlots, target, executed, spurious>>
      /\ pc[t] \in {"stop_global", "stop_slots"}
  BY DEF StopGlobal, StopSlots, Goto
<1>2. asleep' \in [Queues -> SUBSET Threads]
  BY DEF LInv, TypeOK, StopGlobal, StopSlots
<1>3. Signals
  BY <1>1, <1>2 DEF LInv, TypeOK, Signals
<1>4. ~Holds(t) /\ ~InRun(t)
  BY <1>1 DEF Holds, InRun, Where, RegisteredRunPc, PlainRunPc
<1>5. CASE Finish(t)
  BY <1>1, <1>3, <1>4, <1>5, Returns
<1>6. CASE \E w \in SUBSET SlotIds :
             pc' = [pc EXCEPT ![t] = "stop_slots"] /\ loc' = [loc EXCEPT ![t].work = w]
  <2>1. PICK w \in SUBSET SlotIds :
             pc' = [pc EXCEPT ![t] = "stop_slots"] /\ loc' = [loc EXCEPT ![t].work = w]
    BY <1>6
  <2> DEFINE l == [loc[t] EXCEPT !.work = w]
  <2>2. loc' = [loc EXCEPT ![t] = l]
    BY <2>1 DEF LInv, TypeOK
  <2>3. l \in Locals /\ "stop_slots" \in Pcs
    <3>1. loc[t] \in Locals
      BY DEF LInv, TypeOK, Locals
    <3> QED  BY <3>1 DEF Locals, Pcs
  <2>4. Only(t) /\ pc'[t] = "stop_slots"
    BY <2>1, <2>2, <2>3, StepOnly DEF LInv
  <2>5. ~(Holds(t)') /\ ~(InRun(t)') /\ Fit(t)'
    BY <2>4 DEF Holds, InRun, Fit, Where, RegisteredRunPc, PlainRunPc
  <2>6. Quiet(t)
    BY <1>1, <1>4, <2>4, <2>5 DEF Quiet
  <2> QED  BY <1>1, <1>3, <1>4, <2>5, <2>6, QuietStep
<1>7. CASE StopGlobal(t)
  <2>1. RegisteredSlots \in SUBSET SlotIds
    BY DEF LInv, TypeOK, RegisteredSlots
  <2> QED  BY <1>6, <1>7, <2>1 DEF StopGlobal, Goto
<1>8. CASE StopSlots(t)
  <2>1. CASE \E s \in loc[t].work : loc' = [loc EXCEPT ![t].work = @ \ {s}] /\ UNCHANGED pc
    <3>1. PICK s \in loc[t].work : loc' = [loc EXCEPT ![t].work = loc[t].work \ {s}] /\ UNCHANGED pc
      BY <2>1
    <3>2. loc[t].work \ {s} \in SUBSET SlotIds
      BY DEF LInv, TypeOK
    <3>3. pc' = [pc EXCEPT ![t] = "stop_slots"]
      BY <1>8, <3>1 DEF StopSlots, LInv, TypeOK
    <3> QED  BY <1>6, <3>1, <3>2, <3>3
  <2> QED  BY <1>5, <1>8, <2>1 DEF StopSlots
<1> QED  BY <1>7, <1>8

\* A call of run or pump takes the queue of its thread, or none.
LEMMA CallStep == ASSUME LInv, NEW t \in Threads, CallRun(t) \/ CallPump(t) PROVE LInv'
<1> DEFINE to == IF CallRun(t) THEN "run_count" ELSE IF OwnSlot(t) = NONE THEN "pump_global" ELSE "pump"
           l == [loc[t] EXCEPT !.q = OwnSlot(t)]
<1>1. /\ UNCHANGED <<stopped, runners, queue, asleep, slotOf, usedSlots, target, executed, spurious>>
      /\ pc[t] = "idle" /\ pc' = [pc EXCEPT ![t] = to] /\ loc' = [loc EXCEPT ![t] = l]
  BY DEF CallRun, CallPump, Goto
<1>2. OwnSlot(t) \in Queues \cup {NONE} /\ (OwnSlot(t) # NONE => t \in Isolates /\ OwnSlot(t) = slotOf[t])
  BY DEF LInv, TypeOK, OwnSlot, Queues
<1>3. l \in Locals /\ l.q = OwnSlot(t)
  <2>1. loc[t] \in Locals
    BY DEF LInv, TypeOK, Locals
  <2> QED  BY <1>2, <2>1 DEF Locals
<1>4. to \in {"run_count", "pump_global", "pump"} /\ (to = "pump" => OwnSlot(t) # NONE)
  OBVIOUS
<1> HIDE DEF to, l
<1>5. Only(t) /\ pc'[t] = to /\ loc'[t] = l
  <2>1. to \in Pcs
    BY <1>4 DEF Pcs, PumpPc
  <2> QED  BY <1>1, <1>3, <2>1, StepOnly DEF LInv
<1>6. OwnSlot(t)' = OwnSlot(t)
  BY <1>1 DEF OwnSlot
<1>7. Fit(t)'
  BY <1>1, <1>2, <1>3, <1>4, <1>5, <1>6 DEF Fit, Where, RegisteredRunPc
<1>8. Quiet(t)
  BY <1>1, <1>4, <1>5 DEF Quiet, Holds
<1>9. Signals
  BY <1>1, SignalsSame DEF LInv
<1>10. InRun(t)' <=> InRun(t)
  BY <1>1, <1>4, <1>5 DEF InRun, Where, RegisteredRunPc, PlainRunPc
<1> QED  BY <1>1, <1>7, <1>8, <1>9, <1>10, QuietStep

\* The loop of a registered thread, or the one of a thread without a queue.
LEMMA PrimaryStep == ASSUME LInv, NEW t \in Threads, RunPrimary(t) PROVE LInv'
<1> DEFINE to == IF loc[t].q = NONE THEN "g_pop" ELSE "drain"
           l == [loc[t] EXCEPT !.primary = (runners = 1)]
<1>1. /\ UNCHANGED <<stopped, runners, queue, asleep, slotOf, usedSlots, target, executed, spurious>>
      /\ pc[t] = "run_primary" /\ pc' = [pc EXCEPT ![t] = to] /\ loc' = [loc EXCEPT ![t] = l]
  BY DEF RunPrimary, Goto
<1>2. loc[t].q = OwnSlot(t)
  BY <1>1 DEF LInv, LocalsFit, Fit
<1>3. l \in Locals /\ l.q = loc[t].q
  <2>1. loc[t] \in Locals
    BY DEF LInv, TypeOK, Locals
  <2> QED  BY <2>1 DEF Locals
<1>4. to \in {"g_pop", "drain"} /\ (to = "drain" => t \in Isolates /\ slotOf[t] # NONE /\ l.q = slotOf[t])
  BY <1>2, <1>3 DEF OwnSlot
<1> HIDE DEF to, l
<1>5. Only(t) /\ pc'[t] = to /\ loc'[t] = l
  <2>1. to \in Pcs
    BY <1>4 DEF Pcs, RegisteredRunPc, PlainRunPc
  <2> QED  BY <1>1, <1>3, <2>1, StepOnly DEF LInv
<1>6. Fit(t)'
  BY <1>1, <1>4, <1>5 DEF Fit, Where, RegisteredRunPc
<1>7. Quiet(t)
  BY <1>1, <1>4, <1>5 DEF Quiet, Holds
<1>8. Signals
  BY <1>1, SignalsSame DEF LInv
<1>9. InRun(t)' <=> InRun(t)
  BY <1>1, <1>4, <1>5 DEF InRun, Where, RegisteredRunPc, PlainRunPc
<1> QED  BY <1>1, <1>6, <1>7, <1>8, <1>9, QuietStep

\* RUNNERS goes up and down with the threads inside run.
LEMMA RunCountStep == ASSUME LInv, NEW t \in Threads, RunCount(t) PROVE LInv'
<1>1. /\ pc[t] = "run_count" /\ pc' = [pc EXCEPT ![t] = "run_primary"] /\ runners' = runners + 1
      /\ UNCHANGED <<stopped, queue, asleep, slotOf, usedSlots, target, executed, loc, spurious>>
  BY DEF RunCount, Goto
<1>2. Only(t) /\ pc'[t] = "run_primary" /\ loc'[t] = loc[t]
  <2>1. "run_primary" \in Pcs
    BY DEF Pcs
  <2> QED  BY <1>1, <2>1, GotoOnly DEF LInv
<1>3. Quiet(t)
  BY <1>1, <1>2 DEF Quiet, Holds
<1>4. OnePlace' /\ SlotsOwned' /\ Addressed'
  BY <1>3, QuietKept
<1>5. TypeOK'
  <2>1. runners' \in Nat
    BY <1>1 DEF LInv, TypeOK
  <2> QED  BY <1>1, <1>2, <2>1 DEF LInv, TypeOK, Only, Locals
<1>6. LocalsFit'
  <2>1. Fit(t)
    BY DEF LInv, LocalsFit
  <2>2. Fit(t)'
    BY <1>1, <1>2, <2>1 DEF Fit, Where, OwnSlot, RegisteredRunPc
  <2> QED  BY <1>1, <1>2, <2>2, FitKept DEF LInv
<1>7. Counted'
  <2>1. ~InRun(t) /\ InRun(t)' /\ \A u \in Threads : u # t => (InRun(u)' <=> InRun(u))
    BY <1>1, <1>2 DEF Only, InRun, Where, RegisteredRunPc, PlainRunPc
  <2>2. InsideRun' = InsideRun \cup {t} /\ t \notin InsideRun
    BY <2>1 DEF InsideRun
  <2>3. IsFiniteSet(InsideRun') /\ Cardinality(InsideRun') = Cardinality(InsideRun) + 1
    BY <2>2, FS_AddElement DEF LInv, Counted
  <2> QED  BY <1>1, <2>3 DEF LInv, Counted
<1> QED  BY <1>4, <1>5, <1>6, <1>7 DEF LInv

LEMMA RunExitStep == ASSUME LInv, NEW t \in Threads, RunExit(t) PROVE LInv'
<1>1. /\ pc[t] = "run_exit" /\ Finish(t) /\ runners' = runners - 1
      /\ UNCHANGED <<stopped, queue, asleep, slotOf, usedSlots, target, executed, spurious>>
  BY DEF RunExit
<1>2. Only(t) /\ pc'[t] = "idle" /\ loc'[t] = NoLocals
  BY <1>1, FinishOnly DEF LInv
<1>3. Quiet(t)
  BY <1>1, <1>2 DEF Quiet, Holds
<1>4. OnePlace' /\ SlotsOwned' /\ Addressed'
  BY <1>3, QuietKept
<1>5. InRun(t) /\ ~(InRun(t)') /\ \A u \in Threads : u # t => (InRun(u)' <=> InRun(u))
  BY <1>1, <1>2 DEF Only, InRun, Where, RegisteredRunPc, PlainRunPc
<1>6. InsideRun' = InsideRun \ {t} /\ t \in InsideRun
  BY <1>5 DEF InsideRun
<1>7. /\ IsFiniteSet(InsideRun') /\ Cardinality(InsideRun') = Cardinality(InsideRun) - 1
      /\ Cardinality(InsideRun') \in Nat
  <2>1. IsFiniteSet(InsideRun)
    BY DEF LInv, Counted
  <2>2. IsFiniteSet(InsideRun') /\ Cardinality(InsideRun') = Cardinality(InsideRun) - 1
    BY <1>6, <2>1, FS_RemoveElement
  <2> QED  BY <2>2, FS_CardinalityType
<1>8. Counted' /\ runners' \in Nat
  BY <1>1, <1>7 DEF LInv, Counted
<1>9. TypeOK'
  BY <1>1, <1>2, <1>8 DEF LInv, TypeOK, Only, Locals
<1>10. LocalsFit'
  <2>1. Fit(t)'
    BY <1>2 DEF Fit, Where, RegisteredRunPc
  <2> QED  BY <1>1, <1>2, <2>1, FitKept DEF LInv
<1> QED  BY <1>4, <1>8, <1>9, <1>10 DEF LInv

-----------------------------------------------------------------------------
(* Steps that move a job *)

\* A pop takes the first job of a queue into the hands of the thread.
LEMMA PopJob ==
    ASSUME LInv, NEW t \in Threads, NEW q \in Queues, NEW here,
           here \in {"drain", "drain_global", "g_pop", "pump", "pump_global"},
           here \in {"drain", "pump"} => q = loc[t].q,
           here \notin {"drain", "pump"} => q = GLOBAL,
           PopFrom(t, q, here, "idle"), queue[q] # <<>>
    PROVE  LInv'
<1> DEFINE j == queue[q][1]
           l == [loc[t] EXCEPT !.job = j, !.back = here]
<1>1. /\ UNCHANGED <<stopped, runners, asleep, slotOf, usedSlots, target, executed, spurious>>
      /\ pc[t] = here /\ pc' = [pc EXCEPT ![t] = "exec"] /\ queue' = [queue EXCEPT ![q] = Tail(@)]
      /\ loc' = [loc EXCEPT ![t].job = Head(queue[q]), ![t].back = here]
  BY DEF PopFrom
<1>2. queue \in [Queues -> Seq(Jobs)] /\ loc[t] \in Locals
  BY DEF LInv, TypeOK, Locals
<1>3. queue[q] \in Seq(Jobs)
  BY <1>2
<1>4. /\ Tail(queue[q]) \in Seq(Jobs) /\ Len(queue[q]) \in Nat \ {0}
      /\ Len(Tail(queue[q])) = Len(queue[q]) - 1 /\ Head(queue[q]) = j /\ j \in Jobs
      /\ \A n \in 1 .. Len(queue[q]) - 1 : Tail(queue[q])[n] = queue[q][n + 1]
  BY <1>3, TailElements
<1>5. here \in Pcs
  BY DEF Pcs, RegisteredRunPc, PlainRunPc, PumpPc
<1> HIDE DEF j
<1>6. l \in Locals /\ l.q = loc[t].q /\ l.job = j /\ l.back = here
  BY <1>2, <1>4, <1>5 DEF Locals
<1>7. loc' = [loc EXCEPT ![t] = l]
  BY <1>1, <1>4
<1> HIDE DEF l
<1>8. Only(t) /\ pc'[t] = "exec" /\ loc'[t] = l
  <2>1. "exec" \in Pcs /\ TypeOK
    BY DEF Pcs, LInv
  <2>2. pc' = [pc EXCEPT ![t] = "exec"] /\ l \in Locals
    BY <1>1, <1>6
  <2> QED  BY <1>7, <2>1, <2>2, StepOnly
<1>9. Where(t)' = here /\ Where(t) = here
  BY <1>1, <1>6, <1>8 DEF Where
<1>10. TypeOK'
  <2>1. queue' \in [Queues -> Seq(Jobs)]
    BY <1>1, <1>2, <1>4
  <2> QED  BY <1>1, <1>8, <2>1 DEF LInv, TypeOK, Only, Locals
<1>11. LocalsFit'
  <2>1. Fit(t)
    BY DEF LInv, LocalsFit
  <2>2. Fit(t)'
    BY <1>1, <1>6, <1>8, <1>9, <2>1 DEF Fit
  <2> QED  BY <1>1, <1>8, <2>2, FitKept DEF LInv
<1>12. Counted'
  <2>1. InRun(t)' <=> InRun(t)
    BY <1>9 DEF InRun
  <2> QED  BY <1>1, <1>8, <2>1, CountKept DEF LInv
<1>13. /\ \A r \in Queues : r # q => queue'[r] = queue[r]
       /\ Len(queue'[q]) = Len(queue[q]) - 1
       /\ \A n \in 1 .. Len(queue[q]) - 1 : queue'[q][n] = queue[q][n + 1]
       /\ 1 \in 1 .. Len(queue[q])
  BY <1>1, <1>2, <1>4
<1>14. \A r \in Queues : \A n \in 1 .. Len(queue'[r]) : \E m \in 1 .. Len(queue[r]) :
          queue'[r][n] = queue[r][m] /\ m = (IF r = q THEN n + 1 ELSE n)
  <2> SUFFICES ASSUME NEW r \in Queues, NEW n \in 1 .. Len(queue'[r])
               PROVE  \E m \in 1 .. Len(queue[r]) :
                        queue'[r][n] = queue[r][m] /\ m = (IF r = q THEN n + 1 ELSE n)
    OBVIOUS
  <2>1. CASE r = q
    BY <1>4, <1>13, <2>1
  <2>2. CASE r # q
    BY <1>13, <2>2
  <2> QED  BY <2>1, <2>2
<1>15. OnePlace'
  <2>1. /\ \A u \in Threads : u # t => (Holds(u)' <=> Holds(u)) /\ loc'[u].job = loc[u].job
        /\ Holds(t)' /\ ~Holds(t) /\ loc'[t].job = j
    BY <1>1, <1>6, <1>8 DEF Only, Holds
  <2>2. \A k : Sent(k)' <=> Sent(k)
    BY <1>1 DEF Sent
  <2>3. Sent(j) /\ \A u \in Threads : Holds(u) => loc[u].job # j
    BY <1>13 DEF LInv, OnePlace, j
  <2>4. \A u \in Threads : Holds(u)' => Sent(loc[u].job)'
    BY <2>1, <2>2, <2>3 DEF LInv, OnePlace
  <2>5. \A u, v \in Threads : Holds(u)' /\ Holds(v)' /\ loc'[u].job = loc'[v].job => u = v
    BY <2>1, <2>3 DEF LInv, OnePlace
  <2>6. ASSUME NEW r \in Queues, NEW n \in 1 .. Len(queue'[r])
        PROVE  Sent(queue[r][n])' /\ \A u \in Threads : Holds(u)' => loc'[u].job # queue'[r][n]
    <3>1. PICK m \in 1 .. Len(queue[r]) : queue'[r][n] = queue[r][m] /\ m = (IF r = q THEN n + 1 ELSE n)
      BY <1>14
    <3>2. Sent(queue[r][m]) /\ \A u \in Threads : Holds(u) => loc[u].job # queue[r][m]
      BY DEF LInv, OnePlace
    <3>3. queue[r][m] # j
      <4>1. queue[r][m] = queue[q][1] => r = q /\ m = 1
        BY <1>13 DEF LInv, OnePlace
      <4>2. r = q => m # 1
        BY <1>13, <3>1
      <4> QED  BY <4>1, <4>2 DEF j
    <3> QED  BY <2>1, <2>2, <3>1, <3>2, <3>3
  <2>7. ASSUME NEW r \in Queues, NEW n \in 1 .. Len(queue'[r]),
               NEW s \in Queues, NEW m \in 1 .. Len(queue'[s]), queue'[r][n] = queue'[s][m]
        PROVE  r = s /\ n = m
    <3>1. PICK n1 \in 1 .. Len(queue[r]) : queue'[r][n] = queue[r][n1] /\ n1 = (IF r = q THEN n + 1 ELSE n)
      BY <1>14
    <3>2. PICK m1 \in 1 .. Len(queue[s]) : queue'[s][m] = queue[s][m1] /\ m1 = (IF s = q THEN m + 1 ELSE m)
      BY <1>14
    <3>3. r = s /\ n1 = m1
      <4>1. queue[r][n1] = queue[s][m1]
        BY <2>7, <3>1, <3>2
      <4>2. \A r2 \in Queues : \A n2 \in 1 .. Len(queue[r2]) :
              \A s2 \in Queues : \A m2 \in 1 .. Len(queue[s2]) :
                queue[r2][n2] = queue[s2][m2] => r2 = s2 /\ n2 = m2
        BY DEF LInv, OnePlace
      <4> QED  BY <4>1, <4>2
    <3>4. n \in Int /\ m \in Int
      OBVIOUS
    <3> QED  BY <3>1, <3>2, <3>3, <3>4
  <2>8. \A k \in executed' : target'[k] # NONE
    BY <1>1 DEF LInv, OnePlace
  <2>9. ASSUME NEW k \in Jobs, target'[k] # NONE
        PROVE  \/ k \in executed'
               \/ \E u \in Threads : Holds(u)' /\ loc'[u].job = k
               \/ \E r \in Queues : \E n \in 1 .. Len(queue'[r]) : queue'[r][n] = k
    <3>1. CASE k \in executed
      BY <1>1, <3>1
    <3>2. CASE \E u \in Threads : Holds(u) /\ loc[u].job = k
      BY <2>1, <3>2
    <3>3. CASE \E r \in Queues : \E n \in 1 .. Len(queue[r]) : queue[r][n] = k
      <4>1. PICK r \in Queues : \E n \in 1 .. Len(queue[r]) : queue[r][n] = k
        BY <3>3
      <4>2. PICK n \in 1 .. Len(queue[r]) : queue[r][n] = k
        BY <4>1
      <4>3. CASE r # q
        BY <1>13, <4>2, <4>3
      <4>4. CASE r = q /\ n = 1
        BY <2>1, <4>2, <4>4 DEF j
      <4>5. CASE r = q /\ n # 1
        <5>1. n - 1 \in 1 .. Len(queue'[q]) /\ queue'[q][n - 1] = queue[q][(n - 1) + 1] /\ (n - 1) + 1 = n
          BY <1>4, <1>13, <4>5
        <5> QED  BY <4>2, <4>5, <5>1
      <4> QED  BY <4>3, <4>4, <4>5
    <3> QED  BY <1>1, <2>9, <3>1, <3>2, <3>3 DEF LInv, OnePlace
  <2> QED  BY <2>4, <2>5, <2>6, <2>7, <2>8, <2>9 DEF OnePlace
<1>16. SlotsOwned'
  <2>1. \A s \in SlotIds \ usedSlots : queue'[s] = <<>>
    <3>1. \A s \in SlotIds \ usedSlots : s \in Queues /\ s # q
      BY DEF LInv, SlotsOwned, Queues
    <3> QED  BY <1>13, <3>1 DEF LInv, SlotsOwned
  <2> QED  BY <1>1, <1>8, <2>1 DEF LInv, SlotsOwned, Only
<1>17. Addressed'
  <2>1. \A n \in 1 .. Len(queue'[GLOBAL]) : target'[queue'[GLOBAL][n]] = GLOBAL
    BY <1>1, <1>14 DEF LInv, Addressed, Queues
  <2>2. ASSUME NEW i \in Isolates, slotOf'[i] # NONE
        PROVE  \A n \in 1 .. Len(queue'[slotOf'[i]]) : target'[queue'[slotOf'[i]][n]] = i
    <3>1. slotOf[i] \in Queues /\ slotOf[i] # NONE /\ slotOf'[i] = slotOf[i]
      BY <1>1, <2>2 DEF LInv, TypeOK, Queues
    <3>2. PICK c \in Queues : c = slotOf[i]
      BY <3>1
    <3>3. \A m \in 1 .. Len(queue[c]) : target[queue[c][m]] = i
      BY <3>1, <3>2 DEF LInv, Addressed
    <3>4. \A n \in 1 .. Len(queue'[c]) : \E m \in 1 .. Len(queue[c]) : queue'[c][n] = queue[c][m]
      BY <1>14
    <3>5. slotOf'[i] = c /\ target' = target
      BY <1>1, <3>1, <3>2
    <3> QED  BY <3>3, <3>4, <3>5
  <2>3. \A u \in Threads : pc'[u] \in {"enqueue", "push"} => u # t /\ pc'[u] = pc[u] /\ loc'[u] = loc[u]
    BY <1>8 DEF Only
  <2>4. target[j] \in {GLOBAL, t}
    <3>1. CASE q = GLOBAL
      BY <1>13, <3>1 DEF LInv, Addressed, j
    <3>2. CASE q # GLOBAL
      <4>1. t \in Isolates /\ slotOf[t] # NONE /\ q = slotOf[t]
        BY <1>1, <1>9, <3>2 DEF LInv, LocalsFit, Fit, RegisteredRunPc
      <4> QED  BY <1>13, <4>1 DEF LInv, Addressed, j
    <3> QED  BY <3>1, <3>2
  <2>5. \A u \in Threads : pc'[u] = "exec" => target'[loc'[u].job] \in {GLOBAL, u}
    BY <1>1, <1>6, <1>8, <2>4 DEF LInv, Addressed, Only
  <2>6. /\ \A u \in Threads : pc[u] \in {"enqueue", "push"} /\ loc[u].q = GLOBAL => target[loc[u].job] = GLOBAL
        /\ \A u \in Threads, i \in Isolates : pc[u] = "push" /\ loc[u].q = slotOf[i] => target[loc[u].job] = i
    BY DEF LInv, Addressed
  <2>7. /\ \A u \in Threads : pc'[u] \in {"enqueue", "push"} /\ loc'[u].q = GLOBAL => target'[loc'[u].job] = GLOBAL
        /\ \A u \in Threads, i \in Isolates : pc'[u] = "push" /\ loc'[u].q = slotOf'[i] => target'[loc'[u].job] = i
    <3>1. target' = target /\ slotOf' = slotOf
      BY <1>1
    <3> QED  BY <2>3, <2>6, <3>1
  <2> QED  BY <2>1, <2>2, <2>5, <2>7 DEF Addressed
<1> QED  BY <1>10, <1>11, <1>12, <1>15, <1>16, <1>17 DEF LInv

\* One pop of a drain, of the thread's own queue or of the global one.
LEMMA PopStep ==
    ASSUME LInv, NEW t \in Threads,
           RunDrain(t) \/ RunDrainGlobal(t) \/ PlainPop(t) \/ PumpDrain(t) \/ PumpDrainGlobal(t)
    PROVE  LInv'
<1>1. CASE \E q, here, empty :
             /\ PopFrom(t, q, here, empty) /\ queue[q] # <<>> /\ q \in Queues
             /\ here \in {"drain", "drain_global", "g_pop", "pump", "pump_global"}
             /\ here \in {"drain", "pump"} => q = loc[t].q
             /\ here \notin {"drain", "pump"} => q = GLOBAL
  <2>1. PICK q, here, empty :
             /\ PopFrom(t, q, here, empty) /\ queue[q] # <<>> /\ q \in Queues
             /\ here \in {"drain", "drain_global", "g_pop", "pump", "pump_global"}
             /\ here \in {"drain", "pump"} => q = loc[t].q
             /\ here \notin {"drain", "pump"} => q = GLOBAL
    BY <1>1
  <2>2. PopFrom(t, q, here, "idle")
    BY <2>1 DEF PopFrom
  <2> QED  BY <2>1, <2>2, PopJob
<1>2. CASE \E q, here, empty :
             /\ PopFrom(t, q, here, empty) /\ queue[q] = <<>>
             /\ <<here, empty>> \in {<<"drain", "drain_global">>, <<"drain_global", "run_stop">>,
                                     <<"g_pop", "g_stop">>, <<"pump", "pump_global">>}
  <2>1. PICK q, here, empty :
             /\ PopFrom(t, q, here, empty) /\ queue[q] = <<>>
             /\ <<here, empty>> \in {<<"drain", "drain_global">>, <<"drain_global", "run_stop">>,
                                     <<"g_pop", "g_stop">>, <<"pump", "pump_global">>}
    BY <1>2
  <2>2. /\ pc[t] = here /\ pc' = [pc EXCEPT ![t] = empty]
        /\ UNCHANGED <<stopped, runners, queue, asleep, slotOf, usedSlots, target, executed, loc, spurious>>
    BY <2>1 DEF PopFrom
  <2>3. Signals
    BY <2>2, SignalsSame DEF LInv
  <2>4. \/ pc[t] \in RegisteredRunPc /\ empty \in RegisteredRunPc
        \/ pc[t] \in PlainRunPc /\ empty \in PlainRunPc
        \/ pc[t] = "pump" /\ empty = "pump_global"
    BY <2>1, <2>2 DEF RegisteredRunPc, PlainRunPc
  <2> QED  BY <2>2, <2>3, <2>4, GoesOn
<1>3. GLOBAL \in Queues
  BY DEF Queues
<1>4. pc[t] \in {"drain", "pump"} => loc[t].q \in Queues
  BY DEF LInv, TypeOK, LocalsFit, Fit, Where, RegisteredRunPc, Queues
<1>5. CASE RunDrain(t) \/ PumpDrain(t)
  <2>1. pc[t] \in {"drain", "pump"}
    BY <1>5 DEF RunDrain, PumpDrain, PopFrom
  <2>2. CASE queue[loc[t].q] = <<>>
    BY <1>2, <1>5, <2>2 DEF RunDrain, PumpDrain
  <2>3. CASE queue[loc[t].q] # <<>>
    BY <1>1, <1>4, <1>5, <2>1, <2>3 DEF RunDrain, PumpDrain
  <2> QED  BY <2>2, <2>3
<1>6. CASE RunDrainGlobal(t) \/ PlainPop(t)
  <2>1. CASE queue[GLOBAL] = <<>>
    BY <1>2, <1>6, <2>1 DEF RunDrainGlobal, PlainPop
  <2>2. CASE queue[GLOBAL] # <<>>
    BY <1>1, <1>3, <1>6, <2>2 DEF RunDrainGlobal, PlainPop
  <2> QED  BY <2>1, <2>2
<1>7. CASE PumpDrainGlobal(t)
  <2>1. CASE queue[GLOBAL] # <<>> /\ PopFrom(t, GLOBAL, "pump_global", "idle")
    BY <1>1, <1>3, <2>1
  <2>2. CASE /\ pc[t] = "pump_global" /\ Finish(t)
             /\ UNCHANGED <<stopped, runners, queue, asleep, slotOf, usedSlots, target, executed, spurious>>
    <3>1. Signals
      BY <2>2, SignalsSame DEF LInv
    <3>2. ~Holds(t) /\ ~InRun(t)
      BY <2>2 DEF Holds, InRun, Where, RegisteredRunPc, PlainRunPc
    <3> QED  BY <2>2, <3>1, <3>2, Returns
  <2> QED  BY <1>7, <2>1, <2>2 DEF PumpDrainGlobal
<1> QED  BY <1>5, <1>6, <1>7

\* What nothing holds, no queue has and nothing ran is nowhere.
LEMMA Nowhere ==
    ASSUME OnePlace, NEW j, target[j] = NONE
    PROVE  /\ \A t \in Threads : Holds(t) => loc[t].job # j
           /\ \A q \in Queues : \A n \in 1 .. Len(queue[q]) : queue[q][n] # j
           /\ j \notin executed
  BY DEF OnePlace, Sent

\* A push hands the job to the queue.
LEMMA PushStep == ASSUME LInv, NEW t \in Threads, Push(t) PROVE LInv'
<1>1. /\ pc[t] = "push" /\ pc' = [pc EXCEPT ![t] = "notify"]
      /\ queue' = [queue EXCEPT ![loc[t].q] = Append(@, loc[t].job)]
      /\ UNCHANGED <<stopped, runners, asleep, slotOf, usedSlots, target, executed, loc, spurious>>
  BY DEF Push, Goto
<1>2. Holds(t) /\ loc[t].q \in Queues
  BY <1>1 DEF LInv, LocalsFit, Fit, Holds
<1>3. PICK q \in Queues : q = loc[t].q
  BY <1>2
<1>4. PICK j \in Jobs : j = loc[t].job /\ Sent(j)
  BY <1>2 DEF LInv, OnePlace, Sent
<1>5. queue \in [Queues -> Seq(Jobs)] /\ queue' = [queue EXCEPT ![q] = Append(queue[q], j)]
  BY <1>1, <1>3, <1>4 DEF LInv, TypeOK
<1>6. PICK N \in Nat : N = Len(queue[q])
  <2>1. queue[q] \in Seq(Jobs)
    BY <1>5
  <2> QED  BY <2>1, AppendElements
<1>7. /\ \A r \in Queues : r # q => queue'[r] = queue[r]
      /\ queue'[q] \in Seq(Jobs) /\ Len(queue'[q]) = N + 1 /\ queue'[q][N + 1] = j
      /\ \A n \in 1 .. N : queue'[q][n] = queue[q][n]
  <2>1. queue[q] \in Seq(Jobs)
    BY <1>5
  <2>2. /\ Append(queue[q], j) \in Seq(Jobs) /\ Len(Append(queue[q], j)) = N + 1
        /\ Append(queue[q], j)[N + 1] = j
        /\ \A n \in 1 .. N : Append(queue[q], j)[n] = queue[q][n]
    BY <1>6, <2>1, AppendElements
  <2>3. queue'[q] = Append(queue[q], j) /\ \A r \in Queues : r # q => queue'[r] = queue[r]
    BY <1>5
  <2> QED  BY <2>2, <2>3
<1>8. Only(t) /\ pc'[t] = "notify" /\ loc'[t] = loc[t]
  <2>1. "notify" \in Pcs
    BY DEF Pcs, SendPc
  <2> QED  BY <1>1, <2>1, GotoOnly DEF LInv
<1>9. TypeOK'
  <2>1. queue' \in [Queues -> Seq(Jobs)]
    BY <1>5, <1>7
  <2> QED  BY <1>1, <1>8, <2>1 DEF LInv, TypeOK, Only, Locals
<1>10. LocalsFit'
  <2>1. Fit(t)'
    BY <1>2, <1>8 DEF Fit, Where, RegisteredRunPc
  <2> QED  BY <1>1, <1>8, <2>1, FitKept DEF LInv
<1>11. Counted'
  <2>1. InRun(t)' <=> InRun(t)
    BY <1>1, <1>8 DEF InRun, Where, RegisteredRunPc, PlainRunPc
  <2> QED  BY <1>1, <1>8, <2>1, CountKept DEF LInv
\* What is in a queue was there, or is the job.
<1>12. \A r \in Queues : \A n \in 1 .. Len(queue'[r]) :
          \/ n \in 1 .. Len(queue[r]) /\ queue'[r][n] = queue[r][n]
          \/ r = q /\ n = N + 1 /\ queue'[r][n] = j
  <2> SUFFICES ASSUME NEW r \in Queues, NEW n \in 1 .. Len(queue'[r])
               PROVE  \/ n \in 1 .. Len(queue[r]) /\ queue'[r][n] = queue[r][n]
                      \/ r = q /\ n = N + 1 /\ queue'[r][n] = j
    OBVIOUS
  <2>1. CASE r # q
    BY <1>7, <2>1
  <2>2. CASE r = q
    <3>1. n \in 1 .. N + 1
      BY <1>7, <2>2
    <3> QED  BY <1>6, <1>7, <2>2, <3>1
  <2> QED  BY <2>1, <2>2
<1>13. OnePlace'
  <2>1. /\ \A u \in Threads : u # t => (Holds(u)' <=> Holds(u)) /\ loc'[u].job = loc[u].job
        /\ ~(Holds(t)')
    BY <1>8 DEF Only, Holds
  <2>2. \A k : Sent(k)' <=> Sent(k)
    BY <1>1 DEF Sent
  <2>3. /\ \A r \in Queues : \A n \in 1 .. Len(queue[r]) : queue[r][n] # j
        /\ \A u \in Threads : u # t /\ Holds(u) => loc[u].job # j
    BY <1>2, <1>4 DEF LInv, OnePlace
  <2>4. \A u \in Threads : Holds(u)' => Sent(loc[u].job)'
    BY <2>1, <2>2 DEF LInv, OnePlace
  <2>5. \A u, v \in Threads : Holds(u)' /\ Holds(v)' /\ loc'[u].job = loc'[v].job => u = v
    BY <2>1 DEF LInv, OnePlace
  <2>6. ASSUME NEW r \in Queues, NEW n \in 1 .. Len(queue'[r])
        PROVE  Sent(queue[r][n])' /\ \A u \in Threads : Holds(u)' => loc'[u].job # queue'[r][n]
    <3>1. CASE n \in 1 .. Len(queue[r]) /\ queue'[r][n] = queue[r][n]
      <4>1. Sent(queue[r][n]) /\ \A u \in Threads : Holds(u) => loc[u].job # queue[r][n]
        BY <3>1 DEF LInv, OnePlace
      <4> QED  BY <2>1, <2>2, <3>1, <4>1
    <3>2. CASE queue'[r][n] = j
      BY <1>4, <2>1, <2>2, <2>3, <3>2
    <3> QED  BY <1>12, <3>1, <3>2
  <2>7. ASSUME NEW r \in Queues, NEW n \in 1 .. Len(queue'[r]),
               NEW s \in Queues, NEW m \in 1 .. Len(queue'[s]), queue'[r][n] = queue'[s][m]
        PROVE  r = s /\ n = m
    <3>1. \A r2 \in Queues : \A n2 \in 1 .. Len(queue[r2]) :
            \A s2 \in Queues : \A m2 \in 1 .. Len(queue[s2]) :
              queue[r2][n2] = queue[s2][m2] => r2 = s2 /\ n2 = m2
      BY DEF LInv, OnePlace
    <3>2. /\ \/ n \in 1 .. Len(queue[r]) /\ queue'[r][n] = queue[r][n]
             \/ r = q /\ n = N + 1 /\ queue'[r][n] = j
          /\ \/ m \in 1 .. Len(queue[s]) /\ queue'[s][m] = queue[s][m]
             \/ s = q /\ m = N + 1 /\ queue'[s][m] = j
      BY <1>12
    <3> QED  BY <2>3, <2>7, <3>1, <3>2
  <2>8. \A k \in executed' : target'[k] # NONE
    BY <1>1 DEF LInv, OnePlace
  <2>9. ASSUME NEW k \in Jobs, target'[k] # NONE
        PROVE  \/ k \in executed'
               \/ \E u \in Threads : Holds(u)' /\ loc'[u].job = k
               \/ \E r \in Queues : \E n \in 1 .. Len(queue'[r]) : queue'[r][n] = k
    <3>1. CASE k \in executed
      BY <1>1, <3>1
    <3>2. CASE \E u \in Threads : Holds(u) /\ loc[u].job = k
      <4>1. CASE k = j
        <5>1. N + 1 \in 1 .. Len(queue'[q]) /\ queue'[q][N + 1] = j
          BY <1>6, <1>7
        <5> QED  BY <4>1, <5>1
      <4>2. CASE k # j
        BY <1>4, <2>1, <3>2, <4>2
      <4> QED  BY <4>1, <4>2
    <3>3. CASE \E r \in Queues : \E n \in 1 .. Len(queue[r]) : queue[r][n] = k
      <4>1. PICK r \in Queues : \E n \in 1 .. Len(queue[r]) : queue[r][n] = k
        BY <3>3
      <4>2. PICK n \in 1 .. Len(queue[r]) : queue[r][n] = k
        BY <4>1
      <4>3. CASE r # q
        BY <1>7, <4>2, <4>3
      <4>4. CASE r = q
        <5>1. n \in 1 .. N /\ n \in 1 .. N + 1
          BY <1>6, <4>4
        <5> QED  BY <1>7, <4>2, <4>4, <5>1
      <4> QED  BY <4>3, <4>4
    <3> QED  BY <1>1, <2>9, <3>1, <3>2, <3>3 DEF LInv, OnePlace
  <2> QED  BY <2>4, <2>5, <2>6, <2>7, <2>8, <2>9 DEF OnePlace
<1>14. SlotsOwned'
  <2>1. q \in usedSlots \cup {GLOBAL}
    BY <1>1, <1>3 DEF LInv, SlotsOwned
  <2>2. \A s \in SlotIds \ usedSlots : queue'[s] = <<>>
    <3>1. \A s \in SlotIds \ usedSlots : s \in Queues /\ s # q
      BY <2>1, LoopAssumption DEF Queues
    <3> QED  BY <1>7, <3>1 DEF LInv, SlotsOwned
  <2> QED  BY <1>1, <1>8, <2>2 DEF LInv, SlotsOwned, Only
<1>15. Addressed'
  <2>1. target' = target /\ slotOf' = slotOf /\ GLOBAL \in Queues
    BY <1>1 DEF Queues
  <2>2. /\ q = GLOBAL => target[j] = GLOBAL
        /\ \A i \in Isolates : q = slotOf[i] => target[j] = i
    BY <1>1, <1>3, <1>4 DEF LInv, Addressed
  <2>3. \A n \in 1 .. Len(queue'[GLOBAL]) : target'[queue'[GLOBAL][n]] = GLOBAL
    <3>1. \A n \in 1 .. Len(queue[GLOBAL]) : target[queue[GLOBAL][n]] = GLOBAL
      BY DEF LInv, Addressed
    <3> QED  BY <1>12, <2>1, <2>2, <3>1
  <2>4. ASSUME NEW i \in Isolates, slotOf'[i] # NONE
        PROVE  \A n \in 1 .. Len(queue'[slotOf'[i]]) : target'[queue'[slotOf'[i]][n]] = i
    <3>1. slotOf[i] \in Queues /\ slotOf[i] # NONE /\ slotOf'[i] = slotOf[i]
      BY <2>1, <2>4 DEF LInv, TypeOK, Queues
    <3>2. PICK c \in Queues : c = slotOf[i]
      BY <3>1
    <3>3. \A m \in 1 .. Len(queue[c]) : target[queue[c][m]] = i
      BY <3>1, <3>2 DEF LInv, Addressed
    <3>4. slotOf'[i] = c /\ (c = q => target[j] = i)
      BY <2>2, <3>1, <3>2
    <3> QED  BY <1>12, <2>1, <3>3, <3>4
  <2>5. \A u \in Threads : pc'[u] \in {"enqueue", "push", "exec"} =>
          u # t /\ pc'[u] = pc[u] /\ loc'[u] = loc[u]
    BY <1>8 DEF Only
  <2>6. /\ \A u \in Threads : pc[u] \in {"enqueue", "push"} /\ loc[u].q = GLOBAL => target[loc[u].job] = GLOBAL
        /\ \A u \in Threads, i \in Isolates : pc[u] = "push" /\ loc[u].q = slotOf[i] => target[loc[u].job] = i
        /\ \A u \in Threads : pc[u] = "exec" => target[loc[u].job] \in {GLOBAL, u}
    BY DEF LInv, Addressed
  <2>7. /\ \A u \in Threads : pc'[u] \in {"enqueue", "push"} /\ loc'[u].q = GLOBAL => target'[loc'[u].job] = GLOBAL
        /\ \A u \in Threads, i \in Isolates : pc'[u] = "push" /\ loc'[u].q = slotOf'[i] => target'[loc'[u].job] = i
        /\ \A u \in Threads : pc'[u] = "exec" => target'[loc'[u].job] \in {GLOBAL, u}
    BY <2>1, <2>5, <2>6
  <2> QED  BY <2>3, <2>4, <2>7 DEF Addressed
<1> QED  BY <1>9, <1>10, <1>11, <1>13, <1>14, <1>15 DEF LInv

\* A job that was in the hands of a thread is done with: run, or refused.
LEMMA HandsEmptied ==
    ASSUME LInv, NEW t \in Threads, NEW j \in Jobs, Holds(t), j = loc[t].job,
           Only(t), ~(Holds(t)'), pc'[t] # "exec", UNCHANGED <<queue, slotOf, usedSlots>>,
           \/ executed' = executed \cup {j} /\ UNCHANGED target
           \/ executed' = executed /\ target' = [target EXCEPT ![j] = NONE]
    PROVE  OnePlace' /\ SlotsOwned' /\ Addressed' /\ target' \in [Jobs -> Isolates \cup {GLOBAL, NONE}]
<1>1. /\ \A u \in Threads : u # t => (Holds(u)' <=> Holds(u)) /\ loc'[u] = loc[u] /\ pc'[u] = pc[u]
      /\ ~(Holds(t)')
  BY DEF Only, Holds
<1>2. /\ \A u \in Threads : u # t /\ Holds(u) => loc[u].job # j
      /\ \A q \in Queues : \A n \in 1 .. Len(queue[q]) : queue[q][n] # j
      /\ j \notin executed
  BY DEF LInv, OnePlace, Sent
<1>3. target \in [Jobs -> Isolates \cup {GLOBAL, NONE}]
  BY DEF LInv, TypeOK
<1>4. /\ target' \in [Jobs -> Isolates \cup {GLOBAL, NONE}]
      /\ \A k \in Jobs : k # j => target'[k] = target[k] /\ (k \in executed' <=> k \in executed)
      /\ executed' \subseteq executed \cup {j} /\ executed \subseteq executed'
  BY <1>3
<1>5. \A k : k # j => (Sent(k)' <=> Sent(k))
  BY <1>4 DEF Sent
<1>6. OnePlace'
  <2>1. \A u \in Threads : Holds(u)' => Sent(loc[u].job)'
    BY <1>1, <1>2, <1>5 DEF LInv, OnePlace
  <2>2. \A u, v \in Threads : Holds(u)' /\ Holds(v)' /\ loc'[u].job = loc'[v].job => u = v
    BY <1>1 DEF LInv, OnePlace
  <2>3. ASSUME NEW q \in Queues, NEW n \in 1 .. Len(queue[q])
        PROVE  /\ Sent(queue[q][n])' /\ \A u \in Threads : Holds(u)' => loc'[u].job # queue[q][n]
               /\ \A r \in Queues : \A m \in 1 .. Len(queue[r]) : queue[q][n] = queue[r][m] => q = r /\ n = m
    <3>1. /\ Sent(queue[q][n]) /\ \A u \in Threads : Holds(u) => loc[u].job # queue[q][n]
          /\ \A r \in Queues : \A m \in 1 .. Len(queue[r]) : queue[q][n] = queue[r][m] => q = r /\ n = m
      BY DEF LInv, OnePlace
    <3> QED  BY <1>1, <1>2, <1>5, <3>1
  <2>4. \A k \in executed' : target'[k] # NONE
    <3>1. \A k \in executed : target[k] # NONE /\ k # j /\ k \in Jobs
      BY <1>2 DEF LInv, OnePlace, TypeOK
    <3>2. target[j] # NONE
      BY DEF LInv, OnePlace, Sent
    <3> QED  BY <1>4, <3>1, <3>2
  <2>5. ASSUME NEW k \in Jobs, target'[k] # NONE
        PROVE  \/ k \in executed'
               \/ \E u \in Threads : Holds(u)' /\ loc'[u].job = k
               \/ \E r \in Queues : \E n \in 1 .. Len(queue[r]) : queue[r][n] = k
    <3>1. CASE k = j
      BY <1>3, <2>5, <3>1
    <3>2. CASE k # j
      <4>1. \/ k \in executed
            \/ \E u \in Threads : Holds(u) /\ loc[u].job = k
            \/ \E r \in Queues : \E n \in 1 .. Len(queue[r]) : queue[r][n] = k
        BY <1>4, <2>5, <3>2 DEF LInv, OnePlace
      <4>2. ASSUME NEW u \in Threads, Holds(u), loc[u].job = k PROVE Holds(u)' /\ loc'[u].job = k
        BY <1>1, <3>2, <4>2
      <4> QED  BY <1>4, <4>1, <4>2
    <3> QED  BY <3>1, <3>2
  <2> QED  BY <2>1, <2>2, <2>3, <2>4, <2>5 DEF OnePlace
<1>7. SlotsOwned'
  <2>1. \A u \in Threads : pc'[u] = "push" => u # t /\ pc[u] = "push" /\ loc'[u] = loc[u]
    BY <1>1 DEF Holds
  <2> QED  BY <2>1 DEF LInv, SlotsOwned
<1>8. Addressed'
  <2>1. /\ \A n \in 1 .. Len(queue[GLOBAL]) : target[queue[GLOBAL][n]] = GLOBAL
        /\ \A i \in Isolates : slotOf[i] # NONE =>
             \A n \in 1 .. Len(queue[slotOf[i]]) : target[queue[slotOf[i]][n]] = i
        /\ \A u \in Threads : pc[u] \in {"enqueue", "push"} /\ loc[u].q = GLOBAL => target[loc[u].job] = GLOBAL
        /\ \A u \in Threads, i \in Isolates : pc[u] = "push" /\ loc[u].q = slotOf[i] => target[loc[u].job] = i
        /\ \A u \in Threads : pc[u] = "exec" => target[loc[u].job] \in {GLOBAL, u}
    BY DEF LInv, Addressed
  <2>2. \A q \in Queues : \A n \in 1 .. Len(queue[q]) : target'[queue[q][n]] = target[queue[q][n]]
    <3>1. \A q \in Queues : \A n \in 1 .. Len(queue[q]) : queue[q][n] \in Jobs /\ queue[q][n] # j
      BY <1>2 DEF LInv, OnePlace, Sent
    <3> QED  BY <1>4, <3>1
  <2>3. \A u \in Threads : pc'[u] \in {"enqueue", "push", "exec"} =>
          pc'[u] = pc[u] /\ loc'[u] = loc[u] /\ target'[loc[u].job] = target[loc[u].job]
    <3>1. \A u \in Threads : u # t /\ Holds(u) => loc[u].job \in Jobs /\ loc[u].job # j
      BY <1>2 DEF LInv, OnePlace, Sent
    <3> QED  BY <1>1, <1>4, <3>1 DEF Holds
  <2>4. GLOBAL \in Queues /\ \A i \in Isolates : slotOf[i] # NONE => slotOf[i] \in Queues
    BY DEF LInv, TypeOK, Queues
  <2>5. \A n \in 1 .. Len(queue'[GLOBAL]) : target'[queue'[GLOBAL][n]] = GLOBAL
    BY <2>1, <2>2, <2>4
  <2>6. \A i \in Isolates : slotOf'[i] # NONE =>
          \A n \in 1 .. Len(queue'[slotOf'[i]]) : target'[queue'[slotOf'[i]][n]] = i
    <3> SUFFICES ASSUME NEW i \in Isolates, slotOf[i] # NONE
                 PROVE  \A n \in 1 .. Len(queue[slotOf[i]]) : target'[queue[slotOf[i]][n]] = i
      OBVIOUS
    <3>1. PICK c \in Queues : c = slotOf[i]
      BY <2>4
    <3>2. \A n \in 1 .. Len(queue[c]) : target[queue[c][n]] = i
      BY <2>1, <3>1
    <3> QED  BY <2>2, <3>1, <3>2
  <2>7. /\ \A u \in Threads : pc'[u] \in {"enqueue", "push"} /\ loc'[u].q = GLOBAL => target'[loc'[u].job] = GLOBAL
        /\ \A u \in Threads, i \in Isolates : pc'[u] = "push" /\ loc'[u].q = slotOf'[i] => target'[loc'[u].job] = i
        /\ \A u \in Threads : pc'[u] = "exec" => target'[loc'[u].job] \in {GLOBAL, u}
    BY <2>1, <2>3
  <2> QED  BY <2>5, <2>6, <2>7 DEF Addressed
<1> QED  BY <1>4, <1>6, <1>7, <1>8

\* The runner runs the job and goes back to its loop.
LEMMA ExecStep == ASSUME LInv, NEW t \in Threads, Exec(t) PROVE LInv'
<1> DEFINE l == [loc[t] EXCEPT !.job = NONE, !.back = "idle"]
<1>1. /\ pc[t] = "exec" /\ pc' = [pc EXCEPT ![t] = loc[t].back]
      /\ executed' = executed \cup {loc[t].job} /\ loc' = [loc EXCEPT ![t] = l]
      /\ UNCHANGED <<stopped, runners, queue, asleep, slotOf, usedSlots, target, spurious>>
  BY DEF Exec, Goto
<1>2. Holds(t)
  BY <1>1 DEF Holds
<1>3. PICK j \in Jobs : j = loc[t].job
  BY <1>2 DEF LInv, OnePlace, Sent
<1>4. Fit(t)
  BY DEF LInv, LocalsFit
<1>5. PICK b \in {"drain", "drain_global", "g_pop", "pump", "pump_global"} : b = loc[t].back
  BY <1>1, <1>4 DEF Fit
<1>6. l \in Locals /\ l.q = loc[t].q
  <2>1. loc[t] \in Locals /\ "idle" \in Pcs
    BY DEF LInv, TypeOK, Locals, Pcs
  <2> QED  BY <2>1 DEF Locals
<1> HIDE DEF l
<1>7. Only(t) /\ pc'[t] = b /\ loc'[t] = l
  <2>1. b \in Pcs /\ TypeOK
    BY DEF Pcs, RegisteredRunPc, PlainRunPc, PumpPc, LInv
  <2>2. pc' = [pc EXCEPT ![t] = b] /\ loc' = [loc EXCEPT ![t] = l]
    BY <1>1, <1>5
  <2> QED  BY <1>6, <2>1, <2>2, StepOnly
<1>8. ~(Holds(t)') /\ pc'[t] # "exec"
  BY <1>7 DEF Holds
<1>9. OnePlace' /\ SlotsOwned' /\ Addressed'
  BY <1>1, <1>2, <1>3, <1>7, <1>8, HandsEmptied
<1>10. Where(t)' = b /\ Where(t) = b
  BY <1>1, <1>5, <1>7, <1>8 DEF Where
<1>11. TypeOK'
  <2>1. executed' \in SUBSET Jobs
    BY <1>1, <1>3 DEF LInv, TypeOK
  <2> QED  BY <1>1, <1>7, <2>1 DEF LInv, TypeOK, Only, Locals
<1>12. LocalsFit'
  <2>1. Fit(t)'
    BY <1>1, <1>4, <1>6, <1>7, <1>10 DEF Fit
  <2> QED  BY <1>1, <1>7, <2>1, FitKept DEF LInv
<1>13. Counted'
  <2>1. InRun(t)' <=> InRun(t)
    BY <1>10 DEF InRun
  <2> QED  BY <1>1, <1>7, <2>1, CountKept DEF LInv
<1> QED  BY <1>9, <1>11, <1>12, <1>13 DEF LInv

\* A stopped loop refuses the job; else it goes to the global queue.
LEMMA EnqueueStep == ASSUME LInv, NEW t \in Threads, EnqueueCheck(t) PROVE LInv'
<1>1. /\ pc[t] = "enqueue"
      /\ UNCHANGED <<stopped, runners, queue, asleep, slotOf, usedSlots, executed, spurious>>
  BY DEF EnqueueCheck
<1>2. CASE Goto(t, "enqueue", "push") /\ UNCHANGED <<target, loc>>
  <2>1. Signals
    BY <1>1, SignalsSame DEF LInv
  <2> QED  BY <1>1, <1>2, <2>1, GoesOn DEF Goto
<1>3. CASE Finish(t) /\ target' = [target EXCEPT ![loc[t].job] = NONE]
  <2>1. Holds(t)
    BY <1>1 DEF Holds
  <2>2. PICK j \in Jobs : j = loc[t].job
    BY <2>1 DEF LInv, OnePlace, Sent
  <2>3. Only(t) /\ pc'[t] = "idle" /\ loc'[t] = NoLocals
    BY <1>3, FinishOnly DEF LInv
  <2>4. ~(Holds(t)') /\ pc'[t] # "exec"
    BY <2>3 DEF Holds
  <2>5. OnePlace' /\ SlotsOwned' /\ Addressed' /\ target' \in [Jobs -> Isolates \cup {GLOBAL, NONE}]
    BY <1>1, <1>3, <2>1, <2>2, <2>3, <2>4, HandsEmptied
  <2>6. TypeOK'
    BY <1>1, <2>3, <2>5 DEF LInv, TypeOK, Only, Locals
  <2>7. LocalsFit'
    <3>1. Fit(t)'
      BY <2>3 DEF Fit, Where, RegisteredRunPc
    <3> QED  BY <1>1, <2>3, <3>1, FitKept DEF LInv
  <2>8. Counted'
    <3>1. InRun(t)' <=> InRun(t)
      BY <1>1, <2>3 DEF InRun, Where, RegisteredRunPc, PlainRunPc
    <3> QED  BY <1>1, <2>3, <3>1, CountKept DEF LInv
  <2> QED  BY <2>5, <2>6, <2>7, <2>8 DEF LInv
<1> QED  BY <1>2, <1>3 DEF EnqueueCheck

LEMMA TakesJob ==
    ASSUME TypeOK, NEW t \in Threads, NEW q \in Queues, NEW j \in Jobs, NEW to \in Pcs,
           pc' = [pc EXCEPT ![t] = to], loc' = [loc EXCEPT ![t].q = q, ![t].job = j]
    PROVE  Only(t) /\ pc'[t] = to /\ loc'[t].q = q /\ loc'[t].job = j
<1>1. pc \in [Threads -> Pcs] /\ loc \in [Threads -> Locals]
  BY DEF TypeOK, Locals
<1>2. PICK l \in Locals : l = [loc[t] EXCEPT !.q = q, !.job = j]
  BY <1>1 DEF Locals
<1>3. l.q = q /\ l.job = j
  <2>1. loc[t] \in Locals
    BY <1>1
  <2> QED  BY <1>2, <2>1 DEF Locals
<1>4. loc'[t] = l /\ \A u \in Threads : u # t => loc'[u] = loc[u]
  BY <1>1, <1>2
<1>5. loc' \in [Threads -> Locals]
  <2>1. loc' = [u \in Threads |-> IF u = t THEN l ELSE loc[u]]
    BY <1>1, <1>2
  <2> QED  BY <1>1, <2>1
<1> QED  BY <1>1, <1>3, <1>4, <1>5 DEF Only

\* A thread takes up a job that was never sent, for a queue of its isolate.
LEMMA Sends ==
    ASSUME LInv, NEW t \in Threads, pc[t] = "idle", NEW j \in Jobs, target[j] = NONE,
           NEW to \in {"enqueue", "push"}, NEW q \in Queues, NEW a \in Isolates \cup {GLOBAL},
           \/ to = "enqueue" /\ q = GLOBAL /\ a = GLOBAL
           \/ to = "push" /\ a \in Isolates /\ q = slotOf[a] /\ slotOf[a] # NONE,
           Only(t), pc'[t] = to, loc'[t].q = q, loc'[t].job = j, target' = [target EXCEPT ![j] = a],
           UNCHANGED <<stopped, runners, queue, asleep, slotOf, usedSlots, executed, spurious>>
    PROVE  LInv'
<1>1. /\ \A u \in Threads : u # t => (Holds(u)' <=> Holds(u)) /\ loc'[u] = loc[u] /\ pc'[u] = pc[u]
      /\ Holds(t)' /\ ~Holds(t) /\ pc'[t] # "exec"
  BY DEF Only, Holds
<1>2. /\ \A u \in Threads : Holds(u) => loc[u].job # j
      /\ \A r \in Queues : \A n \in 1 .. Len(queue[r]) : queue[r][n] # j
      /\ j \notin executed
  BY Nowhere DEF LInv
<1>3. /\ target' \in [Jobs -> Isolates \cup {GLOBAL, NONE}] /\ target'[j] = a /\ a # NONE
      /\ \A k \in Jobs : k # j => target'[k] = target[k]
  <2>1. target \in [Jobs -> Isolates \cup {GLOBAL, NONE}]
    BY DEF LInv, TypeOK
  <2> QED  BY <2>1, LoopAssumption
<1>4. Sent(j)' /\ \A k : k # j => (Sent(k)' <=> Sent(k))
  BY <1>2, <1>3 DEF Sent
<1>5. TypeOK'
  BY <1>3 DEF LInv, TypeOK, Only, Locals
<1>6. LocalsFit'
  <2>1. Fit(t)'
    BY DEF Fit, Where, RegisteredRunPc
  <2> QED  BY <2>1, FitKept DEF LInv
<1>7. Counted'
  <2>1. InRun(t)' <=> InRun(t)
    BY DEF InRun, Where, RegisteredRunPc, PlainRunPc
  <2> QED  BY <2>1, CountKept DEF LInv
<1>8. OnePlace'
  <2>1. \A k, u : u \in Threads /\ Holds(u)' /\ k = loc'[u].job => Sent(k)'
    BY <1>1, <1>2, <1>4 DEF LInv, OnePlace
  <2>2. \A u, v \in Threads : Holds(u)' /\ Holds(v)' /\ loc'[u].job = loc'[v].job => u = v
    BY <1>1, <1>2 DEF LInv, OnePlace
  <2>3. ASSUME NEW r \in Queues, NEW n \in 1 .. Len(queue[r])
        PROVE  /\ Sent(queue[r][n])' /\ \A u \in Threads : Holds(u)' => loc'[u].job # queue[r][n]
               /\ \A s \in Queues : \A m \in 1 .. Len(queue[s]) : queue[r][n] = queue[s][m] => r = s /\ n = m
    <3>1. /\ Sent(queue[r][n]) /\ \A u \in Threads : Holds(u) => loc[u].job # queue[r][n]
          /\ \A s \in Queues : \A m \in 1 .. Len(queue[s]) : queue[r][n] = queue[s][m] => r = s /\ n = m
      BY DEF LInv, OnePlace
    <3> QED  BY <1>1, <1>2, <1>4, <3>1
  <2>4. \A k \in executed : k \in Jobs /\ target[k] # NONE /\ k # j
    BY <1>2 DEF LInv, OnePlace, TypeOK
  <2>5. \A k \in executed' : target'[k] # NONE
    BY <1>3, <2>4
  <2>6. ASSUME NEW k \in Jobs, target'[k] # NONE
        PROVE  \/ k \in executed'
               \/ \E u \in Threads : Holds(u)' /\ loc'[u].job = k
               \/ \E r \in Queues : \E n \in 1 .. Len(queue[r]) : queue[r][n] = k
    <3>1. CASE k = j
      BY <1>1, <3>1
    <3>2. CASE k # j
      <4>1. \/ k \in executed
            \/ \E u \in Threads : Holds(u) /\ loc[u].job = k
            \/ \E r \in Queues : \E n \in 1 .. Len(queue[r]) : queue[r][n] = k
        BY <1>3, <2>6, <3>2 DEF LInv, OnePlace
      <4>2. ASSUME NEW u \in Threads, Holds(u), loc[u].job = k PROVE Holds(u)' /\ loc'[u].job = k
        BY <1>1, <4>2
      <4> QED  BY <4>1, <4>2
    <3> QED  BY <3>1, <3>2
  <2> QED  BY <2>1, <2>2, <2>3, <2>5, <2>6 DEF OnePlace
<1>9. SlotsOwned'
  <2>1. \A u \in Threads : pc'[u] = "push" => u = t \/ (pc[u] = "push" /\ loc'[u] = loc[u])
    BY <1>1
  <2>2. to = "push" => q \in usedSlots
    BY DEF LInv, SlotsOwned
  <2> QED  BY <2>1, <2>2 DEF LInv, SlotsOwned
<1>10. Addressed'
  <2>1. /\ \A n \in 1 .. Len(queue[GLOBAL]) : target[queue[GLOBAL][n]] = GLOBAL
        /\ \A i \in Isolates : slotOf[i] # NONE =>
             \A n \in 1 .. Len(queue[slotOf[i]]) : target[queue[slotOf[i]][n]] = i
        /\ \A u \in Threads : pc[u] \in {"enqueue", "push"} /\ loc[u].q = GLOBAL => target[loc[u].job] = GLOBAL
        /\ \A u \in Threads, i \in Isolates : pc[u] = "push" /\ loc[u].q = slotOf[i] => target[loc[u].job] = i
        /\ \A u \in Threads : pc[u] = "exec" => target[loc[u].job] \in {GLOBAL, u}
    BY DEF LInv, Addressed
  <2>2. \A r \in Queues : \A n \in 1 .. Len(queue[r]) : target'[queue[r][n]] = target[queue[r][n]]
    <3>1. \A r \in Queues : \A n \in 1 .. Len(queue[r]) : queue[r][n] \in Jobs /\ queue[r][n] # j
      BY <1>2 DEF LInv, OnePlace, Sent
    <3> QED  BY <1>3, <3>1
  <2>3. \A u \in Threads : u # t /\ pc'[u] \in {"enqueue", "push", "exec"} =>
          pc'[u] = pc[u] /\ loc'[u] = loc[u] /\ target'[loc[u].job] = target[loc[u].job]
    <3>1. \A u \in Threads : Holds(u) => loc[u].job \in Jobs /\ loc[u].job # j
      BY <1>2 DEF LInv, OnePlace, Sent
    <3> QED  BY <1>1, <1>3, <3>1 DEF Holds
  <2>4. GLOBAL \in Queues /\ \A i \in Isolates : slotOf[i] # NONE => slotOf[i] \in Queues
    BY DEF LInv, TypeOK, Queues
  <2>5. \A n \in 1 .. Len(queue'[GLOBAL]) : target'[queue'[GLOBAL][n]] = GLOBAL
    BY <2>1, <2>2, <2>4
  <2>6. \A i \in Isolates : slotOf'[i] # NONE =>
          \A n \in 1 .. Len(queue'[slotOf'[i]]) : target'[queue'[slotOf'[i]][n]] = i
    <3> SUFFICES ASSUME NEW i \in Isolates, slotOf[i] # NONE
                 PROVE  \A n \in 1 .. Len(queue[slotOf[i]]) : target'[queue[slotOf[i]][n]] = i
      OBVIOUS
    <3>1. PICK c \in Queues : c = slotOf[i]
      BY <2>4
    <3>2. \A n \in 1 .. Len(queue[c]) : target[queue[c][n]] = i
      BY <2>1, <3>1
    <3> QED  BY <2>2, <3>1, <3>2
  <2>7. /\ pc'[t] \in {"enqueue", "push"} /\ loc'[t].q = GLOBAL => target'[loc'[t].job] = GLOBAL
        /\ \A i \in Isolates : pc'[t] = "push" /\ loc'[t].q = slotOf'[i] => target'[loc'[t].job] = i
        /\ pc'[t] # "exec"
    <3>1. to = "push" => q # GLOBAL /\ \A i \in Isolates : q = slotOf[i] => i = a
      BY LoopAssumption DEF LInv, TypeOK, SlotsOwned
    <3>2. pc'[t] = to /\ loc'[t].q = q /\ target'[loc'[t].job] = a /\ slotOf' = slotOf
      BY <1>3
    <3> QED  BY <3>1, <3>2
  <2>8. /\ \A u \in Threads : pc'[u] \in {"enqueue", "push"} /\ loc'[u].q = GLOBAL => target'[loc'[u].job] = GLOBAL
        /\ \A u \in Threads, i \in Isolates : pc'[u] = "push" /\ loc'[u].q = slotOf'[i] => target'[loc'[u].job] = i
        /\ \A u \in Threads : pc'[u] = "exec" => target'[loc'[u].job] \in {GLOBAL, u}
    BY <2>1, <2>3, <2>7
  <2> QED  BY <2>5, <2>6, <2>8 DEF Addressed
<1> QED  BY <1>5, <1>6, <1>7, <1>8, <1>9, <1>10 DEF LInv

LEMMA SendStep ==
    ASSUME LInv, NEW t \in Threads, CallEnqueue(t) \/ CallMarshal(t) \/ CallEnqueueTo(t)
    PROVE  LInv'
<1>1. GLOBAL \in Queues /\ \A i \in Isolates : slotOf[i] # NONE => slotOf[i] \in Queues
  BY DEF LInv, TypeOK, Queues
<1>2. CASE CallEnqueue(t)
  <2>1. PICK j \in Jobs : target[j] = NONE /\ target' = [target EXCEPT ![j] = GLOBAL]
                          /\ loc' = [loc EXCEPT ![t].q = GLOBAL, ![t].job = j]
    BY <1>2 DEF CallEnqueue
  <2>2. /\ pc[t] = "idle" /\ pc' = [pc EXCEPT ![t] = "enqueue"]
        /\ UNCHANGED <<stopped, runners, queue, asleep, slotOf, usedSlots, executed, spurious>>
    BY <1>2 DEF CallEnqueue, Goto
  <2>3. Only(t) /\ pc'[t] = "enqueue" /\ loc'[t].q = GLOBAL /\ loc'[t].job = j
    <3>1. "enqueue" \in Pcs
      BY DEF Pcs, SendPc
    <3> QED  BY <1>1, <2>1, <2>2, <3>1, TakesJob DEF LInv
  <2> QED  BY <1>1, <2>1, <2>2, <2>3, Sends
<1>3. CASE CallEnqueueTo(t)
  <2>1. PICK i \in Isolates, j \in Jobs :
           /\ target[j] = NONE /\ slotOf[i] # NONE /\ target' = [target EXCEPT ![j] = i]
           /\ loc' = [loc EXCEPT ![t].q = slotOf[i], ![t].job = j]
    BY <1>3 DEF CallEnqueueTo
  <2>2. /\ pc[t] = "idle" /\ pc' = [pc EXCEPT ![t] = "push"]
        /\ UNCHANGED <<stopped, runners, queue, asleep, slotOf, usedSlots, executed, spurious>>
    BY <1>3 DEF CallEnqueueTo, Goto
  <2>3. PICK q \in Queues : q = slotOf[i]
    BY <1>1, <2>1
  <2>4. Only(t) /\ pc'[t] = "push" /\ loc'[t].q = q /\ loc'[t].job = j
    <3>1. "push" \in Pcs
      BY DEF Pcs, SendPc
    <3>2. loc' = [loc EXCEPT ![t].q = q, ![t].job = j] /\ TypeOK
      BY <2>1, <2>3 DEF LInv
    <3> QED  BY <2>2, <3>1, <3>2, TakesJob
  <2> QED  BY <2>1, <2>2, <2>3, <2>4, Sends
<1> QED  BY <1>2, <1>3 DEF CallMarshal

\* A thread registers with a fresh slot, or gives its slot up; no call of its own is under way.
LEMMA RegistrationStep == ASSUME LInv, NEW t \in Threads, Register(t) \/ Gone(t) PROVE LInv'
<1>1. /\ t \in Isolates /\ pc[t] = "idle"
      /\ UNCHANGED <<stopped, runners, queue, asleep, target, executed, pc, loc, spurious>>
  BY DEF Register, Gone
<1>2. \/ \E s \in SlotIds \ usedSlots : slotOf' = [slotOf EXCEPT ![t] = s] /\ usedSlots' = usedSlots \cup {s}
      \/ slotOf' = [slotOf EXCEPT ![t] = NONE] /\ usedSlots' = usedSlots
  BY DEF Register, Gone
<1>3. PICK s \in (SlotIds \ usedSlots) \cup {NONE} :
         slotOf' = [slotOf EXCEPT ![t] = s] /\ usedSlots' = usedSlots \cup ({s} \ {NONE})
  BY <1>2, LoopAssumption
<1>4. slotOf \in [Isolates -> SlotIds \cup {NONE}] /\ usedSlots \in SUBSET SlotIds
  BY DEF LInv, TypeOK
<1>5. /\ slotOf' \in [Isolates -> SlotIds \cup {NONE}] /\ usedSlots' \in SUBSET SlotIds
      /\ slotOf'[t] = s /\ \A i \in Isolates : i # t => slotOf'[i] = slotOf[i]
  BY <1>1, <1>3, <1>4
<1>6. TypeOK'
  BY <1>1, <1>5 DEF LInv, TypeOK
<1>7. Only(t)
  BY <1>1 DEF LInv, TypeOK, Only, Locals
<1>8. LocalsFit'
  <2>1. Fit(t)'
    BY <1>1 DEF Fit, Where, RegisteredRunPc
  <2> QED  BY <1>5, <1>7, <2>1, FitKept DEF LInv
<1>9. Counted'
  <2>1. InRun(t)' <=> InRun(t)
    BY <1>1 DEF InRun, Where
  <2> QED  BY <1>1, <1>7, <2>1, CountKept DEF LInv
<1>10. OnePlace'
  BY <1>1 DEF LInv, OnePlace, Holds, Sent
<1>11. SlotsOwned'
  <2>1. \A i \in Isolates : slotOf'[i] # NONE => slotOf'[i] \in usedSlots'
    BY <1>3, <1>5 DEF LInv, SlotsOwned
  <2>2. \A i, k \in Isolates : slotOf'[i] = slotOf'[k] /\ slotOf'[i] # NONE => i = k
    BY <1>3, <1>5 DEF LInv, SlotsOwned
  <2> QED  BY <1>1, <1>3, <2>1, <2>2 DEF LInv, SlotsOwned
<1>12. Addressed'
  <2>1. \A i \in Isolates : slotOf'[i] # NONE =>
          \A n \in 1 .. Len(queue[slotOf'[i]]) : target[queue[slotOf'[i]][n]] = i
    <3> SUFFICES ASSUME NEW i \in Isolates, slotOf'[i] # NONE, i = t
                 PROVE  \A n \in 1 .. Len(queue[slotOf'[i]]) : target[queue[slotOf'[i]][n]] = i
      BY <1>5 DEF LInv, Addressed
    <3>1. s \in SlotIds \ usedSlots /\ queue[slotOf'[i]] = queue[s]
      BY <1>3, <1>5
    <3>2. queue[s] = <<>>
      BY <3>1 DEF LInv, SlotsOwned
    <3> QED  BY <3>1, <3>2
  <2>2. \A u \in Threads, i \in Isolates : pc[u] = "push" /\ loc[u].q = slotOf'[i] => target[loc[u].job] = i
    <3> SUFFICES ASSUME NEW u \in Threads, pc[u] = "push" PROVE loc[u].q # s
      BY <1>5 DEF LInv, Addressed
    <3>1. loc[u].q \in usedSlots \cup {GLOBAL}
      BY DEF LInv, SlotsOwned
    <3> QED  BY <1>4, <3>1, LoopAssumption
  <2> QED  BY <1>1, <2>1, <2>2 DEF LInv, Addressed
<1> QED  BY <1>6, <1>8, <1>9, <1>10, <1>11, <1>12 DEF LInv

\* Nothing but the condition variables changes.
LEMMA WakeStep == ASSUME LInv, NEW t \in Threads, SpuriousWake(t) PROVE LInv'
<1>1. /\ UNCHANGED <<stopped, runners, queue, slotOf, usedSlots, target, executed, pc, loc>>
      /\ spurious < MaxSpurious /\ spurious' = spurious + 1
      /\ asleep' = [q \in Queues |-> asleep[q] \ {t}]
  BY DEF SpuriousWake
<1>2. TypeOK'
  <2>1. spurious' \in 0 .. MaxSpurious
    BY <1>1, LoopAssumption DEF LInv, TypeOK
  <2>2. asleep' \in [Queues -> SUBSET Threads]
    BY <1>1 DEF LInv, TypeOK
  <2> QED  BY <1>1, <2>1, <2>2 DEF LInv, TypeOK
<1>3. LocalsFit'
  BY <1>1 DEF LInv, LocalsFit, Fit, Where, OwnSlot
<1>4. Counted'
  <2>1. InsideRun' = InsideRun
    BY <1>1 DEF InsideRun, InRun, Where
  <2> QED  BY <1>1, <2>1 DEF LInv, Counted
<1>5. OnePlace' /\ SlotsOwned' /\ Addressed'
  BY <1>1 DEF LInv, OnePlace, Holds, Sent, SlotsOwned, Addressed
<1> QED  BY <1>2, <1>3, <1>4, <1>5 DEF LInv

-----------------------------------------------------------------------------
(* The invariant *)

LEMMA InitLInv == Init => LInv
<1> SUFFICES ASSUME Init PROVE LInv
  OBVIOUS
<1>1. /\ stopped = FALSE /\ runners = 0 /\ usedSlots = {} /\ executed = {} /\ spurious = 0
      /\ queue = [q \in Queues |-> <<>>] /\ asleep = [q \in Queues |-> {}]
      /\ slotOf = [i \in Isolates |-> NONE] /\ target = [j \in Jobs |-> NONE]
      /\ pc = [t \in Threads |-> "idle"] /\ loc = [t \in Threads |-> NoLocals]
  BY DEF Init
<1>2. NoLocals \in Locals /\ "idle" \in Pcs
  BY DEF NoLocals, Locals, Pcs
<1>3. TypeOK
  <2>1. queue \in [Queues -> Seq(Jobs)]
    BY <1>1
  <2>2. pc \in [Threads -> Pcs] /\ loc \in [Threads -> Locals]
    BY <1>1, <1>2
  <2>3. spurious \in 0 .. MaxSpurious
    BY <1>1, LoopAssumption
  <2> QED  BY <1>1, <2>1, <2>2, <2>3 DEF TypeOK, Locals
<1>4. LocalsFit
  BY <1>1 DEF LocalsFit, Fit, Where, RegisteredRunPc
<1>5. Counted
  <2>1. InsideRun = {}
    BY <1>1 DEF InsideRun, InRun, Where, RegisteredRunPc, PlainRunPc
  <2> QED  BY <1>1, <2>1, FS_EmptySet DEF Counted
<1>6. \A q \in Queues : Len(queue[q]) = 0 /\ queue[q] = <<>>
  BY <1>1
<1>7. OnePlace
  BY <1>1, <1>6 DEF OnePlace, Holds
<1>8. SlotsOwned
  BY <1>1 DEF SlotsOwned, Queues
<1>9. Addressed
  BY <1>1, <1>6 DEF Addressed, Queues
<1> QED  BY <1>3, <1>4, <1>5, <1>7, <1>8, <1>9 DEF LInv

LEMMA NextLInv == LInv /\ [Next]_vars => LInv'
<1> SUFFICES ASSUME LInv, [Next]_vars PROVE LInv'
  OBVIOUS
<1>1. CASE UNCHANGED vars
  <2>1. /\ UNCHANGED <<stopped, runners, queue, asleep, slotOf, usedSlots>>
        /\ UNCHANGED <<target, executed, pc, loc, spurious>>
    BY <1>1 DEF vars
  <2>2. InsideRun' = InsideRun
    BY <2>1 DEF InsideRun, InRun, Where
  <2>3. TypeOK' /\ Counted'
    BY <2>1, <2>2 DEF LInv, TypeOK, Counted
  <2>4. LocalsFit'
    BY <2>1 DEF LInv, LocalsFit, Fit, Where, OwnSlot
  <2>5. OnePlace' /\ SlotsOwned' /\ Addressed'
    BY <2>1 DEF LInv, OnePlace, Holds, Sent, SlotsOwned, Addressed
  <2> QED  BY <2>3, <2>4, <2>5 DEF LInv
<1>2. ASSUME NEW t \in Threads, Caller(t) PROVE LInv'
  BY <1>2, RegistrationStep, SendStep, CallStep, RunStep DEF Caller
<1>3. ASSUME NEW t \in Threads, Step(t) PROVE LInv'
  <2>1. CASE EnqueueCheck(t) \/ Push(t) \/ Notify(t) \/ NotifySlots(t)
    BY <2>1, EnqueueStep, PushStep, NotifyStep
  <2>2. CASE RunCount(t) \/ RunPrimary(t) \/ RunExit(t) \/ Exec(t)
    BY <2>2, RunCountStep, PrimaryStep, RunExitStep, ExecStep
  <2>3. CASE RunDrain(t) \/ RunDrainGlobal(t) \/ PlainPop(t) \/ PumpDrain(t) \/ PumpDrainGlobal(t)
    BY <2>3, PopStep
  <2>4. CASE \/ RunStopCheck(t) \/ RunLock(t) \/ RunRecheckGlobal(t) \/ RunSleep(t)
             \/ PlainStopCheck(t) \/ PlainSleep(t) \/ WakeUp(t)
    BY <2>4, RunStep
  <2>5. CASE StopGlobal(t) \/ StopSlots(t)
    BY <2>5, StopStep
  <2> QED  BY <1>3, <2>1, <2>2, <2>3, <2>4, <2>5 DEF Step
<1>4. CASE Next
  BY <1>2, <1>3, <1>4, WakeStep DEF Next
<1> QED  BY <1>1, <1>4

LEMMA Invariance == Spec => []LInv
<1> QED  BY InitLInv, NextLInv, PTL DEF Spec

-----------------------------------------------------------------------------
(* The theorems *)

\* Every variable keeps its type: RUNNERS never goes below zero, and a thread
\* that drains a slot queue has one.
THEOREM TypeCorrect == Spec => []TypeOK
<1>1. LInv => TypeOK
  BY DEF LInv
<1> QED  BY <1>1, Invariance, PTL

\* "A job never crosses an isolate boundary": a targeted job runs on the thread
\* it was sent to, through every re-registration, pump and concurrent run.
THEOREM IsolatesKeepTheirJobs == Spec => []IsolateBoundary
<1>1. LInv => IsolateBoundary
  BY DEF LInv, Addressed, IsolateBoundary
<1> QED  BY <1>1, Invariance, PTL

\* A job is in one place at most, and in one if it was sent.
LEMMA PlaceIsUnique ==
    ASSUME LInv, NEW j \in Jobs
    PROVE  Cardinality(PlacesOf(j)) = IF target[j] = NONE THEN 0 ELSE 1
<1> DEFINE InQueues == UNION {{q} \X {n \in DOMAIN queue[q] : queue[q][n] = j} : q \in Queues}
           InHands == {<<t, 0>> : t \in {u \in Threads :
                          loc[u].job = j /\ pc[u] \in {"enqueue", "push", "exec"}}}
           Done == {<<"executed", 0>> : x \in executed \cap {j}}
<1>1. PlacesOf(j) = InQueues \cup InHands \cup Done
  BY DEF PlacesOf
<1>2. \A p : p \in InQueues <=>
         \E q \in Queues : \E n \in 1 .. Len(queue[q]) : queue[q][n] = j /\ p = <<q, n>>
  <2>1. \A q \in Queues : DOMAIN queue[q] = 1 .. Len(queue[q])
    BY DEF LInv, TypeOK
  <2>2. ASSUME NEW p, p \in InQueues
        PROVE  \E q \in Queues : \E n \in 1 .. Len(queue[q]) : queue[q][n] = j /\ p = <<q, n>>
    <3>1. PICK q \in Queues : p \in {q} \X {n \in DOMAIN queue[q] : queue[q][n] = j}
      BY <2>2
    <3>2. PICK n \in {n \in DOMAIN queue[q] : queue[q][n] = j} : p = <<q, n>>
      BY <3>1
    <3> QED  BY <2>1, <3>2
  <2>3. ASSUME NEW p, NEW q \in Queues, NEW n \in 1 .. Len(queue[q]), queue[q][n] = j, p = <<q, n>>
        PROVE  p \in InQueues
    <3>1. p \in {q} \X {m \in DOMAIN queue[q] : queue[q][m] = j}
      BY <2>1, <2>3
    <3> QED  BY <3>1
  <2> HIDE DEF InQueues
  <2> QED  BY <2>2, <2>3
<1>3. \A p : p \in InHands <=> \E t \in Threads : Holds(t) /\ loc[t].job = j /\ p = <<t, 0>>
  BY DEF Holds
<1>4. \A p : p \in Done <=> j \in executed /\ p = <<"executed", 0>>
  OBVIOUS
<1> HIDE DEF InQueues, InHands, Done
<1>5. ASSUME target[j] = NONE PROVE PlacesOf(j) = {}
  <2>1. /\ \A t \in Threads : Holds(t) => loc[t].job # j
        /\ \A q \in Queues : \A n \in 1 .. Len(queue[q]) : queue[q][n] # j
        /\ j \notin executed
    BY <1>5, Nowhere DEF LInv
  <2> QED  BY <1>1, <1>2, <1>3, <1>4, <2>1
<1>6. ASSUME j \in executed PROVE PlacesOf(j) = {<<"executed", 0>>}
  <2>1. /\ \A t \in Threads : Holds(t) => loc[t].job # j
        /\ \A q \in Queues : \A n \in 1 .. Len(queue[q]) : queue[q][n] # j
    BY <1>6 DEF LInv, OnePlace, Sent
  <2>2. \A p : p \notin InQueues /\ p \notin InHands
    BY <1>2, <1>3, <2>1
  <2> QED  BY <1>1, <1>4, <1>6, <2>2
<1>7. ASSUME NEW t \in Threads, Holds(t), loc[t].job = j PROVE PlacesOf(j) = {<<t, 0>>}
  <2>1. /\ \A u \in Threads : Holds(u) /\ loc[u].job = j => u = t
        /\ \A q \in Queues : \A n \in 1 .. Len(queue[q]) : queue[q][n] # j
        /\ j \notin executed
    BY <1>7 DEF LInv, OnePlace, Sent
  <2>2. \A p : p \notin InQueues /\ p \notin Done
    BY <1>2, <1>4, <2>1
  <2>3. \A p : p \in InHands <=> p = <<t, 0>>
    BY <1>3, <1>7, <2>1
  <2> QED  BY <1>1, <2>2, <2>3
<1>8. ASSUME NEW q \in Queues, NEW n \in 1 .. Len(queue[q]), queue[q][n] = j PROVE PlacesOf(j) = {<<q, n>>}
  <2>1. /\ \A u \in Threads : Holds(u) => loc[u].job # j
        /\ \A r \in Queues : \A m \in 1 .. Len(queue[r]) : queue[r][m] = j => r = q /\ m = n
        /\ j \notin executed
    BY <1>8 DEF LInv, OnePlace, Sent
  <2>2. \A p : p \notin InHands /\ p \notin Done
    BY <1>3, <1>4, <2>1
  <2>3. \A p : p \in InQueues <=> p = <<q, n>>
    BY <1>2, <1>8, <2>1
  <2> QED  BY <1>1, <2>2, <2>3
<1>9. CASE target[j] = NONE
  BY <1>5, <1>9, FS_EmptySet
<1>10. CASE target[j] # NONE
  <2>1. \A x : Cardinality({x}) = 1
    BY FS_Singleton
  <2>2. \E x : PlacesOf(j) = {x}
    BY <1>6, <1>7, <1>8, <1>10 DEF LInv, OnePlace
  <2> QED  BY <1>10, <2>1, <2>2
<1> QED  BY <1>9, <1>10

\* No job is lost, duplicated or run twice, whatever runners, pumps, stops and
\* registrations do meanwhile ("every job executes exactly once", pump).
THEOREM OneJobOnePlace == Spec => []JobInOnePlace
<1>1. LInv => JobInOnePlace
  BY PlaceIsUnique DEF JobInOnePlace
<1> QED  BY <1>1, Invariance, PTL

-----------------------------------------------------------------------------
(* The queues as mailboxes *)

\* Not even a retired slot queue receives a job that was sent to everybody.
SlotSends == \A t \in Threads : pc[t] = "push" /\ loc[t].q # GLOBAL => target[loc[t].job] \in Isolates

\* The other threads go on where they were.
LEMMA OthersKept ==
    ASSUME TypeOK, NEW t \in Threads, Caller(t) \/ Step(t)
    PROVE  \A u \in Threads : u # t => pc'[u] = pc[u] /\ loc'[u] = loc[u]
<1>1. pc \in [Threads -> Pcs] /\ loc \in [Threads -> Locals]
  BY DEF TypeOK, Locals
<1> USE DEF Goto, Finish
<1>2. CASE Register(t) \/ Gone(t)
  BY <1>1, <1>2 DEF Register, Gone
<1>3. CASE CallEnqueue(t) \/ CallMarshal(t)
  BY <1>1, <1>3 DEF CallEnqueue, CallMarshal
<1>4. CASE CallEnqueueTo(t)
  BY <1>1, <1>4 DEF CallEnqueueTo
<1>5. CASE CallRun(t) \/ CallPump(t) \/ CallStop(t)
  BY <1>1, <1>5 DEF CallRun, CallPump, CallStop
<1>6. CASE EnqueueCheck(t) \/ Push(t) \/ Notify(t) \/ NotifySlots(t)
  BY <1>1, <1>6 DEF EnqueueCheck, Push, Notify, NotifySlots
<1>7. CASE RunCount(t) \/ RunPrimary(t) \/ RunExit(t) \/ Exec(t)
  BY <1>1, <1>7 DEF RunCount, RunPrimary, RunExit, Exec
<1>8. CASE RunDrain(t) \/ RunDrainGlobal(t) \/ PlainPop(t) \/ PumpDrain(t) \/ PumpDrainGlobal(t)
  BY <1>1, <1>8 DEF RunDrain, RunDrainGlobal, PlainPop, PumpDrain, PumpDrainGlobal, PopFrom
<1>9. CASE RunStopCheck(t) \/ RunLock(t) \/ RunRecheckGlobal(t) \/ RunSleep(t)
           \/ PlainStopCheck(t) \/ PlainSleep(t) \/ WakeUp(t)
  BY <1>1, <1>9 DEF RunStopCheck, RunLock, RunRecheckGlobal, RunSleep, PlainStopCheck, PlainSleep,
                    WakeUp, SleepOn
<1>10. CASE StopGlobal(t) \/ StopSlots(t)
  BY <1>1, <1>10 DEF StopGlobal, StopSlots
<1> QED  BY <1>2, <1>3, <1>4, <1>5, <1>6, <1>7, <1>8, <1>9, <1>10 DEF Caller, Step

\* The steps that neither send, take nor complete a job, and do not register.
Aside(t) ==
    \/ CallRun(t) \/ CallPump(t) \/ CallStop(t)
    \/ Notify(t) \/ NotifySlots(t) \/ RunCount(t) \/ RunPrimary(t) \/ RunExit(t)
    \/ RunStopCheck(t) \/ RunLock(t) \/ RunRecheckGlobal(t) \/ RunSleep(t)
    \/ PlainStopCheck(t) \/ PlainSleep(t) \/ WakeUp(t) \/ StopGlobal(t) \/ StopSlots(t)

LEMMA AsideKeeps ==
    ASSUME TypeOK, NEW t \in Threads, Aside(t)
    PROVE  /\ ~Holds(t) /\ ~(Holds(t)')
           /\ UNCHANGED <<queue, slotOf, usedSlots, target, executed>>
<1>1. pc \in [Threads -> Pcs]
  BY DEF TypeOK
<1> USE DEF Goto, Finish, Holds
<1>2. CASE CallRun(t) \/ CallPump(t) \/ CallStop(t)
  BY <1>1, <1>2 DEF CallRun, CallPump, CallStop
<1>3. CASE Notify(t) \/ NotifySlots(t)
  BY <1>1, <1>3 DEF Notify, NotifySlots
<1>4. CASE RunCount(t) \/ RunPrimary(t) \/ RunExit(t)
  BY <1>1, <1>4 DEF RunCount, RunPrimary, RunExit
<1>5. CASE RunStopCheck(t) \/ RunLock(t) \/ RunRecheckGlobal(t) \/ RunSleep(t)
           \/ PlainStopCheck(t) \/ PlainSleep(t) \/ WakeUp(t)
  BY <1>1, <1>5 DEF RunStopCheck, RunLock, RunRecheckGlobal, RunSleep, PlainStopCheck, PlainSleep,
                    WakeUp, SleepOn
<1>6. CASE StopGlobal(t) \/ StopSlots(t)
  BY <1>1, <1>6 DEF StopGlobal, StopSlots
<1> QED  BY <1>2, <1>3, <1>4, <1>5, <1>6 DEF Aside

\* A job in a sender's hands has no address yet, any other has its target.
LEMMA AddressIs ==
    ASSUME NEW j
    PROVE  /\ \A t \in Threads : Unsent(t) /\ loc[t].job = j => AddressOf(j) = NONE
           /\ target[j] = NONE => AddressOf(j) = NONE
           /\ (\A t \in Threads : Unsent(t) => loc[t].job # j) => AddressOf(j) = target[j]
  BY DEF AddressOf

\* The jobs of the other threads are where they were.
LEMMA AddressKept ==
    ASSUME NEW t \in Threads, \A u \in Threads : u # t => pc'[u] = pc[u] /\ loc'[u] = loc[u],
           NEW j, target'[j] = target[j],
           (Unsent(t) /\ loc[t].job = j) <=> (Unsent(t)' /\ loc'[t].job = j)
    PROVE  AddressOf(j)' = AddressOf(j)
<1>1. \A u \in Threads : (Unsent(u) /\ loc[u].job = j) <=> (Unsent(u)' /\ loc'[u].job = j)
  BY DEF Unsent
<1>2. (\E u \in Threads : Unsent(u) /\ loc[u].job = j) <=> (\E u \in Threads : Unsent(u)' /\ loc'[u].job = j)
  BY <1>1
<1> QED  BY <1>2 DEF AddressOf

SameBoxes == /\ \A b \in Isolates \cup {GLOBAL} : BoxOf(b)' = BoxOf(b)
             /\ UNCHANGED <<Registered, RetiredSlots, LostJobs>>

LEMMA SameQueues == ASSUME UNCHANGED <<queue, slotOf, usedSlots>> PROVE SameBoxes
  BY DEF SameBoxes, BoxOf, Registered, RetiredSlots, LostJobs, RegisteredSlots

LEMMA LoopStutters ==
    ASSUME \A j \in Jobs : AddressOf(j)' = AddressOf(j), \A t \in Threads : HandOf(t)' = HandOf(t),
           SameBoxes, UNCHANGED executed
    PROVE  UNCHANGED Loop!vars
  BY DEF SameBoxes, Loop!vars

LEMMA AsideMaps == ASSUME LInv, NEW t \in Threads, Aside(t) PROVE UNCHANGED Loop!vars
<1>1. Caller(t) \/ Step(t)
  BY DEF Aside, Caller, Step
<1>2. \A u \in Threads : u # t => pc'[u] = pc[u] /\ loc'[u] = loc[u]
  BY <1>1, OthersKept DEF LInv
<1>3. ~Holds(t) /\ ~(Holds(t)') /\ UNCHANGED <<queue, slotOf, usedSlots, target, executed>>
  BY AsideKeeps DEF LInv
<1>4. \A j \in Jobs : AddressOf(j)' = AddressOf(j)
  <2>1. ~Unsent(t) /\ ~(Unsent(t)')
    BY <1>3 DEF Unsent, Holds
  <2> QED  BY <1>2, <1>3, <2>1, AddressKept
<1>5. \A u \in Threads : HandOf(u)' = HandOf(u)
  BY <1>2, <1>3 DEF HandOf, Holds
<1> QED  BY <1>3, <1>4, <1>5, SameQueues, LoopStutters

\* A call takes up a job, or gives it back: nobody has been told of it.
LEMMA TakeUpMaps ==
    ASSUME LInv, NEW t \in Threads, pc[t] = "idle", pc'[t] \in {"enqueue", "push"}, Caller(t),
           NEW j \in Jobs, NEW a, target[j] = NONE, target' = [target EXCEPT ![j] = a], loc'[t].job = j,
           UNCHANGED <<queue, slotOf, usedSlots, executed>>
    PROVE  UNCHANGED Loop!vars
<1>1. \A u \in Threads : u # t => pc'[u] = pc[u] /\ loc'[u] = loc[u]
  BY OthersKept DEF LInv
<1>2. ~Unsent(t) /\ Unsent(t)'
  BY DEF Unsent
<1>3. ASSUME NEW k \in Jobs PROVE AddressOf(k)' = AddressOf(k)
  <2>1. CASE k = j
    <3>1. AddressOf(j) = NONE
      BY AddressIs
    <3>2. AddressOf(j)' = NONE
      BY <1>2 DEF AddressOf
    <3> QED  BY <2>1, <3>1, <3>2
  <2>2. CASE k # j
    <3>1. target'[k] = target[k]
      BY <2>2 DEF LInv, TypeOK
    <3> QED  BY <1>1, <1>2, <2>2, <3>1, AddressKept
  <2> QED  BY <2>1, <2>2
<1>4. \A u \in Threads : HandOf(u)' = HandOf(u)
  BY <1>1 DEF HandOf
<1> QED  BY <1>3, <1>4, SameQueues, LoopStutters

LEMMA EnqueueMaps ==
    ASSUME LInv, NEW t \in Threads, CallEnqueue(t) \/ CallMarshal(t) \/ CallEnqueueTo(t)
    PROVE  UNCHANGED Loop!vars
<1>1. pc \in [Threads -> Pcs] /\ loc \in [Threads -> Locals]
  BY DEF LInv, TypeOK, Locals
<1>2. CASE CallEnqueue(t) \/ CallMarshal(t)
  <2>1. CallEnqueue(t)
    BY <1>2 DEF CallMarshal
  <2>2. PICK j \in Jobs : /\ target[j] = NONE /\ target' = [target EXCEPT ![j] = GLOBAL]
                          /\ loc' = [loc EXCEPT ![t].q = GLOBAL, ![t].job = j]
    BY <2>1 DEF CallEnqueue
  <2>3. loc'[t].job = j
    BY <1>1, <2>2 DEF Locals
  <2>4. pc[t] = "idle" /\ pc'[t] = "enqueue" /\ UNCHANGED <<queue, slotOf, usedSlots, executed>>
    BY <1>1, <2>1 DEF CallEnqueue, Goto
  <2> QED  BY <2>1, <2>2, <2>3, <2>4, TakeUpMaps DEF Caller
<1>3. CASE CallEnqueueTo(t)
  <2>1. PICK i \in Isolates : \E j \in Jobs :
               /\ target[j] = NONE /\ target' = [target EXCEPT ![j] = i]
               /\ loc' = [loc EXCEPT ![t].q = slotOf[i], ![t].job = j]
    BY <1>3 DEF CallEnqueueTo
  <2>2. PICK j \in Jobs : /\ target[j] = NONE /\ target' = [target EXCEPT ![j] = i]
                          /\ loc' = [loc EXCEPT ![t].q = slotOf[i], ![t].job = j]
    BY <2>1
  <2>3. loc'[t].job = j
    BY <1>1, <2>2 DEF Locals
  <2>4. pc[t] = "idle" /\ pc'[t] = "push" /\ UNCHANGED <<queue, slotOf, usedSlots, executed>>
    BY <1>1, <1>3 DEF CallEnqueueTo, Goto
  <2> QED  BY <1>3, <2>2, <2>3, <2>4, TakeUpMaps DEF Caller
<1> QED  BY <1>2, <1>3

LEMMA CheckMaps == ASSUME LInv, NEW t \in Threads, EnqueueCheck(t) PROVE UNCHANGED Loop!vars
<1> DEFINE j == loc[t].job
<1>1. pc \in [Threads -> Pcs] /\ loc \in [Threads -> Locals]
  BY DEF LInv, TypeOK, Locals
<1>2. \A u \in Threads : u # t => pc'[u] = pc[u] /\ loc'[u] = loc[u]
  BY OthersKept DEF LInv, Step
<1>3. pc[t] = "enqueue" /\ Unsent(t) /\ UNCHANGED <<queue, slotOf, usedSlots, executed>>
  BY DEF EnqueueCheck, Unsent
<1>4. pc'[t] # "exec"
  BY <1>1 DEF EnqueueCheck, Finish, Goto
<1>5. \A u \in Threads : HandOf(u)' = HandOf(u)
  BY <1>2, <1>3, <1>4 DEF HandOf
<1>6. ASSUME NEW k \in Jobs PROVE AddressOf(k)' = AddressOf(k)
  <2>1. CASE stopped
    <3>1. pc'[t] = "idle" /\ target' = [target EXCEPT ![j] = NONE]
      BY <1>1, <2>1 DEF EnqueueCheck, Finish
    <3>2. CASE k = j
      <4>1. AddressOf(k) = NONE
        BY <1>3, <3>2, AddressIs
      <4>2. target'[k] = NONE
        BY <3>1, <3>2 DEF LInv, TypeOK
      <4> QED  BY <4>1, <4>2 DEF AddressOf
    <3>3. CASE k # j
      <4>1. target'[k] = target[k] /\ ~(Unsent(t)')
        BY <3>1, <3>3 DEF LInv, TypeOK, Unsent
      <4> QED  BY <1>2, <3>3, <4>1, AddressKept
    <3> QED  BY <3>2, <3>3
  <2>2. CASE ~stopped
    <3>1. pc'[t] = "push" /\ UNCHANGED <<target, loc>>
      BY <1>1, <2>2 DEF EnqueueCheck, Goto
    <3>2. Unsent(t)'
      BY <3>1 DEF Unsent
    <3> QED  BY <1>2, <1>3, <3>1, <3>2, AddressKept
  <2> QED  BY <2>1, <2>2
<1> QED  BY <1>3, <1>5, <1>6, SameQueues, LoopStutters

\* What changes when one queue does.
LEMMA QueueOfBox ==
    ASSUME SlotsOwned, TypeOK, NEW q \in Queues, NEW s, queue' = [queue EXCEPT ![q] = s],
           UNCHANGED <<slotOf, usedSlots>>
    PROVE  /\ UNCHANGED <<Registered, RetiredSlots>>
           /\ \A b \in Isolates : slotOf[b] # q => BoxOf(b)' = BoxOf(b)
           /\ q # GLOBAL => BoxOf(GLOBAL)' = BoxOf(GLOBAL)
           /\ q = GLOBAL => BoxOf(GLOBAL)' = s /\ \A b \in Isolates : BoxOf(b)' = BoxOf(b)
           /\ \A b \in Isolates : slotOf[b] = q => BoxOf(b)' = s
           /\ q \notin RetiredSlots => UNCHANGED LostJobs
<1>1. queue \in [Queues -> Seq(Jobs)] /\ slotOf \in [Isolates -> SlotIds \cup {NONE}]
      /\ usedSlots \in SUBSET SlotIds
  BY DEF TypeOK
<1>2. GLOBAL \notin SlotIds \cup Isolates /\ NONE \notin Queues /\ GLOBAL \in Queues
  BY LoopAssumption DEF Queues
<1>3. \A r \in Queues : queue'[r] = IF r = q THEN s ELSE queue[r]
  BY <1>1
<1>4. UNCHANGED <<Registered, RetiredSlots>>
  BY DEF Registered, RetiredSlots, RegisteredSlots
<1>5. \A b \in Isolates : slotOf[b] # q => BoxOf(b)' = BoxOf(b)
  BY <1>1, <1>2, <1>3 DEF BoxOf, Queues
<1>6. q # GLOBAL => BoxOf(GLOBAL)' = BoxOf(GLOBAL)
  BY <1>2, <1>3 DEF BoxOf
<1>7. q = GLOBAL => BoxOf(GLOBAL)' = s /\ \A b \in Isolates : BoxOf(b)' = BoxOf(b)
  BY <1>1, <1>2, <1>3, <1>5 DEF BoxOf
<1>8. \A b \in Isolates : slotOf[b] = q => BoxOf(b)' = s
  BY <1>1, <1>2, <1>3 DEF BoxOf
<1>9. ASSUME q \notin RetiredSlots PROVE UNCHANGED LostJobs
  <2>1. \A r \in RetiredSlots : r \in Queues /\ queue'[r] = queue[r]
    BY <1>1, <1>3, <1>9 DEF RetiredSlots, Queues
  <2> QED  BY <1>4, <2>1 DEF LostJobs
<1> QED  BY <1>4, <1>5, <1>6, <1>7, <1>8, <1>9

LEMMA PushMaps == ASSUME LInv, SlotSends, NEW t \in Threads, Push(t) PROVE Loop!Next
<1>0. PICK j, q : j = loc[t].job /\ q = loc[t].q
  OBVIOUS
<1>1. pc \in [Threads -> Pcs] /\ loc \in [Threads -> Locals] /\ queue \in [Queues -> Seq(Jobs)]
      /\ target \in [Jobs -> Isolates \cup {GLOBAL, NONE}]
  BY DEF LInv, TypeOK, Locals
<1>2. \A u \in Threads : u # t => pc'[u] = pc[u] /\ loc'[u] = loc[u]
  BY OthersKept DEF LInv, Step
<1>3. /\ pc[t] = "push" /\ pc'[t] = "notify" /\ queue' = [queue EXCEPT ![q] = Append(@, j)]
      /\ UNCHANGED <<slotOf, usedSlots, target, executed>>
  BY <1>0, <1>1 DEF Push, Goto
<1>4. q \in Queues /\ q \in usedSlots \cup {GLOBAL}
  BY <1>0, <1>3 DEF LInv, LocalsFit, Fit, SlotsOwned
<1>5. j \in Jobs /\ \A u \in Threads : Unsent(u) /\ loc[u].job = j => u = t
  BY <1>0, <1>3 DEF LInv, OnePlace, Holds, Unsent, Sent
<1>6. Unsent(t) /\ ~(Unsent(t)')
  BY <1>3 DEF Unsent
<1>7. AddressOf(j) = NONE
  BY <1>0, <1>6, AddressIs
<1>8. AddressOf(j)' = target[j]
  <2>1. \A u \in Threads : Unsent(u)' => loc'[u].job # j
    BY <1>2, <1>5, <1>6 DEF Unsent
  <2> QED  BY <1>3, <2>1 DEF AddressOf
<1>9. \A k \in Jobs : k # j => AddressOf(k)' = AddressOf(k)
  BY <1>0, <1>2, <1>3, <1>6, AddressKept
<1>10. \A u \in Threads : HandOf(u)' = HandOf(u)
  BY <1>2, <1>3 DEF HandOf
<1>11. queue' = [queue EXCEPT ![q] = Append(queue[q], j)] /\ SlotsOwned /\ TypeOK
  BY <1>3 DEF LInv
<1>12. CASE q = GLOBAL
  <2>1. target[j] = GLOBAL
    BY <1>0, <1>3, <1>12 DEF LInv, Addressed
  <2>2. /\ BoxOf(GLOBAL)' = Append(queue[q], j)
        /\ \A b \in Isolates : BoxOf(b)' = BoxOf(b)
        /\ UNCHANGED <<Registered, RetiredSlots>>
    BY <1>3, <1>4, <1>11, <1>12, QueueOfBox
  <2>3. UNCHANGED LostJobs
    <3>1. q \notin RetiredSlots
      BY <1>12, LoopAssumption DEF LInv, TypeOK, RetiredSlots
    <3> QED  BY <1>3, <1>4, <1>11, <3>1, QueueOfBox
  <2>4. BoxOf(GLOBAL)' = Append(BoxOf(GLOBAL), j)
    BY <1>12, <2>2 DEF BoxOf
  <2>5. Loop!Send(j, GLOBAL)
    BY <1>3, <1>5, <1>7, <1>8, <1>9, <1>10, <2>1, <2>2, <2>3, <2>4, LoopAssumption DEF Loop!Send
  <2> QED  BY <1>5, <2>5 DEF Loop!Next, Loop!Boxes
<1>13. ASSUME NEW i \in Isolates, q = slotOf[i], q # GLOBAL PROVE Loop!Next
  <2>1. target[j] = i
    BY <1>0, <1>3, <1>13 DEF LInv, Addressed
  <2>2. q # NONE /\ \A k \in Isolates : k # i => slotOf[k] # q
    BY <1>4, <1>13, LoopAssumption DEF LInv, SlotsOwned, Queues
  <2>3. /\ BoxOf(i)' = Append(queue[q], j) /\ BoxOf(GLOBAL)' = BoxOf(GLOBAL)
        /\ \A b \in Isolates : b # i => BoxOf(b)' = BoxOf(b)
        /\ UNCHANGED <<Registered, RetiredSlots>>
    BY <1>3, <1>4, <1>11, <1>13, <2>2, QueueOfBox
  <2>4. UNCHANGED LostJobs
    <3>1. q \notin RetiredSlots
      BY <1>13, <2>2 DEF RetiredSlots, RegisteredSlots
    <3> QED  BY <1>3, <1>4, <1>11, <3>1, QueueOfBox
  <2>5. i # GLOBAL /\ i \in Registered
    BY <1>13, <2>2, LoopAssumption DEF Registered
  <2>6. BoxOf(i) = queue[q]
    BY <1>13, <2>2, <2>5 DEF BoxOf
  <2>7. Loop!Send(j, i)
    BY <1>3, <1>5, <1>7, <1>8, <1>9, <1>10, <2>1, <2>3, <2>4, <2>5, <2>6 DEF Loop!Send
  <2> QED  BY <1>5, <2>7 DEF Loop!Next, Loop!Boxes
<1>14. CASE q # GLOBAL /\ \A i \in Isolates : slotOf[i] # q
  <2>1. target[j] \in Isolates
    BY <1>0, <1>3, <1>14 DEF SlotSends
  <2>2. q \in RetiredSlots
    BY <1>4, <1>14 DEF RetiredSlots, RegisteredSlots
  <2>3. /\ \A b \in Isolates \cup {GLOBAL} : BoxOf(b)' = BoxOf(b)
        /\ UNCHANGED <<Registered, RetiredSlots>>
    BY <1>3, <1>4, <1>11, <1>14, QueueOfBox
  <2>4. LostJobs' = LostJobs \cup {j}
    <3>1. ToSet(Append(queue[q], j)) = ToSet(queue[q]) \cup {j}
      <4>1. queue[q] \in Seq(Jobs)
        BY <1>1, <1>4
      <4> QED  BY <1>5, <4>1, AppendElements DEF ToSet
    <3>2. \A s \in RetiredSlots : s # q => queue'[s] = queue[s]
      BY <1>1, <1>3, <1>4 DEF LInv, TypeOK, RetiredSlots, Queues
    <3>3. queue'[q] = Append(queue[q], j)
      BY <1>1, <1>4, <1>11
    <3> QED  BY <2>2, <2>3, <3>1, <3>2, <3>3 DEF LostJobs
  <2>5. Loop!SendLate(j, target[j])
    BY <1>3, <1>5, <1>7, <1>8, <1>9, <1>10, <2>2, <2>3, <2>4 DEF Loop!SendLate
  <2> QED  BY <1>5, <2>1, <2>5 DEF Loop!Next
<1> QED  BY <1>12, <1>13, <1>14

LEMMA PopMaps ==
    ASSUME LInv, NEW t \in Threads, NEW q \in Queues, NEW here, NEW empty, PopFrom(t, q, here, empty),
           queue[q] # <<>>, q = GLOBAL \/ (t \in Isolates /\ slotOf[t] = q), Step(t),
           here \notin {"enqueue", "push", "exec"}
    PROVE  Loop!Next
<1>1. pc \in [Threads -> Pcs] /\ loc \in [Threads -> Locals] /\ queue \in [Queues -> Seq(Jobs)]
      /\ slotOf \in [Isolates -> SlotIds \cup {NONE}]
  BY DEF LInv, TypeOK, Locals
<1>2. \A u \in Threads : u # t => pc'[u] = pc[u] /\ loc'[u] = loc[u]
  BY OthersKept DEF LInv
<1>3. /\ pc[t] = here /\ pc'[t] = "exec" /\ loc'[t].job = Head(queue[q])
      /\ queue' = [queue EXCEPT ![q] = Tail(queue[q])]
      /\ UNCHANGED <<slotOf, usedSlots, target, executed>>
  BY <1>1 DEF PopFrom, Locals
<1>4. \A j \in Jobs : AddressOf(j)' = AddressOf(j)
  <2>1. ~Unsent(t) /\ ~(Unsent(t)')
    BY <1>3 DEF Unsent
  <2> QED  BY <1>2, <1>3, <2>1, AddressKept
<1>5. /\ HandOf(t) = NONE /\ HandOf(t)' = Head(queue[q])
      /\ \A u \in Threads : u # t => HandOf(u)' = HandOf(u)
  BY <1>2, <1>3 DEF HandOf
<1>6. SlotsOwned /\ TypeOK
  BY DEF LInv
<1>7. CASE q = GLOBAL
  <2>1. /\ BoxOf(GLOBAL)' = Tail(queue[q]) /\ UNCHANGED <<Registered, RetiredSlots>>
        /\ \A b \in Isolates : BoxOf(b)' = BoxOf(b)
    BY <1>3, <1>6, <1>7, QueueOfBox
  <2>2. UNCHANGED LostJobs
    <3>1. q \notin RetiredSlots
      BY <1>6, <1>7, LoopAssumption DEF TypeOK, RetiredSlots
    <3> QED  BY <1>3, <1>6, <3>1, QueueOfBox
  <2>3. BoxOf(GLOBAL) = queue[q]
    BY <1>7 DEF BoxOf
  <2>4. Loop!Take(t, GLOBAL)
    BY <1>3, <1>4, <1>5, <2>1, <2>2, <2>3, LoopAssumption DEF Loop!Take
  <2> QED  BY <2>4 DEF Loop!Next, Loop!Boxes
<1>8. CASE q # GLOBAL
  <2>1. t \in Isolates /\ slotOf[t] = q /\ q # NONE /\ \A k \in Isolates : k # t => slotOf[k] # q
    BY <1>6, <1>8, LoopAssumption DEF SlotsOwned, Queues
  <2>2. /\ BoxOf(t)' = Tail(queue[q]) /\ BoxOf(GLOBAL)' = BoxOf(GLOBAL)
        /\ \A b \in Isolates : b # t => BoxOf(b)' = BoxOf(b)
        /\ UNCHANGED <<Registered, RetiredSlots>>
    BY <1>3, <1>6, <1>8, <2>1, QueueOfBox
  <2>3. UNCHANGED LostJobs
    <3>1. q \notin RetiredSlots
      BY <2>1 DEF RetiredSlots, RegisteredSlots
    <3> QED  BY <1>3, <1>6, <3>1, QueueOfBox
  <2>4. t # GLOBAL /\ BoxOf(t) = queue[q]
    BY <2>1, LoopAssumption DEF BoxOf
  <2>5. Loop!Take(t, t)
    BY <1>3, <1>4, <1>5, <2>1, <2>2, <2>3, <2>4 DEF Loop!Take
  <2> QED  BY <2>1, <2>5 DEF Loop!Next, Loop!Boxes
<1> QED  BY <1>7, <1>8

\* A drain that finds its queue empty goes on to the next one, or returns.
LEMMA EmptyMaps ==
    ASSUME LInv, NEW t \in Threads, Step(t), ~Holds(t), ~(Holds(t)'),
           UNCHANGED <<queue, slotOf, usedSlots, target, executed>>
    PROVE  UNCHANGED Loop!vars
<1>1. \A u \in Threads : u # t => pc'[u] = pc[u] /\ loc'[u] = loc[u]
  BY OthersKept DEF LInv
<1>2. \A j \in Jobs : AddressOf(j)' = AddressOf(j)
  <2>1. ~Unsent(t) /\ ~(Unsent(t)')
    BY DEF Unsent, Holds
  <2> QED  BY <1>1, <2>1, AddressKept
<1>3. \A u \in Threads : HandOf(u)' = HandOf(u)
  BY <1>1 DEF HandOf, Holds
<1> QED  BY <1>2, <1>3, SameQueues, LoopStutters

LEMMA DrainMaps ==
    ASSUME LInv, NEW t \in Threads,
           RunDrain(t) \/ RunDrainGlobal(t) \/ PlainPop(t) \/ PumpDrain(t) \/ PumpDrainGlobal(t)
    PROVE  [Loop!Next]_(Loop!vars)
<1>1. pc \in [Threads -> Pcs]
  BY DEF LInv, TypeOK
<1>2. Step(t)
  BY DEF Step
<1>3. ASSUME NEW q, NEW here, NEW empty, PopFrom(t, q, here, empty),
             here \in {"drain", "drain_global", "g_pop", "pump", "pump_global"},
             here \in {"drain", "pump"} => q = loc[t].q,
             here \notin {"drain", "pump"} => q = GLOBAL,
             empty \in {"drain_global", "run_stop", "g_stop", "pump_global", "idle"}
      PROVE  [Loop!Next]_(Loop!vars)
  <2>1. pc[t] = here
    BY <1>3 DEF PopFrom
  <2>2. q = GLOBAL \/ (t \in Isolates /\ slotOf[t] = q /\ q # NONE)
    BY <1>3, <2>1 DEF LInv, LocalsFit, Fit, Where, RegisteredRunPc
  <2>3. q \in Queues
    BY <2>2 DEF LInv, TypeOK, Queues
  <2>4. CASE queue[q] # <<>>
    BY <1>2, <1>3, <2>2, <2>3, <2>4, PopMaps
  <2>5. CASE queue[q] = <<>>
    <3>1. ~Holds(t) /\ ~(Holds(t)') /\ UNCHANGED <<queue, slotOf, usedSlots, target, executed>>
      BY <1>1, <1>3, <2>1, <2>5 DEF PopFrom, Holds
    <3> QED  BY <1>2, <3>1, EmptyMaps
  <2> QED  BY <2>4, <2>5
<1>4. CASE RunDrain(t)
  BY <1>3, <1>4 DEF RunDrain
<1>5. CASE RunDrainGlobal(t)
  BY <1>3, <1>5 DEF RunDrainGlobal
<1>6. CASE PlainPop(t)
  BY <1>3, <1>6 DEF PlainPop
<1>7. CASE PumpDrain(t)
  BY <1>3, <1>7 DEF PumpDrain
<1>8. CASE PumpDrainGlobal(t)
  <2>1. CASE PopFrom(t, GLOBAL, "pump_global", "idle")
    BY <1>3, <2>1
  <2>2. CASE pc[t] = "pump_global" /\ Finish(t) /\ UNCHANGED <<queue, slotOf, usedSlots, target, executed>>
    <3>1. ~Holds(t) /\ ~(Holds(t)')
      BY <1>1, <2>2 DEF Finish, Holds
    <3> QED  BY <1>2, <2>2, <3>1, EmptyMaps
  <2> QED  BY <1>8, <2>1, <2>2 DEF PumpDrainGlobal
<1> QED  BY <1>4, <1>5, <1>6, <1>7, <1>8

LEMMA ExecMaps == ASSUME LInv, NEW t \in Threads, Exec(t) PROVE Loop!Next
<1>1. pc \in [Threads -> Pcs] /\ loc \in [Threads -> Locals]
  BY DEF LInv, TypeOK, Locals
<1>2. \A u \in Threads : u # t => pc'[u] = pc[u] /\ loc'[u] = loc[u]
  BY OthersKept DEF LInv, Step
<1>3. PICK j : j = loc[t].job
  OBVIOUS
<1>4. /\ pc[t] = "exec" /\ pc'[t] = loc[t].back /\ executed' = executed \cup {j}
      /\ UNCHANGED <<queue, slotOf, usedSlots, target>>
  BY <1>1, <1>3 DEF Exec, Goto
<1>5. loc[t].back \notin {"enqueue", "push", "exec"} /\ j \in Jobs
  BY <1>3, <1>4 DEF LInv, LocalsFit, Fit, OnePlace, Holds, Sent
<1>6. \A k \in Jobs : AddressOf(k)' = AddressOf(k)
  <2>1. ~Unsent(t) /\ ~(Unsent(t)')
    BY <1>4, <1>5 DEF Unsent
  <2> QED  BY <1>2, <1>4, <2>1, AddressKept
<1>7. HandOf(t) = j /\ HandOf(t)' = NONE /\ \A u \in Threads : u # t => HandOf(u)' = HandOf(u)
  BY <1>2, <1>3, <1>4, <1>5 DEF HandOf
<1>8. j # NONE
  BY <1>5, LoopAssumption
<1>9. Loop!Complete(t)
  BY <1>4, <1>6, <1>7, <1>8, SameQueues DEF Loop!Complete, SameBoxes
<1> QED  BY <1>9 DEF Loop!Next, Loop!Boxes

LEMMA RegisterMaps == ASSUME LInv, NEW t \in Threads, Register(t) PROVE Loop!Next
<1>1. slotOf \in [Isolates -> SlotIds \cup {NONE}] /\ usedSlots \in SUBSET SlotIds /\ t \in Isolates
      /\ slotOf[t] = NONE /\ UNCHANGED <<queue, target, executed, pc, loc>>
  BY DEF LInv, TypeOK, Register
<1>2. PICK s \in SlotIds \ usedSlots : slotOf' = [slotOf EXCEPT ![t] = s] /\ usedSlots' = usedSlots \cup {s}
  BY DEF Register
<1>3. s # NONE /\ queue[s] = <<>> /\ s \notin RegisteredSlots
  BY LoopAssumption DEF LInv, SlotsOwned, RegisteredSlots
<1>4. RegisteredSlots' = RegisteredSlots \cup {s}
  BY <1>1, <1>2, <1>3 DEF RegisteredSlots
<1>5. UNCHANGED RetiredSlots
  BY <1>2, <1>4 DEF RetiredSlots
<1>6. UNCHANGED LostJobs
  BY <1>1, <1>5 DEF LostJobs
<1>7. Registered' = Registered \cup {t} /\ t \notin Registered
  BY <1>1, <1>2, <1>3 DEF Registered
<1>8. \A b \in Isolates \cup {GLOBAL} : BoxOf(b)' = BoxOf(b)
  BY <1>1, <1>2, <1>3 DEF BoxOf
<1>9. /\ \A j \in Jobs : AddressOf(j)' = AddressOf(j)
      /\ \A u \in Threads : HandOf(u)' = HandOf(u)
  BY <1>1 DEF AddressOf, HandOf, Unsent
<1>10. Loop!Join(t)
  BY <1>1, <1>5, <1>6, <1>7, <1>8, <1>9 DEF Loop!Join
<1> QED  BY <1>1, <1>10 DEF Loop!Next

LEMMA GoneMaps == ASSUME LInv, NEW t \in Threads, Gone(t) PROVE Loop!Next
<1>1. /\ slotOf \in [Isolates -> SlotIds \cup {NONE}] /\ queue \in [Queues -> Seq(Jobs)]
      /\ t \in Isolates /\ pc[t] = "idle" /\ slotOf[t] # NONE
      /\ slotOf' = [slotOf EXCEPT ![t] = NONE]
      /\ UNCHANGED <<queue, usedSlots, target, executed, pc, loc>>
  BY DEF LInv, TypeOK, Gone
<1>2. PICK s : s = slotOf[t]
  OBVIOUS
<1>3. s \in usedSlots /\ \A k \in Isolates : k # t => slotOf[k] # s
  BY <1>1, <1>2 DEF LInv, SlotsOwned
<1>4. RegisteredSlots' = RegisteredSlots \ {s} /\ s \in RegisteredSlots
  BY <1>1, <1>2, <1>3 DEF RegisteredSlots
<1>5. RetiredSlots' = RetiredSlots \cup {s}
  BY <1>1, <1>3, <1>4 DEF RetiredSlots
<1>6. LostJobs' = LostJobs \cup ToSet(BoxOf(t))
  <2>1. BoxOf(t) = queue[s]
    BY <1>1, <1>2, LoopAssumption DEF BoxOf
  <2> QED  BY <1>1, <1>5, <2>1 DEF LostJobs
<1>7. Registered' = Registered \ {t} /\ t \in Registered
  BY <1>1, <1>2 DEF Registered
<1>8. /\ BoxOf(t)' = <<>>
      /\ \A b \in Isolates \cup {GLOBAL} : b # t => BoxOf(b)' = BoxOf(b)
  BY <1>1, LoopAssumption DEF BoxOf
<1>9. /\ \A j \in Jobs : AddressOf(j)' = AddressOf(j)
      /\ \A u \in Threads : HandOf(u)' = HandOf(u)
      /\ HandOf(t) = NONE
  BY <1>1 DEF AddressOf, HandOf, Unsent
<1>10. (RetiredSlots # {})' = TRUE
  BY <1>5
<1>11. t \in Threads /\ t \in Isolates
  BY <1>1
<1>12. Loop!Leave(t)
  <2>1. ToSet(BoxOf(t)) = Loop!ToSet(BoxOf(t))
    BY DEF ToSet, Loop!ToSet
  <2>2. t \in Isolates \cup {GLOBAL} /\ t \in Threads
    BY <1>11
  <2> QED  BY <1>1, <1>6, <1>7, <1>8, <1>9, <1>10, <2>1, <2>2 DEF Loop!Leave
<1> QED  BY <1>11, <1>12 DEF Loop!Next

LEMMA LoopStep == ASSUME LInv, SlotSends, [Next]_vars PROVE [Loop!Next]_(Loop!vars)
<1>1. CASE UNCHANGED vars
  <2>1. /\ \A j \in Jobs : AddressOf(j)' = AddressOf(j)
        /\ \A u \in Threads : HandOf(u)' = HandOf(u)
        /\ UNCHANGED <<queue, slotOf, usedSlots, executed>>
    BY <1>1 DEF vars, AddressOf, HandOf, Unsent
  <2> QED  BY <2>1, SameQueues, LoopStutters
<1>2. ASSUME NEW t \in Threads, Caller(t) \/ Step(t) PROVE [Loop!Next]_(Loop!vars)
  <2>1. CASE Aside(t)
    BY <2>1, AsideMaps
  <2>2. CASE CallEnqueue(t) \/ CallMarshal(t) \/ CallEnqueueTo(t)
    BY <2>2, EnqueueMaps
  <2>3. CASE EnqueueCheck(t)
    BY <2>3, CheckMaps
  <2>4. CASE Push(t)
    BY <2>4, PushMaps
  <2>5. CASE RunDrain(t) \/ RunDrainGlobal(t) \/ PlainPop(t) \/ PumpDrain(t) \/ PumpDrainGlobal(t)
    BY <2>5, DrainMaps
  <2>6. CASE Exec(t)
    BY <2>6, ExecMaps
  <2>7. CASE Register(t)
    BY <2>7, RegisterMaps
  <2>8. CASE Gone(t)
    BY <2>8, GoneMaps
  <2> QED  BY <1>2, <2>1, <2>2, <2>3, <2>4, <2>5, <2>6, <2>7, <2>8 DEF Caller, Step, Aside
<1>3. ASSUME NEW t \in Threads, SpuriousWake(t) PROVE [Loop!Next]_(Loop!vars)
  <2>1. /\ \A j \in Jobs : AddressOf(j)' = AddressOf(j)
        /\ \A u \in Threads : HandOf(u)' = HandOf(u)
        /\ UNCHANGED <<queue, slotOf, usedSlots, executed>>
    BY <1>3 DEF SpuriousWake, AddressOf, HandOf, Unsent
  <2> QED  BY <2>1, SameQueues, LoopStutters
<1> QED  BY <1>1, <1>2, <1>3 DEF Next

LEMMA SlotSendsInit == Init => SlotSends
  BY DEF Init, SlotSends

\* The target of a job in somebody's hands does not change.
LEMMA TargetHeld ==
    ASSUME LInv, NEW t \in Threads, Caller(t) \/ Step(t), NEW u \in Threads, u # t, Holds(u)
    PROVE  target'[loc[u].job] = target[loc[u].job]
<1>1. target \in [Jobs -> Isolates \cup {GLOBAL, NONE}] /\ Sent(loc[u].job)
  BY DEF LInv, TypeOK, OnePlace
<1>2. CASE CallEnqueue(t) \/ CallMarshal(t)
  <2>1. PICK j \in Jobs : target[j] = NONE /\ target' = [target EXCEPT ![j] = GLOBAL]
    BY <1>2 DEF CallMarshal, CallEnqueue
  <2> QED  BY <1>1, <2>1 DEF Sent
<1>3. CASE CallEnqueueTo(t)
  <2>1. PICK i \in Isolates, j \in Jobs : target[j] = NONE /\ target' = [target EXCEPT ![j] = i]
    BY <1>3 DEF CallEnqueueTo
  <2> QED  BY <1>1, <2>1 DEF Sent
<1>4. CASE EnqueueCheck(t)
  <2>1. loc[t].job # loc[u].job
    BY <1>4 DEF LInv, OnePlace, Holds, EnqueueCheck
  <2>2. UNCHANGED target \/ target' = [target EXCEPT ![loc[t].job] = NONE]
    BY <1>4 DEF EnqueueCheck
  <2> QED  BY <1>1, <2>1, <2>2 DEF Sent
<1>5. CASE Push(t) \/ Exec(t) \/ Register(t) \/ Gone(t)
  BY <1>5 DEF Push, Exec, Register, Gone
<1>6. CASE RunDrain(t) \/ RunDrainGlobal(t) \/ PlainPop(t) \/ PumpDrain(t) \/ PumpDrainGlobal(t)
  BY <1>6 DEF RunDrain, RunDrainGlobal, PlainPop, PumpDrain, PumpDrainGlobal, PopFrom
<1>7. CASE Aside(t)
  BY <1>7, AsideKeeps DEF LInv
<1> QED  BY <1>2, <1>3, <1>4, <1>5, <1>6, <1>7 DEF Caller, Step, Aside

LEMMA SlotSendsStep == ASSUME LInv, SlotSends, [Next]_vars PROVE SlotSends'
<1>1. pc \in [Threads -> Pcs] /\ loc \in [Threads -> Locals]
  BY DEF LInv, TypeOK, Locals
<1>2. CASE UNCHANGED vars
  BY <1>2 DEF vars, SlotSends
<1>3. ASSUME NEW t \in Threads, SpuriousWake(t) PROVE SlotSends'
  BY <1>3 DEF SpuriousWake, SlotSends
<1>4. ASSUME NEW t \in Threads, Caller(t) \/ Step(t) PROVE SlotSends'
  <2>1. \A u \in Threads : u # t => pc'[u] = pc[u] /\ loc'[u] = loc[u]
    BY <1>4, OthersKept DEF LInv
  <2>2. ASSUME NEW u \in Threads, u # t, pc'[u] = "push", loc'[u].q # GLOBAL
        PROVE  target'[loc'[u].job] \in Isolates
    <3>1. Holds(u) /\ pc'[u] = pc[u] /\ loc'[u] = loc[u]
      BY <2>1, <2>2 DEF Holds
    <3>2. target'[loc[u].job] = target[loc[u].job]
      BY <1>4, <2>2, <3>1, TargetHeld
    <3> QED  BY <2>2, <3>1, <3>2 DEF SlotSends
  <2>3. ASSUME pc'[t] = "push", loc'[t].q # GLOBAL PROVE target'[loc'[t].job] \in Isolates
    <3>1. CASE CallEnqueue(t) \/ CallMarshal(t)
      BY <1>1, <2>3, <3>1 DEF CallEnqueue, CallMarshal, Goto
    <3>2. CASE CallEnqueueTo(t)
      <4>1. PICK i \in Isolates : \E j \in Jobs :
                /\ target' = [target EXCEPT ![j] = i] /\ loc' = [loc EXCEPT ![t].q = slotOf[i], ![t].job = j]
        BY <3>2 DEF CallEnqueueTo
      <4>2. PICK j \in Jobs : /\ target' = [target EXCEPT ![j] = i]
                              /\ loc' = [loc EXCEPT ![t].q = slotOf[i], ![t].job = j]
        BY <4>1
      <4>3. loc'[t].job = j
        BY <1>1, <4>2 DEF Locals
      <4> QED  BY <4>2, <4>3 DEF LInv, TypeOK
    <3>3. CASE EnqueueCheck(t)
      <4>1. loc[t].q = GLOBAL
        BY <3>3 DEF LInv, LocalsFit, Fit, EnqueueCheck
      <4> QED  BY <1>1, <2>3, <3>3, <4>1 DEF EnqueueCheck, Goto, Finish
    <3>4. CASE Push(t) \/ Exec(t)
      <4>1. CASE Push(t)
        BY <1>1, <2>3, <4>1 DEF Push, Goto
      <4>2. CASE Exec(t)
        <5>1. loc[t].back # "push"
          BY <4>2 DEF LInv, LocalsFit, Fit, Exec, Goto
        <5> QED  BY <1>1, <2>3, <4>2, <5>1 DEF Exec, Goto
      <4> QED  BY <3>4, <4>1, <4>2
    <3>5. CASE Register(t) \/ Gone(t)
      BY <2>3, <3>5 DEF Register, Gone
    <3>6. CASE RunDrain(t) \/ RunDrainGlobal(t) \/ PlainPop(t) \/ PumpDrain(t) \/ PumpDrainGlobal(t)
      BY <1>1, <2>3, <3>6 DEF RunDrain, RunDrainGlobal, PlainPop, PumpDrain, PumpDrainGlobal, PopFrom, Finish
    <3>7. CASE Aside(t)
      BY <2>3, <3>7, AsideKeeps DEF LInv, Holds
    <3> QED  BY <1>4, <3>1, <3>2, <3>3, <3>4, <3>5, <3>6, <3>7 DEF Caller, Step, Aside
  <2> QED  BY <2>2, <2>3 DEF SlotSends
<1> QED  BY <1>2, <1>3, <1>4 DEF Next

\* The loop implements the mailboxes of JobLoop: a job is delivered in the order
\* of its queue to one runner, a targeted one to its own thread or, when that
\* registration ended, to nobody (module doc; enqueue, enqueue_to, run and pump).
THEOREM LoopIsMailboxes == Spec => LoopContract
<1>1. Init => Loop!Init
  <2> SUFFICES ASSUME Init PROVE Loop!Init
    OBVIOUS
  <2>1. \A j \in Jobs : AddressOf(j) = NONE
    BY DEF Init, AddressOf
  <2>2. \A b \in Isolates \cup {GLOBAL} : BoxOf(b) = <<>>
    BY DEF Init, BoxOf, Queues
  <2>3. Registered = {} /\ RetiredSlots = {} /\ LostJobs = {}
    BY DEF Init, Registered, RetiredSlots, LostJobs
  <2>4. \A t \in Threads : HandOf(t) = NONE
    BY DEF Init, HandOf
  <2>5. executed = {}
    BY DEF Init
  <2> QED  BY <2>1, <2>2, <2>3, <2>4, <2>5 DEF Loop!Init, Loop!Boxes
<1>2. LInv /\ SlotSends /\ [Next]_vars => [Loop!Next]_(Loop!vars)
  BY LoopStep
<1>3. LInv /\ SlotSends /\ [Next]_vars => SlotSends'
  BY SlotSendsStep
<1> QED  BY <1>1, <1>2, <1>3, SlotSendsInit, Invariance, PTL DEF Spec, LoopContract, Loop!Spec
=============================================================================
