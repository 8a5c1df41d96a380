---------------------------- MODULE ExecutorProofs ----------------------------
(***************************************************************************)
(* Theorems about Executor, for any number of workers, callers and tasks.  *)
(*                                                                         *)
(* The invariant is a stack of three facts over the types.  A future is in *)
(* one place because a worker takes it out of the parked set, and nothing  *)
(* puts it back but that worker.  A delivery happens once because whoever  *)
(* takes the delivery slot first is the only one to queue the job.  The    *)
(* count is exact because a task is counted for as long as it runs or the  *)
(* winner of its terminal transition has not counted it down, and the      *)
(* transition out of "running" has one winner.                             *)
(*                                                                         *)
(* LifeInv adds what the contract of a task rests on: a future is in one   *)
(* hand also while its result is recorded, only a cancel that won leaves   *)
(* a future behind, and whoever delivers knows an attached promise and an  *)
(* outcome.  Each step is then a step of TaskLife, or none.                *)
(***************************************************************************)
EXTENDS ExecutorRefinement, FiniteSetTheorems, TLAPS

WorkerPcs == {"check", "take", "poll", "pending", "park"}
TokioPcs == {"tokio_ready", "tokio_parked"}
BookkeepingPcs == {"finish", "deliver", "deliver_outcome", "deliver_slot"}
AnyPc == WorkerPcs \cup TokioPcs \cup BookkeepingPcs \cup {"idle", "mark", "register", "abort"}
AnyLocals == [task : Tasks \cup {NONE}, result : {"running"} \cup Terminal]

\* Who is where, and with which task.
LocatedAt(a) ==
    /\ pc[a] \in WorkerPcs => a \in Workers /\ loc[a].task \notin TokioTasks
    /\ pc[a] \in {"register", "abort"} => a \in Callers
    /\ pc[a] \in TokioPcs => a \in TokioTasks
    /\ a \in TokioTasks /\ pc[a] # "idle" => loc[a].task = a
    /\ pc[a] = "register" => loc[a].task \in TokioTasks
    /\ pc[a] = "mark" => loc[a].result \in {"done", "failed"}
    /\ pc[a] # "idle" => loc[a].task \in Tasks /\ outcome[loc[a].task] # "new"

Located == \A a \in Actors : LocatedAt(a)

\* Only launched tasks are parked or queued, and none of tokio's.
Launched ==
    /\ \A k \in parked : outcome[k] # "new" /\ k \notin TokioTasks
    /\ \A n \in 1 .. Len(ready) : outcome[ready[n]] # "new" /\ ready[n] \notin TokioTasks

TInv == TypeOK /\ Located /\ Launched

\* A polled future is in the hands of one worker, and nowhere else.
FutureHeld ==
    \A w \in Workers : Polling(w) =>
        /\ loc[w].task \notin parked
        /\ \A v \in Workers : Polling(v) /\ loc[v].task = loc[w].task => v = w

\* A delivery is queued, or made, by whoever took the delivery slot.
DeliveredOnce ==
    /\ \A m, n \in 1 .. Len(jobs) : jobs[m] = jobs[n] => m = n
    /\ \A n \in 1 .. Len(jobs) : delivered[jobs[n]] /\ settled[jobs[n]] = <<>>
    /\ \A k \in Tasks :
         \/ settled[k] = <<>>
         \/ delivered[k] /\ settled[k] = <<"rejected">>
         \/ delivered[k] /\ settled[k] = <<"resolved">> /\ outcome[k] = "done"

\* The winners of a terminal transition that have not counted it down.
Winner(a) == pc[a] \in {"abort", "finish"}
OneWinner ==
    \A a \in Actors : Winner(a) =>
        /\ outcome[loc[a].task] \in Terminal
        /\ \A b \in Actors : Winner(b) /\ loc[b].task = loc[a].task => b = a

Running == {k \in Tasks : outcome[k] = "running"}
Uncounted == {k \in Tasks : outcome[k] = "running" \/ \E a \in Actors : Winner(a) /\ loc[a].task = k}

\* The count when n tasks are counted and m orphans have been counted down at once.
Net(n, m) == IF m <= n THEN n - m ELSE n + USIZE - m

\* Nothing is spawned on tokio before its runtime is built, or fails to be.
Counted ==
    /\ runtime = "unknown" => \A k \in TokioTasks : outcome[k] = "new"
    /\ liveTasks = Net(Cardinality(Uncounted), Cardinality(Orphans))

EInv == TInv /\ FutureHeld /\ DeliveredOnce /\ OneWinner /\ Counted

-----------------------------------------------------------------------------
(* Types, and who is where *)

\* The types of pc and loc, by their names here.
LEMMA LocalsTyped ==
    TypeOK => pc \in [Actors -> AnyPc] /\ loc \in [Actors -> AnyLocals]
  BY DEF TypeOK, AnyPc, AnyLocals, WorkerPcs, TokioPcs, BookkeepingPcs

USE DEF AnyLocals, AnyPc, WorkerPcs, TokioPcs, BookkeepingPcs

LEMMA InitTInv == Init => TInv
<1> SUFFICES ASSUME Init PROVE TInv
  OBVIOUS
<1> USE ExecutorAssumption DEF Init
<1>1. /\ outcome \in [Tasks -> {"new", "running"} \cup Terminal]
      /\ ready \in Seq(Tasks) /\ jobs \in Seq(Tasks) /\ liveTasks \in 0 .. USIZE - 1
      /\ settled \in [Tasks -> Seq({"resolved", "rejected"})]
  OBVIOUS
<1>2. loc \in [Actors -> AnyLocals]
  BY DEF NoLocals
<1>3. TypeOK
  BY <1>1, <1>2 DEF TypeOK
<1>4. Located /\ Launched
  BY DEF Located, LocatedAt, Launched
<1> QED  BY <1>3, <1>4 DEF TInv

\* The fields of a record of locals.
LEMMA SetLocals ==
    ASSUME NEW l \in AnyLocals
    PROVE  /\ NoLocals \in AnyLocals
           /\ \A k \in Tasks : /\ [l EXCEPT !.task = k] \in AnyLocals
                               /\ [l EXCEPT !.task = k].task = k
           /\ \A r \in Terminal : /\ [l EXCEPT !.result = r] \in AnyLocals
                                  /\ [l EXCEPT !.result = r].task = l.task
                                  /\ [l EXCEPT !.result = r].result = r
  BY DEF NoLocals

\* What a step of one actor may do: it keeps the others where they are, and no
\* task becomes new again.
LEMMA ActorStep ==
    ASSUME TInv, NEW a \in Actors, TypeOK', LocatedAt(a)', Launched',
           \A b \in Actors \ {a} : pc'[b] = pc[b] /\ loc'[b] = loc[b],
           \A k \in Tasks : outcome[k] # "new" => outcome'[k] # "new"
    PROVE  TInv'
  BY DEF TInv, Located, LocatedAt

\* The types of the locals survive a move, a finish, and a change of a field.
LEMMA FinishTypes ==
    ASSUME TypeOK, NEW a \in Actors, Finish(a)
    PROVE  /\ pc' \in [Actors -> AnyPc]
           /\ loc' \in [Actors -> AnyLocals]
           /\ \A b \in Actors \ {a} : pc'[b] = pc[b] /\ loc'[b] = loc[b]
           /\ pc'[a] = "idle"
<1>1. loc[a] \in AnyLocals
  BY DEF TypeOK
<1> QED  BY <1>1, SetLocals DEF Finish, TypeOK

\* A poll that ended leaves its result in the locals.
LEMMA ResultTypes ==
    ASSUME TypeOK, NEW a \in Actors, NEW r \in {"done", "failed"},
           loc' = [loc EXCEPT ![a].result = r]
    PROVE  /\ loc' \in [Actors -> AnyLocals]
           /\ loc'[a].task = loc[a].task /\ loc'[a].result \in {"done", "failed"}
           /\ \A b \in Actors \ {a} : loc'[b] = loc[b]
<1>1. loc[a] \in AnyLocals /\ loc \in [Actors -> AnyLocals]
  BY DEF TypeOK
<1>2. loc'[a] = [loc[a] EXCEPT !.result = r] /\ \A b \in Actors \ {a} : loc'[b] = loc[b]
  BY <1>1
<1>3. /\ [loc[a] EXCEPT !.result = r] \in AnyLocals
      /\ [loc[a] EXCEPT !.result = r].task = loc[a].task
      /\ [loc[a] EXCEPT !.result = r].result = r
  BY <1>1, SetLocals DEF Terminal
<1> QED  BY <1>1, <1>2, <1>3

\* The elements of a queue that grew at its end.
LEMMA AppendElements ==
    ASSUME NEW S, NEW s \in Seq(S), NEW e \in S
    PROVE  \A n \in 1 .. Len(Append(s, e)) :
             \/ n \in 1 .. Len(s) /\ Append(s, e)[n] = s[n]
             \/ n = Len(s) + 1 /\ Append(s, e)[n] = e
  OBVIOUS

LEMMA BookkeepingTInv == ASSUME TInv, NEW a \in Actors, Bookkeeping(a) PROVE TInv'
<1> USE DEF TInv, record, futures, tokio, delivery
<1>1. /\ loc[a].task \in Tasks /\ outcome[loc[a].task] # "new"
      /\ pc[a] \in BookkeepingPcs
  BY DEF Located, LocatedAt, Bookkeeping, TaskFinished, DeliverPair, DeliverOutcome, DeliverSlot,
         Goto
<1>2. CASE TaskFinished(a)
  <2> USE <1>2 DEF TaskFinished, Goto
  <2>1. (liveTasks + USIZE - 1) % USIZE \in 0 .. USIZE - 1
    BY ExecutorAssumption DEF TypeOK
  <2>2. TypeOK'
    BY <2>1 DEF TypeOK
  <2>3. LocatedAt(a)' /\ Launched'
    BY <1>1 DEF TypeOK, Located, LocatedAt, Launched
  <2> QED  BY <2>2, <2>3, ActorStep DEF TypeOK
<1>3. CASE DeliverPair(a) \/ DeliverOutcome(a)
  <2> USE <1>3 DEF DeliverPair, DeliverOutcome, GotoOrFinish
  <2>1. TypeOK' /\ \A b \in Actors \ {a} : pc'[b] = pc[b] /\ loc'[b] = loc[b]
    BY FinishTypes DEF TypeOK
  <2>2. LocatedAt(a)' /\ Launched'
    BY <1>1, FinishTypes DEF TypeOK, Located, LocatedAt, Launched
  <2> QED  BY <2>1, <2>2, ActorStep
<1>4. CASE DeliverSlot(a)
  <2> USE <1>4 DEF DeliverSlot
  <2>1. jobs' \in Seq(Tasks) /\ delivered' \in [Tasks -> BOOLEAN]
    BY <1>1 DEF TypeOK
  <2>2. TypeOK'
    BY <2>1, FinishTypes DEF TypeOK
  <2>3. LocatedAt(a)' /\ Launched'
    BY FinishTypes DEF LocatedAt, Launched
  <2> QED  BY <2>2, <2>3, FinishTypes, ActorStep
<1> QED  BY <1>2, <1>3, <1>4 DEF Bookkeeping

LEMMA LaunchTInv ==
    ASSUME TInv, NEW c \in Callers, NEW k \in Tasks, Launch(c, k)
    PROVE  TInv'
<1> USE DEF TInv, Launch, futures, tokio, delivery
<1>1. liveTasks' \in 0 .. USIZE - 1
  BY ExecutorAssumption DEF TypeOK
<1>2. TypeOK'
  BY <1>1 DEF TypeOK
<1>3. \A j \in Tasks : outcome[j] # "new" => outcome'[j] # "new"
  BY DEF TypeOK
<1>4. Located'
  BY <1>3 DEF Located, LocatedAt
<1>5. Launched'
  <2>1. \A j \in parked' : outcome'[j] # "new" /\ j \notin TokioTasks
    BY <1>3 DEF Launched, TypeOK
  <2>2. ASSUME NEW n \in 1 .. Len(ready') PROVE ready'[n] = k \/ (n \in 1 .. Len(ready) /\ ready'[n] = ready[n])
    BY DEF TypeOK
  <2>3. outcome'[k] # "new" /\ k \notin TokioTasks
    BY DEF TypeOK
  <2>4. \A n \in 1 .. Len(ready) : outcome'[ready[n]] # "new" /\ ready[n] \notin TokioTasks
    BY <1>3 DEF Launched, TypeOK
  <2>5. \A n \in 1 .. Len(ready') : outcome'[ready'[n]] # "new" /\ ready'[n] \notin TokioTasks
    BY <2>2, <2>3, <2>4
  <2> QED  BY <2>1, <2>5 DEF Launched
<1> QED  BY <1>2, <1>4, <1>5

LEMMA LaunchOnTokioTInv ==
    ASSUME TInv, NEW c \in Callers, NEW k \in Tasks, LaunchOnTokio(c, k)
    PROVE  TInv'
<1> USE DEF TInv, LaunchOnTokio, futures, delivery
<1>1. liveTasks' \in 0 .. USIZE - 1
  BY ExecutorAssumption DEF TypeOK
<1>2. k \in Actors /\ c \in Actors /\ k # c
  BY ExecutorAssumption DEF Actors
<1>3. \A j \in Tasks : outcome[j] # "new" => outcome'[j] # "new"
  BY DEF TypeOK
<1>4. Launched'
  BY <1>3 DEF Launched, TypeOK
<1>5. CASE UNCHANGED <<liveTasks, pc, loc>>
  <2>1. TypeOK'
    BY <1>1, <1>5 DEF TypeOK
  <2>2. Located'
    BY <1>3, <1>5 DEF Located, LocatedAt
  <2> QED  BY <1>4, <2>1, <2>2
<1>6. CASE /\ pc' = [pc EXCEPT ![c] = "register", ![k] = "tokio_ready"]
           /\ loc' = [loc EXCEPT ![c].task = k, ![k].task = k]
  <2>1. /\ loc[c] \in AnyLocals
        /\ loc[k] \in AnyLocals
    BY <1>2 DEF TypeOK
  <2>2. loc' = [[loc EXCEPT ![c] = [loc[c] EXCEPT !.task = k]] EXCEPT ![k] = [loc[k] EXCEPT !.task = k]]
    BY <1>2, <1>6 DEF TypeOK
  <2>3. /\ loc' \in [Actors -> AnyLocals]
        /\ loc'[c].task = k /\ loc'[k].task = k
        /\ \A a \in Actors \ {c, k} : pc'[a] = pc[a] /\ loc'[a] = loc[a]
        /\ pc'[c] = "register" /\ pc'[k] = "tokio_ready"
    <3>1. /\ [loc[c] EXCEPT !.task = k] \in AnyLocals /\ [loc[c] EXCEPT !.task = k].task = k
          /\ [loc[k] EXCEPT !.task = k] \in AnyLocals /\ [loc[k] EXCEPT !.task = k].task = k
      BY <2>1, SetLocals
    <3>2. /\ loc'[c] = [loc[c] EXCEPT !.task = k] /\ loc'[k] = [loc[k] EXCEPT !.task = k]
          /\ \A a \in Actors \ {c, k} : pc'[a] = pc[a] /\ loc'[a] = loc[a]
          /\ pc'[c] = "register" /\ pc'[k] = "tokio_ready"
      BY <1>2, <1>6, <2>2 DEF TypeOK
    <3>3. loc' \in [Actors -> AnyLocals]
      BY <1>2, <2>2, <3>1 DEF TypeOK
    <3> QED  BY <3>1, <3>2, <3>3
  <2>4. TypeOK'
    BY <1>1, <1>6, <2>3 DEF TypeOK
  <2>5. Located'
    <3>1. LocatedAt(c)' /\ LocatedAt(k)'
      <4>1. outcome'[k] # "new" /\ k \in TokioTasks
        BY DEF TypeOK
      <4> QED  BY <1>2, <2>3, <4>1, ExecutorAssumption DEF LocatedAt
    <3>2. \A a \in Actors \ {c, k} : LocatedAt(a)'
      BY <1>3, <2>3 DEF Located, LocatedAt
    <3> QED  BY <3>1, <3>2 DEF Located
  <2> QED  BY <1>4, <2>4, <2>5
<1> QED  BY <1>5, <1>6

LEMMA CallerTInv ==
    ASSUME TInv, NEW c \in Callers,
           \/ RegisterAborter(c) \/ RunAborter(c)
           \/ \E k \in Tasks : Cancel(c, k) \/ Attach(c, k)
    PROVE  TInv'
<1> USE DEF TInv, futures, tokio, delivery, record
<1>1. c \in Actors
  BY DEF Actors
<1>2. CASE RegisterAborter(c)
  <2> USE <1>2 DEF RegisterAborter
  <2>1. loc[c].task \in TokioTasks
    BY <1>1 DEF Located, LocatedAt
  <2>2. TypeOK' /\ Launched'
    BY <1>1, <2>1, FinishTypes DEF TypeOK, Launched
  <2>3. LocatedAt(c)'
    BY <1>1, FinishTypes DEF LocatedAt
  <2> QED  BY <1>1, <2>2, <2>3, FinishTypes, ActorStep
<1>3. CASE RunAborter(c)
  <2> USE <1>3 DEF RunAborter
  <2>1. /\ loc[c].task \in Tasks /\ outcome[loc[c].task] # "new"
        /\ pc' \in [Actors -> AnyPc]
    BY <1>1 DEF Located, LocatedAt, TypeOK
  <2>2. TypeOK' /\ Launched'
    BY <2>1 DEF TypeOK, Launched
  <2>3. \A a \in Actors : pc'[a] = pc[a] \/ pc'[a] = "idle" \/ (a = c /\ pc'[a] = "finish")
    BY <1>1 DEF TypeOK
  <2>4. Located'
    BY <2>1, <2>3 DEF Located, LocatedAt
  <2> QED  BY <2>2, <2>4
<1>4. ASSUME NEW k \in Tasks, Cancel(c, k) PROVE TInv'
  <2> USE <1>4 DEF Cancel, Goto, MarkOutcome
  <2>1. loc[c] \in AnyLocals
    BY <1>1 DEF TypeOK
  <2>2. /\ loc' \in [Actors -> AnyLocals]
        /\ loc'[c].task = k
    BY <1>1, <2>1, SetLocals DEF TypeOK
  <2>3. TypeOK' /\ \A j \in Tasks : outcome[j] # "new" => outcome'[j] # "new"
    BY <2>2 DEF TypeOK, Terminal
  <2>4. LocatedAt(c)' /\ Launched'
    BY <1>1, <2>2, <2>3, ExecutorAssumption DEF LocatedAt, Launched, TypeOK, Returned
  <2> QED  BY <1>1, <2>3, <2>4, ActorStep DEF TypeOK
<1>5. ASSUME NEW k \in Tasks, Attach(c, k) PROVE TInv'
  <2> USE <1>5 DEF Attach, Goto
  <2>1. loc[c] \in AnyLocals
    BY <1>1 DEF TypeOK
  <2>2. /\ loc' \in [Actors -> AnyLocals]
        /\ loc'[c].task = k
    BY <1>1, <2>1, SetLocals DEF TypeOK
  <2>3. TypeOK'
    BY <2>2 DEF TypeOK
  <2>4. LocatedAt(c)' /\ Launched'
    BY <1>1, <2>2, ExecutorAssumption DEF LocatedAt, Launched, TypeOK, Returned
  <2> QED  BY <1>1, <2>3, <2>4, ActorStep DEF TypeOK
<1> QED  BY <1>2, <1>3, <1>4, <1>5

LEMMA WorkerTInv ==
    ASSUME TInv, NEW w \in Workers,
           \/ PopReady(w) \/ CheckCancelled(w) \/ Take(w) \/ Poll(w) \/ Pending(w) \/ Park(w)
    PROVE  TInv'
<1> USE DEF TInv, futures, tokio, delivery, record
<1>1. w \in Actors /\ loc[w] \in AnyLocals
  BY DEF Actors, TypeOK
<1>2. CASE PopReady(w)
  <2> USE <1>2 DEF PopReady, Goto
  <2>1. /\ Head(ready) = ready[1] /\ 1 \in 1 .. Len(ready) /\ ready[1] \in Tasks
        /\ ready' \in Seq(Tasks)
        /\ \A n \in 1 .. Len(ready') : n + 1 \in 1 .. Len(ready) /\ ready'[n] = ready[n + 1]
    BY DEF TypeOK
  <2>2. loc' \in [Actors -> AnyLocals] /\ loc'[w].task = ready[1]
    BY <1>1, <2>1, SetLocals DEF TypeOK
  <2>3. TypeOK'
    BY <2>1, <2>2 DEF TypeOK
  <2>4. Launched'
    BY <2>1 DEF Launched
  <2>5. LocatedAt(w)'
    BY <1>1, <2>1, <2>2, ExecutorAssumption DEF LocatedAt, Launched, TypeOK
  <2> QED  BY <1>1, <2>3, <2>4, <2>5, ActorStep DEF TypeOK
<1>3. CASE CheckCancelled(w) \/ Take(w) \/ Pending(w)
  <2> USE <1>3 DEF CheckCancelled, Take, Pending, GotoOrFinish
  <2>1. loc[w].task \in Tasks
    BY <1>1 DEF Located, LocatedAt
  <2>2. TypeOK' /\ \A b \in Actors \ {w} : pc'[b] = pc[b] /\ loc'[b] = loc[b]
    <3>1. /\ pc' \in [Actors -> AnyPc] /\ loc' \in [Actors -> AnyLocals]
          /\ \A b \in Actors \ {w} : pc'[b] = pc[b] /\ loc'[b] = loc[b]
      BY <1>1, FinishTypes, LocalsTyped
    <3>2. parked' \in SUBSET Tasks /\ armed' \in [Tasks -> BOOLEAN]
      BY <2>1 DEF TypeOK
    <3>3. UNCHANGED <<record, ready, liveTasks, tokio, event, delivery>>
      OBVIOUS
    <3> HIDE <1>3
    <3> QED  BY <3>1, <3>2, <3>3 DEF TypeOK
  <2>3. Launched'
    BY DEF Launched
  <2>4. LocatedAt(w)'
    BY <1>1, FinishTypes DEF Located, LocatedAt, TypeOK
  <2> QED  BY <1>1, <2>2, <2>3, <2>4, ActorStep
<1>4. CASE Poll(w)
  <2> USE <1>4 DEF Poll, Goto
  <2>1. LocatedAt(w) /\ pc[w] = "poll"
    BY <1>1 DEF Located
  <2>2. CASE loc' = loc /\ pc' = [pc EXCEPT ![w] = "pending"]
    <3>1. TypeOK'
      BY <2>1, <2>2 DEF TypeOK, LocatedAt
    <3>2. Launched' /\ LocatedAt(w)'
      BY <1>1, <2>1, <2>2 DEF Launched, LocatedAt, TypeOK
    <3> QED  BY <1>1, <2>2, <3>1, <3>2, ActorStep DEF TypeOK
  <2>3. ASSUME NEW r \in {"done", "failed"}, loc' = [loc EXCEPT ![w].result = r],
               pc' = [pc EXCEPT ![w] = "mark"], armed' = armed
        PROVE  TInv'
    <3>1. TypeOK'
      BY <1>1, <2>3, ResultTypes DEF TypeOK
    <3>2. Launched' /\ LocatedAt(w)'
      BY <1>1, <2>1, <2>3, ResultTypes DEF Launched, LocatedAt, TypeOK
    <3>3. \A b \in Actors \ {w} : pc'[b] = pc[b] /\ loc'[b] = loc[b]
      BY <1>1, <2>3, ResultTypes DEF TypeOK
    <3> QED  BY <1>1, <3>1, <3>2, <3>3, ActorStep
  <2> QED  BY <2>2, <2>3
<1>5. CASE Park(w)
  <2> USE <1>5 DEF Park
  <2>1. /\ loc[w].task \in Tasks /\ outcome[loc[w].task] # "new"
        /\ loc[w].task \notin TokioTasks
    BY <1>1 DEF Located, LocatedAt
  <2>2. TypeOK' /\ Launched' /\ LocatedAt(w)'
    BY <1>1, <2>1, FinishTypes DEF TypeOK, Launched, LocatedAt
  <2> QED  BY <1>1, <2>2, FinishTypes, ActorStep
<1> QED  BY <1>2, <1>3, <1>4, <1>5

LEMMA MarkTInv == ASSUME TInv, NEW a \in Actors, Mark(a) PROVE TInv'
<1> USE DEF TInv, Mark, MarkOutcome, GotoOrFinish, futures, tokio, delivery
<1>1. /\ loc[a].task \in Tasks /\ loc[a].result \in {"done", "failed"}
      /\ outcome[loc[a].task] # "new"
  BY DEF Located, LocatedAt
<1>2. /\ outcome' \in [Tasks -> {"new", "running"} \cup Terminal]
      /\ \A j \in Tasks : outcome[j] # "new" => outcome'[j] # "new"
  BY <1>1 DEF TypeOK, Terminal
<1>3. TypeOK' /\ \A b \in Actors \ {a} : pc'[b] = pc[b] /\ loc'[b] = loc[b]
  <2>1. /\ pc' \in [Actors -> AnyPc] /\ loc' \in [Actors -> AnyLocals]
        /\ \A b \in Actors \ {a} : pc'[b] = pc[b] /\ loc'[b] = loc[b]
    BY FinishTypes, LocalsTyped
  <2>2. UNCHANGED <<cancelRequested, attached, delivered, ready, parked, liveTasks, tokio, futures, delivery>>
    OBVIOUS
  <2> HIDE DEF Mark, MarkOutcome, GotoOrFinish
  <2> QED  BY <1>2, <2>1, <2>2 DEF TypeOK
<1>4. Launched'
  BY <1>2 DEF Launched, TypeOK
<1>5. LocatedAt(a)'
  BY <1>1, <1>2, FinishTypes DEF Located, LocatedAt, TypeOK
<1> QED  BY <1>2, <1>3, <1>4, <1>5, ActorStep

LEMMA TokioPollTInv == ASSUME TInv, NEW k \in TokioTasks, TokioPoll(k) PROVE TInv'
<1> USE DEF TInv, TokioPoll, Goto, futures, tokio, delivery, record
<1>1. k \in Actors /\ k \in Tasks /\ loc[k] \in AnyLocals /\ LocatedAt(k)
  BY ExecutorAssumption DEF Actors, TypeOK, Located
<1>2. CASE loc' = loc /\ pc' = [pc EXCEPT ![k] = "tokio_parked"]
  <2>1. TypeOK'
    BY <1>1, <1>2 DEF TypeOK
  <2>2. Launched' /\ LocatedAt(k)'
    BY <1>1, <1>2 DEF Launched, LocatedAt, TypeOK
  <2> QED  BY <1>1, <1>2, <2>1, <2>2, ActorStep DEF TypeOK
<1>3. ASSUME NEW r \in {"done", "failed"}, loc' = [loc EXCEPT ![k].result = r],
             pc' = [pc EXCEPT ![k] = "mark"], armed' = armed
      PROVE  TInv'
  <2>1. TypeOK'
    BY <1>1, <1>3, ResultTypes DEF TypeOK
  <2>2. Launched' /\ LocatedAt(k)'
    BY <1>1, <1>3, ResultTypes DEF Launched, LocatedAt, TypeOK
  <2>3. \A b \in Actors \ {k} : pc'[b] = pc[b] /\ loc'[b] = loc[b]
    BY <1>1, <1>3, ResultTypes DEF TypeOK
  <2> QED  BY <1>1, <2>1, <2>2, <2>3, ActorStep
<1> QED  BY <1>2, <1>3

\* A waker only ever queues a task that was launched.
LEMMA WakeTInv ==
    ASSUME TInv, NEW k \in Tasks, Fire(k) \/ SpuriousWake(k)
    PROVE  TInv'
<1> USE DEF TInv, tokio, delivery, record
<1>1. outcome[k] # "new"
  BY DEF Fire, SpuriousWake, Alive, Polling, Located, LocatedAt, Launched, Actors
<1>2. /\ ready' = ready \/ (ready' = Append(ready, k) /\ k \notin TokioTasks)
      /\ pc' = pc \/ (k \in TokioTasks /\ pc[k] = "tokio_parked" /\ pc' = [pc EXCEPT ![k] = "tokio_ready"])
      /\ UNCHANGED <<record, parked, liveTasks, tokio, delivery, loc>>
  BY DEF Fire, SpuriousWake, Wake, Goto
<1>3. event' \in [Tasks -> BOOLEAN] /\ armed' \in [Tasks -> BOOLEAN]
  BY DEF Fire, SpuriousWake, Wake, TypeOK
<1>4. TypeOK'
  <2>1. ready \in Seq(Tasks) /\ pc \in [Actors -> AnyPc]
    BY LocalsTyped DEF TypeOK
  <2>2. ready' \in Seq(Tasks)
    BY <1>2, <2>1
  <2>3. pc' \in [Actors -> AnyPc]
    BY <1>2, <2>1
  <2> QED  BY <1>2, <1>3, <2>2, <2>3 DEF TypeOK
<1>5. Launched'
  <2>1. ASSUME NEW n \in 1 .. Len(ready')
        PROVE  (ready'[n] = k /\ k \notin TokioTasks) \/ (n \in 1 .. Len(ready) /\ ready'[n] = ready[n])
    <3>1. ready \in Seq(Tasks)
      BY DEF TypeOK
    <3>2. CASE ready' = Append(ready, k) /\ k \notin TokioTasks
      BY <3>1, <3>2, AppendElements
    <3> QED  BY <1>2, <3>2
  <2> QED  BY <1>1, <1>2, <2>1 DEF Launched
<1>6. Located'
  BY <1>2 DEF Located, LocatedAt, TypeOK, Actors
<1> QED  BY <1>4, <1>5, <1>6

LEMMA LoopTInv == ASSUME TInv, RunDelivery \/ CloseLoop \/ UNCHANGED vars PROVE TInv'
<1> USE DEF TInv, tokio, futures, delivery, record
<1>1. UNCHANGED <<record, ready, parked, liveTasks, tokio, futures, pc, loc>>
  BY DEF RunDelivery, CloseLoop, vars
<1>2. Located' /\ Launched'
  BY <1>1 DEF Located, LocatedAt, Launched
<1>3. CASE RunDelivery
  <2> USE <1>3 DEF RunDelivery
  <2>1. jobs' \in Seq(Tasks) /\ Head(jobs) \in Tasks
    BY DEF TypeOK
  <2>2. \/ settled' = settled
        \/ \E s \in {"resolved", "rejected"} : settled' = [settled EXCEPT ![Head(jobs)] = Append(@, s)]
    OBVIOUS
  <2>3. settled' \in [Tasks -> Seq({"resolved", "rejected"})]
    <3>1. ASSUME NEW s \in {"resolved", "rejected"}
          PROVE  Append(settled[Head(jobs)], s) \in Seq({"resolved", "rejected"})
      BY <2>1 DEF TypeOK
    <3> QED  BY <2>2, <3>1 DEF TypeOK
  <2> QED  BY <1>1, <1>2, <2>1, <2>3 DEF TypeOK
<1>4. CASE CloseLoop \/ UNCHANGED vars
  BY <1>1, <1>2, <1>4 DEF TypeOK, CloseLoop, vars
<1> QED  BY <1>3, <1>4

LEMMA NextTInv == TInv /\ [Next]_vars => TInv'
<1> SUFFICES ASSUME TInv, [Next]_vars PROVE TInv'
  OBVIOUS
<1>1. \A a \in Workers \cup Callers \cup TokioTasks : a \in Actors
  BY DEF Actors
<1>2. ASSUME NEW c \in Callers, NEW k \in Tasks,
             Launch(c, k) \/ LaunchOnTokio(c, k) \/ Cancel(c, k) \/ Attach(c, k)
      PROVE  TInv'
  BY <1>2, LaunchTInv, LaunchOnTokioTInv, CallerTInv
<1>3. ASSUME NEW c \in Callers, InCall(c) PROVE TInv'
  BY <1>1, <1>3, CallerTInv, BookkeepingTInv DEF InCall
<1>4. ASSUME NEW w \in Workers, Worker(w) PROVE TInv'
  BY <1>1, <1>4, WorkerTInv, MarkTInv, BookkeepingTInv DEF Worker
<1>5. ASSUME NEW k \in TokioTasks, OnTokio(k) PROVE TInv'
  BY <1>1, <1>5, TokioPollTInv, MarkTInv, BookkeepingTInv DEF OnTokio
<1>6. ASSUME NEW k \in Tasks, Fire(k) \/ SpuriousWake(k) PROVE TInv'
  BY <1>6, WakeTInv
<1> QED  BY <1>2, <1>3, <1>4, <1>5, <1>6, LoopTInv DEF Next

\* Every variable keeps its type.
THEOREM TypeCorrect == Spec => []TypeOK
<1>1. TInv => TypeOK
  BY DEF TInv
<1> QED  BY <1>1, InitTInv, NextTInv, PTL DEF Spec

-----------------------------------------------------------------------------
(* A future is in one place *)

\* Nothing is parked, and no worker polls anything else than before.
LEMMA FutureKept ==
    ASSUME FutureHeld, parked' \subseteq parked,
           \A w \in Workers : Polling(w)' => Polling(w) /\ loc'[w].task = loc[w].task
    PROVE  FutureHeld'
  BY DEF FutureHeld

\* The worker steps that decide where a future is.
LEMMA WorkerFuture ==
    ASSUME TInv, FutureHeld, NEW w \in Workers,
           PopReady(w) \/ CheckCancelled(w) \/ Take(w) \/ Poll(w) \/ Pending(w) \/ Park(w)
    PROVE  FutureHeld'
<1> USE DEF TInv
<1>1. w \in Actors /\ \A v \in Workers : v \in Actors
  BY DEF Actors
<1>2. \A v \in Workers \ {w} : pc'[v] = pc[v] /\ loc'[v] = loc[v]
  BY <1>1 DEF PopReady, CheckCancelled, Take, Poll, Pending, Park, GotoOrFinish, Finish, Goto, TypeOK
<1>3. CASE Take(w)
  <2>1. parked' = parked \ {loc[w].task} /\ ~Polling(w)
    BY <1>3 DEF Take, Polling
  <2>2. Polling(w)' => loc[w].task \in parked /\ loc' = loc
    BY <1>1, <1>3 DEF Take, Polling, GotoOrFinish, Finish, TypeOK
  <2> QED  BY <1>2, <2>1, <2>2 DEF FutureHeld, Polling
<1>4. CASE Park(w)
  <2>1. parked' = parked \cup {loc[w].task} /\ Polling(w) /\ ~Polling(w)'
    BY <1>1, <1>4 DEF Park, Polling, Finish, TypeOK
  <2> QED  BY <1>2, <2>1 DEF FutureHeld, Polling
<1>5. CASE PopReady(w) \/ CheckCancelled(w) \/ Poll(w) \/ Pending(w)
  <2>1. parked' \subseteq parked
    BY <1>5 DEF PopReady, CheckCancelled, Poll, Pending
  <2>2. Polling(w)' => Polling(w) /\ loc' = loc
    BY <1>1, <1>5 DEF PopReady, CheckCancelled, Poll, Pending, GotoOrFinish, Finish, Goto, Polling, TypeOK
  <2> QED  BY <1>2, <2>1, <2>2, FutureKept DEF Polling
<1> QED  BY <1>3, <1>4, <1>5

LEMMA NextFuture == TInv /\ FutureHeld /\ [Next]_vars => FutureHeld'
<1> SUFFICES ASSUME TInv, FutureHeld, [Next]_vars PROVE FutureHeld'
  OBVIOUS
<1> USE DEF TInv
<1>1. /\ \A a \in Workers \cup Callers \cup TokioTasks : a \in Actors
      /\ Workers \cap Callers = {} /\ Workers \cap Tasks = {} /\ TokioTasks \subseteq Tasks
  BY ExecutorAssumption DEF Actors
<1>2. ASSUME NEW c \in Callers, NEW k \in Tasks, Launch(c, k) PROVE FutureHeld'
  <2>1. \A w \in Workers : Polling(w) => loc[w].task # k
    BY <1>1, <1>2 DEF Launch, Polling, Located, LocatedAt
  <2> QED  BY <1>2, <2>1 DEF Launch, FutureHeld, Polling
<1>3. ASSUME NEW c \in Callers, NEW k \in Tasks, LaunchOnTokio(c, k) \/ Cancel(c, k) \/ Attach(c, k)
      PROVE  FutureHeld'
  <2>1. \A w \in Workers : pc'[w] = pc[w] /\ loc'[w] = loc[w]
    BY <1>1, <1>3 DEF LaunchOnTokio, Cancel, Attach, Goto, TypeOK
  <2>2. parked' = parked
    BY <1>3 DEF LaunchOnTokio, Cancel, Attach
  <2> QED  BY <2>1, <2>2, FutureKept DEF Polling
<1>4. ASSUME NEW a \in Actors, Mark(a) \/ Bookkeeping(a) PROVE FutureHeld'
  <2>1. parked' \subseteq parked
    BY <1>4 DEF Mark, Bookkeeping, TaskFinished, DeliverPair, DeliverOutcome, DeliverSlot
  <2>2. pc'[a] \notin {"poll", "pending", "park"}
    BY <1>4 DEF Mark, Bookkeeping, TaskFinished, DeliverPair, DeliverOutcome, DeliverSlot,
                GotoOrFinish, Finish, Goto, TypeOK
  <2>3. \A b \in Actors \ {a} : pc'[b] = pc[b] /\ loc'[b] = loc[b]
    BY <1>4 DEF Mark, Bookkeeping, TaskFinished, DeliverPair, DeliverOutcome, DeliverSlot,
                GotoOrFinish, Finish, Goto, TypeOK
  <2> QED  BY <1>1, <2>1, <2>2, <2>3, FutureKept DEF Polling
<1>5. ASSUME NEW c \in Callers, RegisterAborter(c) \/ RunAborter(c) PROVE FutureHeld'
  <2>1. \A w \in Workers : (pc'[w] = pc[w] \/ pc'[w] = "idle") /\ loc'[w] = loc[w]
    BY <1>1, <1>5 DEF RegisterAborter, RunAborter, Finish, TypeOK
  <2>2. parked' = parked
    BY <1>5 DEF RegisterAborter, RunAborter
  <2> QED  BY <2>1, <2>2, FutureKept DEF Polling
<1>6. ASSUME NEW k \in Tasks, Fire(k) \/ SpuriousWake(k) \/ (k \in TokioTasks /\ TokioPoll(k))
      PROVE  FutureHeld'
  <2>1. \A w \in Workers : pc'[w] = pc[w] /\ loc'[w] = loc[w]
    BY <1>1, <1>6 DEF Fire, SpuriousWake, Wake, TokioPoll, Goto, TypeOK
  <2>2. parked' = parked
    BY <1>6 DEF Fire, SpuriousWake, Wake, TokioPoll
  <2> QED  BY <2>1, <2>2, FutureKept DEF Polling
<1>7. CASE RunDelivery \/ CloseLoop \/ UNCHANGED vars
  <2>1. UNCHANGED <<pc, loc, parked>>
    BY <1>7 DEF RunDelivery, CloseLoop, vars
  <2> QED  BY <2>1, FutureKept DEF Polling
<1>8. ASSUME NEW w \in Workers, Worker(w) PROVE FutureHeld'
  BY <1>1, <1>4, <1>8, WorkerFuture DEF Worker
<1>9. ASSUME NEW c \in Callers, InCall(c) PROVE FutureHeld'
  BY <1>1, <1>4, <1>5, <1>9 DEF InCall
<1>10. ASSUME NEW k \in TokioTasks, OnTokio(k) PROVE FutureHeld'
  BY <1>1, <1>4, <1>6, <1>10 DEF OnTokio
<1> QED  BY <1>2, <1>3, <1>6, <1>7, <1>8, <1>9, <1>10 DEF Next

\* A set whose members are all equal has at most one.
LEMMA AtMostOne ==
    ASSUME NEW S, \A x, y \in S : x = y
    PROVE  Cardinality(S) \in {0, 1} /\ (S = {} => Cardinality(S) = 0)
<1>1. CASE S = {}
  BY <1>1, FS_EmptySet
<1>2. CASE S # {}
  <2>1. PICK x \in S : S = {x}
    BY <1>2
  <2> QED  BY <1>2, <2>1, FS_Singleton
<1> QED  BY <1>1, <1>2

\* However often its wakers queue a task, and whoever cancels it meanwhile, its
\* future is polled by one worker, or parked, or gone.
THEOREM OneFuture == Spec => []FutureInOnePlace
<1>1. Init => FutureHeld
  BY DEF Init, FutureHeld, Polling, Actors
<1>2. FutureHeld => FutureInOnePlace
  <2> SUFFICES ASSUME FutureHeld, NEW k \in Tasks
               PROVE  Cardinality({w \in Workers : Polling(w) /\ loc[w].task = k})
                      + (IF k \in parked THEN 1 ELSE 0) <= 1
    BY DEF FutureInOnePlace
  <2> DEFINE holders == {w \in Workers : Polling(w) /\ loc[w].task = k}
  <2>1. \A x, y \in holders : x = y
    BY DEF FutureHeld
  <2>2. k \in parked => holders = {}
    BY DEF FutureHeld
  <2>3. Cardinality(holders) \in {0, 1} /\ (holders = {} => Cardinality(holders) = 0)
    <3> HIDE DEF holders
    <3> QED  BY <2>1, AtMostOne
  <2> QED  BY <2>2, <2>3
<1> QED  BY <1>1, <1>2, InitTInv, NextTInv, NextFuture, PTL DEF Spec

-----------------------------------------------------------------------------
(* A promise settles once *)

\* The steps that neither launch nor end a task, nor deliver one, and the rest.
Steps ==
    \/ \E c \in Callers : RegisterAborter(c) \/ RunAborter(c)
    \/ \E c \in Callers, k \in Tasks : Attach(c, k)
    \/ \E w \in Workers : \/ PopReady(w) \/ CheckCancelled(w) \/ Take(w) \/ Poll(w)
                          \/ Pending(w) \/ Park(w)
    \/ \E k \in Tasks : Fire(k) \/ SpuriousWake(k)
    \/ \E k \in TokioTasks : TokioPoll(k)
    \/ CloseLoop \/ UNCHANGED vars

LEMMA NextSteps ==
    ASSUME [Next]_vars
    PROVE  \/ Steps \/ RunDelivery
           \/ \E c \in Callers, k \in Tasks : Launch(c, k) \/ LaunchOnTokio(c, k) \/ Cancel(c, k)
           \/ \E a \in Actors : Mark(a) \/ Bookkeeping(a)
  BY DEF Next, Worker, InCall, OnTokio, Actors, Steps

\* The first terminal outcome of a task stays.
LEMMA OutcomeStays ==
    ASSUME TInv, [Next]_vars, NEW k \in Tasks, outcome[k] \in Terminal
    PROVE  outcome'[k] = outcome[k]
<1> USE DEF TInv
<1>1. CASE outcome' = outcome
  BY <1>1
<1>2. ASSUME NEW c \in Callers, NEW j \in Tasks, Launch(c, j) \/ LaunchOnTokio(c, j) \/ Cancel(c, j)
      PROVE  outcome'[k] = outcome[k]
  BY <1>2 DEF Launch, LaunchOnTokio, Cancel, MarkOutcome, TypeOK, Terminal
<1>3. ASSUME NEW a \in Actors, Mark(a)
      PROVE  outcome'[k] = outcome[k]
  BY <1>3 DEF Mark, MarkOutcome, TypeOK, Terminal
<1>4. \/ outcome' = outcome
      \/ \E c \in Callers, j \in Tasks : Launch(c, j) \/ LaunchOnTokio(c, j) \/ Cancel(c, j)
      \/ \E a \in Actors : Mark(a)
  <2>1. ASSUME Steps \/ \E a \in Actors : Bookkeeping(a) PROVE outcome' = outcome
    BY <2>1 DEF Steps, Bookkeeping, TaskFinished, DeliverPair, DeliverOutcome, DeliverSlot,
                RegisterAborter, RunAborter, PopReady, CheckCancelled, Take, Poll, Pending, Park,
                Attach, Fire, SpuriousWake, Wake, TokioPoll, CloseLoop, record, vars
  <2>2. RunDelivery => outcome' = outcome
    BY DEF RunDelivery, record
  <2> QED  BY <2>1, <2>2, NextSteps
<1> QED  BY <1>1, <1>2, <1>3, <1>4

\* Only the taker of the delivery slot, and the drained job, change a delivery.
LEMMA DeliverySteps ==
    ASSUME [Next]_vars
    PROVE  \/ \E a \in Actors : DeliverSlot(a)
           \/ RunDelivery
           \/ UNCHANGED <<delivered, jobs, settled>>
<1> USE DEF record, delivery
<1>1. Steps => UNCHANGED <<delivered, jobs, settled>>
  BY DEF Steps, RegisterAborter, RunAborter, PopReady, CheckCancelled, Take, Poll, Pending, Park,
         Attach, Fire, SpuriousWake, Wake, TokioPoll, CloseLoop, vars
<1>2. ASSUME NEW c \in Callers, NEW k \in Tasks, Launch(c, k) \/ LaunchOnTokio(c, k) \/ Cancel(c, k)
      PROVE  UNCHANGED <<delivered, jobs, settled>>
  BY <1>2 DEF Launch, LaunchOnTokio, Cancel
<1>3. ASSUME NEW a \in Actors, Mark(a) \/ TaskFinished(a) \/ DeliverPair(a) \/ DeliverOutcome(a)
      PROVE  UNCHANGED <<delivered, jobs, settled>>
  BY <1>3 DEF Mark, TaskFinished, DeliverPair, DeliverOutcome
<1> QED  BY <1>1, <1>2, <1>3, NextSteps DEF Bookkeeping

LEMMA NextDelivery == TInv /\ DeliveredOnce /\ [Next]_vars => DeliveredOnce'
<1> SUFFICES ASSUME TInv, DeliveredOnce, [Next]_vars PROVE DeliveredOnce'
  OBVIOUS
<1>1. \A k \in Tasks : outcome[k] = "done" => outcome'[k] = "done"
  BY OutcomeStays DEF Terminal
<1>2. /\ jobs \in Seq(Tasks) /\ settled \in [Tasks -> Seq({"resolved", "rejected"})]
      /\ delivered \in [Tasks -> BOOLEAN]
  BY DEF TInv, TypeOK
<1>3. CASE UNCHANGED <<delivered, jobs, settled>>
  BY <1>1, <1>3 DEF DeliveredOnce
<1>4. ASSUME NEW a \in Actors, DeliverSlot(a) PROVE DeliveredOnce'
  <2> DEFINE k == loc[a].task
  <2>1. k \in Tasks
    BY <1>4 DEF TInv, Located, LocatedAt, DeliverSlot
  <2>2. settled' = settled /\ delivered' = [delivered EXCEPT ![k] = TRUE]
    BY <1>4 DEF DeliverSlot
  <2>3. CASE jobs' = jobs
    BY <1>1, <1>2, <2>1, <2>2, <2>3 DEF DeliveredOnce
  <2>4. CASE jobs' = Append(jobs, k) /\ ~delivered[k]
    <3>1. ASSUME NEW n \in 1 .. Len(jobs')
          PROVE  \/ n \in 1 .. Len(jobs) /\ jobs'[n] = jobs[n] /\ jobs'[n] # k
                 \/ n = Len(jobs) + 1 /\ jobs'[n] = k
      BY <1>2, <2>1, <2>4, AppendElements DEF DeliveredOnce
    <3>2. settled[k] = <<>>
      BY <2>1, <2>4 DEF DeliveredOnce
    <3>3. delivered'[k] /\ \A j \in Tasks : delivered[j] => delivered'[j]
      BY <1>2, <2>1, <2>2
    <3> HIDE DEF k
    <3>4. \A m, n \in 1 .. Len(jobs') : jobs'[m] = jobs'[n] => m = n
      BY <3>1 DEF DeliveredOnce
    <3>5. \A n \in 1 .. Len(jobs') : delivered'[jobs'[n]] /\ settled'[jobs'[n]] = <<>>
      <4>1. \A n \in 1 .. Len(jobs) : jobs[n] \in Tasks
        BY <1>2
      <4> QED  BY <2>1, <2>2, <3>1, <3>2, <3>3, <4>1 DEF DeliveredOnce
    <3>6. \A j \in Tasks : \/ settled'[j] = <<>>
                           \/ delivered'[j] /\ settled'[j] = <<"rejected">>
                           \/ delivered'[j] /\ settled'[j] = <<"resolved">> /\ outcome'[j] = "done"
      BY <1>1, <2>2, <3>3 DEF DeliveredOnce
    <3> QED  BY <3>4, <3>5, <3>6 DEF DeliveredOnce
  <2> QED  BY <1>4, <2>3, <2>4 DEF DeliverSlot
<1>5. CASE RunDelivery
  <2> DEFINE k == Head(jobs)
  <2>1. /\ 1 \in 1 .. Len(jobs) /\ k = jobs[1] /\ k \in Tasks
        /\ jobs' = Tail(jobs) /\ delivered' = delivered /\ outcome' = outcome
        /\ \A n \in 1 .. Len(jobs') : n + 1 \in 1 .. Len(jobs) /\ jobs'[n] = jobs[n + 1]
    BY <1>2, <1>5 DEF RunDelivery, record
  <2>2. \/ settled' = settled
        \/ \E s \in IF outcome[k] = "done" THEN {"resolved", "rejected"} ELSE {"rejected"} :
             settled' = [settled EXCEPT ![k] = Append(@, s)]
    BY <1>5 DEF RunDelivery
  <2>3. delivered[k] /\ settled[k] = <<>>
    BY <2>1 DEF DeliveredOnce
  <2>4. /\ \/ settled'[k] = <<>> \/ settled'[k] = <<"rejected">>
           \/ settled'[k] = <<"resolved">> /\ outcome[k] = "done"
        /\ \A j \in Tasks \ {k} : settled'[j] = settled[j]
    BY <1>2, <2>1, <2>2, <2>3
  <2>5. ASSUME NEW n \in 1 .. Len(jobs')
        PROVE  jobs'[n] # k /\ jobs'[n] \in Tasks /\ delivered[jobs'[n]] /\ settled[jobs'[n]] = <<>>
    <3>1. n + 1 \in 1 .. Len(jobs) /\ n + 1 # 1 /\ jobs'[n] = jobs[n + 1]
      BY <2>1
    <3> QED  BY <1>2, <2>1, <3>1 DEF DeliveredOnce
  <2>6. \A m, n \in 1 .. Len(jobs') : jobs'[m] = jobs'[n] => m = n
    BY <2>1 DEF DeliveredOnce
  <2> HIDE DEF k
  <2>7. \A j \in Tasks : \/ settled'[j] = <<>>
                         \/ delivered[j] /\ settled'[j] = <<"rejected">>
                         \/ delivered[j] /\ settled'[j] = <<"resolved">> /\ outcome[j] = "done"
    BY <2>1, <2>3, <2>4 DEF DeliveredOnce
  <2>8. \A n \in 1 .. Len(jobs') : delivered'[jobs'[n]] /\ settled'[jobs'[n]] = <<>>
    BY <2>1, <2>4, <2>5
  <2> QED  BY <2>1, <2>6, <2>7, <2>8 DEF DeliveredOnce
<1> QED  BY <1>3, <1>4, <1>5, DeliverySteps

LEMMA ShortList ==
    ASSUME NEW s, s = <<>> \/ s = <<"rejected">> \/ s = <<"resolved">>
    PROVE  Len(s) \in {0, 1} /\ (s = <<>> => Len(s) = 0)
  OBVIOUS

\* The promise settles once, though attach and the winner of the outcome may
\* both deliver, and resolves only for a task that completed.
THEOREM SettlesOnce == Spec => []SettledOnce
<1>1. Init => DeliveredOnce
  BY DEF Init, DeliveredOnce
<1>2. TInv /\ DeliveredOnce => SettledOnce
  <2> SUFFICES ASSUME TInv, DeliveredOnce, NEW k \in Tasks
               PROVE  /\ Len(settled[k]) + Cardinality({n \in DOMAIN jobs : jobs[n] = k}) <= 1
                      /\ Contains(settled[k], "resolved") => outcome[k] = "done"
    BY DEF SettledOnce
  <2> DEFINE queued == {n \in DOMAIN jobs : jobs[n] = k}
  <2>1. DOMAIN jobs = 1 .. Len(jobs)
    BY DEF TInv, TypeOK
  <2>2. \A x, y \in queued : x = y
    BY <2>1 DEF DeliveredOnce
  <2>3. settled[k] # <<>> => queued = {}
    BY <2>1 DEF DeliveredOnce
  <2>4. Len(settled[k]) \in {0, 1} /\ (settled[k] = <<>> => Len(settled[k]) = 0)
    <3>1. settled[k] = <<>> \/ settled[k] = <<"rejected">> \/ settled[k] = <<"resolved">>
      BY DEF DeliveredOnce
    <3> QED  BY <3>1, ShortList
  <2>5. Contains(settled[k], "resolved") => outcome[k] = "done"
    BY DEF DeliveredOnce, Contains
  <2>6. Cardinality(queued) \in {0, 1} /\ (queued = {} => Cardinality(queued) = 0)
    <3> HIDE DEF queued
    <3> QED  BY <2>2, AtMostOne
  <2>7. Len(settled[k]) + Cardinality(queued) <= 1
    <3> HIDE DEF queued
    <3> DEFINE m == Len(settled[k])
               n == Cardinality(queued)
    <3>1. m \in {0, 1} /\ n \in {0, 1} /\ (m = 1 => n = 0)
      BY <2>3, <2>4, <2>6
    <3>2. m + n <= 1
      <4> HIDE DEF m, n
      <4> QED  BY <3>1
    <3> QED  BY <3>2
  <2> QED  BY <2>5, <2>7
<1> QED  BY <1>1, <1>2, InitTInv, NextTInv, NextDelivery, PTL DEF Spec

-----------------------------------------------------------------------------
(* The count of live tasks *)

\* A step that changes neither the winners nor which tasks run.
LEMMA WinnersKept ==
    ASSUME TInv, OneWinner, Counted,
           \A a \in Actors : Winner(a)' <=> Winner(a),
           \A a \in Actors : Winner(a) => loc'[a].task = loc[a].task,
           outcome' = outcome, liveTasks' = liveTasks, runtime' = runtime
    PROVE  OneWinner' /\ Counted'
<1>1. OneWinner'
  BY DEF OneWinner
<1>2. Uncounted' = Uncounted
  BY DEF Uncounted
<1>3. Orphans' = Orphans
  BY DEF Orphans
<1> QED  BY <1>1, <1>2, <1>3 DEF Counted, Net

\* The counts fit a usize.
LEMMA UncountedBound ==
    /\ IsFiniteSet(Uncounted)
    /\ Cardinality(Uncounted) \in Nat /\ Cardinality(Uncounted) < USIZE
<1>1. Uncounted \in SUBSET Tasks
  BY DEF Uncounted
<1>2. IsFiniteSet(Uncounted) /\ Cardinality(Uncounted) <= Cardinality(Tasks)
  BY <1>1, CountAssumption, FS_Subset
<1> QED  BY <1>2, CountAssumption, ExecutorAssumption, FS_CardinalityType

LEMMA OrphansBound ==
    /\ IsFiniteSet(Orphans)
    /\ Cardinality(Orphans) \in Nat /\ Cardinality(Orphans) < USIZE
<1>1. Orphans \in SUBSET Tasks
  BY ExecutorAssumption DEF Orphans
<1>2. IsFiniteSet(Orphans) /\ Cardinality(Orphans) <= Cardinality(Tasks)
  BY <1>1, CountAssumption, FS_Subset
<1> QED  BY <1>2, CountAssumption, ExecutorAssumption, FS_CardinalityType

\* Wrapping arithmetic is exact below the wrap, and steps over it both ways.
LEMMA CountUp == \A n \in Nat : n < USIZE => (n + 1) % USIZE = IF n + 1 = USIZE THEN 0 ELSE n + 1
  BY ExecutorAssumption
LEMMA CountDown ==
    \A n \in Nat : n < USIZE => (n + USIZE - 1) % USIZE = IF n = 0 THEN USIZE - 1 ELSE n - 1
  BY ExecutorAssumption

\* One task more or less, and one of both.
LEMMA NetMoves ==
    ASSUME NEW n \in Nat, NEW m \in Nat, n + 1 < USIZE, m < USIZE
    PROVE  /\ (Net(n, m) + 1) % USIZE = Net(n + 1, m)
           /\ (Net(n + 1, m) + USIZE - 1) % USIZE = Net(n, m)
           /\ m + 1 < USIZE => Net(n + 1, m + 1) = Net(n, m)
<1>1. /\ Net(n, m) \in Nat /\ Net(n, m) < USIZE
      /\ Net(n + 1, m) \in Nat /\ Net(n + 1, m) < USIZE
  BY ExecutorAssumption DEF Net
<1>2. Net(n + 1, m) = IF Net(n, m) + 1 = USIZE THEN 0 ELSE Net(n, m) + 1
  BY ExecutorAssumption DEF Net
<1>3. Net(n, m) = IF Net(n + 1, m) = 0 THEN USIZE - 1 ELSE Net(n + 1, m) - 1
  BY ExecutorAssumption DEF Net
<1>4. m + 1 < USIZE => Net(n + 1, m + 1) = Net(n, m)
  BY ExecutorAssumption DEF Net
<1> HIDE DEF Net
<1> QED  BY <1>1, <1>2, <1>3, <1>4, CountUp, CountDown

\* The task that is launched is counted from then on; an orphan is an orphan more.
LEMMA LaunchCounts ==
    ASSUME TInv, OneWinner, Counted, NEW k \in Tasks, outcome[k] = "new",
           outcome' = [outcome EXCEPT ![k] = "running"],
           \/ Orphans' = Orphans /\ liveTasks' = (liveTasks + 1) % USIZE
           \/ k \notin Orphans /\ Orphans' = Orphans \cup {k} /\ liveTasks' = liveTasks,
           runtime' = "unknown" => runtime = "unknown" /\ k \notin TokioTasks,
           \A a \in Actors : Winner(a)' <=> Winner(a),
           \A a \in Actors : Winner(a) => loc'[a].task = loc[a].task
    PROVE  OneWinner' /\ Counted'
<1>1. \A a \in Actors : Winner(a) => loc[a].task \in Tasks \ {k}
  BY DEF OneWinner, TInv, Located, LocatedAt, Winner, Terminal
<1>2. OneWinner'
  BY <1>1 DEF OneWinner, TInv, TypeOK
<1>3. k \notin Uncounted
  BY <1>1 DEF Uncounted
<1>4. Uncounted' = Uncounted \cup {k}
  BY <1>1 DEF Uncounted, TInv, TypeOK
<1>5. Cardinality(Uncounted \cup {k}) = Cardinality(Uncounted) + 1
  BY <1>3, UncountedBound, FS_AddElement
<1>6. Cardinality(Uncounted \cup {k}) <= Cardinality(Tasks)
  <2>1. Uncounted \cup {k} \in SUBSET Tasks
    BY DEF Uncounted
  <2> QED  BY <2>1, CountAssumption, FS_Subset
<1>7. Cardinality(Tasks) \in Nat
  BY CountAssumption, FS_CardinalityType
<1>8. Cardinality(Uncounted) + 1 < USIZE
  BY <1>5, <1>6, <1>7, UncountedBound, CountAssumption, ExecutorAssumption
<1>9. liveTasks' = Net(Cardinality(Uncounted) + 1, Cardinality(Orphans'))
  <2>1. liveTasks = Net(Cardinality(Uncounted), Cardinality(Orphans))
    BY DEF Counted
  <2>2. CASE Orphans' = Orphans /\ liveTasks' = (liveTasks + 1) % USIZE
    BY <1>8, <2>1, <2>2, UncountedBound, OrphansBound, NetMoves
  <2>3. CASE k \notin Orphans /\ Orphans' = Orphans \cup {k} /\ liveTasks' = liveTasks
    <3>1. Cardinality(Orphans \cup {k}) = Cardinality(Orphans) + 1
      BY <2>3, OrphansBound, FS_AddElement
    <3>2. Orphans \cup {k} \in SUBSET Tasks
      BY ExecutorAssumption DEF Orphans
    <3>3. Cardinality(Orphans) + 1 < USIZE
      BY <1>7, <3>1, <3>2, OrphansBound, CountAssumption, ExecutorAssumption, FS_Subset
    <3> QED  BY <1>8, <2>1, <2>3, <3>1, <3>3, UncountedBound, OrphansBound, NetMoves
  <2> QED  BY <2>2, <2>3
<1>10. runtime' = "unknown" => \A j \in TokioTasks : outcome'[j] = "new"
  BY ExecutorAssumption DEF Counted, TInv, TypeOK
<1>11. Cardinality(Uncounted)' = Cardinality(Uncounted) + 1 /\ Cardinality(Orphans)' = Cardinality(Orphans')
  BY <1>4, <1>5
<1> QED  BY <1>2, <1>9, <1>10, <1>11 DEF Counted, Net

\* A terminal transition passes the task from those that run to its winner.
LEMMA WinnerCounts ==
    ASSUME TInv, OneWinner, Counted, NEW a \in Actors, NEW k \in Tasks, NEW r \in Terminal,
           outcome[k] = "running", outcome' = [outcome EXCEPT ![k] = r],
           ~Winner(a), Winner(a)', loc'[a].task = k,
           \A b \in Actors \ {a} : Winner(b)' <=> Winner(b),
           \A b \in Actors \ {a} : Winner(b) => loc'[b].task = loc[b].task,
           liveTasks' = liveTasks, runtime' = runtime
    PROVE  OneWinner' /\ Counted'
<1>1. \A b \in Actors : Winner(b) => loc[b].task \in Tasks \ {k}
  BY DEF OneWinner, TInv, Located, LocatedAt, Winner, Terminal
<1>2. OneWinner'
  BY <1>1 DEF OneWinner, TInv, TypeOK
<1>3. Uncounted' = Uncounted
  BY <1>1 DEF Uncounted, TInv, TypeOK, Terminal
<1>4. /\ Orphans' = Orphans
      /\ \A j \in TokioTasks : outcome[j] = "new" => outcome'[j] = "new"
  BY ExecutorAssumption DEF Orphans, TInv, TypeOK, Terminal
<1> QED  BY <1>2, <1>3, <1>4 DEF Counted, Net

\* The winner counts its task down, and nobody else ever does.
LEMMA FinishCounts ==
    ASSUME TInv, OneWinner, Counted, NEW a \in Actors, Winner(a), ~Winner(a)',
           \A b \in Actors \ {a} : Winner(b)' <=> Winner(b),
           \A b \in Actors \ {a} : Winner(b) => loc'[b].task = loc[b].task,
           outcome' = outcome, liveTasks' = (liveTasks + USIZE - 1) % USIZE, runtime' = runtime
    PROVE  OneWinner' /\ Counted'
<1> DEFINE k == loc[a].task
<1>1. k \in Tasks /\ outcome[k] # "running" /\ k \in Uncounted
  BY DEF OneWinner, TInv, Located, LocatedAt, Winner, Terminal, Uncounted
<1>2. OneWinner'
  BY DEF OneWinner
<1>3. Uncounted' = Uncounted \ {k}
  BY <1>1 DEF Uncounted, OneWinner
<1>4. Cardinality(Uncounted \ {k}) = Cardinality(Uncounted) - 1 /\ Cardinality(Uncounted) # 0
  BY <1>1, UncountedBound, FS_RemoveElement, FS_EmptySet
<1>5. Orphans' = Orphans
  BY DEF Orphans
<1>6. liveTasks' = Net(Cardinality(Uncounted) - 1, Cardinality(Orphans))
  <2> DEFINE n == Cardinality(Uncounted) - 1
  <2>1. n \in Nat /\ n + 1 = Cardinality(Uncounted) /\ n + 1 < USIZE
    BY <1>4, UncountedBound
  <2>2. liveTasks = Net(n + 1, Cardinality(Orphans))
    BY <2>1 DEF Counted
  <2> HIDE DEF n
  <2>3. liveTasks' = Net(n, Cardinality(Orphans))
    BY <2>1, <2>2, OrphansBound, NetMoves
  <2> QED  BY <2>3 DEF n
<1> QED  BY <1>2, <1>3, <1>4, <1>5, <1>6 DEF Counted, Net

\* Steps that neither launch, nor end a task, nor count it down.
LEMMA OtherCounts ==
    ASSUME TInv, OneWinner, Counted,
           \/ \E c \in Callers : RegisterAborter(c) \/ RunAborter(c) \/ \E k \in Tasks : Attach(c, k)
           \/ \E w \in Workers : \/ PopReady(w) \/ CheckCancelled(w) \/ Take(w) \/ Poll(w)
                                 \/ Pending(w) \/ Park(w)
           \/ \E a \in Actors : DeliverPair(a) \/ DeliverOutcome(a) \/ DeliverSlot(a)
           \/ \E k \in Tasks : Fire(k) \/ SpuriousWake(k) \/ (k \in TokioTasks /\ TokioPoll(k))
           \/ RunDelivery \/ CloseLoop \/ UNCHANGED vars
    PROVE  OneWinner' /\ Counted'
<1> USE DEF TInv, record, tokio, futures, delivery
<1>2. ASSUME NEW c \in Callers,
             RegisterAborter(c) \/ RunAborter(c) \/ \E k \in Tasks : Attach(c, k)
      PROVE  OneWinner' /\ Counted'
  <2>1. c \in Actors
    BY DEF Actors
  <2>4. UNCHANGED <<outcome, liveTasks, runtime>>
    BY <1>2 DEF RegisterAborter, RunAborter, Attach
  <2>2. \A a \in Actors : Winner(a)' <=> Winner(a)
    BY <1>2, <2>1 DEF RegisterAborter, RunAborter, Attach, Finish, Goto, Winner, TypeOK
  <2>3. \A a \in Actors : Winner(a) => loc'[a].task = loc[a].task
    BY <1>2, <2>1 DEF RegisterAborter, RunAborter, Attach, Finish, Goto, Winner, TypeOK
  <2> QED  BY <2>2, <2>3, <2>4, WinnersKept
<1>3. ASSUME NEW w \in Workers, \/ PopReady(w) \/ CheckCancelled(w) \/ Take(w) \/ Poll(w)
                                \/ Pending(w) \/ Park(w)
      PROVE  OneWinner' /\ Counted'
  <2>1. w \in Actors
    BY DEF Actors
  <2>2. ~Winner(w) /\ ~Winner(w)' /\ \A a \in Actors \ {w} : pc'[a] = pc[a] /\ loc'[a] = loc[a]
    <3>1. pc \in [Actors -> AnyPc] /\ loc \in [Actors -> AnyLocals]
      BY LocalsTyped
    <3> USE <2>1, <3>1 DEF Goto, GotoOrFinish, Finish, Winner
    <3>2. CASE PopReady(w) \/ CheckCancelled(w)
      BY <3>2 DEF PopReady, CheckCancelled
    <3>3. CASE Take(w) \/ Park(w)
      BY <3>3 DEF Take, Park
    <3>4. CASE Poll(w)
      BY <3>4 DEF Poll
    <3>5. CASE Pending(w)
      BY <3>5 DEF Pending
    <3> QED  BY <1>3, <3>2, <3>3, <3>4, <3>5
  <2>3. /\ \A a \in Actors : Winner(a)' <=> Winner(a)
        /\ \A a \in Actors : Winner(a) => loc'[a].task = loc[a].task
    BY <2>2 DEF Winner
  <2>4. UNCHANGED <<outcome, liveTasks, runtime>>
    BY <1>3 DEF PopReady, CheckCancelled, Take, Poll, Pending, Park
  <2> QED  BY <2>3, <2>4, WinnersKept
<1>4. ASSUME NEW w \in Actors, DeliverPair(w) \/ DeliverOutcome(w) \/ DeliverSlot(w)
      PROVE  OneWinner' /\ Counted'
  <2>1. ~Winner(w) /\ ~Winner(w)' /\ \A a \in Actors \ {w} : pc'[a] = pc[a] /\ loc'[a] = loc[a]
    BY <1>4 DEF DeliverPair, DeliverOutcome, DeliverSlot, GotoOrFinish, Finish, Winner, TypeOK
  <2>2. /\ \A a \in Actors : Winner(a)' <=> Winner(a)
        /\ \A a \in Actors : Winner(a) => loc'[a].task = loc[a].task
    BY <2>1 DEF Winner
  <2>3. UNCHANGED <<outcome, liveTasks, runtime>>
    BY <1>4 DEF DeliverPair, DeliverOutcome, DeliverSlot
  <2> QED  BY <2>2, <2>3, WinnersKept
<1>5. ASSUME NEW k \in Tasks, Fire(k) \/ SpuriousWake(k) \/ (k \in TokioTasks /\ TokioPoll(k))
      PROVE  OneWinner' /\ Counted'
  <2>1. /\ pc' = pc \/ (k \in Actors /\ ~Winner(k) /\ ~Winner(k)')
        /\ \A a \in Actors \ {k} : pc'[a] = pc[a] /\ loc'[a] = loc[a]
        /\ pc' = pc => loc' = loc
    BY <1>5 DEF Fire, SpuriousWake, Wake, TokioPoll, Goto, Winner, TypeOK, Actors
  <2>2. /\ \A a \in Actors : Winner(a)' <=> Winner(a)
        /\ \A a \in Actors : Winner(a) => loc'[a].task = loc[a].task
    BY <2>1 DEF Winner
  <2>3. UNCHANGED <<outcome, liveTasks, runtime>>
    BY <1>5 DEF Fire, SpuriousWake, Wake, TokioPoll
  <2> QED  BY <2>2, <2>3, WinnersKept
<1>6. CASE RunDelivery \/ CloseLoop \/ UNCHANGED vars
  <2>1. UNCHANGED <<pc, loc, outcome, liveTasks, runtime>>
    BY <1>6 DEF RunDelivery, CloseLoop, vars
  <2> QED  BY <2>1, WinnersKept DEF Winner
<1> QED  BY <1>2, <1>3, <1>4, <1>5, <1>6

LEMMA MarkCounts ==
    ASSUME TInv, OneWinner, Counted, NEW a \in Actors, Mark(a)
    PROVE  OneWinner' /\ Counted'
<1> USE DEF TInv, tokio, futures, delivery
<1>1. /\ loc[a].task \in Tasks /\ loc[a].result \in Terminal /\ ~Winner(a)
      /\ UNCHANGED <<liveTasks, runtime>>
      /\ \A b \in Actors \ {a} : pc'[b] = pc[b] /\ loc'[b] = loc[b]
  BY DEF Mark, GotoOrFinish, Finish, Located, LocatedAt, Terminal, Winner, TypeOK
<1>2. CASE outcome[loc[a].task] = "running"
  <2>1. /\ outcome' = [outcome EXCEPT ![loc[a].task] = loc[a].result]
        /\ Winner(a)' /\ loc'[a].task = loc[a].task
    BY <1>2 DEF Mark, MarkOutcome, GotoOrFinish, Winner, TypeOK
  <2>2. /\ \A b \in Actors \ {a} : Winner(b)' <=> Winner(b)
        /\ \A b \in Actors \ {a} : Winner(b) => loc'[b].task = loc[b].task
    BY <1>1 DEF Winner
  <2> QED  BY <1>1, <1>2, <2>1, <2>2, WinnerCounts
<1>3. CASE outcome[loc[a].task] # "running"
  <2>1. outcome' = outcome /\ ~Winner(a)'
    BY <1>3 DEF Mark, MarkOutcome, GotoOrFinish, Finish, Winner, TypeOK
  <2>2. /\ \A b \in Actors : Winner(b)' <=> Winner(b)
        /\ \A b \in Actors : Winner(b) => loc'[b].task = loc[b].task
    BY <1>1, <2>1 DEF Winner
  <2> QED  BY <1>1, <2>1, <2>2, WinnersKept
<1> QED  BY <1>2, <1>3

LEMMA TaskFinishedCounts ==
    ASSUME TInv, OneWinner, Counted, NEW a \in Actors, TaskFinished(a)
    PROVE  OneWinner' /\ Counted'
<1>1. /\ Winner(a) /\ ~Winner(a)' /\ loc' = loc
      /\ \A b \in Actors \ {a} : pc'[b] = pc[b]
      /\ outcome' = outcome /\ runtime' = runtime
      /\ liveTasks' = (liveTasks + USIZE - 1) % USIZE
  BY DEF TaskFinished, Goto, Winner, TInv, TypeOK, record
<1> QED  BY <1>1, FinishCounts DEF Winner

LEMMA NextCounts == TInv /\ OneWinner /\ Counted /\ [Next]_vars => OneWinner' /\ Counted'
<1> SUFFICES ASSUME TInv, OneWinner, Counted, [Next]_vars PROVE OneWinner' /\ Counted'
  OBVIOUS
<1> USE DEF TInv
<1>1. /\ \A a \in Workers \cup Callers \cup TokioTasks : a \in Actors
      /\ Callers \cap Tasks = {}
  BY ExecutorAssumption DEF Actors
<1>2. ASSUME NEW c \in Callers, NEW k \in Tasks, Launch(c, k) PROVE OneWinner' /\ Counted'
  <2>1. /\ runtime' = runtime /\ k \notin TokioTasks
        /\ \A j \in TokioTasks : outcome'[j] = outcome[j]
    BY <1>2, ExecutorAssumption DEF Launch, tokio, TypeOK
  <2>2. Orphans' = Orphans
    BY <2>1 DEF Orphans
  <2> QED  BY <1>2, <2>1, <2>2, LaunchCounts DEF Launch, tokio, Winner
<1>3. ASSUME NEW c \in Callers, NEW k \in Tasks, LaunchOnTokio(c, k) PROVE OneWinner' /\ Counted'
  <2>1. \A a \in Actors \ {c, k} : pc'[a] = pc[a] /\ loc'[a] = loc[a]
    BY <1>3 DEF LaunchOnTokio, TypeOK
  <2>2. ~Winner(c) /\ ~Winner(c)' /\ ~Winner(k) /\ ~Winner(k)'
    <3>1. k \in TokioTasks /\ outcome[k] = "new" /\ pc[c] = "idle" /\ c # k
      BY <1>1, <1>3 DEF LaunchOnTokio
    <3>2. pc[k] = "idle"
      BY <1>1, <3>1 DEF Located, LocatedAt
    <3>3. pc'[c] \in {"idle", "register"} /\ pc'[k] \in {"idle", "tokio_ready"}
      BY <1>1, <1>3, <3>1, <3>2 DEF LaunchOnTokio, TypeOK
    <3> QED  BY <3>1, <3>2, <3>3 DEF Winner
  <2>3. \/ Orphans' = Orphans /\ liveTasks' = (liveTasks + 1) % USIZE
        \/ k \notin Orphans /\ Orphans' = Orphans \cup {k} /\ liveTasks' = liveTasks
    BY <1>3 DEF LaunchOnTokio, Orphans, Counted, TypeOK
  <2>4. runtime' # "unknown" /\ outcome[k] = "new" /\ outcome' = [outcome EXCEPT ![k] = "running"]
    BY <1>3 DEF LaunchOnTokio
  <2>5. /\ \A a \in Actors : Winner(a)' <=> Winner(a)
        /\ \A a \in Actors : Winner(a) => loc'[a].task = loc[a].task
    BY <1>1, <2>1, <2>2 DEF Winner
  <2> QED  BY <2>3, <2>4, <2>5, LaunchCounts
<1>4. ASSUME NEW c \in Callers, NEW k \in Tasks, Cancel(c, k) PROVE OneWinner' /\ Counted'
  <2>1. loc'[c].task = k
    BY <1>1, <1>4 DEF Cancel, TypeOK
  <2>2. \A a \in Actors \ {c} : pc'[a] = pc[a] /\ loc'[a] = loc[a]
    BY <1>4 DEF Cancel, Goto, TypeOK
  <2>3. /\ outcome[k] = "running" /\ outcome' = [outcome EXCEPT ![k] = "cancelled"]
        /\ ~Winner(c) /\ Winner(c)' /\ UNCHANGED <<liveTasks, runtime>>
    BY <1>1, <1>4 DEF Cancel, Goto, MarkOutcome, Winner, TypeOK, tokio
  <2>4. /\ \A b \in Actors \ {c} : Winner(b)' <=> Winner(b)
        /\ \A b \in Actors \ {c} : Winner(b) => loc'[b].task = loc[b].task
    BY <2>2 DEF Winner
  <2>5. "cancelled" \in Terminal /\ c \in Actors
    BY <1>1 DEF Terminal
  <2> QED  BY <2>1, <2>3, <2>4, <2>5, WinnerCounts
<1>5. ASSUME NEW a \in Actors, Mark(a) \/ Bookkeeping(a) PROVE OneWinner' /\ Counted'
  BY <1>5, MarkCounts, TaskFinishedCounts, OtherCounts DEF Bookkeeping
<1>6. ASSUME NEW w \in Workers, Worker(w) PROVE OneWinner' /\ Counted'
  BY <1>1, <1>5, <1>6, OtherCounts DEF Worker
<1>7. ASSUME NEW c \in Callers, InCall(c) PROVE OneWinner' /\ Counted'
  BY <1>1, <1>5, <1>7, OtherCounts DEF InCall
<1>8. ASSUME NEW k \in TokioTasks, OnTokio(k) PROVE OneWinner' /\ Counted'
  <2>1. k \in Tasks
    BY ExecutorAssumption
  <2> QED  BY <1>1, <1>5, <1>8, <2>1, OtherCounts DEF OnTokio
<1>9. CASE \/ \E c \in Callers, k \in Tasks : Attach(c, k)
           \/ \E k \in Tasks : Fire(k) \/ SpuriousWake(k)
           \/ RunDelivery \/ CloseLoop \/ UNCHANGED vars
  BY <1>9, OtherCounts
<1> QED  BY <1>2, <1>3, <1>4, <1>6, <1>7, <1>8, <1>9 DEF Next

\* The tasks of the winners are as many as the winners.
LEMMA CountedApart ==
    ASSUME TInv, OneWinner
    PROVE  Cardinality(Uncounted) = Cardinality(Running) + Cardinality({a \in Actors : Winner(a)})
<1> DEFINE W == {a \in Actors : Winner(a)}
           T == {loc[a].task : a \in W}
           f == [a \in W |-> loc[a].task]
<1>1. T \in SUBSET Tasks /\ Running \in SUBSET Tasks
  BY DEF TInv, Located, LocatedAt, Winner, Running
<1>2. IsFiniteSet(T) /\ IsFiniteSet(Running)
  BY <1>1, CountAssumption, FS_Subset
<1>3. f \in Injection(W, T) /\ f \in Surjection(W, T)
  <2>1. \A a, b \in W : loc[a].task = loc[b].task => a = b
    BY DEF OneWinner
  <2> QED  BY <2>1 DEF Injection, IsInjective, Surjection
<1>4. Cardinality(W) = Cardinality(T)
  <2> HIDE DEF W, T, f
  <2> QED  BY <1>2, <1>3, FS_Injection
<1>5. Uncounted = Running \cup T /\ Running \cap T = {}
  BY DEF Uncounted, Running, OneWinner, Terminal, TInv, Located, LocatedAt, Winner
<1>6. Cardinality(Uncounted) = Cardinality(Running) + Cardinality(T) - Cardinality({})
  <2> HIDE DEF T
  <2> QED  BY <1>2, <1>5, FS_Union
<1>7. Cardinality(Running) \in Nat /\ Cardinality(T) \in Nat
  <2> HIDE DEF T
  <2> QED  BY <1>2, FS_CardinalityType
<1> HIDE DEF T, W
<1>8. Cardinality(Uncounted) = Cardinality(Running) + Cardinality(W)
  BY <1>4, <1>6, <1>7, FS_EmptySet
<1> QED  BY <1>8 DEF W

LEMMA InitCounts == Init => OneWinner /\ Counted
<1> SUFFICES ASSUME Init PROVE OneWinner /\ Counted
  OBVIOUS
<1>1. \A a \in Actors : ~Winner(a)
  BY DEF Init, Winner
<1>2. Uncounted = {} /\ Orphans = {}
  BY <1>1 DEF Uncounted, Orphans, Init
<1>3. \A k \in TokioTasks : outcome[k] = "new"
  BY ExecutorAssumption DEF Init
<1> QED  BY <1>1, <1>2, <1>3, FS_EmptySet DEF OneWinner, Counted, Net, Init

\* pending_tasks() is exact up to the winners that have not counted down yet, for
\* any race of cancel, abort and completion: every task is counted down once, but
\* for the orphans of a runtime that could not be built, which are counted down
\* once too often, and wrap the counter when they outnumber the tasks.
THEOREM CountIsExact == Spec => []LiveTasksExact
<1>1. Init => OneWinner /\ Counted
  BY InitCounts
<1>2. TInv /\ OneWinner /\ Counted => LiveTasksExact
  BY CountedApart DEF LiveTasksExact, Counted, Net, Running, Winner
<1> QED  BY <1>1, <1>2, InitTInv, NextTInv, NextCounts, PTL DEF Spec

-----------------------------------------------------------------------------
(* The tasks as TaskLife has them *)

\* The actors that have a future in their hands, polled or with a result.
HandPcs == {"poll", "pending", "park", "mark", "tokio_ready", "tokio_parked"}

\* A future is in the hands of one actor, also while its result is recorded, and
\* is not parked then.
OneHand ==
    \A a \in Actors : pc[a] \in HandPcs =>
        /\ loc[a].task \notin parked
        /\ \A b \in Actors : pc[b] \in HandPcs /\ loc[b].task = loc[a].task => b = a

\* A request to cancel is a cancel that won, and nothing is left of the future of
\* a task that completed.
CancelWon ==
    /\ \A k \in Tasks : cancelRequested[k] => outcome[k] = "cancelled"
    /\ \A a \in Actors : pc[a] = "abort" => outcome[loc[a].task] = "cancelled"
    /\ \A k \in Tasks : outcome[k] \in {"done", "failed"} =>
         k \notin parked /\ \A a \in Actors : pc[a] \in HandPcs => loc[a].task # k

\* A delivery is on its way for an attached promise of a task that ended.
Owed ==
    /\ \A a \in Actors :
         /\ pc[a] \in {"deliver_outcome", "deliver_slot"} => attached[loc[a].task]
         /\ pc[a] = "deliver_slot" => outcome[loc[a].task] \in Terminal
    /\ \A n \in 1 .. Len(jobs) : attached[jobs[n]] /\ outcome[jobs[n]] \in Terminal
    /\ \A k \in Tasks : settled[k] # <<>> => attached[k]

LifeInv == TInv /\ DeliveredOnce /\ OneWinner /\ Counted /\ OneHand /\ CancelWon /\ Owed

LEMMA HandKept ==
    ASSUME OneHand, parked' \subseteq parked,
           \A a \in Actors : pc'[a] \in HandPcs => pc[a] \in HandPcs /\ loc'[a].task = loc[a].task
    PROVE  OneHand'
  BY DEF OneHand

\* The steps of one actor: the others stay where they are.
LEMMA OthersStay ==
    ASSUME TInv, NEW a \in Actors,
           \/ RegisterAborter(a) \/ PopReady(a) \/ CheckCancelled(a) \/ Take(a) \/ Poll(a)
           \/ Mark(a) \/ Pending(a) \/ Park(a) \/ Bookkeeping(a) \/ TokioPoll(a)
           \/ \E k \in Tasks : Launch(a, k) \/ Cancel(a, k) \/ Attach(a, k)
    PROVE  \A b \in Actors \ {a} : pc'[b] = pc[b] /\ loc'[b] = loc[b]
<1>1. pc \in [Actors -> AnyPc] /\ loc \in [Actors -> AnyLocals]
  BY LocalsTyped DEF TInv
<1> USE DEF Goto, GotoOrFinish, Finish
<1>2. CASE RegisterAborter(a) \/ PopReady(a) \/ CheckCancelled(a) \/ Take(a)
  BY <1>1, <1>2 DEF RegisterAborter, PopReady, CheckCancelled, Take
<1>3. CASE Poll(a) \/ Mark(a) \/ Pending(a) \/ Park(a) \/ TokioPoll(a)
  BY <1>1, <1>3 DEF Poll, Mark, Pending, Park, TokioPoll
<1>4. CASE Bookkeeping(a)
  BY <1>1, <1>4 DEF Bookkeeping, TaskFinished, DeliverPair, DeliverOutcome, DeliverSlot
<1>5. CASE \E k \in Tasks : Launch(a, k) \/ Cancel(a, k) \/ Attach(a, k)
  BY <1>1, <1>5 DEF Launch, Cancel, Attach
<1> QED  BY <1>2, <1>3, <1>4, <1>5

\* No step but those of Take, Park and the launches puts a future anywhere.
LEMMA HandSteps ==
    ASSUME TInv, NEW a \in Actors,
           \/ RegisterAborter(a) \/ PopReady(a) \/ CheckCancelled(a) \/ Poll(a)
           \/ Mark(a) \/ Pending(a) \/ Bookkeeping(a) \/ TokioPoll(a)
           \/ \E k \in Tasks : Cancel(a, k) \/ Attach(a, k)
    PROVE  /\ parked' \subseteq parked
           /\ pc'[a] \in HandPcs => pc[a] \in HandPcs /\ loc'[a].task = loc[a].task
<1>1. pc \in [Actors -> AnyPc] /\ loc \in [Actors -> AnyLocals]
  BY LocalsTyped DEF TInv
<1> USE DEF Goto, GotoOrFinish, Finish, HandPcs
<1>2. CASE RegisterAborter(a) \/ PopReady(a) \/ CheckCancelled(a)
  BY <1>1, <1>2 DEF RegisterAborter, PopReady, CheckCancelled
<1>3. CASE Mark(a) \/ Pending(a)
  BY <1>1, <1>3 DEF Mark, Pending
<1>4. CASE Poll(a) \/ TokioPoll(a)
  <2>1. parked' = parked /\ pc[a] \in HandPcs
    BY <1>4 DEF Poll, TokioPoll
  <2>2. loc' = loc \/ \E r \in {"done", "failed"} : loc' = [loc EXCEPT ![a].result = r]
    BY <1>4 DEF Poll, TokioPoll
  <2>3. loc'[a].task = loc[a].task
    BY <2>2, ResultTypes DEF TInv
  <2> QED  BY <2>1, <2>3
<1>5. CASE Bookkeeping(a)
  BY <1>1, <1>5 DEF Bookkeeping, TaskFinished, DeliverPair, DeliverOutcome, DeliverSlot
<1>6. CASE \E k \in Tasks : Cancel(a, k) \/ Attach(a, k)
  BY <1>1, <1>6 DEF Cancel, Attach
<1> QED  BY <1>2, <1>3, <1>4, <1>5, <1>6

\* The steps of a tokio task's waker, and of those that move nobody.
LEMMA WakesMove ==
    ASSUME TInv, NEW k \in Tasks, Fire(k) \/ SpuriousWake(k)
    PROVE  /\ UNCHANGED <<record, parked, loc, settled>>
           /\ \A a \in Actors : \/ pc'[a] = pc[a]
                                \/ a = k /\ pc[a] = "tokio_parked" /\ pc'[a] = "tokio_ready"
<1>1. pc \in [Actors -> AnyPc]
  BY LocalsTyped DEF TInv
<1>2. UNCHANGED <<record, parked, loc, settled>>
  BY DEF Fire, SpuriousWake, Wake, delivery
<1>3. pc' = pc \/ Goto(k, "tokio_parked", "tokio_ready")
  BY DEF Fire, SpuriousWake, Wake
<1> QED  BY <1>1, <1>2, <1>3 DEF Goto

LEMMA AborterMoves ==
    ASSUME TInv, NEW c \in Callers, RunAborter(c)
    PROVE  /\ UNCHANGED <<record, parked, loc, settled>> /\ pc[c] = "abort" /\ pc'[c] = "finish"
           /\ \A a \in Actors \ {c} :
                \/ pc'[a] = pc[a]
                \/ a = loc[c].task /\ pc[a] \in {"tokio_ready", "tokio_parked"} /\ pc'[a] = "idle"
<1>1. c \in Actors
  BY DEF Actors
<1> QED  BY <1>1 DEF RunAborter, delivery

LEMMA HandStep == ASSUME TInv, OneHand, [Next]_vars PROVE OneHand'
<1>1. pc \in [Actors -> AnyPc] /\ loc \in [Actors -> AnyLocals]
  BY LocalsTyped DEF TInv
<1>2. Located /\ Launched /\ Workers \subseteq Actors /\ Callers \subseteq Actors /\ TokioTasks \subseteq Actors
  BY DEF TInv, Actors
<1>3. ASSUME NEW a \in Actors,
             \/ RegisterAborter(a) \/ PopReady(a) \/ CheckCancelled(a) \/ Poll(a)
             \/ Mark(a) \/ Pending(a) \/ Bookkeeping(a) \/ TokioPoll(a)
             \/ \E k \in Tasks : Cancel(a, k) \/ Attach(a, k)
      PROVE  OneHand'
  <2>1. \A b \in Actors \ {a} : pc'[b] = pc[b] /\ loc'[b] = loc[b]
    BY <1>3, OthersStay
  <2>2. /\ parked' \subseteq parked
        /\ pc'[a] \in HandPcs => pc[a] \in HandPcs /\ loc'[a].task = loc[a].task
    BY <1>3, HandSteps
  <2> QED  BY <2>1, <2>2, HandKept
<1>4. ASSUME NEW c \in Callers, NEW k \in Tasks, Launch(c, k) PROVE OneHand'
  <2>1. outcome[k] = "new" /\ pc' = pc /\ loc' = loc /\ parked' = parked \cup {k}
    BY <1>4 DEF Launch
  <2>2. \A a \in Actors : pc[a] \in HandPcs => loc[a].task # k
    BY <1>2, <2>1 DEF Located, LocatedAt, HandPcs
  <2> QED  BY <2>1, <2>2 DEF OneHand
<1>5. ASSUME NEW c \in Callers, NEW k \in Tasks, LaunchOnTokio(c, k) PROVE OneHand'
  <2>1. outcome[k] = "new" /\ parked' = parked /\ k \in Actors /\ c \in Actors
    BY <1>2, <1>5 DEF LaunchOnTokio
  <2>2. (\A a \in Actors : pc[a] \in HandPcs => loc[a].task # k) /\ k \notin parked
    BY <1>2, <2>1 DEF Located, LocatedAt, HandPcs, Launched
  <2>3. CASE UNCHANGED <<pc, loc>>
    BY <2>1, <2>3, HandKept
  <2>4. CASE /\ pc' = [pc EXCEPT ![c] = "register", ![k] = "tokio_ready"]
             /\ loc' = [loc EXCEPT ![c].task = k, ![k].task = k]
    <3>1. c # k
      BY <1>2, <2>1, ExecutorAssumption
    <3>2. pc'[c] \notin HandPcs /\ pc'[k] \in HandPcs
      BY <1>1, <2>1, <2>4, <3>1 DEF HandPcs
    <3>3. loc'[k].task = k
      BY <1>1, <2>1, <2>4, <3>1
    <3>4. \A a \in Actors \ {c, k} : pc'[a] = pc[a] /\ loc'[a] = loc[a]
      BY <1>1, <2>4
    <3> QED  BY <2>1, <2>2, <3>2, <3>3, <3>4 DEF OneHand
  <2> QED  BY <1>5, <2>3, <2>4 DEF LaunchOnTokio
<1>6. ASSUME NEW w \in Workers, Take(w) PROVE OneHand'
  <2>1. \A b \in Actors \ {w} : pc'[b] = pc[b] /\ loc'[b] = loc[b]
    BY <1>2, <1>6, OthersStay
  <2>2. parked' = parked \ {loc[w].task} /\ pc[w] \notin HandPcs
    BY <1>6 DEF Take, HandPcs
  <2>3. pc'[w] \in HandPcs => loc[w].task \in parked /\ loc' = loc
    BY <1>1, <1>2, <1>6 DEF Take, GotoOrFinish, Finish, HandPcs
  <2> QED  BY <2>1, <2>2, <2>3 DEF OneHand
<1>7. ASSUME NEW w \in Workers, Park(w) PROVE OneHand'
  <2>1. \A b \in Actors \ {w} : pc'[b] = pc[b] /\ loc'[b] = loc[b]
    BY <1>2, <1>7, OthersStay
  <2>2. parked' = parked \cup {loc[w].task} /\ pc[w] \in HandPcs /\ pc'[w] \notin HandPcs
    BY <1>1, <1>2, <1>7 DEF Park, Finish, HandPcs
  <2> QED  BY <1>2, <2>1, <2>2 DEF OneHand
<1>8. ASSUME NEW k \in Tasks, Fire(k) \/ SpuriousWake(k) PROVE OneHand'
  <2>1. /\ parked' = parked /\ loc' = loc
        /\ \A a \in Actors : pc'[a] = pc[a] \/ (pc[a] = "tokio_parked" /\ pc'[a] = "tokio_ready")
    BY <1>8, WakesMove
  <2> QED  BY <2>1, HandKept DEF HandPcs
<1>9. ASSUME NEW c \in Callers, RunAborter(c) PROVE OneHand'
  <2>1. /\ parked' = parked /\ loc' = loc
        /\ \A a \in Actors : pc'[a] = pc[a] \/ pc'[a] \in {"finish", "idle"}
    BY <1>9, AborterMoves
  <2> QED  BY <2>1, HandKept DEF HandPcs
<1>10. CASE RunDelivery \/ CloseLoop \/ UNCHANGED vars
  <2>1. UNCHANGED <<pc, loc, parked>>
    BY <1>10 DEF RunDelivery, CloseLoop, vars
  <2> QED  BY <2>1, HandKept
<1>11. ASSUME NEW w \in Workers, Worker(w) PROVE OneHand'
  BY <1>2, <1>3, <1>6, <1>7, <1>11 DEF Worker
<1>12. ASSUME NEW c \in Callers, InCall(c) PROVE OneHand'
  BY <1>2, <1>3, <1>9, <1>12 DEF InCall
<1>13. ASSUME NEW k \in TokioTasks, OnTokio(k) PROVE OneHand'
  BY <1>2, <1>3, <1>13 DEF OnTokio
<1>14. ASSUME NEW c \in Callers, NEW k \in Tasks, Cancel(c, k) \/ Attach(c, k) PROVE OneHand'
  BY <1>2, <1>3, <1>14
<1> QED  BY <1>4, <1>5, <1>8, <1>10, <1>11, <1>12, <1>13, <1>14 DEF Next

LEMMA CancelKept ==
    ASSUME CancelWon, UNCHANGED <<outcome, cancelRequested>>, parked' \subseteq parked,
           \A a \in Actors :
             /\ pc'[a] \in HandPcs => pc[a] \in HandPcs /\ loc'[a].task = loc[a].task
             /\ pc'[a] = "abort" => pc[a] = "abort" /\ loc'[a].task = loc[a].task
    PROVE  CancelWon'
  BY DEF CancelWon

\* Only a cancel wins the right to abort; only it, a launch and the end of a task
\* change an outcome.
LEMMA OutcomeSteps ==
    ASSUME TInv, NEW a \in Actors,
           \/ RegisterAborter(a) \/ PopReady(a) \/ CheckCancelled(a) \/ Take(a) \/ Poll(a)
           \/ Pending(a) \/ Park(a) \/ Bookkeeping(a) \/ TokioPoll(a)
           \/ \E k \in Tasks : Attach(a, k)
    PROVE  UNCHANGED <<outcome, cancelRequested>> /\ pc'[a] # "abort"
<1>1. pc \in [Actors -> AnyPc]
  BY LocalsTyped DEF TInv
<1> USE DEF Goto, GotoOrFinish, Finish, record
<1>2. CASE RegisterAborter(a) \/ PopReady(a) \/ CheckCancelled(a) \/ Take(a)
  BY <1>1, <1>2 DEF RegisterAborter, PopReady, CheckCancelled, Take
<1>3. CASE Poll(a) \/ Pending(a) \/ Park(a) \/ TokioPoll(a)
  BY <1>1, <1>3 DEF Poll, Pending, Park, TokioPoll
<1>4. CASE Bookkeeping(a)
  BY <1>1, <1>4 DEF Bookkeeping, TaskFinished, DeliverPair, DeliverOutcome, DeliverSlot
<1>5. CASE \E k \in Tasks : Attach(a, k)
  BY <1>1, <1>5 DEF Attach
<1> QED  BY <1>2, <1>3, <1>4, <1>5

LEMMA CancelStep == ASSUME TInv, OneHand, CancelWon, [Next]_vars PROVE CancelWon'
<1>1. pc \in [Actors -> AnyPc] /\ loc \in [Actors -> AnyLocals]
  BY LocalsTyped DEF TInv
<1>2. /\ Located /\ Launched /\ outcome \in [Tasks -> {"new", "running"} \cup Terminal]
      /\ cancelRequested \in [Tasks -> BOOLEAN]
      /\ Workers \subseteq Actors /\ Callers \subseteq Actors /\ TokioTasks \subseteq Actors
  BY DEF TInv, Actors, TypeOK
<1>3. ASSUME NEW a \in Actors,
             \/ RegisterAborter(a) \/ PopReady(a) \/ CheckCancelled(a) \/ Poll(a)
             \/ Pending(a) \/ Bookkeeping(a) \/ TokioPoll(a) \/ \E k \in Tasks : Attach(a, k)
      PROVE  CancelWon'
  <2>1. \A b \in Actors \ {a} : pc'[b] = pc[b] /\ loc'[b] = loc[b]
    BY <1>3, OthersStay
  <2>2. /\ parked' \subseteq parked
        /\ pc'[a] \in HandPcs => pc[a] \in HandPcs /\ loc'[a].task = loc[a].task
    BY <1>3, HandSteps
  <2>3. UNCHANGED <<outcome, cancelRequested>> /\ pc'[a] # "abort"
    BY <1>3, OutcomeSteps
  <2> QED  BY <2>1, <2>2, <2>3, CancelKept
<1>4. ASSUME NEW c \in Callers, NEW k \in Tasks, Cancel(c, k) PROVE CancelWon'
  <2>1. c \in Actors /\ outcome[k] = "running" /\ parked' = parked
    BY <1>2, <1>4 DEF Cancel
  <2>2. \A b \in Actors \ {c} : pc'[b] = pc[b] /\ loc'[b] = loc[b]
    BY <1>4, <2>1, OthersStay
  <2>3. pc'[c] = "abort" /\ loc'[c].task = k
    BY <1>1, <1>4, <2>1 DEF Cancel, Goto
  <2>4. /\ outcome'[k] = "cancelled" /\ \A j \in Tasks \ {k} : outcome'[j] = outcome[j]
        /\ \A j \in Tasks \ {k} : cancelRequested'[j] = cancelRequested[j]
    BY <1>2, <1>4, <2>1 DEF Cancel, MarkOutcome
  <2>5. \A a \in Actors : pc[a] = "abort" => loc[a].task \in Tasks
    BY <1>2 DEF Located, LocatedAt
  <2>6. \A j \in Tasks : cancelRequested'[j] => outcome'[j] = "cancelled"
    BY <2>4 DEF CancelWon
  <2>7. \A a \in Actors : pc'[a] = "abort" => outcome'[loc'[a].task] = "cancelled"
    BY <2>2, <2>3, <2>4, <2>5 DEF CancelWon
  <2>8. \A j \in Tasks : outcome'[j] \in {"done", "failed"} => outcome[j] \in {"done", "failed"}
    BY <2>4
  <2>9. \A a \in Actors : pc'[a] \in HandPcs => pc[a] \in HandPcs /\ loc'[a].task = loc[a].task
    BY <2>2, <2>3 DEF HandPcs
  <2> QED  BY <2>1, <2>6, <2>7, <2>8, <2>9 DEF CancelWon
<1>5. ASSUME NEW a \in Actors, Mark(a) PROVE CancelWon'
  <2>1. PICK k \in Tasks : k = loc[a].task /\ pc[a] = "mark" /\ parked' = parked
    BY <1>2, <1>5 DEF Mark, Located, LocatedAt
  <2>2. \A b \in Actors \ {a} : pc'[b] = pc[b] /\ loc'[b] = loc[b]
    BY <1>5, OthersStay
  <2>3. pc'[a] \in {"finish", "idle"}
    BY <1>1, <1>5 DEF Mark, GotoOrFinish, Finish
  <2>4. /\ cancelRequested' = cancelRequested
        /\ \A j \in Tasks : outcome'[j] = outcome[j] \/ (j = k /\ outcome[j] = "running")
    BY <1>2, <1>5, <2>1 DEF Mark, MarkOutcome
  <2>5. k \notin parked /\ \A b \in Actors \ {a} : pc[b] \in HandPcs => loc[b].task # k
    BY <2>1 DEF OneHand, HandPcs
  <2>6. \A b \in Actors : pc'[b] \in HandPcs => b # a /\ pc[b] \in HandPcs /\ loc'[b].task = loc[b].task
    BY <2>2, <2>3 DEF HandPcs
  <2>7. \A b \in Actors : pc'[b] = "abort" =>
          pc[b] = "abort" /\ loc'[b].task = loc[b].task /\ loc[b].task \in Tasks
    BY <1>2, <2>2, <2>3 DEF Located, LocatedAt
  <2>8. \A j \in Tasks : cancelRequested'[j] => outcome'[j] = "cancelled"
    BY <2>4 DEF CancelWon
  <2>9. \A b \in Actors : pc'[b] = "abort" => outcome'[loc'[b].task] = "cancelled"
    BY <2>4, <2>7 DEF CancelWon
  <2>10. ASSUME NEW j \in Tasks, outcome'[j] \in {"done", "failed"}
         PROVE  j \notin parked' /\ \A b \in Actors : pc'[b] \in HandPcs => loc'[b].task # j
    BY <2>1, <2>4, <2>5, <2>6, <2>10 DEF CancelWon
  <2> QED  BY <2>8, <2>9, <2>10 DEF CancelWon
<1>6. ASSUME NEW c \in Callers, NEW k \in Tasks, Launch(c, k) PROVE CancelWon'
  <2>1. /\ outcome[k] = "new" /\ outcome' = [outcome EXCEPT ![k] = "running"]
        /\ pc' = pc /\ loc' = loc /\ parked' = parked \cup {k} /\ cancelRequested' = cancelRequested
    BY <1>6 DEF Launch
  <2>2. \A a \in Actors : pc[a] = "abort" => loc[a].task \in Tasks
    BY <1>2 DEF Located, LocatedAt
  <2> QED  BY <1>2, <2>1, <2>2 DEF CancelWon
<1>7. ASSUME NEW c \in Callers, NEW k \in Tasks, LaunchOnTokio(c, k) PROVE CancelWon'
  <2>1. /\ outcome[k] = "new" /\ outcome' = [outcome EXCEPT ![k] = "running"]
        /\ parked' = parked /\ cancelRequested' = cancelRequested /\ k \in Actors /\ c \in Actors
    BY <1>2, <1>7 DEF LaunchOnTokio
  <2>2. \A a \in Actors : pc[a] = "abort" => loc[a].task \in Tasks /\ outcome[loc[a].task] # "new"
    BY <1>2 DEF Located, LocatedAt
  <2>3. CASE UNCHANGED <<pc, loc>>
    BY <1>2, <2>1, <2>2, <2>3 DEF CancelWon
  <2>4. CASE /\ pc' = [pc EXCEPT ![c] = "register", ![k] = "tokio_ready"]
             /\ loc' = [loc EXCEPT ![c].task = k, ![k].task = k]
    <3>1. c # k
      BY <1>2, <2>1, ExecutorAssumption
    <3>2. pc'[c] = "register" /\ pc'[k] = "tokio_ready" /\ loc'[k].task = k
      BY <1>1, <2>1, <2>4, <3>1
    <3>3. \A a \in Actors \ {c, k} : pc'[a] = pc[a] /\ loc'[a] = loc[a]
      BY <1>1, <2>4
    <3>4. \A j \in Tasks : outcome'[j] = outcome[j] \/ (j = k /\ outcome[j] = "new" /\ outcome'[j] = "running")
      BY <1>2, <2>1
    <3>5. \A a \in Actors : pc'[a] = "abort" => outcome'[loc'[a].task] = "cancelled"
      BY <2>2, <3>2, <3>3, <3>4 DEF CancelWon
    <3>6. \A a \in Actors : pc'[a] \in HandPcs => a = k \/ (pc[a] \in HandPcs /\ loc'[a] = loc[a])
      BY <3>2, <3>3 DEF HandPcs
    <3>7. ASSUME NEW j \in Tasks, outcome'[j] \in {"done", "failed"}
          PROVE  j \notin parked' /\ \A a \in Actors : pc'[a] \in HandPcs => loc'[a].task # j
      BY <2>1, <3>2, <3>4, <3>6, <3>7 DEF CancelWon
    <3> QED  BY <2>1, <3>4, <3>5, <3>7 DEF CancelWon
  <2> QED  BY <1>7, <2>3, <2>4 DEF LaunchOnTokio
<1>8. ASSUME NEW w \in Workers, Take(w) \/ Park(w) PROVE CancelWon'
  <2>1. /\ \A b \in Actors \ {w} : pc'[b] = pc[b] /\ loc'[b] = loc[b]
        /\ UNCHANGED <<outcome, cancelRequested>> /\ pc'[w] # "abort"
    BY <1>2, <1>8, OthersStay, OutcomeSteps
  <2>2. CASE Take(w)
    <3>1. parked' \subseteq parked
      BY <2>2 DEF Take
    <3>2. pc'[w] \in HandPcs => loc[w].task \in parked /\ loc' = loc
      BY <1>1, <1>2, <2>2 DEF Take, GotoOrFinish, Finish, HandPcs
    <3> QED  BY <2>1, <3>1, <3>2 DEF CancelWon
  <2>3. CASE Park(w)
    <3>1. parked' = parked \cup {loc[w].task} /\ pc[w] \in HandPcs /\ pc'[w] \notin HandPcs
      BY <1>1, <1>2, <2>3 DEF Park, Finish, HandPcs
    <3> QED  BY <1>2, <2>1, <3>1 DEF CancelWon
  <2> QED  BY <1>8, <2>2, <2>3
<1>9. ASSUME NEW k \in Tasks, Fire(k) \/ SpuriousWake(k) PROVE CancelWon'
  <2>1. /\ UNCHANGED <<record, parked, loc>>
        /\ \A a \in Actors : pc'[a] = pc[a] \/ (pc[a] = "tokio_parked" /\ pc'[a] = "tokio_ready")
    BY <1>9, WakesMove
  <2> QED  BY <2>1, CancelKept DEF HandPcs, record
<1>10. ASSUME NEW c \in Callers, RunAborter(c) PROVE CancelWon'
  <2>1. /\ UNCHANGED <<record, parked, loc>>
        /\ \A a \in Actors : pc'[a] = pc[a] \/ pc'[a] \in {"finish", "idle"}
    BY <1>10, AborterMoves
  <2> QED  BY <2>1, CancelKept DEF HandPcs, record
<1>11. CASE RunDelivery \/ CloseLoop \/ UNCHANGED vars
  <2>1. UNCHANGED <<pc, loc, parked, record>>
    BY <1>11 DEF RunDelivery, CloseLoop, vars
  <2> QED  BY <2>1, CancelKept DEF record
<1>12. ASSUME NEW w \in Workers, Worker(w) PROVE CancelWon'
  BY <1>2, <1>3, <1>5, <1>8, <1>12 DEF Worker
<1>13. ASSUME NEW c \in Callers, InCall(c) PROVE CancelWon'
  BY <1>2, <1>3, <1>10, <1>13 DEF InCall
<1>14. ASSUME NEW k \in TokioTasks, OnTokio(k) PROVE CancelWon'
  BY <1>2, <1>3, <1>5, <1>14 DEF OnTokio
<1>15. ASSUME NEW c \in Callers, NEW k \in Tasks, Attach(c, k) PROVE CancelWon'
  BY <1>2, <1>3, <1>15
<1> QED  BY <1>4, <1>6, <1>7, <1>9, <1>11, <1>12, <1>13, <1>14, <1>15 DEF Next

\* How an actor of one step comes to look at the outcome, and at the slot.
LEMMA DeliverMoves ==
    ASSUME TInv, NEW a \in Actors, pc'[a] \in {"deliver_outcome", "deliver_slot"},
           \/ RegisterAborter(a) \/ PopReady(a) \/ CheckCancelled(a) \/ Take(a) \/ Poll(a)
           \/ Mark(a) \/ Pending(a) \/ Park(a) \/ Bookkeeping(a) \/ TokioPoll(a)
           \/ \E k \in Tasks : Launch(a, k) \/ Cancel(a, k) \/ Attach(a, k)
    PROVE  /\ loc'[a] = loc[a]
           /\ \/ pc'[a] = pc[a]
              \/ pc'[a] = "deliver_outcome" /\ pc[a] = "deliver" /\ attached[loc[a].task]
              \/ pc[a] = "deliver_outcome" /\ outcome[loc[a].task] \in Terminal
<1>1. pc \in [Actors -> AnyPc]
  BY LocalsTyped DEF TInv
<1> USE DEF Goto, GotoOrFinish, Finish
<1>2. CASE RegisterAborter(a) \/ PopReady(a) \/ CheckCancelled(a) \/ Take(a)
  BY <1>1, <1>2 DEF RegisterAborter, PopReady, CheckCancelled, Take
<1>3. CASE Poll(a) \/ Mark(a) \/ Pending(a) \/ Park(a) \/ TokioPoll(a)
  BY <1>1, <1>3 DEF Poll, Mark, Pending, Park, TokioPoll
<1>4. CASE Bookkeeping(a)
  BY <1>1, <1>4 DEF Bookkeeping, TaskFinished, DeliverPair, DeliverOutcome, DeliverSlot
<1>5. CASE \E k \in Tasks : Launch(a, k) \/ Cancel(a, k) \/ Attach(a, k)
  BY <1>1, <1>5 DEF Launch, Cancel, Attach
<1> QED  BY <1>2, <1>3, <1>4, <1>5

LEMMA AnyDeliverMoves ==
    ASSUME TInv, [Next]_vars, NEW a \in Actors, pc'[a] \in {"deliver_outcome", "deliver_slot"}
    PROVE  /\ loc'[a] = loc[a]
           /\ \/ pc'[a] = pc[a]
              \/ pc'[a] = "deliver_outcome" /\ pc[a] = "deliver" /\ attached[loc[a].task]
              \/ pc[a] = "deliver_outcome" /\ outcome[loc[a].task] \in Terminal
<1> DEFINE Goal == /\ loc'[a] = loc[a]
                   /\ \/ pc'[a] = pc[a]
                      \/ pc'[a] = "deliver_outcome" /\ pc[a] = "deliver" /\ attached[loc[a].task]
                      \/ pc[a] = "deliver_outcome" /\ outcome[loc[a].task] \in Terminal
<1>1. /\ pc \in [Actors -> AnyPc] /\ loc \in [Actors -> AnyLocals]
      /\ Workers \subseteq Actors /\ Callers \subseteq Actors /\ TokioTasks \subseteq Actors
  BY LocalsTyped DEF TInv, Actors
<1>2. ASSUME NEW b \in Actors,
             \/ RegisterAborter(b) \/ PopReady(b) \/ CheckCancelled(b) \/ Take(b) \/ Poll(b)
             \/ Mark(b) \/ Pending(b) \/ Park(b) \/ Bookkeeping(b) \/ TokioPoll(b)
             \/ \E k \in Tasks : Launch(b, k) \/ Cancel(b, k) \/ Attach(b, k)
      PROVE  Goal
  <2>1. CASE a = b
    BY <1>2, <2>1, DeliverMoves
  <2>2. CASE a # b
    BY <1>2, <2>2, OthersStay
  <2> QED  BY <2>1, <2>2
<1>3. ASSUME NEW c \in Callers, NEW k \in Tasks, LaunchOnTokio(c, k) PROVE Goal
  <2>1. \/ UNCHANGED <<pc, loc>>
        \/ /\ pc' = [pc EXCEPT ![c] = "register", ![k] = "tokio_ready"]
           /\ loc' = [loc EXCEPT ![c].task = k, ![k].task = k]
    BY <1>3 DEF LaunchOnTokio
  <2>2. CASE UNCHANGED <<pc, loc>>
    BY <2>2
  <2>3. CASE /\ pc' = [pc EXCEPT ![c] = "register", ![k] = "tokio_ready"]
             /\ loc' = [loc EXCEPT ![c].task = k, ![k].task = k]
    <3>1. a \notin {c, k}
      BY <1>1, <2>3
    <3>2. pc'[a] = pc[a] /\ loc'[a] = loc[a]
      BY <1>1, <2>3, <3>1
    <3> QED  BY <3>2
  <2> QED  BY <2>1, <2>2, <2>3
<1>4. ASSUME NEW k \in Tasks, Fire(k) \/ SpuriousWake(k) PROVE Goal
  BY <1>4, WakesMove
<1>5. ASSUME NEW c \in Callers, RunAborter(c) PROVE Goal
  <2>1. loc' = loc /\ (pc'[a] = pc[a] \/ pc'[a] \in {"finish", "idle"})
    BY <1>5, AborterMoves
  <2> QED  BY <2>1
<1>6. ASSUME RunDelivery \/ CloseLoop \/ UNCHANGED vars PROVE Goal
  BY <1>6 DEF RunDelivery, CloseLoop, vars
<1> HIDE DEF Goal
<1>7. ASSUME NEW w \in Workers, Worker(w) PROVE Goal
  BY <1>1, <1>2, <1>7 DEF Worker
<1>8. ASSUME NEW c \in Callers, InCall(c) PROVE Goal
  BY <1>1, <1>2, <1>5, <1>8 DEF InCall
<1>9. ASSUME NEW k \in TokioTasks, OnTokio(k) PROVE Goal
  BY <1>1, <1>2, <1>9 DEF OnTokio
<1>10. ASSUME NEW c \in Callers, NEW k \in Tasks, Launch(c, k) \/ Cancel(c, k) \/ Attach(c, k) PROVE Goal
  BY <1>1, <1>2, <1>10
<1>11. Goal
  BY <1>3, <1>4, <1>6, <1>7, <1>8, <1>9, <1>10 DEF Next
<1> QED  BY <1>11 DEF Goal

\* A promise that is attached stays attached.
LEMMA AttachedStays ==
    ASSUME TInv, [Next]_vars
    PROVE  \A k \in Tasks : attached[k] => attached'[k]
<1>1. attached \in [Tasks -> BOOLEAN]
  BY DEF TInv, TypeOK
<1>2. ASSUME NEW c \in Callers, NEW k \in Tasks, Attach(c, k)
      PROVE  attached' = [attached EXCEPT ![k] = TRUE]
  BY <1>2 DEF Attach
<1>3. \/ \E c \in Callers, k \in Tasks : Attach(c, k)
      \/ attached' = attached
  <2>1. ASSUME Steps PROVE \/ \E c \in Callers, k \in Tasks : Attach(c, k)
                           \/ attached' = attached
    BY <2>1 DEF Steps, RegisterAborter, RunAborter, PopReady, CheckCancelled, Take, Poll, Pending, Park,
                Fire, SpuriousWake, Wake, TokioPoll, CloseLoop, record, vars
  <2>2. ASSUME NEW c \in Callers, NEW k \in Tasks, Launch(c, k) \/ LaunchOnTokio(c, k) \/ Cancel(c, k)
        PROVE  attached' = attached
    BY <2>2 DEF Launch, LaunchOnTokio, Cancel
  <2>3. ASSUME NEW a \in Actors, Mark(a) \/ Bookkeeping(a) PROVE attached' = attached
    BY <2>3 DEF Mark, Bookkeeping, TaskFinished, DeliverPair, DeliverOutcome, DeliverSlot, record
  <2>4. RunDelivery => attached' = attached
    BY DEF RunDelivery, record
  <2> QED  BY <2>1, <2>2, <2>3, <2>4, NextSteps
<1> QED  BY <1>1, <1>2, <1>3

LEMMA OwedStep == ASSUME TInv, Owed, [Next]_vars PROVE Owed'
<1>1. /\ jobs \in Seq(Tasks) /\ settled \in [Tasks -> Seq({"resolved", "rejected"})]
      /\ \A n \in 1 .. Len(jobs) : jobs[n] \in Tasks
      /\ \A a \in Actors : pc[a] # "idle" => loc[a].task \in Tasks
  BY DEF TInv, TypeOK, Located, LocatedAt
<1>2. \A k \in Tasks : /\ attached[k] => attached'[k]
                       /\ outcome[k] \in Terminal => outcome'[k] \in Terminal
  BY AttachedStays, OutcomeStays
<1>3. ASSUME NEW a \in Actors
      PROVE  /\ pc'[a] \in {"deliver_outcome", "deliver_slot"} => attached'[loc'[a].task]
             /\ pc'[a] = "deliver_slot" => outcome'[loc'[a].task] \in Terminal
  <2> SUFFICES ASSUME pc'[a] \in {"deliver_outcome", "deliver_slot"}
               PROVE  /\ attached'[loc'[a].task]
                      /\ pc'[a] = "deliver_slot" => outcome'[loc'[a].task] \in Terminal
    OBVIOUS
  <2>1. /\ loc'[a] = loc[a]
        /\ \/ pc'[a] = pc[a]
           \/ pc'[a] = "deliver_outcome" /\ pc[a] = "deliver" /\ attached[loc[a].task]
           \/ pc[a] = "deliver_outcome" /\ outcome[loc[a].task] \in Terminal
    BY AnyDeliverMoves
  <2>2. loc[a].task \in Tasks
    BY <1>1, <2>1
  <2> QED  BY <1>2, <2>1, <2>2 DEF Owed
<1>4. (\A n \in 1 .. Len(jobs') : attached'[jobs'[n]] /\ outcome'[jobs'[n]] \in Terminal)
      /\ \A k \in Tasks : settled'[k] # <<>> => attached'[k]
  <2>1. CASE UNCHANGED <<delivered, jobs, settled>>
    BY <1>1, <1>2, <2>1 DEF Owed
  <2>2. ASSUME NEW a \in Actors, DeliverSlot(a)
        PROVE  (\A n \in 1 .. Len(jobs') : attached'[jobs'[n]] /\ outcome'[jobs'[n]] \in Terminal)
               /\ \A k \in Tasks : settled'[k] # <<>> => attached'[k]
    <3>1. PICK k \in Tasks : k = loc[a].task /\ attached[k] /\ outcome[k] \in Terminal
      BY <1>1, <2>2 DEF DeliverSlot, Owed
    <3>2. settled' = settled /\ (jobs' = jobs \/ jobs' = Append(jobs, k))
      BY <2>2, <3>1 DEF DeliverSlot
    <3>3. ASSUME NEW n \in 1 .. Len(jobs')
          PROVE  jobs'[n] = k \/ (n \in 1 .. Len(jobs) /\ jobs'[n] = jobs[n])
      BY <1>1, <3>2, AppendElements
    <3> QED  BY <1>1, <1>2, <3>1, <3>2, <3>3 DEF Owed
  <2>3. CASE RunDelivery
    <3>1. PICK k \in Tasks : k = Head(jobs) /\ k = jobs[1] /\ 1 \in 1 .. Len(jobs)
      BY <1>1, <2>3 DEF RunDelivery
    <3>2. \/ settled' = settled
          \/ \E s \in {"resolved", "rejected"} : settled' = [settled EXCEPT ![k] = Append(@, s)]
      BY <2>3, <3>1 DEF RunDelivery
    <3>3. jobs # <<>> /\ jobs' = Tail(jobs)
      BY <2>3 DEF RunDelivery
    <3>4. \A n \in 1 .. Len(jobs') : n + 1 \in 1 .. Len(jobs) /\ jobs'[n] = jobs[n + 1]
      BY <1>1, <3>3
    <3>5. \A n \in 1 .. Len(jobs) : attached'[jobs[n]] /\ outcome'[jobs[n]] \in Terminal
      BY <1>1, <1>2 DEF Owed
    <3>6. attached'[k] /\ \A j \in Tasks \ {k} : settled'[j] = settled[j]
      BY <1>1, <3>1, <3>2, <3>5
    <3>7. \A j \in Tasks : settled'[j] # <<>> => attached'[j]
      BY <1>2, <3>6 DEF Owed
    <3> QED  BY <3>4, <3>5, <3>7
  <2> QED  BY <2>1, <2>2, <2>3, DeliverySteps
<1> QED  BY <1>3, <1>4 DEF Owed

LEMMA LifeInvInit == Init => LifeInv
<1> SUFFICES ASSUME Init PROVE LifeInv
  OBVIOUS
<1>1. TInv
  BY InitTInv
<1>2. DeliveredOnce
  BY DEF Init, DeliveredOnce
<1>3. OneWinner /\ Counted
  BY InitCounts
<1>4. OneHand /\ CancelWon /\ Owed
  BY DEF Init, OneHand, HandPcs, CancelWon, Owed
<1> QED  BY <1>1, <1>2, <1>3, <1>4 DEF LifeInv

LEMMA LifeInvStep == LifeInv /\ [Next]_vars => LifeInv'
  BY NextTInv, NextDelivery, NextCounts, HandStep, CancelStep, OwedStep DEF LifeInv

\* Where a future is, read off the actor that has it.
FutureFacts(k) ==
    /\ outcome[k] = "new" => FutureOf(k) = "none"
    /\ k \in parked => FutureOf(k) = "held"
    /\ \A a \in Actors : pc[a] \in HandPcs /\ loc[a].task = k =>
         FutureOf(k) = IF pc[a] = "mark" THEN "ended" ELSE "held"
    /\ \/ outcome[k] = "new" \/ k \in parked
       \/ \E a \in Actors : pc[a] \in HandPcs /\ loc[a].task = k
       \/ FutureOf(k) = "gone"

\* Alive is to be parked or in the hands of an actor that polls.
LEMMA AliveIs ==
    ASSUME TInv, NEW k \in Tasks
    PROVE  Alive(k) <=> \/ k \in parked
                        \/ \E a \in Actors : pc[a] \in HandPcs \ {"mark"} /\ loc[a].task = k
<1>1. Located /\ Workers \subseteq Actors /\ TokioTasks \subseteq Actors
  BY DEF TInv, Actors
<1>2. ASSUME k \in TokioTasks /\ pc[k] \in {"tokio_ready", "tokio_parked"}
      PROVE  \E a \in Actors : pc[a] \in HandPcs \ {"mark"} /\ loc[a].task = k
  <2>1. k \in Actors /\ loc[k].task = k
    BY <1>1, <1>2 DEF Located, LocatedAt
  <2> QED  BY <1>2, <2>1 DEF HandPcs
<1>3. ASSUME NEW w \in Workers, Polling(w), loc[w].task = k
      PROVE  \E a \in Actors : pc[a] \in HandPcs \ {"mark"} /\ loc[a].task = k
  BY <1>1, <1>3 DEF Polling, HandPcs
<1>4. ASSUME NEW a \in Actors, pc[a] \in HandPcs \ {"mark"}, loc[a].task = k
      PROVE  Alive(k)
  <2>1. LocatedAt(a)
    BY <1>1 DEF Located
  <2>2. ASSUME pc[a] \in {"tokio_ready", "tokio_parked"} PROVE Alive(k)
    <3>1. a \in TokioTasks /\ a = k
      BY <1>4, <2>1, <2>2 DEF LocatedAt
    <3> QED  BY <2>2, <3>1 DEF Alive
  <2>3. ASSUME pc[a] \in {"poll", "pending", "park"} PROVE Alive(k)
    <3>1. a \in Workers
      BY <2>1, <2>3 DEF LocatedAt
    <3> QED  BY <1>4, <2>3, <3>1 DEF Alive, Polling
  <2> QED  BY <1>4, <2>2, <2>3 DEF HandPcs
<1>5. k \in parked => Alive(k)
  BY DEF Alive
<1> QED  BY <1>2, <1>3, <1>4, <1>5 DEF Alive

LEMMA FutureIs == ASSUME TInv, OneHand PROVE \A k \in Tasks : FutureFacts(k)
<1> SUFFICES ASSUME NEW k \in Tasks PROVE FutureFacts(k)
  OBVIOUS
<1>1. /\ \A a \in Actors : pc[a] # "idle" => outcome[loc[a].task] # "new"
      /\ k \in parked => outcome[k] # "new"
  BY DEF TInv, Located, LocatedAt, Launched
<1>2. Alive(k) <=> \/ k \in parked
                   \/ \E a \in Actors : pc[a] \in HandPcs \ {"mark"} /\ loc[a].task = k
  BY AliveIs
<1>3. /\ outcome[k] = "new" => FutureOf(k) = "none"
      /\ outcome[k] # "new" /\ Alive(k) => FutureOf(k) = "held"
      /\ outcome[k] # "new" /\ ~Alive(k) =>
           FutureOf(k) = IF \E a \in Actors : pc[a] = "mark" /\ loc[a].task = k THEN "ended" ELSE "gone"
  BY DEF FutureOf
<1> HIDE DEF Alive, FutureOf
<1>4. k \in parked => FutureOf(k) = "held"
  BY <1>1, <1>2, <1>3
<1>5. ASSUME NEW a \in Actors, pc[a] \in HandPcs, loc[a].task = k
      PROVE  FutureOf(k) = IF pc[a] = "mark" THEN "ended" ELSE "held"
  <2>1. outcome[k] # "new" /\ k \notin parked
        /\ \A b \in Actors : pc[b] \in HandPcs /\ loc[b].task = k => b = a
    BY <1>1, <1>5 DEF OneHand, HandPcs
  <2>2. CASE pc[a] = "mark"
    <3>1. ~Alive(k)
      BY <1>2, <2>1, <2>2
    <3> QED  BY <1>3, <1>5, <2>1, <2>2, <3>1
  <2>3. CASE pc[a] # "mark"
    <3>1. Alive(k)
      BY <1>2, <1>5, <2>3
    <3> QED  BY <1>3, <2>1, <2>3, <3>1
  <2> QED  BY <2>2, <2>3
<1>6. ASSUME outcome[k] # "new", k \notin parked, ~\E a \in Actors : pc[a] \in HandPcs /\ loc[a].task = k
      PROVE  FutureOf(k) = "gone"
  <2>1. ~Alive(k)
    BY <1>2, <1>6
  <2>2. ~\E a \in Actors : pc[a] = "mark" /\ loc[a].task = k
    BY <1>6 DEF HandPcs
  <2> QED  BY <1>3, <1>6, <2>1, <2>2
<1> QED  BY <1>3, <1>4, <1>5, <1>6 DEF FutureFacts

\* A future that nobody touches is where it was.
LEMMA FutureStays ==
    ASSUME NEW k \in Tasks, FutureFacts(k), FutureFacts(k)', outcome'[k] = "new" <=> outcome[k] = "new",
           k \in parked' <=> k \in parked,
           \A a \in Actors :
             (pc[a] \in HandPcs /\ loc[a].task = k) \/ (pc'[a] \in HandPcs /\ loc'[a].task = k)
               => pc[a] \in HandPcs /\ pc'[a] \in HandPcs /\ loc'[a].task = k /\ loc[a].task = k
                  /\ (pc[a] = "mark" <=> pc'[a] = "mark")
    PROVE  FutureOf(k)' = FutureOf(k)
<1>1. CASE \E a \in Actors : pc[a] \in HandPcs /\ loc[a].task = k
  <2>1. PICK a \in Actors : pc[a] \in HandPcs /\ loc[a].task = k
    BY <1>1
  <2> QED  BY <2>1 DEF FutureFacts
<1>2. CASE k \in parked
  BY <1>2 DEF FutureFacts
<1>3. CASE outcome[k] = "new"
  BY <1>3 DEF FutureFacts
<1>4. CASE /\ ~\E a \in Actors : pc[a] \in HandPcs /\ loc[a].task = k
           /\ k \notin parked /\ outcome[k] # "new"
  <2>1. ~\E a \in Actors : pc'[a] \in HandPcs /\ loc'[a].task = k
    BY <1>4
  <2> QED  BY <1>4, <2>1 DEF FutureFacts
<1> QED  BY <1>1, <1>2, <1>3, <1>4

\* The futures of the other tasks stay when those that move have one task only.
LEMMA OthersFutures ==
    ASSUME \A j \in Tasks : FutureFacts(j) /\ FutureFacts(j)', NEW k \in Tasks,
           \A j \in Tasks \ {k} : outcome'[j] = outcome[j] /\ (j \in parked' <=> j \in parked),
           \A a \in Actors : \/ pc'[a] = pc[a] /\ loc'[a] = loc[a]
                             \/ /\ pc[a] \in HandPcs => loc[a].task = k
                                /\ pc'[a] \in HandPcs => loc'[a].task = k
    PROVE  \A j \in Tasks \ {k} : FutureOf(j)' = FutureOf(j)
<1> SUFFICES ASSUME NEW j \in Tasks \ {k} PROVE FutureOf(j)' = FutureOf(j)
  OBVIOUS
<1> QED  BY FutureStays

\* Nothing moves when no hand that has a future does.
LEMMA NoFutureMoves ==
    ASSUME \A j \in Tasks : FutureFacts(j) /\ FutureFacts(j)',
           \A j \in Tasks : (outcome'[j] = "new" <=> outcome[j] = "new") /\ (j \in parked' <=> j \in parked),
           \A a \in Actors : \/ pc'[a] = pc[a] /\ loc'[a].task = loc[a].task
                             \/ pc[a] \notin HandPcs /\ pc'[a] \notin HandPcs
                             \/ /\ pc[a] \in HandPcs \ {"mark"} /\ pc'[a] \in HandPcs \ {"mark"}
                                /\ loc'[a].task = loc[a].task
    PROVE  \A j \in Tasks : FutureOf(j)' = FutureOf(j)
<1> SUFFICES ASSUME NEW j \in Tasks PROVE FutureOf(j)' = FutureOf(j)
  OBVIOUS
<1> QED  BY FutureStays

FuturesAre == \A k \in Tasks : FutureFacts(k)

LEMMA FuturesKnown == TInv /\ OneHand => FuturesAre
  BY FutureIs DEF FuturesAre

LEMMA FuturesKnownNext == TInv' /\ OneHand' => FuturesAre'
  BY FuturesKnown, PTL

\* The steps of TaskLife, from what happens to the future and to the promise.
LEMMA FuturesStay ==
    ASSUME \A j \in Tasks : FutureOf(j)' = FutureOf(j)
    PROVE  [j \in Tasks |-> FutureOf(j)]' = [j \in Tasks |-> FutureOf(j)]
  OBVIOUS

LEMMA FutureMoves ==
    ASSUME NEW k \in Tasks, NEW f, FutureOf(k)' = f,
           \A j \in Tasks \ {k} : FutureOf(j)' = FutureOf(j)
    PROVE  [j \in Tasks |-> FutureOf(j)]' = [[j \in Tasks |-> FutureOf(j)] EXCEPT ![k] = f]
  OBVIOUS

LEMMA PromisesStay ==
    ASSUME UNCHANGED <<attached, settled>>
    PROVE  [j \in Tasks |-> PromiseOf(j)]' = [j \in Tasks |-> PromiseOf(j)]
  BY DEF PromiseOf

LEMMA PromiseMoves ==
    ASSUME NEW k \in Tasks, NEW p, PromiseOf(k)' = p,
           \A j \in Tasks \ {k} : attached'[j] = attached[j] /\ settled'[j] = settled[j]
    PROVE  [j \in Tasks |-> PromiseOf(j)]' = [[j \in Tasks |-> PromiseOf(j)] EXCEPT ![k] = p]
<1>1. \A j \in Tasks \ {k} : PromiseOf(j)' = PromiseOf(j)
  BY DEF PromiseOf
<1> QED  BY <1>1

LEMMA LifeStutters ==
    ASSUME UNCHANGED <<outcome, attached, settled>>, \A j \in Tasks : FutureOf(j)' = FutureOf(j)
    PROVE  UNCHANGED Life!vars
  BY FuturesStay, PromisesStay DEF Life!vars

LEMMA LifeSpawns ==
    ASSUME NEW k \in Tasks, outcome[k] = "new", outcome' = [outcome EXCEPT ![k] = "running"],
           UNCHANGED <<attached, settled>>, FutureOf(k)' \in {"held", "gone"},
           \A j \in Tasks \ {k} : FutureOf(j)' = FutureOf(j)
    PROVE  Life!Next
<1>1. PICK f \in {"held", "gone"} : FutureOf(k)' = f
  OBVIOUS
<1>2. [j \in Tasks |-> FutureOf(j)]' = [[j \in Tasks |-> FutureOf(j)] EXCEPT ![k] = f]
  BY <1>1, FutureMoves
<1>3. Life!Spawn(k)
  BY <1>2, PromisesStay DEF Life!Spawn
<1> QED  BY <1>3 DEF Life!Next

LEMMA LifeCancels ==
    ASSUME NEW k \in Tasks, outcome[k] = "running", outcome' = [outcome EXCEPT ![k] = "cancelled"],
           UNCHANGED <<attached, settled>>, \A j \in Tasks : FutureOf(j)' = FutureOf(j)
    PROVE  Life!Next
<1>1. Life!Cancel(k)
  BY FuturesStay, PromisesStay DEF Life!Cancel
<1> QED  BY <1>1 DEF Life!Next

\* The steps of a future that somebody holds, or that has a result.
LEMMA LifeMoves ==
    ASSUME NEW k \in Tasks, UNCHANGED <<attached, settled>>,
           \A j \in Tasks \ {k} : FutureOf(j)' = FutureOf(j),
           \/ /\ outcome' = outcome
              /\ FutureOf(k) = "held"
              /\ \/ FutureOf(k)' = "ended"
                 \/ FutureOf(k)' = "gone" /\ outcome[k] = "cancelled"
           \/ /\ \E r \in {"done", "failed"} :
                   outcome' = [outcome EXCEPT ![k] = IF @ = "running" THEN r ELSE @]
              /\ FutureOf(k) = "ended" /\ FutureOf(k)' = "gone"
    PROVE  Life!Next
<1>1. [j \in Tasks |-> PromiseOf(j)]' = [j \in Tasks |-> PromiseOf(j)]
  BY PromisesStay
<1>2. CASE outcome' = outcome /\ FutureOf(k) = "held" /\ FutureOf(k)' = "ended"
  <2>1. [j \in Tasks |-> FutureOf(j)]' = [[j \in Tasks |-> FutureOf(j)] EXCEPT ![k] = "ended"]
    BY <1>2, FutureMoves
  <2>2. Life!End(k)
    BY <1>1, <1>2, <2>1 DEF Life!End
  <2> QED  BY <2>2 DEF Life!Next
<1>3. CASE outcome' = outcome /\ FutureOf(k) = "held" /\ FutureOf(k)' = "gone" /\ outcome[k] = "cancelled"
  <2>1. [j \in Tasks |-> FutureOf(j)]' = [[j \in Tasks |-> FutureOf(j)] EXCEPT ![k] = "gone"]
    BY <1>3, FutureMoves
  <2>2. Life!Drop(k)
    BY <1>1, <1>3, <2>1 DEF Life!Drop
  <2> QED  BY <2>2 DEF Life!Next
<1>4. CASE /\ \E r \in {"done", "failed"} :
                outcome' = [outcome EXCEPT ![k] = IF @ = "running" THEN r ELSE @]
           /\ FutureOf(k) = "ended" /\ FutureOf(k)' = "gone"
  <2>1. [j \in Tasks |-> FutureOf(j)]' = [[j \in Tasks |-> FutureOf(j)] EXCEPT ![k] = "gone"]
    BY <1>4, FutureMoves
  <2>2. Life!Complete(k)
    BY <1>1, <1>4, <2>1 DEF Life!Complete
  <2> QED  BY <2>2 DEF Life!Next
<1> QED  BY <1>2, <1>3, <1>4

LEMMA LifePromises ==
    ASSUME NEW k \in Tasks, outcome' = outcome, \A j \in Tasks : FutureOf(j)' = FutureOf(j),
           \A j \in Tasks \ {k} : attached'[j] = attached[j] /\ settled'[j] = settled[j],
           \/ outcome[k] # "new" /\ PromiseOf(k) = "none" /\ PromiseOf(k)' = "pending"
           \/ /\ PromiseOf(k) = "pending" /\ outcome[k] \in Terminal
              /\ PromiseOf(k)' \in {"resolved", "rejected"}
              /\ PromiseOf(k)' = "resolved" => outcome[k] = "done"
    PROVE  Life!Next
<1>1. [j \in Tasks |-> FutureOf(j)]' = [j \in Tasks |-> FutureOf(j)]
  BY FuturesStay
<1>2. CASE outcome[k] # "new" /\ PromiseOf(k) = "none" /\ PromiseOf(k)' = "pending"
  <2>1. [j \in Tasks |-> PromiseOf(j)]' = [[j \in Tasks |-> PromiseOf(j)] EXCEPT ![k] = "pending"]
    BY <1>2, PromiseMoves
  <2>2. Life!Attach(k)
    BY <1>1, <1>2, <2>1 DEF Life!Attach
  <2> QED  BY <2>2 DEF Life!Next
<1>3. CASE /\ PromiseOf(k) = "pending" /\ outcome[k] \in Terminal
           /\ PromiseOf(k)' \in {"resolved", "rejected"}
           /\ PromiseOf(k)' = "resolved" => outcome[k] = "done"
  <2>1. PICK s \in {"resolved", "rejected"} : PromiseOf(k)' = s
    BY <1>3
  <2>2. [j \in Tasks |-> PromiseOf(j)]' = [[j \in Tasks |-> PromiseOf(j)] EXCEPT ![k] = s]
    BY <2>1, PromiseMoves
  <2>3. Life!Settle(k, s)
    BY <1>1, <1>3, <2>1, <2>2 DEF Life!Settle, Terminal
  <2> QED  BY <2>3 DEF Life!Next
<1> QED  BY <1>2, <1>3

\* What the steps of TaskLife are read off, before and after a step.
Seen == TInv /\ OneHand /\ CancelWon /\ FuturesAre /\ FuturesAre'

LEMMA Sees == LifeInv /\ LifeInv' => Seen
<1>1. LifeInv /\ LifeInv' => TInv /\ OneHand /\ CancelWon /\ TInv' /\ OneHand'
  BY DEF LifeInv
<1> QED  BY <1>1, FuturesKnown, FuturesKnownNext DEF Seen

\* A future nobody has is gone.
LEMMA FutureGone ==
    ASSUME Seen, NEW k \in Tasks, outcome'[k] # "new", k \notin parked',
           \A a \in Actors : pc'[a] \in HandPcs => loc'[a].task # k
    PROVE  FutureOf(k)' = "gone"
  BY DEF Seen, FuturesAre, FutureFacts

LEMMA LaunchLives ==
    ASSUME Seen, NEW c \in Callers, NEW k \in Tasks, Launch(c, k) \/ LaunchOnTokio(c, k)
    PROVE  Life!Next
<1>1. /\ outcome[k] = "new" /\ outcome' = [outcome EXCEPT ![k] = "running"]
      /\ UNCHANGED <<attached, settled>>
  BY DEF Launch, LaunchOnTokio, delivery
<1>2. /\ pc \in [Actors -> AnyPc] /\ loc \in [Actors -> AnyLocals] /\ c \in Actors
      /\ outcome \in [Tasks -> {"new", "running"} \cup Terminal]
      /\ \A j \in Tasks : FutureFacts(j) /\ FutureFacts(j)'
  BY LocalsTyped DEF Seen, TInv, TypeOK, Actors, FuturesAre
<1>3. /\ \A a \in Actors : pc[a] \in HandPcs => loc[a].task # k
      /\ k \notin parked
  BY <1>1 DEF Seen, TInv, Located, LocatedAt, Launched, HandPcs
<1>4. outcome'[k] = "running" /\ \A j \in Tasks \ {k} : outcome'[j] = outcome[j]
  BY <1>1, <1>2
<1>5. CASE Launch(c, k)
  <2>1. pc' = pc /\ loc' = loc /\ parked' = parked \cup {k}
    BY <1>5 DEF Launch
  <2>2. FutureOf(k)' = "held"
    BY <1>2, <2>1 DEF FutureFacts
  <2>3. \A j \in Tasks \ {k} : FutureOf(j)' = FutureOf(j)
    BY <1>2, <1>4, <2>1, OthersFutures
  <2> QED  BY <1>1, <2>2, <2>3, LifeSpawns
<1>6. CASE LaunchOnTokio(c, k)
  <2>1. parked' = parked /\ k \in Actors /\ pc[c] \notin HandPcs
    BY <1>6 DEF LaunchOnTokio, Actors, HandPcs
  <2>2. CASE UNCHANGED <<pc, loc>>
    <3>1. FutureOf(k)' = "gone"
      BY <1>3, <1>4, <2>1, <2>2, FutureGone
    <3>2. \A j \in Tasks \ {k} : FutureOf(j)' = FutureOf(j)
      BY <1>2, <1>4, <2>1, <2>2, OthersFutures
    <3> QED  BY <1>1, <3>1, <3>2, LifeSpawns
  <2>3. CASE /\ pc' = [pc EXCEPT ![c] = "register", ![k] = "tokio_ready"]
             /\ loc' = [loc EXCEPT ![c].task = k, ![k].task = k]
    <3>1. c # k
      BY ExecutorAssumption
    <3>2. pc'[c] \notin HandPcs /\ pc'[k] = "tokio_ready" /\ loc'[k].task = k
      BY <1>2, <2>1, <2>3, <3>1 DEF HandPcs
    <3>3. \A a \in Actors \ {c, k} : pc'[a] = pc[a] /\ loc'[a] = loc[a]
      BY <1>2, <2>3
    <3>4. FutureOf(k)' = "held"
      BY <1>2, <2>1, <3>2 DEF FutureFacts, HandPcs
    <3>5. pc[k] \in HandPcs => loc[k].task = k
      BY <2>1, <1>6 DEF LaunchOnTokio, Seen, TInv, Located, LocatedAt, HandPcs
    <3>6. \A a \in Actors : \/ pc'[a] = pc[a] /\ loc'[a] = loc[a]
                            \/ /\ pc[a] \in HandPcs => loc[a].task = k
                               /\ pc'[a] \in HandPcs => loc'[a].task = k
      BY <2>1, <3>2, <3>3, <3>5
    <3>7. \A j \in Tasks \ {k} : outcome'[j] = outcome[j] /\ (j \in parked' <=> j \in parked)
      BY <1>4, <2>1
    <3>8. \A j \in Tasks \ {k} : FutureOf(j)' = FutureOf(j)
      BY <1>2, <3>6, <3>7, OthersFutures
    <3> QED  BY <1>1, <3>4, <3>8, LifeSpawns
  <2> QED  BY <1>6, <2>2, <2>3 DEF LaunchOnTokio
<1> QED  BY <1>5, <1>6

\* The steps that touch no future.
LEMMA NoHandMoves ==
    ASSUME Seen, NEW a \in Actors, outcome' = outcome, parked' = parked,
           \A b \in Actors \ {a} : pc'[b] = pc[b] /\ loc'[b] = loc[b],
           \/ pc[a] \notin HandPcs /\ pc'[a] \notin HandPcs
           \/ /\ pc[a] \in HandPcs \ {"mark"} /\ pc'[a] \in HandPcs \ {"mark"}
              /\ loc'[a].task = loc[a].task
    PROVE  \A j \in Tasks : FutureOf(j)' = FutureOf(j)
<1>1. \A j \in Tasks : FutureFacts(j) /\ FutureFacts(j)'
  BY DEF Seen, FuturesAre
<1>2. \A b \in Actors : \/ pc'[b] = pc[b] /\ loc'[b].task = loc[b].task
                        \/ pc[b] \notin HandPcs /\ pc'[b] \notin HandPcs
                        \/ /\ pc[b] \in HandPcs \ {"mark"} /\ pc'[b] \in HandPcs \ {"mark"}
                           /\ loc'[b].task = loc[b].task
  OBVIOUS
<1> QED  BY <1>1, <1>2, NoFutureMoves

\* The one that has a future lets it go, or goes on with it.
LEMMA OneMoves ==
    ASSUME Seen, NEW a \in Actors, loc[a].task \in Tasks,
           \A j \in Tasks \ {loc[a].task} :
             outcome'[j] = outcome[j] /\ (j \in parked' <=> j \in parked),
           \A b \in Actors \ {a} : pc'[b] = pc[b] /\ loc'[b] = loc[b],
           pc'[a] \in HandPcs => loc'[a].task = loc[a].task
    PROVE  \A j \in Tasks \ {loc[a].task} : FutureOf(j)' = FutureOf(j)
<1>1. \A j \in Tasks : FutureFacts(j) /\ FutureFacts(j)'
  BY DEF Seen, FuturesAre
<1> QED  BY <1>1, OthersFutures

LEMMA QuietLives ==
    ASSUME Seen, NEW a \in Actors,
           RegisterAborter(a) \/ PopReady(a) \/ DeliverPair(a) \/ DeliverOutcome(a) \/ DeliverSlot(a)
    PROVE  UNCHANGED Life!vars
<1>1. pc \in [Actors -> AnyPc]
  BY LocalsTyped DEF Seen, TInv
<1>2. \A b \in Actors \ {a} : pc'[b] = pc[b] /\ loc'[b] = loc[b]
  BY OthersStay DEF Seen, Bookkeeping
<1>3. UNCHANGED <<outcome, attached, settled, parked>>
  BY DEF RegisterAborter, PopReady, DeliverPair, DeliverOutcome, DeliverSlot, record, delivery
<1>4. pc[a] \notin HandPcs
  BY DEF RegisterAborter, PopReady, DeliverPair, DeliverOutcome, DeliverSlot, Goto, HandPcs
<1>5. pc'[a] \notin HandPcs
  <2> USE <1>1 DEF Goto, GotoOrFinish, Finish, HandPcs
  <2>1. CASE RegisterAborter(a) \/ PopReady(a)
    BY <2>1 DEF RegisterAborter, PopReady
  <2>2. CASE DeliverPair(a) \/ DeliverOutcome(a)
    BY <2>2 DEF DeliverPair, DeliverOutcome
  <2>3. CASE DeliverSlot(a)
    BY <2>3 DEF DeliverSlot
  <2> QED  BY <2>1, <2>2, <2>3
<1>6. \A j \in Tasks : FutureOf(j)' = FutureOf(j)
  BY <1>2, <1>3, <1>4, <1>5, NoHandMoves
<1> QED  BY <1>3, <1>6, LifeStutters

LEMMA CancelLives ==
    ASSUME Seen, NEW c \in Callers, NEW k \in Tasks, Cancel(c, k)
    PROVE  Life!Next
<1>1. /\ pc \in [Actors -> AnyPc] /\ c \in Actors
      /\ outcome \in [Tasks -> {"new", "running"} \cup Terminal]
  BY LocalsTyped DEF Seen, TInv, TypeOK, Actors
<1>2. \A b \in Actors \ {c} : pc'[b] = pc[b] /\ loc'[b] = loc[b]
  BY <1>1, OthersStay DEF Seen
<1>3. /\ outcome[k] = "running" /\ outcome' = [outcome EXCEPT ![k] = "cancelled"]
      /\ UNCHANGED <<attached, settled, parked>>
      /\ pc[c] \notin HandPcs /\ pc'[c] \notin HandPcs
  BY <1>1 DEF Cancel, MarkOutcome, Goto, HandPcs, delivery
<1>4. \A j \in Tasks : (outcome'[j] = "new" <=> outcome[j] = "new") /\ (j \in parked' <=> j \in parked)
  BY <1>1, <1>3
<1>5. \A b \in Actors : \/ pc'[b] = pc[b] /\ loc'[b].task = loc[b].task
                        \/ pc[b] \notin HandPcs /\ pc'[b] \notin HandPcs
  BY <1>2, <1>3
<1>6. \A j \in Tasks : FutureOf(j)' = FutureOf(j)
  BY <1>4, <1>5, NoFutureMoves DEF Seen, FuturesAre
<1> QED  BY <1>3, <1>6, LifeCancels

LEMMA AttachLives ==
    ASSUME Seen, Owed, NEW c \in Callers, NEW k \in Tasks, Attach(c, k)
    PROVE  Life!Next
<1>1. /\ pc \in [Actors -> AnyPc] /\ c \in Actors
      /\ attached \in [Tasks -> BOOLEAN]
  BY LocalsTyped DEF Seen, TInv, TypeOK, Actors
<1>2. \A b \in Actors \ {c} : pc'[b] = pc[b] /\ loc'[b] = loc[b]
  BY <1>1, OthersStay DEF Seen
<1>3. /\ outcome[k] # "new" /\ ~attached[k] /\ attached' = [attached EXCEPT ![k] = TRUE]
      /\ UNCHANGED <<outcome, settled, parked>>
      /\ pc[c] \notin HandPcs /\ pc'[c] \notin HandPcs
  BY <1>1 DEF Attach, Returned, Goto, HandPcs, delivery
<1>4. settled[k] = <<>>
  BY <1>3 DEF Owed
<1>5. PromiseOf(k) = "none" /\ PromiseOf(k)' = "pending"
  BY <1>1, <1>3, <1>4 DEF PromiseOf
<1>6. \A j \in Tasks : FutureOf(j)' = FutureOf(j)
  BY <1>1, <1>2, <1>3, NoHandMoves
<1>7. \A j \in Tasks \ {k} : attached'[j] = attached[j] /\ settled'[j] = settled[j]
  BY <1>1, <1>3
<1> QED  BY <1>3, <1>5, <1>6, <1>7, LifePromises

LEMMA SettleLives ==
    ASSUME Seen, Owed, DeliveredOnce, RunDelivery
    PROVE  [Life!Next]_(Life!vars)
<1>1. /\ settled \in [Tasks -> Seq({"resolved", "rejected"})] /\ jobs \in Seq(Tasks)
  BY DEF Seen, TInv, TypeOK
<1>2. PICK k \in Tasks : k = Head(jobs) /\ k = jobs[1] /\ 1 \in 1 .. Len(jobs)
  BY <1>1 DEF RunDelivery
<1>3. \A j \in Tasks : FutureOf(j)' = FutureOf(j)
  <2>1. UNCHANGED <<outcome, pc, loc, parked>>
    BY DEF RunDelivery, record
  <2> QED  BY <2>1, NoFutureMoves DEF Seen, FuturesAre
<1>4. UNCHANGED <<outcome, attached>>
  BY DEF RunDelivery, record
<1>5. CASE settled' = settled
  BY <1>3, <1>4, <1>5, LifeStutters
<1>6. ASSUME NEW s \in IF outcome[k] = "done" THEN {"resolved", "rejected"} ELSE {"rejected"},
             settled' = [settled EXCEPT ![k] = Append(@, s)]
      PROVE  Life!Next
  <2>1. settled[k] = <<>> /\ attached[k] /\ outcome[k] \in Terminal
    BY <1>2 DEF DeliveredOnce, Owed
  <2>2. settled'[k] = <<s>> /\ \A j \in Tasks \ {k} : settled'[j] = settled[j]
    BY <1>1, <1>6, <2>1
  <2>3. PromiseOf(k) = "pending" /\ PromiseOf(k)' = s
    BY <1>4, <2>1, <2>2 DEF PromiseOf
  <2>4. s \in {"resolved", "rejected"} /\ (s = "resolved" => outcome[k] = "done")
    BY <1>6
  <2> QED  BY <1>3, <1>4, <2>1, <2>2, <2>3, <2>4, LifePromises
<1> QED  BY <1>2, <1>5, <1>6 DEF RunDelivery

LEMMA WakeLives ==
    ASSUME Seen, NEW k \in Tasks, Fire(k) \/ SpuriousWake(k)
    PROVE  UNCHANGED Life!vars
<1>1. /\ UNCHANGED <<record, parked, loc, settled>>
      /\ \A a \in Actors : \/ pc'[a] = pc[a]
                           \/ a = k /\ pc[a] = "tokio_parked" /\ pc'[a] = "tokio_ready"
  BY WakesMove DEF Seen
<1>2. \A j \in Tasks : FutureOf(j)' = FutureOf(j)
  BY <1>1, NoFutureMoves DEF Seen, FuturesAre, HandPcs, record
<1> QED  BY <1>1, <1>2, LifeStutters DEF record

\* The step of whoever has the future of k, or looks for it where it is parked.
LEMMA CheckLives ==
    ASSUME Seen, NEW w \in Workers, CheckCancelled(w)
    PROVE  [Life!Next]_(Life!vars)
<1>1. PICK k \in Tasks : k = loc[w].task /\ pc[w] = "check" /\ outcome[k] # "new"
  BY DEF Seen, TInv, Located, LocatedAt, CheckCancelled, Actors
<1>2. pc \in [Actors -> AnyPc] /\ w \in Actors
  BY LocalsTyped DEF Seen, TInv, Actors
<1>3. \A b \in Actors \ {w} : pc'[b] = pc[b] /\ loc'[b] = loc[b]
  BY <1>2, OthersStay DEF Seen
<1>4. /\ UNCHANGED <<outcome, attached, settled>>
      /\ parked' = IF cancelRequested[k] THEN parked \ {k} ELSE parked
      /\ pc[w] \notin HandPcs /\ pc'[w] \notin HandPcs
  BY <1>1, <1>2 DEF CheckCancelled, GotoOrFinish, Finish, HandPcs, record, delivery
<1>5. CASE parked' = parked
  <2>1. \A j \in Tasks : FutureOf(j)' = FutureOf(j)
    BY <1>2, <1>3, <1>4, <1>5, NoHandMoves
  <2> QED  BY <1>4, <2>1, LifeStutters
<1>6. CASE parked' # parked
  <2>1. cancelRequested[k] /\ k \in parked /\ k \notin parked'
    BY <1>4, <1>6
  <2>2. FutureOf(k) = "held" /\ outcome[k] = "cancelled"
    BY <2>1 DEF Seen, CancelWon, FuturesAre, FutureFacts
  <2>3. \A a \in Actors : pc'[a] \in HandPcs => loc'[a].task # k
    BY <1>3, <1>4, <2>1 DEF Seen, OneHand
  <2>4. FutureOf(k)' = "gone"
    BY <1>1, <1>4, <2>1, <2>3, FutureGone
  <2>5. \A j \in Tasks \ {k} : FutureOf(j)' = FutureOf(j)
    BY <1>1, <1>2, <1>3, <1>4, OneMoves
  <2> QED  BY <1>4, <2>2, <2>4, <2>5, LifeMoves
<1> QED  BY <1>5, <1>6

LEMMA TakeLives ==
    ASSUME Seen, NEW w \in Workers, Take(w)
    PROVE  UNCHANGED Life!vars
<1>1. PICK k \in Tasks : k = loc[w].task /\ pc[w] = "take"
  BY DEF Seen, TInv, Located, LocatedAt, Take, Actors
<1>2. pc \in [Actors -> AnyPc] /\ w \in Actors
  BY LocalsTyped DEF Seen, TInv, Actors
<1>3. \A b \in Actors \ {w} : pc'[b] = pc[b] /\ loc'[b] = loc[b]
  BY <1>2, OthersStay DEF Seen
<1>4. /\ UNCHANGED <<outcome, attached, settled>> /\ parked' = parked \ {k} /\ pc[w] \notin HandPcs
      /\ IF k \in parked THEN pc'[w] = "poll" /\ loc' = loc ELSE pc'[w] = "idle"
  BY <1>1, <1>2 DEF Take, GotoOrFinish, Finish, HandPcs, record, delivery
<1>5. CASE k \in parked
  <2>1. FutureOf(k) = "held"
    BY <1>5 DEF Seen, FuturesAre, FutureFacts
  <2>2. FutureOf(k)' = "held"
    BY <1>1, <1>2, <1>4, <1>5 DEF Seen, FuturesAre, FutureFacts, HandPcs
  <2>3. \A j \in Tasks \ {k} : FutureOf(j)' = FutureOf(j)
    BY <1>1, <1>2, <1>3, <1>4, <1>5, OneMoves
  <2> QED  BY <1>4, <2>1, <2>2, <2>3, LifeStutters
<1>6. CASE k \notin parked
  <2>1. parked' = parked /\ pc'[w] \notin HandPcs
    BY <1>4, <1>6 DEF HandPcs
  <2>2. \A j \in Tasks : FutureOf(j)' = FutureOf(j)
    BY <1>2, <1>3, <1>4, <2>1, NoHandMoves
  <2> QED  BY <1>4, <2>2, LifeStutters
<1> QED  BY <1>5, <1>6

LEMMA PollLives ==
    ASSUME Seen, NEW a \in Actors, Poll(a) \/ TokioPoll(a)
    PROVE  [Life!Next]_(Life!vars)
<1>1. PICK k \in Tasks : k = loc[a].task /\ pc[a] \in {"poll", "tokio_ready"}
  BY DEF Seen, TInv, Located, LocatedAt, Poll, TokioPoll, Goto
<1>2. pc \in [Actors -> AnyPc]
  BY LocalsTyped DEF Seen, TInv
<1>3. \A b \in Actors \ {a} : pc'[b] = pc[b] /\ loc'[b] = loc[b]
  BY OthersStay DEF Seen
<1>4. pc'[a] \in HandPcs => loc'[a].task = k
  BY <1>1, HandSteps DEF Seen
<1>5. UNCHANGED <<outcome, attached, settled, parked>> /\ pc'[a] \in {"mark", "pending", "tokio_parked"}
  BY <1>2 DEF Poll, TokioPoll, Goto, record, delivery
<1>6. CASE pc'[a] = "mark"
  <2>1. FutureOf(k) = "held" /\ FutureOf(k)' = "ended"
    BY <1>1, <1>4, <1>6 DEF Seen, FuturesAre, FutureFacts, HandPcs
  <2>2. \A j \in Tasks \ {k} : FutureOf(j)' = FutureOf(j)
    BY <1>1, <1>3, <1>4, <1>5, OneMoves
  <2> QED  BY <1>5, <2>1, <2>2, LifeMoves
<1>7. CASE pc'[a] # "mark"
  <2>1. \A j \in Tasks : FutureOf(j)' = FutureOf(j)
    BY <1>1, <1>3, <1>4, <1>5, <1>7, NoHandMoves DEF HandPcs
  <2> QED  BY <1>5, <2>1, LifeStutters
<1> QED  BY <1>6, <1>7

LEMMA MarkLives ==
    ASSUME Seen, NEW a \in Actors, Mark(a)
    PROVE  Life!Next
<1>1. PICK k \in Tasks : k = loc[a].task /\ pc[a] = "mark" /\ outcome[k] # "new"
                         /\ loc[a].result \in {"done", "failed"}
  BY DEF Seen, TInv, Located, LocatedAt, Mark
<1>2. /\ pc \in [Actors -> AnyPc]
      /\ outcome \in [Tasks -> {"new", "running"} \cup Terminal]
  BY LocalsTyped DEF Seen, TInv, TypeOK
<1>3. \A b \in Actors \ {a} : pc'[b] = pc[b] /\ loc'[b] = loc[b]
  BY OthersStay DEF Seen
<1>4. PICK r \in {"done", "failed"} :
        outcome' = [outcome EXCEPT ![k] = IF @ = "running" THEN r ELSE @]
  BY <1>1 DEF Mark, MarkOutcome
<1>5. UNCHANGED <<attached, settled, parked>> /\ pc'[a] \notin HandPcs
  BY <1>2 DEF Mark, GotoOrFinish, Finish, HandPcs, delivery
<1>6. outcome'[k] # "new" /\ \A j \in Tasks \ {k} : outcome'[j] = outcome[j]
  BY <1>1, <1>2, <1>4
<1>7. FutureOf(k) = "ended"
  BY <1>1 DEF Seen, FuturesAre, FutureFacts, HandPcs
<1>8. k \notin parked /\ \A b \in Actors : pc[b] \in HandPcs /\ loc[b].task = k => b = a
  BY <1>1 DEF Seen, OneHand, HandPcs
<1>9. FutureOf(k)' = "gone"
  BY <1>3, <1>5, <1>6, <1>8, FutureGone
<1>10. \A j \in Tasks \ {k} : FutureOf(j)' = FutureOf(j)
  BY <1>1, <1>3, <1>5, <1>6, OneMoves
<1> QED  BY <1>4, <1>5, <1>7, <1>9, <1>10, LifeMoves

LEMMA PendingLives ==
    ASSUME Seen, NEW w \in Workers, Pending(w)
    PROVE  [Life!Next]_(Life!vars)
<1>1. PICK k \in Tasks : k = loc[w].task /\ pc[w] = "pending" /\ outcome[k] # "new"
  BY DEF Seen, TInv, Located, LocatedAt, Pending, Actors
<1>2. pc \in [Actors -> AnyPc] /\ w \in Actors
  BY LocalsTyped DEF Seen, TInv, Actors
<1>3. \A b \in Actors \ {w} : pc'[b] = pc[b] /\ loc'[b] = loc[b]
  BY <1>2, OthersStay DEF Seen
<1>4. /\ UNCHANGED <<outcome, attached, settled, parked>>
      /\ IF cancelRequested[k] THEN pc'[w] = "idle" ELSE pc'[w] = "park" /\ loc' = loc
  BY <1>1, <1>2 DEF Pending, GotoOrFinish, Finish, record, delivery
<1>5. CASE ~cancelRequested[k]
  <2>1. \A j \in Tasks : FutureOf(j)' = FutureOf(j)
    BY <1>1, <1>2, <1>3, <1>4, <1>5, NoHandMoves DEF HandPcs
  <2> QED  BY <1>4, <2>1, LifeStutters
<1>6. CASE cancelRequested[k]
  <2>1. FutureOf(k) = "held" /\ outcome[k] = "cancelled"
    BY <1>1, <1>2, <1>6 DEF Seen, CancelWon, FuturesAre, FutureFacts, HandPcs
  <2>2. k \notin parked /\ \A b \in Actors : pc[b] \in HandPcs /\ loc[b].task = k => b = w
    BY <1>1, <1>2 DEF Seen, OneHand, HandPcs
  <2>3. pc'[w] \notin HandPcs
    BY <1>4, <1>6 DEF HandPcs
  <2>4. FutureOf(k)' = "gone"
    BY <1>1, <1>3, <1>4, <2>2, <2>3, FutureGone
  <2>5. \A j \in Tasks \ {k} : FutureOf(j)' = FutureOf(j)
    BY <1>1, <1>2, <1>3, <1>4, <2>3, OneMoves
  <2> QED  BY <1>4, <2>1, <2>4, <2>5, LifeMoves
<1> QED  BY <1>5, <1>6

LEMMA ParkLives ==
    ASSUME Seen, NEW w \in Workers, Park(w)
    PROVE  UNCHANGED Life!vars
<1>1. PICK k \in Tasks : k = loc[w].task /\ pc[w] = "park"
  BY DEF Seen, TInv, Located, LocatedAt, Park, Actors
<1>2. pc \in [Actors -> AnyPc] /\ w \in Actors
  BY LocalsTyped DEF Seen, TInv, Actors
<1>3. \A b \in Actors \ {w} : pc'[b] = pc[b] /\ loc'[b] = loc[b]
  BY <1>2, OthersStay DEF Seen
<1>4. /\ UNCHANGED <<outcome, attached, settled>>
      /\ parked' = parked \cup {k} /\ pc'[w] \notin HandPcs
  BY <1>1, <1>2 DEF Park, Finish, HandPcs, record, delivery
<1>5. FutureOf(k) = "held" /\ FutureOf(k)' = "held"
  BY <1>1, <1>2, <1>4 DEF Seen, FuturesAre, FutureFacts, HandPcs
<1>6. \A j \in Tasks \ {k} : FutureOf(j)' = FutureOf(j)
  BY <1>1, <1>2, <1>3, <1>4, OneMoves
<1> QED  BY <1>4, <1>5, <1>6, LifeStutters

LEMMA AbortLives ==
    ASSUME Seen, NEW c \in Callers, RunAborter(c)
    PROVE  [Life!Next]_(Life!vars)
<1>1. PICK k \in Tasks : k = loc[c].task /\ outcome[k] = "cancelled" /\ c \in Actors /\ pc[c] = "abort"
  BY DEF Seen, TInv, Located, LocatedAt, CancelWon, RunAborter, Actors
<1>2. /\ UNCHANGED <<record, parked, loc, settled>> /\ pc'[c] = "finish"
      /\ \A a \in Actors \ {c} :
           \/ pc'[a] = pc[a]
           \/ a = k /\ pc[a] \in {"tokio_ready", "tokio_parked"} /\ pc'[a] = "idle"
  BY <1>1, AborterMoves DEF Seen
<1>3. UNCHANGED <<outcome, attached, settled, parked>>
  BY <1>2 DEF record
<1>4. CASE \A a \in Actors \ {c} : pc'[a] = pc[a]
  <2>1. \A j \in Tasks : FutureOf(j)' = FutureOf(j)
    BY <1>1, <1>2, <1>3, <1>4, NoHandMoves DEF HandPcs
  <2> QED  BY <1>3, <2>1, LifeStutters
<1>5. CASE k \in Actors /\ pc[k] \in {"tokio_ready", "tokio_parked"} /\ pc'[k] = "idle"
  <2>1. loc[k].task = k /\ k \in Tasks
    BY <1>5 DEF Seen, TInv, Located, LocatedAt
  <2>2. FutureOf(k) = "held"
    BY <1>5, <2>1 DEF Seen, FuturesAre, FutureFacts, HandPcs
  <2>3. k \notin parked /\ \A b \in Actors : pc[b] \in HandPcs /\ loc[b].task = k => b = k
    BY <1>5, <2>1 DEF Seen, OneHand, HandPcs
  <2>4. \A a \in Actors : pc'[a] \in HandPcs => a # k /\ pc[a] \in HandPcs /\ loc'[a].task = loc[a].task
    BY <1>2, <1>5 DEF HandPcs
  <2>5. FutureOf(k)' = "gone"
    BY <1>1, <1>3, <2>3, <2>4, FutureGone
  <2>6. \A a \in Actors : \/ pc'[a] = pc[a] /\ loc'[a] = loc[a]
                          \/ /\ pc[a] \in HandPcs => loc[a].task = k
                             /\ pc'[a] \in HandPcs => loc'[a].task = k
    BY <1>1, <1>2, <2>1 DEF HandPcs
  <2>7. \A j \in Tasks \ {k} : outcome'[j] = outcome[j] /\ (j \in parked' <=> j \in parked)
    BY <1>3
  <2>8. \A j \in Tasks \ {k} : FutureOf(j)' = FutureOf(j)
    BY <2>6, <2>7, OthersFutures DEF Seen, FuturesAre
  <2> QED  BY <1>1, <1>3, <2>2, <2>5, <2>8, LifeMoves
<1> QED  BY <1>2, <1>4, <1>5

LEMMA FinishedLives ==
    ASSUME Seen, OneWinner, NEW a \in Actors, TaskFinished(a)
    PROVE  [Life!Next]_(Life!vars)
<1>1. PICK k \in Tasks : k = loc[a].task /\ pc[a] = "finish" /\ outcome[k] \in Terminal /\ outcome[k] # "new"
  BY DEF Seen, TInv, Located, LocatedAt, OneWinner, Winner, TaskFinished, Goto
<1>2. pc \in [Actors -> AnyPc]
  BY LocalsTyped DEF Seen, TInv
<1>3. \A b \in Actors \ {a} : pc'[b] = pc[b] /\ loc'[b] = loc[b]
  BY OthersStay DEF Seen, Bookkeeping
<1>4. /\ UNCHANGED <<outcome, attached, settled>> /\ parked' = parked \ {k}
      /\ pc[a] \notin HandPcs /\ pc'[a] \notin HandPcs
  BY <1>1, <1>2 DEF TaskFinished, Goto, HandPcs, record, delivery
<1>5. CASE k \notin parked
  <2>1. parked' = parked
    BY <1>4, <1>5
  <2>2. \A j \in Tasks : FutureOf(j)' = FutureOf(j)
    BY <1>3, <1>4, <2>1, NoHandMoves
  <2> QED  BY <1>4, <2>2, LifeStutters
<1>6. CASE k \in parked
  <2>1. FutureOf(k) = "held" /\ outcome[k] = "cancelled"
    BY <1>1, <1>6 DEF Seen, CancelWon, FuturesAre, FutureFacts, Terminal
  <2>2. \A b \in Actors : pc'[b] \in HandPcs => loc'[b].task # k
    BY <1>3, <1>4, <1>6 DEF Seen, OneHand
  <2>3. FutureOf(k)' = "gone"
    BY <1>1, <1>4, <2>2, FutureGone
  <2>4. \A j \in Tasks \ {k} : FutureOf(j)' = FutureOf(j)
    BY <1>1, <1>3, <1>4, OneMoves
  <2> QED  BY <1>4, <2>1, <2>3, <2>4, LifeMoves
<1> QED  BY <1>5, <1>6

LEMMA LifeStep == LifeInv /\ LifeInv' /\ [Next]_vars => [Life!Next]_(Life!vars)
<1> SUFFICES ASSUME LifeInv, LifeInv', [Next]_vars PROVE [Life!Next]_(Life!vars)
  OBVIOUS
<1> DEFINE Goal == [Life!Next]_(Life!vars)
<1>1. Seen /\ Owed /\ DeliveredOnce /\ OneWinner
  BY Sees DEF LifeInv
<1>2. Workers \subseteq Actors /\ Callers \subseteq Actors /\ TokioTasks \subseteq Actors
  BY DEF Actors
<1>3. ASSUME NEW c \in Callers, NEW k \in Tasks,
             Launch(c, k) \/ LaunchOnTokio(c, k) \/ Cancel(c, k) \/ Attach(c, k)
      PROVE  Goal
  BY <1>1, <1>3, LaunchLives, CancelLives, AttachLives
<1>4. ASSUME NEW a \in Actors, Bookkeeping(a) PROVE Goal
  BY <1>1, <1>4, FinishedLives, QuietLives DEF Bookkeeping
<1>5. ASSUME NEW c \in Callers, RegisterAborter(c) \/ RunAborter(c) PROVE Goal
  BY <1>1, <1>2, <1>5, QuietLives, AbortLives
<1>6. ASSUME NEW w \in Workers, PopReady(w) \/ CheckCancelled(w) \/ Take(w) PROVE Goal
  BY <1>1, <1>2, <1>6, QuietLives, CheckLives, TakeLives
<1>7. ASSUME NEW w \in Workers, Pending(w) \/ Park(w) PROVE Goal
  BY <1>1, <1>7, PendingLives, ParkLives
<1>8. ASSUME NEW a \in Actors, Poll(a) \/ TokioPoll(a) \/ Mark(a) PROVE Goal
  BY <1>1, <1>8, PollLives, MarkLives
<1>9. ASSUME NEW k \in Tasks, Fire(k) \/ SpuriousWake(k) PROVE Goal
  BY <1>1, <1>9, WakeLives
<1>10. RunDelivery => Goal
  BY <1>1, SettleLives
<1>11. ASSUME CloseLoop \/ UNCHANGED vars PROVE Goal
  <2>1. UNCHANGED <<outcome, attached, settled, parked, pc, loc>>
    BY <1>11 DEF CloseLoop, vars, record, delivery
  <2>2. \A j \in Tasks : FutureOf(j)' = FutureOf(j)
    BY <1>1, <2>1, NoFutureMoves DEF Seen, FuturesAre
  <2> QED  BY <2>1, <2>2, LifeStutters
<1> HIDE DEF Goal
<1>12. ASSUME NEW w \in Workers, Worker(w) PROVE Goal
  BY <1>2, <1>4, <1>6, <1>7, <1>8, <1>12 DEF Worker
<1>13. ASSUME NEW c \in Callers, InCall(c) PROVE Goal
  BY <1>2, <1>4, <1>5, <1>13 DEF InCall
<1>14. ASSUME NEW k \in TokioTasks, OnTokio(k) PROVE Goal
  BY <1>2, <1>4, <1>8, <1>14 DEF OnTokio
<1>15. Goal
  BY <1>3, <1>9, <1>10, <1>11, <1>12, <1>13, <1>14 DEF Next
<1> QED  BY <1>15 DEF Goal

LEMMA LifeStarts == Init => Life!Init
<1> SUFFICES ASSUME Init PROVE Life!Init
  OBVIOUS
<1>1. \A k \in Tasks : FutureOf(k) = "none" /\ PromiseOf(k) = "none"
  BY DEF Init, FutureOf, PromiseOf
<1> QED  BY <1>1 DEF Init, Life!Init

\* The executor keeps the contract of a task, for any number of workers, callers
\* and tasks and however their steps overlap: the first terminal transition is the
\* outcome, a future ends once or is dropped by a cancel and is never polled
\* afterwards, and the promise settles once, for that outcome.
THEOREM ExecutorKeepsContract == Spec => TaskContract
<1>1. Init => LifeInv /\ Life!Init
  BY LifeInvInit, LifeStarts
<1>2. LifeInv /\ [Next]_vars => LifeInv'
  BY LifeInvStep
<1>3. LifeInv /\ LifeInv' /\ [Next]_vars => [Life!Next]_(Life!vars)
  BY LifeStep
<1> QED  BY <1>1, <1>2, <1>3, PTL DEF Spec, TaskContract, Life!Spec
=============================================================================
