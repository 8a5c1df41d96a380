----------------------------- MODULE TimerProofs -----------------------------
(***************************************************************************)
(* Theorems about Timer, for every set of futures and tasks.               *)
(*                                                                         *)
(* The timer thread holds the mutex from a scan until it waits, so the     *)
(* entries it found due stay in the table until it fires them (DueInTable):*)
(* without that a waker it takes out might be missing, and TypeOK is not   *)
(* inductive.  The other two invariants need TypeOK only.                  *)
(***************************************************************************)
EXTENDS Timer, FiniteSetTheorems, TLAPS

\* Between a scan and the wait, what was found due is in the table; at any
\* other time nothing is due and no waker is in hand.
DueInTable ==
    /\ \A f \in due : entry[f] # NONE
    /\ timer # "fire" => due = {} /\ waking = {}

IInv == TypeOK /\ DueInTable /\ EntriesOfLiveFutures /\ NeverSleepsOverADeadline

\* A set with one element at most has one task in hand at most.
LEMMA AtMostOneWaker ==
    /\ Cardinality({}) <= 1
    /\ \A k : Cardinality({k}) <= 1
<1>1. Cardinality({}) = 0
  BY FS_EmptySet
<1>2. \A k : Cardinality({k}) = 1
  BY FS_Singleton
<1> QED  BY <1>1, <1>2

\* The initial states satisfy the inductive invariant.
LEMMA InitIInv == Init => IInv
<1> SUFFICES ASSUME Init PROVE IInv
  OBVIOUS
<1>1. Cardinality(waking) <= 1
  BY AtMostOneWaker DEF Init
<1>2. TypeOK
  BY <1>1 DEF Init, TypeOK
<1>3. DueInTable /\ EntriesOfLiveFutures /\ NeverSleepsOverADeadline
  BY DEF Init, DueInTable, EntriesOfLiveFutures, NeverSleepsOverADeadline
<1> QED  BY <1>2, <1>3 DEF IInv

\* A step that leaves the variables alone preserves the inductive invariant.
LEMMA StutterIInv == IInv /\ UNCHANGED vars => IInv'
BY DEF IInv, vars, table, workers, thread, TypeOK, DueInTable, EntriesOfLiveFutures,
       NeverSleepsOverADeadline

-----------------------------------------------------------------------------
(* The timer thread *)

\* A scan finds due what has an entry.
LEMMA ScanIInv == IInv /\ Scan => IInv'
<1> SUFFICES ASSUME IInv, Scan PROVE IInv'
  OBVIOUS
<1> USE DEF IInv, Scan, table, workers
<1>1. TypeOK'
  BY DEF TypeOK
<1>2. DueInTable'
  BY DEF DueInTable
<1>3. EntriesOfLiveFutures' /\ NeverSleepsOverADeadline'
  BY DEF EntriesOfLiveFutures, NeverSleepsOverADeadline
<1> QED  BY <1>1, <1>2, <1>3

\* Firing an entry takes its waker, which is there, out of the table.
LEMMA FireIInv == ASSUME NEW f \in Futures, IInv, Fire(f) PROVE IInv'
<1> USE DEF IInv, Fire, workers
<1>1. entry[f] \in Tasks
  BY DEF TypeOK, DueInTable
<1>2. /\ waking' \subseteq Tasks
      /\ Cardinality(waking') <= 1
  <2>1. CASE detached[f]
    BY <2>1, AtMostOneWaker
  <2>2. CASE ~detached[f]
    BY <2>2, <1>1, AtMostOneWaker
  <2> QED  BY <2>1, <2>2
<1>3. TypeOK'
  BY <1>2 DEF TypeOK
<1>4. DueInTable'
  BY DEF TypeOK, DueInTable
<1>5. EntriesOfLiveFutures' /\ NeverSleepsOverADeadline'
  BY DEF TypeOK, EntriesOfLiveFutures, NeverSleepsOverADeadline
<1> QED  BY <1>3, <1>4, <1>5

\* The rest of the timer thread: a wake, and the wait that starts on an empty
\* table only.
LEMMA RestOfThreadIInv == IInv /\ (WakeTask \/ Park \/ Notified) => IInv'
<1> SUFFICES ASSUME IInv, WakeTask \/ Park \/ Notified PROVE IInv'
  OBVIOUS
<1> USE DEF IInv, table, workers
<1>1. CASE WakeTask
  <2>1. TypeOK'
    BY <1>1, AtMostOneWaker DEF WakeTask, TypeOK
  <2>2. DueInTable' /\ EntriesOfLiveFutures' /\ NeverSleepsOverADeadline'
    BY <1>1 DEF WakeTask, DueInTable, EntriesOfLiveFutures, NeverSleepsOverADeadline
  <2> QED  BY <2>1, <2>2
<1>2. CASE Park
  <2>1. TypeOK'
    BY <1>2 DEF Park, TypeOK
  <2>2. DueInTable' /\ EntriesOfLiveFutures'
    BY <1>2 DEF Park, DueInTable, EntriesOfLiveFutures
  <2>3. NeverSleepsOverADeadline'
    BY <1>2 DEF Park, NeverSleepsOverADeadline
  <2> QED  BY <2>1, <2>2, <2>3
<1>3. CASE Notified
  BY <1>3 DEF Notified, TypeOK, DueInTable, EntriesOfLiveFutures, NeverSleepsOverADeadline
<1> QED  BY <1>1, <1>2, <1>3

-----------------------------------------------------------------------------
(* The polls and the drops *)

\* A future that is dropped goes to the removal of its entry if it holds a
\* Registration; one that holds none and is not being dropped has no entry.
LEMMA DropIInv ==
    ASSUME NEW F \in SUBSET Futures, IInv, Drop(F), held' \in SUBSET Tasks,
           \A f \in F : fut[f] \in {"pending", "check", "inner", "recheck"}
    PROVE  IInv'
<1> USE DEF IInv, Drop, thread
<1>1. TypeOK'
  BY DEF TypeOK
<1>2. DueInTable'
  BY DEF DueInTable
<1>3. EntriesOfLiveFutures'
  BY DEF TypeOK, EntriesOfLiveFutures
<1>4. NeverSleepsOverADeadline'
  BY DEF TypeOK, NeverSleepsOverADeadline
<1> QED  BY <1>1, <1>2, <1>3, <1>4

LEMMA DoneIInv ==
    ASSUME NEW f \in Futures, IInv, Done(f),
           fut[f] \in {"pending", "check", "inner", "recheck"}
    PROVE  IInv'
<1>1. held' \in SUBSET Tasks
  BY DEF Done, IInv, TypeOK
<1> QED  BY <1>1, DropIInv DEF Done

\* A step of a poll that only moves the future on, from a place where an entry
\* of its own does not have to be signalled or removed.
LEMMA GoOnIInv ==
    ASSUME NEW f \in Futures, IInv, NEW to \in {"pending"} \cup Polling,
           fut[f] \in {"pending", "check", "inner", "recheck"},
           fut' = [fut EXCEPT ![f] = to],
           unpolled' \in SUBSET Futures,
           UNCHANGED <<table, registered, expired, owner, ready, held, unheard, misled, thread>>
    PROVE  IInv'
<1> USE DEF IInv, table, thread
<1>1. TypeOK'
  BY DEF TypeOK
<1>2. DueInTable'
  BY DEF DueInTable
<1>3. EntriesOfLiveFutures' /\ NeverSleepsOverADeadline'
  BY DEF TypeOK, EntriesOfLiveFutures, NeverSleepsOverADeadline
<1> QED  BY <1>1, <1>2, <1>3

\* The looks at the flag and at the inner future, which touch no entry.
LEMMA LookIInv ==
    ASSUME NEW f \in Futures, IInv,
           Poll(f) \/ CheckFired(f) \/ PollInner(f) \/ Recheck(f) \/ Discard(f)
    PROVE  IInv'
<1>0. TypeOK
  BY DEF IInv
<1>1. CASE Poll(f)
  BY <1>0, <1>1, GoOnIInv DEF Poll, Goto, Polling, TypeOK
<1>2. CASE CheckFired(f)
  <2>1. CASE registered[f] /\ fired[f]
    BY <1>2, <2>1, DoneIInv DEF CheckFired
  <2>2. CASE ~(registered[f] /\ fired[f])
    BY <1>0, <1>2, <2>2, GoOnIInv DEF CheckFired, Polling, workers, TypeOK
  <2> QED  BY <2>1, <2>2
<1>3. CASE PollInner(f)
  <2>1. CASE Done(f)
    BY <1>3, <2>1, DoneIInv DEF PollInner
  <2>2. CASE ~Done(f)
    BY <1>0, <1>3, <2>2, GoOnIInv DEF PollInner, Polling, workers, TypeOK
  <2> QED  BY <2>1, <2>2
<1>4. CASE Recheck(f)
  <2>1. CASE fired[f]
    BY <1>4, <2>1, DoneIInv DEF Recheck
  <2>2. CASE ~fired[f]
    BY <1>0, <1>4, <2>2, GoOnIInv DEF Recheck, workers, TypeOK
  <2> QED  BY <2>1, <2>2
<1>5. CASE Discard(f)
  BY <1>5, DoneIInv DEF Discard
<1> QED  BY <1>1, <1>2, <1>3, <1>4, <1>5

\* The accesses to the table, while the timer thread does not hold it, and the
\* signals that follow them.
LEMMA TableIInv ==
    ASSUME NEW f \in Futures, IInv,
           RegisterDeadline(f) \/ Signal(f) \/ UpdateWaker(f) \/ RemoveEntry(f)
    PROVE  IInv'
<1> USE DEF IInv, Goto, Unlocked, NotifyAll, table, workers, thread
<1>1. CASE RegisterDeadline(f)
  <2> USE <1>1 DEF RegisterDeadline
  <2>1. TypeOK'
    BY DEF TypeOK, Polling
  <2>2. DueInTable'
    BY DEF DueInTable
  <2>3. EntriesOfLiveFutures' /\ NeverSleepsOverADeadline'
    BY DEF TypeOK, EntriesOfLiveFutures, NeverSleepsOverADeadline
  <2> QED  BY <2>1, <2>2, <2>3
<1>2. CASE Signal(f)
  <2> USE <1>2 DEF Signal
  <2>1. TypeOK'
    BY DEF TypeOK, Polling
  <2>2. DueInTable'
    BY DEF DueInTable
  <2>3. EntriesOfLiveFutures' /\ NeverSleepsOverADeadline'
    BY DEF TypeOK, EntriesOfLiveFutures, NeverSleepsOverADeadline
  <2> QED  BY <2>1, <2>2, <2>3
<1>3. CASE UpdateWaker(f)
  <2> USE <1>3 DEF UpdateWaker
  <2>1. TypeOK'
    BY DEF TypeOK, Polling
  <2>2. DueInTable'
    BY DEF DueInTable
  <2>3. EntriesOfLiveFutures' /\ NeverSleepsOverADeadline'
    BY DEF TypeOK, EntriesOfLiveFutures, NeverSleepsOverADeadline
  <2> QED  BY <2>1, <2>2, <2>3
<1>4. CASE RemoveEntry(f)
  <2> USE <1>4 DEF RemoveEntry
  <2>1. TypeOK'
    BY DEF TypeOK
  <2>2. DueInTable'
    BY DEF DueInTable
  <2>3. EntriesOfLiveFutures' /\ NeverSleepsOverADeadline'
    BY DEF TypeOK, EntriesOfLiveFutures, NeverSleepsOverADeadline
  <2> QED  BY <2>1, <2>2, <2>3
<1> QED  BY <1>1, <1>2, <1>3, <1>4

\* The workers take tasks and park them, and throw wakes away; a cancelled task's
\* futures are dropped.
LEMMA ExecutorIInv ==
    ASSUME NEW k \in Tasks, IInv,
           Take(k) \/ PopUnparked(k) \/ ParkTask(k) \/ Wake(k) \/ Cancel(k)
    PROVE  IInv'
<1>1. CASE Take(k) \/ PopUnparked(k) \/ ParkTask(k) \/ Wake(k)
  <2> USE DEF IInv, table, thread
  <2>1. /\ UNCHANGED <<table, registered, expired, owner, fut, misled, thread>>
        /\ ready' \subseteq Tasks /\ held' \subseteq Tasks /\ unheard' \subseteq Tasks
        /\ unpolled' \subseteq Futures
    BY <1>1 DEF Take, PopUnparked, ParkTask, Wake, Owned, TypeOK
  <2>2. TypeOK'
    BY <2>1 DEF TypeOK
  <2>3. DueInTable' /\ EntriesOfLiveFutures' /\ NeverSleepsOverADeadline'
    BY <2>1 DEF DueInTable, EntriesOfLiveFutures, NeverSleepsOverADeadline
  <2> QED  BY <2>2, <2>3
<1>2. CASE Cancel(k)
  <2>1. held' \in SUBSET Tasks /\ Owned(k) \subseteq Futures
    BY <1>2 DEF Cancel, Owned, IInv, TypeOK
  <2>2. Drop({f \in Owned(k) : fut[f] = "pending"})
    BY <1>2 DEF Cancel
  <2> QED  BY <2>1, <2>2, DropIInv
<1> QED  BY <1>1, <1>2

\* A deadline passes, a future changes its task: no entry is concerned.
LEMMA OutsideIInv ==
    ASSUME NEW f \in Futures, IInv, Expire(f) \/ (\E k \in Tasks : Move(f, k))
    PROVE  IInv'
<1> USE DEF IInv, table, workers, thread
<1>1. CASE Expire(f)
  BY <1>1 DEF Expire, TypeOK, DueInTable, EntriesOfLiveFutures, NeverSleepsOverADeadline
<1>2. CASE \E k \in Tasks : Move(f, k)
  <2> PICK k \in Tasks : Move(f, k)
    BY <1>2
  <2> QED  BY DEF Move, TypeOK, DueInTable, EntriesOfLiveFutures, NeverSleepsOverADeadline
<1> QED  BY <1>1, <1>2

\* Every step preserves the inductive invariant.
LEMMA NextIInv == IInv /\ [Next]_vars => IInv'
<1> SUFFICES ASSUME IInv, [Next]_vars PROVE IInv'
  OBVIOUS
<1>1. CASE UNCHANGED vars
  BY <1>1, StutterIInv
<1>2. CASE TimerThread
  BY <1>2, ScanIInv, FireIInv, RestOfThreadIInv DEF TimerThread
<1>3. CASE \E f \in Futures : Poll(f) \/ InPoll(f) \/ Discard(f) \/ Expire(f)
  BY <1>3, LookIInv, TableIInv, OutsideIInv DEF InPoll
<1>4. CASE \E f \in Futures, k \in Tasks : Move(f, k)
  BY <1>4, OutsideIInv
<1>5. CASE \E k \in Tasks : Take(k) \/ PopUnparked(k) \/ ParkTask(k) \/ Wake(k) \/ Cancel(k)
  BY <1>5, ExecutorIInv
<1> QED  BY <1>1, <1>2, <1>3, <1>4, <1>5 DEF Next

\* The inductive invariant holds in every state.
LEMMA AlwaysIInv == Spec => []IInv
<1>1. Init => IInv
  BY InitIInv
<1>2. IInv /\ [Next]_vars => IInv'
  BY NextIInv
<1> QED  BY <1>1, <1>2, PTL DEF Spec

-----------------------------------------------------------------------------
\* Every variable keeps its type; in particular an entry that is fired hands
\* out one waker, a task's.
THEOREM TypeCorrect == Spec => []TypeOK
<1>1. IInv => TypeOK
  BY DEF IInv
<1> QED  BY <1>1, AlwaysIInv, PTL

\* The table holds entries of live futures only: the drop of a Sleep or of a
\* Timeout, wherever the timer thread is, leaves none behind.
THEOREM LiveEntries == Spec => []EntriesOfLiveFutures
<1>1. IInv => EntriesOfLiveFutures
  BY DEF IInv
<1> QED  BY <1>1, AlwaysIInv, PTL

\* The timer thread sleeps without a wakeup on its way only while no entry
\* waits for it, for any number of futures that register and drop at once.
THEOREM NeverSleeps == Spec => []NeverSleepsOverADeadline
<1>1. IInv => NeverSleepsOverADeadline
  BY DEF IInv
<1> QED  BY <1>1, AlwaysIInv, PTL
=============================================================================
