---------------------------- MODULE CallbackProofs ----------------------------
(***************************************************************************)
(* Theorems about Callback, for every set of isolates, native threads,     *)
(* callbacks and calls.                                                    *)
(*                                                                         *)
(* A call may still run as long as a thread works on it or a job of it is  *)
(* queued.  There is at most one such place (OneRunner), and whatever      *)
(* answers the call, in the hand-off slot or to the caller, is written by  *)
(* the thread that leaves that place: an answer that says the body did not *)
(* run is never overtaken by the body.  Only "Timeout" is given while the  *)
(* call may still run, and it claims nothing.                              *)
(***************************************************************************)
EXTENDS Callback, TLAPS

Queues == Isolates \cup {GLOBAL}

\* A thread at work on a call, and one that is inside invoke_wait or a job.
Working == {"find", "check", "route", "enqueue", "push", "lookup", "call", "body"}
Busy == Working \cup {"wait"}

Queued(c) == \E q \in Queues : \E n \in 1 .. Len(queue[q]) : queue[q][n] = c

\* The call may still run, now or later.
MayRun(c) == Queued(c) \/ \E t \in Threads : pc[t] \in Working /\ call[t] = c

\* Who made a call, and what of; nothing has happened to the others.
CallsKnown ==
    \A c \in Calls :
        IF caller[c] = NONE THEN ran[c] = 0 /\ outcome[c] = NONE /\ slot[c] = NONE
        ELSE target[c] \in Handles /\ kind[target[c]] # "none"

\* What a thread inside a call works on; a direct one is the caller of it, and
\* has not returned.
LocalsKnown ==
    \A t \in Threads :
        /\ pc[t] \in Busy => call[t] \in Calls /\ caller[call[t]] # NONE
        /\ direct[t] => pc[t] \in Busy /\ caller[call[t]] = t /\ outcome[call[t]] = NONE
        /\ pc[t] \in {"find", "check", "route", "enqueue", "push", "wait"} => direct[t]

\* A call is in one queue, once, or in the hands of one thread.
OneRunner ==
    /\ \A t, u \in Threads :
         pc[t] \in Working /\ pc[u] \in Working /\ call[t] = call[u] => t = u
    /\ \A q \in Queues : \A n \in 1 .. Len(queue[q]) :
         /\ caller[queue[q][n]] # NONE
         /\ \A t \in Threads : pc[t] \in Working => call[t] # queue[q][n]
         /\ \A r \in Queues : \A m \in 1 .. Len(queue[r]) : queue[q][n] = queue[r][m] => q = r /\ n = m

\* The body is entered from the one place the call is in.
RanOnce ==
    /\ \A c \in Calls : ran[c] <= 1 /\ (Queued(c) => ran[c] = 0)
    /\ \A t \in Threads : pc[t] \in Working => ran[call[t]] = IF pc[t] = "body" THEN 1 ELSE 0

\* An answer other than "Timeout" or "Panic" tells how the call ended.
Tells(answer, c) ==
    /\ answer \in Calls => answer = c /\ ran[c] = 1
    /\ answer \in NotRun => ran[c] = 0
    /\ answer \in Calls \cup NotRun => ~MayRun(c)

AnswersTell == \A c \in Calls : Tells(slot[c], c) /\ Tells(outcome[c], c)

CInv == TypeOK /\ CallsKnown /\ LocalsKnown /\ OneRunner /\ RanOnce /\ AnswersTell

-----------------------------------------------------------------------------
\* The initial states satisfy the invariant.
LEMMA InitCInv == Init => CInv
<1> SUFFICES ASSUME Init PROVE CInv
  OBVIOUS
<1> USE CallbackAssumption DEF Init, Queues, Working, Busy
<1>1. TypeOK
  <2>1. queue \in [Queues -> Seq(Calls)]
    OBVIOUS
  <2>2. /\ pc \in [Threads -> Pcs] /\ call \in [Threads -> Calls \cup {NONE}]
        /\ dest \in [Threads -> Isolates \cup {GLOBAL, NONE}] /\ direct \in [Threads -> BOOLEAN]
    BY DEF Pcs
  <2>3. /\ kind \in [Handles -> {"none", "native", "js"}] /\ live \in [Handles -> BOOLEAN]
        /\ thread \in [Handles -> Isolates \cup {UNBOUND}]
        /\ home \in [Handles -> Isolates \cup {NONE}] /\ open \in [Handles -> BOOLEAN]
    OBVIOUS
  <2>4. /\ caller \in [Calls -> Threads \cup {NONE}] /\ target \in [Calls -> Handles \cup {NONE}]
        /\ slot \in [Calls -> (Outcomes \ {"LoopStopped", "Timeout", "Panic"}) \cup {NONE}]
        /\ outcome \in [Calls -> Outcomes \cup {NONE}] /\ ran \in [Calls -> Nat]
    OBVIOUS
  <2> QED  BY <2>1, <2>2, <2>3, <2>4 DEF TypeOK
<1>2. CallsKnown /\ LocalsKnown /\ OneRunner /\ RanOnce
  BY DEF CallsKnown, LocalsKnown, OneRunner, RanOnce, Queued
<1>3. AnswersTell
  BY DEF AnswersTell, Tells, Outcomes
<1> QED  BY <1>1, <1>2, <1>3 DEF CInv

\* Steps that touch neither a call nor a queue nor what a thread works on.
LEMMA TablesCInv ==
    ASSUME CInv, TypeOK', UNCHANGED <<queue, local, calls>>,
           \A h \in Handles : kind[h] # "none" => kind'[h] # "none"
    PROVE  CInv'
<1> USE DEF CInv, local, calls
<1>1. CallsKnown' /\ LocalsKnown' /\ OneRunner'
  BY DEF CallsKnown, LocalsKnown, OneRunner, TypeOK
<1>2. RanOnce' /\ AnswersTell'
  BY DEF RanOnce, AnswersTell, Tells, MayRun, Queued
<1> QED  BY <1>1, <1>2

\* The types of what a thread works on, and of those of one that is done.
LocalTypes ==
    /\ pc \in [Threads -> Pcs] /\ call \in [Threads -> Calls \cup {NONE}]
    /\ dest \in [Threads -> Isolates \cup {GLOBAL, NONE}] /\ direct \in [Threads -> BOOLEAN]

LEMMA IdleTypes == ASSUME TypeOK, NEW t \in Threads, Idle(t) PROVE LocalTypes'
  BY DEF TypeOK, Idle, LocalTypes, Pcs

\* A thread goes on with its call, short of the body.
LEMMA MoveCInv ==
    ASSUME CInv, TypeOK', NEW t \in Threads, NEW to \in Working \ {"body"},
           pc[t] \in Working \ {"body"}, pc' = [pc EXCEPT ![t] = to],
           to \in {"find", "check", "route", "enqueue", "push"} => direct[t],
           UNCHANGED <<queue, call, direct, calls, kind>>
    PROVE  CInv'
<1> USE DEF CInv, calls, Working, Busy
<1>1. CallsKnown'
  BY DEF CallsKnown
<1>2. LocalsKnown'
  BY DEF LocalsKnown, TypeOK
<1>3. OneRunner'
  BY DEF OneRunner, TypeOK
<1>4. RanOnce'
  BY DEF RanOnce, TypeOK, Queued
<1>5. \A c \in Calls : MayRun(c)' => MayRun(c)
  BY DEF MayRun, Queued, TypeOK
<1>6. AnswersTell'
  BY <1>5 DEF AnswersTell, Tells
<1> QED  BY <1>1, <1>2, <1>3, <1>4, <1>6

\* A thread that leaves a call ends what it did for it.
LEMMA LeaveCall ==
    ASSUME CInv, NEW t \in Threads, pc[t] \in Busy, Idle(t), UNCHANGED <<queue, ran>>
    PROVE  /\ OneRunner' \/ caller' # caller
           /\ RanOnce'
           /\ \A c \in Calls : MayRun(c)' => MayRun(c)
           /\ \A c \in Calls : pc[t] \in Working /\ c = call[t] => ~MayRun(c)'
<1> USE DEF CInv, Idle, Working, Busy
<1>1. OneRunner' \/ caller' # caller
  BY DEF OneRunner, TypeOK
<1>2. RanOnce'
  BY DEF RanOnce, TypeOK, Queued
<1>3. \A c \in Calls : MayRun(c)' => MayRun(c)
  BY DEF MayRun, Queued, TypeOK
<1>4. \A c \in Calls : pc[t] \in Working /\ c = call[t] => ~MayRun(c)'
  BY DEF MayRun, Queued, TypeOK, OneRunner, Queues
<1> QED  BY <1>1, <1>2, <1>3, <1>4

\* invoke_wait returns, with an answer that tells the truth.
LEMMA ReturnCInv ==
    ASSUME CInv, TypeOK', NEW t \in Threads, pc[t] \in Busy, direct[t],
           NEW o \in Outcomes, Return(t, o),
           \A c \in Calls : c = call[t] => Tells(o, c)',
           UNCHANGED <<queue, caller, target, slot, ran, kind>>
    PROVE  CInv'
<1> USE DEF CInv, Return
<1>1. call[t] \in Calls /\ caller[call[t]] # NONE /\ o # NONE
  BY CallbackAssumption DEF LocalsKnown
<1>2. CallsKnown'
  BY <1>1 DEF CallsKnown, TypeOK
<1>3. LocalsKnown'
  BY <1>1 DEF LocalsKnown, TypeOK, Idle, Working, Busy
<1>4. OneRunner' /\ RanOnce' /\ \A c \in Calls : MayRun(c)' => MayRun(c)
  BY LeaveCall
<1>5. AnswersTell'
  BY <1>1, <1>4 DEF AnswersTell, Tells, TypeOK
<1> QED  BY <1>2, <1>3, <1>4, <1>5

\* A job fills the hand-off slot, or ends without an answer.
LEMMA FillCInv ==
    ASSUME CInv, TypeOK', NEW t \in Threads, pc[t] \in Working, ~direct[t], Idle(t),
           NEW o \in Outcomes \cup {NONE}, \A c \in Calls : c = call[t] => Tells(o, c)',
           slot' = slot \/ slot' = [slot EXCEPT ![call[t]] = o],
           UNCHANGED <<queue, caller, target, outcome, ran, kind>>
    PROVE  CInv'
<1> USE DEF CInv
<1>1. call[t] \in Calls /\ caller[call[t]] # NONE
  BY DEF LocalsKnown, Busy
<1>2. CallsKnown'
  BY <1>1 DEF CallsKnown, TypeOK
<1>3. LocalsKnown'
  BY <1>1 DEF LocalsKnown, TypeOK, Idle, Working, Busy
<1>4. OneRunner' /\ RanOnce' /\ \A c \in Calls : MayRun(c)' => MayRun(c)
  BY LeaveCall DEF Busy
<1>5. ASSUME NEW c \in Calls PROVE Tells(outcome[c], c)' /\ Tells(slot[c], c)'
  <2>1. Tells(outcome[c], c)' /\ (slot'[c] = slot[c] => Tells(slot[c], c)')
    BY <1>4 DEF AnswersTell, Tells
  <2>2. slot'[c] # slot[c] => c = call[t] /\ slot'[c] = o
    BY <1>1 DEF TypeOK
  <2> QED  BY <2>1, <2>2
<1> QED  BY <1>2, <1>3, <1>4, <1>5 DEF AnswersTell

-----------------------------------------------------------------------------
(* Registration and the tables *)

LEMMA SetThreadCInv == ASSUME CInv, NEW i \in Isolates, SetThread(i) PROVE CInv'
<1> USE DEF CInv, SetThread, Goto, calls, tables
<1>1. TypeOK'
  BY DEF TypeOK, Pcs, Threads
<1>2. \A t \in Threads : pc'[t] \in Busy \/ pc[t] \in Busy => pc'[t] = pc[t]
  BY DEF TypeOK, Busy, Working, Threads
<1>3. CallsKnown' /\ LocalsKnown'
  BY <1>2 DEF CallsKnown, LocalsKnown, Busy, Working
<1>4. OneRunner' /\ RanOnce' /\ \A c \in Calls : MayRun(c)' => MayRun(c)
  BY <1>2 DEF OneRunner, RanOnce, MayRun, Queued, Busy, Working
<1>5. AnswersTell'
  BY <1>4 DEF AnswersTell, Tells
<1> QED  BY <1>1, <1>3, <1>4, <1>5

\* A retired queue takes its jobs with it: their calls never run.
LEMMA UnsetThreadCInv == ASSUME CInv, NEW i \in Isolates, UnsetThread(i) PROVE CInv'
<1> USE DEF CInv, UnsetThread, Goto, calls, tables
<1>1. TypeOK'
  <2>1. queue' \in [Isolates \cup {GLOBAL} -> Seq(Calls)]
    <3>1. <<>> \in Seq(Calls)
      OBVIOUS
    <3> QED  BY <3>1 DEF TypeOK
  <2>2. dest' \in [Threads -> Isolates \cup {GLOBAL, NONE}]
    BY DEF TypeOK
  <2> QED  BY <2>1, <2>2 DEF TypeOK, Pcs, Threads
<1>2. \A t \in Threads : pc'[t] \in Busy \/ pc[t] \in Busy => pc'[t] = pc[t]
  BY DEF TypeOK, Busy, Working, Threads
<1>3. \A q \in Queues : queue'[q] = queue[q] \/ Len(queue'[q]) = 0
  BY DEF TypeOK, Queues
<1>4. CallsKnown' /\ LocalsKnown'
  BY <1>2 DEF CallsKnown, LocalsKnown, Busy, Working
<1>5. OneRunner'
  BY <1>2, <1>3 DEF OneRunner, Busy, Working
<1>6. RanOnce' /\ \A c \in Calls : MayRun(c)' => MayRun(c)
  BY <1>2, <1>3 DEF RanOnce, MayRun, Queued, Busy, Working
<1>7. AnswersTell'
  BY <1>6 DEF AnswersTell, Tells
<1> QED  BY <1>1, <1>4, <1>5, <1>6, <1>7

LEMMA TableStepsCInv ==
    ASSUME CInv, \/ StopLoop
                 \/ \E i \in Isolates, h \in Handles : Bind(i, h) \/ RevokeJs(i, h)
                 \/ \E t \in Threads, h \in Handles : Register(t, h) \/ Revoke(t, h)
    PROVE  CInv'
<1>1. TypeOK /\ UNCHANGED <<queue, local, calls>>
  BY DEF CInv, StopLoop, Bind, RevokeJs, Register, Revoke, loop
<1>2. TypeOK'
  <2> USE <1>1 DEF TypeOK, loop, local, calls, tables
  <2>1. CASE StopLoop
    BY <2>1 DEF StopLoop
  <2>2. ASSUME NEW i \in Isolates, NEW h \in Handles, Bind(i, h) PROVE TypeOK'
    BY <2>2 DEF Bind
  <2>3. ASSUME NEW i \in Isolates, NEW h \in Handles, RevokeJs(i, h) PROVE TypeOK'
    BY <2>3 DEF RevokeJs
  <2>4. ASSUME NEW t \in Threads, NEW h \in Handles, Register(t, h) PROVE TypeOK'
    BY <2>4 DEF Register
  <2>5. ASSUME NEW t \in Threads, NEW h \in Handles, Revoke(t, h) PROVE TypeOK'
    BY <2>5 DEF Revoke
  <2> QED  BY <2>1, <2>2, <2>3, <2>4, <2>5
<1>3. \A h \in Handles : kind[h] # "none" => kind'[h] # "none"
  BY <1>1 DEF StopLoop, Bind, RevokeJs, Register, Revoke, TypeOK, tables
<1> QED  BY <1>1, <1>2, <1>3, TablesCInv

-----------------------------------------------------------------------------
(* invoke_wait *)

\* A call begins, in the hands of its caller and nowhere else.
LEMMA CallWaitCInv ==
    ASSUME CInv, NEW t \in Threads, NEW c \in Calls, NEW h \in Handles, CallWait(t, c, h)
    PROVE  CInv'
<1> USE DEF CInv, CallWait, Goto, loop, tables
<1>1. TypeOK'
  BY DEF TypeOK, Pcs
<1>2. ran[c] = 0 /\ outcome[c] = NONE /\ slot[c] = NONE
  BY DEF CallsKnown
<1>3. ~Queued(c) /\ \A u \in Threads : pc[u] \in Busy => call[u] # c
  BY DEF OneRunner, Queued, LocalsKnown
<1>4. CallsKnown'
  BY <1>2 DEF CallsKnown, TypeOK
<1>5. LocalsKnown'
  <2>1. /\ pc'[t] = "find" /\ call'[t] = c /\ direct'[t] /\ caller'[c] = t
        /\ t \notin {NONE} /\ outcome' = outcome
    BY CallbackAssumption DEF TypeOK
  <2>2. ASSUME NEW u \in Threads \ {t}
        PROVE  /\ pc'[u] = pc[u] /\ call'[u] = call[u] /\ direct'[u] = direct[u]
               /\ pc[u] \in Busy => caller'[call[u]] = caller[call[u]]
    BY <1>3, <2>2 DEF TypeOK
  <2> QED  BY <1>2, <2>1, <2>2 DEF LocalsKnown, Busy, Working
<1>6. OneRunner'
  BY <1>3 DEF OneRunner, TypeOK, Queued, Busy, Working
<1>7. RanOnce'
  BY <1>2, <1>3 DEF RanOnce, TypeOK, Queued, Busy, Working
<1>8. \A d \in Calls \ {c} : MayRun(d)' => MayRun(d)
  BY DEF MayRun, Queued, TypeOK
<1>9. AnswersTell'
  BY <1>2, <1>8, CallbackAssumption DEF AnswersTell, Tells, Outcomes
<1> QED  BY <1>1, <1>4, <1>5, <1>6, <1>7, <1>9

LEMMA FindCInv == ASSUME CInv, NEW t \in Threads, Find(t) PROVE CInv'
<1>1. TypeOK /\ direct[t]
  BY DEF CInv, LocalsKnown, Find, Goto
<1>2. TypeOK'
  BY <1>1 DEF TypeOK, Find, Goto, Pcs, loop, tables, calls
<1> QED  BY <1>1, <1>2, MoveCInv DEF Find, Goto, loop, tables, Working

LEMMA RouteCInv == ASSUME CInv, NEW t \in Threads, Route(t) PROVE CInv'
<1>1. TypeOK /\ direct[t]
  BY DEF CInv, LocalsKnown, Route, Goto
<1>2. TypeOK'
  BY <1>1 DEF TypeOK, Route, Goto, Pcs, loop, tables, calls
<1> QED  BY <1>1, <1>2, MoveCInv DEF Route, Goto, loop, tables, Working

\* The checks before the hand-over refuse a call that has not run.
LEMMA CheckCInv == ASSUME CInv, NEW t \in Threads, Check(t) PROVE CInv'
<1> USE DEF loop, tables
<1>1. TypeOK /\ direct[t] /\ call[t] \in Calls /\ ran[call[t]] = 0 /\ target[call[t]] \in Handles
  BY DEF CInv, LocalsKnown, CallsKnown, RanOnce, Check, Working, Busy
<1>2. TypeOK'
  <2>1. CASE Idle(t)
    <3>1. outcome' \in [Calls -> Outcomes \cup {NONE}]
      BY <1>1 DEF TypeOK, Check, Return, Outcomes, NotRun
    <3> QED  BY <1>1, <2>1, <3>1, IdleTypes DEF TypeOK, LocalTypes, Check
  <2>2. CASE ~Idle(t)
    <3>1. thread[target[call[t]]] \in Isolates \cup {UNBOUND}
      BY <1>1 DEF TypeOK
    <3>2. /\ pc' = [pc EXCEPT ![t] = "route"] /\ UNCHANGED <<call, direct, outcome>>
          /\ \E d \in Isolates \cup {GLOBAL} : dest' = [dest EXCEPT ![t] = d]
      BY <2>2, <3>1 DEF Check, Return
    <3> QED  BY <1>1, <3>2 DEF TypeOK, Pcs, Check
  <2> QED  BY <2>1, <2>2
<1>3. CASE pc'[t] = "route"
  <2>1. pc' = [pc EXCEPT ![t] = "route"] /\ UNCHANGED <<call, direct, outcome>>
    BY <1>1, <1>3 DEF Check, Return, Idle, TypeOK
  <2>2. pc[t] = "check" /\ UNCHANGED <<tables, loop, caller, target, slot, ran>>
    BY DEF Check
  <2> QED  BY <1>1, <1>2, <2>1, <2>2, MoveCInv DEF Working, calls
<1>4. CASE pc'[t] # "route"
  <2>1. PICK o \in {"InvalidHandle", "Rejected"} : Return(t, o)
    BY <1>1, <1>4 DEF Check, TypeOK
  <2>2. \A c \in Calls : c = call[t] => Tells(o, c)'
    BY <1>1, <2>1, LeaveCall, CallbackAssumption
       DEF Tells, Check, Return, Working, Busy, NotRun
  <2> QED  BY <1>1, <1>2, <2>1, <2>2, ReturnCInv DEF Check, Busy, Working, Outcomes, NotRun
<1> QED  BY <1>3, <1>4

LEMMA EnqueueCInv == ASSUME CInv, NEW t \in Threads, Enqueue(t) PROVE CInv'
<1> USE DEF loop, tables
<1>1. TypeOK /\ direct[t] /\ call[t] \in Calls /\ ran[call[t]] = 0
  BY DEF CInv, LocalsKnown, RanOnce, Enqueue, Working, Busy
<1>2. CASE Return(t, "LoopStopped")
  <2>1. TypeOK'
    BY <1>1, <1>2, IdleTypes DEF Return, TypeOK, LocalTypes, Outcomes, NotRun, Enqueue
  <2>2. \A c \in Calls : c = call[t] => Tells("LoopStopped", c)'
    BY <1>1, <1>2, LeaveCall, CallbackAssumption DEF Tells, Enqueue, Return, Working, Busy, NotRun
  <2> QED  BY <1>1, <1>2, <2>1, <2>2, ReturnCInv DEF Enqueue, Busy, Working, Outcomes, NotRun
<1>3. CASE pc' = [pc EXCEPT ![t] = "push"] /\ UNCHANGED <<call, dest, direct, outcome>>
  <2>1. TypeOK'
    BY <1>1, <1>3 DEF TypeOK, Pcs, Enqueue
  <2> QED  BY <1>1, <1>3, <2>1, MoveCInv DEF Enqueue, Working, calls
<1> QED  BY <1>2, <1>3 DEF Enqueue


\* The job passes from the hands of its caller to the end of a queue, or goes
\* down with a queue that was retired meanwhile.
LEMMA PushCInv == ASSUME CInv, NEW t \in Threads, Push(t) PROVE CInv'
<1> USE DEF CInv, Push, Goto, calls, tables
<1>1. /\ direct[t] /\ call[t] \in Calls /\ caller[call[t]] # NONE /\ ran[call[t]] = 0
      /\ queue \in [Queues -> Seq(Calls)] /\ dest[t] \in Queues \cup {NONE}
  BY DEF LocalsKnown, RanOnce, Working, Busy, TypeOK, Queues
<1>2. queue' \in [Queues -> Seq(Calls)]
  BY <1>1, CallbackAssumption DEF Queues
<1>3. ASSUME NEW q \in Queues, NEW n \in 1 .. Len(queue'[q])
      PROVE  \/ n \in 1 .. Len(queue[q]) /\ queue'[q][n] = queue[q][n]
             \/ q = dest[t] /\ n = Len(queue[q]) + 1 /\ queue'[q][n] = call[t]
  <2>1. queue[q] \in Seq(Calls)
    BY <1>1
  <2>2. queue'[q] = queue[q] \/ (q = dest[t] /\ queue'[q] = Append(queue[q], call[t]))
    BY <1>1
  <2> QED  BY <1>1, <2>1, <2>2
<1>4. TypeOK'
  BY <1>2 DEF TypeOK, Pcs, Queues
<1>5. pc'[t] = "wait" /\ \A u \in Threads \ {t} : pc'[u] = pc[u]
  BY DEF TypeOK
<1>6. CallsKnown' /\ LocalsKnown'
  BY <1>1, <1>5 DEF CallsKnown, LocalsKnown, Busy, Working
<1>7. OneRunner'
  <2>1. ASSUME NEW q \in Queues, NEW n \in 1 .. Len(queue'[q])
        PROVE  caller'[queue'[q][n]] # NONE
               /\ \A u \in Threads : pc'[u] \in Working => call'[u] # queue'[q][n]
    BY <1>1, <1>3, <1>5, <2>1 DEF OneRunner, Working
  <2>2. ASSUME NEW q \in Queues, NEW n \in 1 .. Len(queue'[q]),
               NEW r \in Queues, NEW m \in 1 .. Len(queue'[r]), queue'[q][n] = queue'[r][m]
        PROVE  q = r /\ n = m
    BY <1>1, <1>3, <2>2 DEF OneRunner, Working
  <2>3. \A u, v \in Threads :
          pc'[u] \in Working /\ pc'[v] \in Working /\ call'[u] = call'[v] => u = v
    BY <1>5 DEF OneRunner, Working
  <2> QED  BY <2>1, <2>2, <2>3 DEF OneRunner
<1>8. \A c \in Calls : Queued(c)' => Queued(c) \/ c = call[t]
  BY <1>3 DEF Queued
<1>9. RanOnce'
  BY <1>1, <1>5, <1>8 DEF RanOnce, Working
<1>10. \A c \in Calls : MayRun(c)' => MayRun(c)
  BY <1>5, <1>8 DEF MayRun, Working
<1>11. AnswersTell'
  BY <1>10 DEF AnswersTell, Tells
<1> QED  BY <1>4, <1>6, <1>7, <1>9, <1>11

\* The caller takes what the job left, or gives up.
LEMMA WaitEndsCInv == ASSUME CInv, NEW t \in Threads, WaitEnds(t) PROVE CInv'
<1> USE DEF loop, tables
<1>1. TypeOK /\ direct[t] /\ call[t] \in Calls
  BY DEF CInv, LocalsKnown, WaitEnds, Busy
<1>2. PICK o \in Outcomes : Return(t, o) /\ (o = slot[call[t]] \/ o = "Timeout")
  BY <1>1 DEF WaitEnds, TypeOK, Outcomes
<1>3. TypeOK'
  BY <1>1, <1>2, IdleTypes DEF Return, TypeOK, LocalTypes, WaitEnds
<1>4. \A c \in Calls : c = call[t] => Tells(o, c)'
  <2>1. \A c \in Calls : MayRun(c)' => MayRun(c)
    BY <1>2, LeaveCall DEF WaitEnds, Return, Busy
  <2>2. Tells(o, call[t])
    BY <1>1, <1>2, CallbackAssumption DEF CInv, AnswersTell, Tells, NotRun
  <2> QED  BY <2>1, <2>2 DEF Tells, WaitEnds
<1> QED  BY <1>1, <1>2, <1>3, <1>4, ReturnCInv DEF WaitEnds, Busy

-----------------------------------------------------------------------------
(* The invocation *)

\* What is left of a queue behind its head.
LEMMA TailElements ==
    ASSUME NEW S, NEW s \in Seq(S), s # <<>>
    PROVE  \A n \in 1 .. Len(Tail(s)) : n + 1 \in 1 .. Len(s) /\ Tail(s)[n] = s[n + 1]
  OBVIOUS

\* The job passes from the head of a queue to the thread that drains it.
LEMMA TakeJobCInv == ASSUME CInv, NEW t \in Threads, TakeJob(t) PROVE CInv'
<1> USE DEF CInv, calls, tables
<1>1. PICK q \in Queues : /\ queue[q] # <<>> /\ call' = [call EXCEPT ![t] = Head(queue[q])]
                          /\ queue' = [queue EXCEPT ![q] = Tail(@)]
  BY DEF TakeJob, Queues, TypeOK
<1>2. /\ pc[t] = "idle" /\ pc' = [pc EXCEPT ![t] = "lookup"] /\ ~direct[t]
      /\ UNCHANGED <<registered, slots, stopped, dest, direct, kind>> /\ UNCHANGED calls
      /\ queue \in [Queues -> Seq(Calls)]
  BY DEF TakeJob, LocalsKnown, Busy, Working, TypeOK, Queues
<1>3. /\ 1 \in 1 .. Len(queue[q]) /\ call'[t] = queue[q][1] /\ call'[t] \in Calls
      /\ queue' \in [Queues -> Seq(Calls)]
  <2>1. queue[q] \in Seq(Calls) /\ queue[q] # <<>>
    BY <1>1, <1>2
  <2>2. /\ 1 \in 1 .. Len(queue[q]) /\ Head(queue[q]) = queue[q][1] /\ queue[q][1] \in Calls
        /\ Tail(queue[q]) \in Seq(Calls)
    BY <2>1
  <2> QED  BY <1>1, <1>2, <2>2 DEF TypeOK
<1>4. ASSUME NEW r \in Queues, NEW n \in 1 .. Len(queue'[r])
      PROVE  IF r = q THEN n + 1 \in 1 .. Len(queue[r]) /\ queue'[r][n] = queue[r][n + 1]
             ELSE n \in 1 .. Len(queue[r]) /\ queue'[r][n] = queue[r][n]
  <2>1. queue[r] \in Seq(Calls)
    BY <1>2
  <2>2. queue'[r] = IF r = q THEN Tail(queue[r]) ELSE queue[r]
    BY <1>1, <1>2
  <2>3. CASE r = q
    <3>1. queue[r] # <<>> /\ queue'[r] = Tail(queue[r])
      BY <1>1, <2>2, <2>3
    <3>2. \A m \in 1 .. Len(Tail(queue[r])) :
             m + 1 \in 1 .. Len(queue[r]) /\ Tail(queue[r])[m] = queue[r][m + 1]
      BY <2>1, <3>1, TailElements
    <3> QED  BY <2>3, <3>1, <3>2
  <2> QED  BY <2>2, <2>3
<1>5. TypeOK'
  BY <1>2, <1>3, <1>1 DEF TypeOK, Pcs, Queues, TakeJob
<1>6. /\ caller[call'[t]] # NONE /\ ran[call'[t]] = 0
      /\ \A u \in Threads : pc[u] \in Working => call[u] # call'[t]
  <2>1. Queued(queue[q][1])
    BY <1>3 DEF Queued
  <2>2. /\ caller[queue[q][1]] # NONE /\ ran[queue[q][1]] = 0
        /\ \A u \in Threads : pc[u] \in Working => call[u] # queue[q][1]
    BY <1>3, <2>1 DEF OneRunner, RanOnce
  <2> QED  BY <1>3, <2>2
<1>7. /\ pc'[t] = "lookup"
      /\ \A u \in Threads \ {t} : pc'[u] = pc[u] /\ call'[u] = call[u]
  BY <1>1, <1>2 DEF TypeOK
<1>8. CallsKnown' /\ LocalsKnown'
  BY <1>2, <1>3, <1>6, <1>7 DEF CallsKnown, LocalsKnown, Busy, Working
<1>9. OneRunner'
  <2>1. ASSUME NEW r \in Queues, NEW n \in 1 .. Len(queue'[r])
        PROVE  /\ caller'[queue'[r][n]] # NONE
               /\ \A u \in Threads : pc'[u] \in Working => call'[u] # queue'[r][n]
    <3>1. caller'[queue'[r][n]] # NONE
      <4>1. PICK m \in 1 .. Len(queue[r]) : queue'[r][n] = queue[r][m]
        BY <1>4
      <4> QED  BY <1>2, <4>1 DEF OneRunner
    <3>2. call'[t] # queue'[r][n]
      <4>0. \A u \in Queues : \A m \in 1 .. Len(queue[u]) : queue[q][1] = queue[u][m] => q = u /\ 1 = m
        BY <1>3 DEF OneRunner
      <4>1. CASE r = q
        <5>1. n + 1 \in 1 .. Len(queue[q]) /\ queue'[r][n] = queue[q][n + 1] /\ n + 1 # 1
          BY <1>4, <4>1
        <5> QED  BY <1>3, <4>0, <5>1
      <4>2. CASE r # q
        <5>1. n \in 1 .. Len(queue[r]) /\ queue'[r][n] = queue[r][n]
          BY <1>4, <4>2
        <5> QED  BY <1>3, <4>0, <4>2, <5>1
      <4> QED  BY <4>1, <4>2
    <3>3. \A u \in Threads \ {t} : pc'[u] \in Working => call'[u] # queue'[r][n]
      BY <1>4, <1>7, <2>1 DEF OneRunner
    <3> QED  BY <3>1, <3>2, <3>3
  <2>2. ASSUME NEW r \in Queues, NEW n \in 1 .. Len(queue'[r]),
               NEW s \in Queues, NEW m \in 1 .. Len(queue'[s]), queue'[r][n] = queue'[s][m]
        PROVE  r = s /\ n = m
    BY <1>4, <2>2 DEF OneRunner
  <2>3. \A u, v \in Threads :
          pc'[u] \in Working /\ pc'[v] \in Working /\ call'[u] = call'[v] => u = v
    BY <1>6, <1>7 DEF OneRunner
  <2> QED  BY <2>1, <2>2, <2>3 DEF OneRunner
<1>10. \A c \in Calls : Queued(c)' => Queued(c)
  BY <1>4 DEF Queued
<1>11. RanOnce'
  BY <1>2, <1>6, <1>7, <1>10 DEF RanOnce
<1>12. \A c \in Calls : MayRun(c)' => MayRun(c)
  <2>1. Queued(queue[q][1])
    BY <1>3 DEF Queued
  <2> QED  BY <1>3, <1>7, <1>10, <2>1 DEF MayRun
<1>13. AnswersTell'
  BY <1>2, <1>12 DEF AnswersTell, Tells
<1> QED  BY <1>5, <1>8, <1>9, <1>11, <1>13

\* A thread hands its call's outcome to its caller, or to the slot.
LEMMA DeliverCInv ==
    ASSUME CInv, NEW t \in Threads, pc[t] \in Working,
           NEW o \in Outcomes \ {"LoopStopped", "Timeout", "Panic"}, Deliver(t, o),
           o \in Calls => o = call[t] /\ ran[call[t]] = 1,
           o \in NotRun => ran[call[t]] = 0,
           UNCHANGED <<tables, loop, caller, target, ran>>
    PROVE  CInv'
<1> USE DEF loop, tables
<1>1. TypeOK /\ call[t] \in Calls
  BY DEF CInv, LocalsKnown, Busy
<1>2. Idle(t)
  BY DEF Deliver, Return
<1>3. TypeOK'
  <2>1. outcome' \in [Calls -> Outcomes \cup {NONE}]
    BY <1>1 DEF Deliver, Return, TypeOK
  <2>2. slot' \in [Calls -> (Outcomes \ {"LoopStopped", "Timeout", "Panic"}) \cup {NONE}]
    BY <1>1 DEF Deliver, TypeOK
  <2> QED  BY <1>1, <1>2, <2>1, <2>2, IdleTypes DEF TypeOK, LocalTypes
<1>4. \A c \in Calls : c = call[t] => Tells(o, c)'
  BY <1>1, <1>2, LeaveCall DEF Tells, Busy
<1>5. CASE direct[t]
  BY <1>1, <1>3, <1>4, <1>5, ReturnCInv DEF Deliver, Busy
<1>6. CASE ~direct[t]
  BY <1>1, <1>2, <1>3, <1>4, <1>6, FillCInv DEF Deliver
<1> QED  BY <1>5, <1>6

LEMMA LookupCInv == ASSUME CInv, NEW t \in Threads, Lookup(t) PROVE CInv'
<1> USE DEF loop, tables
<1> DEFINE refused == Refusal(t, call[t], target[call[t]])
<1>1. TypeOK /\ call[t] \in Calls /\ ran[call[t]] = 0 /\ pc[t] = "lookup"
  BY DEF CInv, LocalsKnown, RanOnce, Lookup, Working, Busy
<1>2. refused \in {"InvalidHandle", "Rejected", "WrongThread", NONE}
  BY DEF Refusal
<1>3. CASE refused # NONE
  BY <1>1, <1>2, <1>3, DeliverCInv, CallbackAssumption DEF Lookup, Outcomes, NotRun, Working
<1>4. CASE refused = NONE
  <2>1. pc' = [pc EXCEPT ![t] = "call"] /\ UNCHANGED <<call, dest, direct, calls>>
    BY <1>4 DEF Lookup, calls
  <2>2. TypeOK'
    BY <1>1, <2>1 DEF TypeOK, Pcs, Lookup, calls
  <2> QED  BY <1>1, <2>1, <2>2, MoveCInv DEF Lookup, Working
<1> QED  BY <1>3, <1>4

LEMMA EnterCInv == ASSUME CInv, NEW t \in Threads, Enter(t) PROVE CInv'
<1> USE DEF CInv, Enter, Goto, loop, tables
<1>1. call[t] \in Calls /\ ran[call[t]] = 0 /\ caller[call[t]] # NONE
  BY DEF LocalsKnown, RanOnce, Working, Busy
<1>2. TypeOK'
  BY <1>1 DEF TypeOK, Pcs
<1>3. /\ pc'[t] = "body" /\ \A u \in Threads \ {t} : pc'[u] = pc[u]
      /\ ran'[call[t]] = 1 /\ \A c \in Calls \ {call[t]} : ran'[c] = ran[c]
  BY <1>1 DEF TypeOK
<1>4. CallsKnown' /\ LocalsKnown'
  BY <1>1, <1>3 DEF CallsKnown, LocalsKnown, Busy, Working
<1>5. OneRunner'
  BY <1>3 DEF OneRunner, Working
<1>6. ~Queued(call[t]) /\ MayRun(call[t])
  BY DEF OneRunner, Queued, MayRun, Working
<1>7. RanOnce'
  <2>1. \A c \in Calls : ran'[c] <= 1 /\ (Queued(c)' => ran'[c] = 0)
    BY <1>3, <1>6 DEF RanOnce, Queued
  <2>2. \A u \in Threads : pc'[u] \in Working => ran'[call[u]] = IF pc'[u] = "body" THEN 1 ELSE 0
    BY <1>3 DEF RanOnce, OneRunner, Working, LocalsKnown, Busy
  <2> QED  BY <2>1, <2>2 DEF RanOnce
<1>8. \A c \in Calls : MayRun(c)' => MayRun(c)
  BY <1>3 DEF MayRun, Queued, Working
<1>9. AnswersTell'
  BY <1>1, <1>3, <1>6, <1>8 DEF AnswersTell, Tells
<1> QED  BY <1>2, <1>4, <1>5, <1>7, <1>9

LEMMA BodyReturnsCInv == ASSUME CInv, NEW t \in Threads, BodyReturns(t) PROVE CInv'
<1>1. call[t] \in Calls /\ ran[call[t]] = 1 /\ pc[t] = "body"
  BY DEF CInv, LocalsKnown, RanOnce, BodyReturns, Working, Busy
<1>2. call[t] \in Outcomes \ (NotRun \cup {"Timeout", "Panic"})
  BY <1>1, CallbackAssumption DEF Outcomes
<1> QED  BY <1>1, <1>2, DeliverCInv DEF BodyReturns, Working, NotRun

\* A panic claims nothing, and an unfilled slot neither.
LEMMA BodyPanicsCInv == ASSUME CInv, NEW t \in Threads, BodyPanics(t) PROVE CInv'
<1> USE DEF loop, tables
<1>1. TypeOK /\ call[t] \in Calls /\ pc[t] = "body"
  BY DEF CInv, LocalsKnown, BodyPanics, Busy, Working
<1>2. Idle(t)
  BY DEF BodyPanics, Return
<1>3. TypeOK'
  BY <1>1, <1>2, IdleTypes DEF TypeOK, LocalTypes, BodyPanics, Return, Outcomes
<1>4. \A c \in Calls : Tells("Panic", c)' /\ Tells(NONE, c)'
  BY CallbackAssumption DEF Tells, NotRun, Outcomes
<1>5. CASE direct[t]
  BY <1>1, <1>3, <1>4, <1>5, ReturnCInv DEF BodyPanics, Busy, Working, Outcomes
<1>6. CASE ~direct[t]
  BY <1>1, <1>2, <1>3, <1>4, <1>6, FillCInv DEF BodyPanics, Working
<1> QED  BY <1>5, <1>6

-----------------------------------------------------------------------------
(* The invariant, and what it says of answers *)

LEMMA NextCInv == CInv /\ [Next]_vars => CInv'
<1> SUFFICES ASSUME CInv, [Next]_vars PROVE CInv'
  OBVIOUS
<1>1. CASE UNCHANGED vars
  <2>1. TypeOK'
    BY <1>1 DEF CInv, TypeOK, vars, tables, loop, local, calls
  <2> QED  BY <1>1, <2>1, TablesCInv DEF vars, tables, loop
<1>2. ASSUME NEW i \in Isolates, SetThread(i) \/ UnsetThread(i) PROVE CInv'
  BY <1>2, SetThreadCInv, UnsetThreadCInv
<1>3. ASSUME NEW t \in Threads, NEW c \in Calls, NEW h \in Handles, CallWait(t, c, h) PROVE CInv'
  BY <1>3, CallWaitCInv
<1>4. ASSUME NEW t \in Threads, TakeJob(t) \/ InCall(t) PROVE CInv'
  BY <1>4, TakeJobCInv, FindCInv, CheckCInv, RouteCInv, EnqueueCInv, PushCInv, WaitEndsCInv,
     LookupCInv, EnterCInv, BodyReturnsCInv, BodyPanicsCInv DEF InCall
<1> QED  BY <1>1, <1>2, <1>3, <1>4, TableStepsCInv DEF Next

\* Every variable keeps its type.
THEOREM TypeCorrect == Spec => []TypeOK
<1>1. CInv => TypeOK
  BY DEF CInv
<1> QED  BY <1>1, InitCInv, NextCInv, PTL DEF Spec

\* However callers, drains, deadlines and retired queues interleave, the answer
\* of invoke_wait is true: a value comes from the one run of that call's body,
\* and a call that was refused did not run and never will.
THEOREM AnswersAreTrue == Spec => []AnswerTellsTheTruth
<1>1. CInv => AnswerTellsTheTruth
  BY DEF CInv, AnswersTell, Tells, RanOnce, AnswerTellsTheTruth
<1> QED  BY <1>1, InitCInv, NextCInv, PTL DEF Spec

\* The stronger fact the invariant holds of: once a call is refused, nothing
\* that could still run its body is left anywhere.
THEOREM RefusedForGood ==
    Spec => [](\A c \in Calls : outcome[c] \in NotRun => ran[c] = 0 /\ ~MayRun(c))
<1>1. CInv => \A c \in Calls : outcome[c] \in NotRun => ran[c] = 0 /\ ~MayRun(c)
  BY DEF CInv, AnswersTell, Tells
<1> QED  BY <1>1, InitCInv, NextCInv, PTL DEF Spec

-----------------------------------------------------------------------------
(* Trampolines *)

\* An entry bound by a registered isolate names the isolate of its JSCallback,
\* which is open behind every live entry.
BoundAtHome ==
    \A h \in Handles : kind[h] = "js" =>
        /\ thread[h] # UNBOUND => home[h] = thread[h]
        /\ live[h] => open[h]

\* The thread about to call a JSCallback is its isolate, and it is still open.
CheckedCall ==
    \A t \in Threads : LET h == target[call[t]] IN
        pc[t] = "call" /\ kind[h] = "js" /\ thread[h] # UNBOUND => home[h] = t /\ open[h]

JInv == CInv /\ BoundAtHome /\ CheckedCall

LEMMA InitJInv == Init => JInv
<1>1. Init => BoundAtHome /\ CheckedCall
  BY DEF Init, BoundAtHome, CheckedCall
<1> QED  BY <1>1, InitCInv DEF JInv

\* Nobody but its isolate closes a JSCallback, and not while it is about to
\* call one.
LEMMA NextJInv == JInv /\ [Next]_vars => JInv'
<1> SUFFICES ASSUME JInv, [Next]_vars PROVE JInv'
  OBVIOUS
<1> USE DEF JInv
<1>1. CInv' /\ TypeOK /\ TypeOK'
  BY NextCInv DEF CInv
<1>2. ASSUME NEW t \in Threads, pc[t] = "call"
      PROVE  call[t] \in Calls /\ target[call[t]] \in Handles /\ kind[target[call[t]]] # "none"
  BY <1>2 DEF CInv, LocalsKnown, CallsKnown, Busy, Working
<1>3. ASSUME UNCHANGED tables,
             \A t \in Threads : pc'[t] = "call" => pc[t] = "call" /\ call'[t] = call[t],
             \A c \in Calls : caller[c] # NONE => target'[c] = target[c]
      PROVE  JInv'
  <2>1. BoundAtHome'
    BY <1>3 DEF BoundAtHome, tables
  <2>2. CheckedCall'
    BY <1>2, <1>3 DEF CheckedCall, tables, CInv, LocalsKnown, Busy, Working
  <2> QED  BY <1>1, <2>1, <2>2
<1>4. CASE UNCHANGED vars \/ StopLoop
  BY <1>3, <1>4 DEF vars, local, calls, StopLoop
<1>5. ASSUME NEW i \in Isolates, SetThread(i) \/ UnsetThread(i) PROVE JInv'
  <2>1. \A t \in Threads : pc'[t] = "call" => pc[t] = "call" /\ call'[t] = call[t]
    BY <1>1, <1>5 DEF SetThread, UnsetThread, Goto, TypeOK
  <2> QED  BY <1>3, <1>5, <2>1 DEF SetThread, UnsetThread, calls
<1>6. ASSUME NEW i \in Isolates, NEW h \in Handles, Bind(i, h) PROVE JInv'
  <2>1. BoundAtHome'
    BY <1>1, <1>6, CallbackAssumption DEF Bind, BoundAtHome, TypeOK
  <2>2. CheckedCall'
    BY <1>1, <1>2, <1>6 DEF Bind, CheckedCall, TypeOK, local, calls
  <2> QED  BY <1>1, <2>1, <2>2
<1>7. ASSUME NEW i \in Isolates, NEW h \in Handles, RevokeJs(i, h) PROVE JInv'
  <2>1. BoundAtHome'
    BY <1>1, <1>7 DEF RevokeJs, BoundAtHome, TypeOK
  <2>2. CheckedCall'
    BY <1>1, <1>2, <1>7 DEF RevokeJs, CheckedCall, TypeOK, local, calls
  <2> QED  BY <1>1, <2>1, <2>2
<1>8. ASSUME NEW t \in Threads, NEW h \in Handles, Register(t, h) \/ Revoke(t, h) PROVE JInv'
  <2>1. BoundAtHome'
    BY <1>1, <1>8 DEF Register, Revoke, BoundAtHome, TypeOK
  <2>2. CheckedCall'
    BY <1>1, <1>2, <1>8 DEF Register, Revoke, CheckedCall, TypeOK, local, calls
  <2> QED  BY <1>1, <2>1, <2>2
<1>9. ASSUME NEW t \in Threads, NEW c \in Calls, NEW h \in Handles, CallWait(t, c, h) PROVE JInv'
  BY <1>1, <1>3, <1>9 DEF CallWait, Goto, TypeOK
<1>10. ASSUME NEW t \in Threads,
              \/ Find(t) \/ Check(t) \/ Route(t) \/ Enqueue(t) \/ Push(t) \/ WaitEnds(t)
              \/ Enter(t) \/ BodyReturns(t) \/ BodyPanics(t) \/ TakeJob(t)
       PROVE  JInv'
  <2>1. UNCHANGED tables /\ target' = target
    BY <1>10 DEF Find, Check, Route, Enqueue, Push, WaitEnds, Enter, BodyReturns, BodyPanics,
                 TakeJob, calls
  <2>2. pc'[t] # "call" /\ \A u \in Threads \ {t} : pc'[u] = pc[u] /\ call'[u] = call[u]
    BY <1>1, <1>10 DEF Find, Check, Route, Enqueue, Push, WaitEnds, Enter, BodyReturns,
                       BodyPanics, TakeJob, Deliver, Return, Idle, Goto, TypeOK
  <2> QED  BY <1>3, <2>1, <2>2
<1>11. ASSUME NEW t \in Threads, Lookup(t) PROVE JInv'
  <2>1. UNCHANGED tables /\ target' = target
    BY <1>11 DEF Lookup
  <2>2. \A u \in Threads \ {t} : pc'[u] = pc[u] /\ call'[u] = call[u]
    BY <1>1, <1>11 DEF Lookup, Deliver, Return, Idle, TypeOK
  <2>3. CASE pc'[t] # "call"
    BY <1>3, <2>1, <2>2, <2>3
  <2>4. CASE pc'[t] = "call"
    <3>1. call' = call /\ Refusal(t, call[t], target[call[t]]) = NONE
      BY <1>1, <1>11, <2>4 DEF Lookup, Deliver, Return, Idle, TypeOK
    <3>2. live[target[call[t]]] /\ Gate(t, target[call[t]])
      BY <3>1, CallbackAssumption DEF Refusal, Outcomes, NotRun
    <3>3. target[call[t]] \in Handles
      BY <1>11 DEF CInv, LocalsKnown, CallsKnown, Lookup, Busy, Working
    <3>4. BoundAtHome' /\ CheckedCall'
      BY <2>1, <2>2, <3>1, <3>2, <3>3 DEF BoundAtHome, CheckedCall, Gate, tables
    <3> QED  BY <1>1, <3>4
  <2> QED  BY <2>3, <2>4
<1> QED
  BY <1>4, <1>5, <1>6, <1>7, <1>8, <1>9, <1>10, <1>11 DEF Next, InCall

\* No call through a dead slot, and none on a foreign thread: a JSCallback bound
\* by a registered isolate is called by that isolate, while it is open.
THEOREM TrampolinesSafe == Spec => TrampolineSafe
<1> DEFINE Safe == \A t \in Threads :
             Enters(t) /\ kind[target[call[t]]] = "js" /\ thread[target[call[t]]] # UNBOUND
             => home[target[call[t]]] = t /\ open[target[call[t]]]
<1>1. JInv => Safe
  BY DEF JInv, CheckedCall, Enters
<1> QED  BY <1>1, InitJInv, NextJInv, PTL DEF Spec, TrampolineSafe
====
