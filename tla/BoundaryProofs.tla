--------------------------- MODULE BoundaryProofs ---------------------------
(***************************************************************************)
(* Theorems about Boundary, for every set of threads and classes and any   *)
(* capacity of the tables.                                                 *)
(*                                                                         *)
(* A call that runs is on one stack, and only the innermost call of a      *)
(* thread is out of its body (Stacked).  So nothing comes between a        *)
(* failing shim and the loader that asks for its error (OwnError), nor     *)
(* between what a shim leaves in a table and the call that frees it        *)
(* (Waiting); an Arc lives as long as a body or its tail (Holding).        *)
(***************************************************************************)
EXTENDS Boundary, FiniteSetTheorems, SequenceTheorems, TLAPS

CallRecords ==
    [op : Ops, class : Classes \cup {NONE}, obj : Calls \cup {NONE},
     step : {"unused", "convert", "claim", "get", "body", "insert", "tail", "release", "return",
             "read", "throw", "done"},
     arc : Calls \cup {NONE}, status : Failures \cup {"Ok"}]

Running(c) == call[c].step \notin {"unused", "done"}

\* A call that runs has one place, and the calls below the innermost are called back from.
Stacked ==
    /\ \A t, u \in Threads : \A i \in 1 .. Len(stack[t]), j \in 1 .. Len(stack[u]) :
         stack[t][i] = stack[u][j] => t = u /\ i = j
    /\ \A t \in Threads : \A i \in 1 .. Len(stack[t]) :
         /\ Running(stack[t][i])
         /\ i < Len(stack[t]) => call[stack[t][i]].step = "body"
    /\ \A c \in Calls : Running(c) => \E t \in Threads : \E i \in 1 .. Len(stack[t]) : stack[t][i] = c

\* Nothing is known of a call that was not made.
Unmade ==
    \A c \in Calls : IF c > made THEN call[c] = NoCall /\ raised[c] = NONE /\ wrapper[c] = NONE
                     ELSE call[c].step # "unused"

\* The steps of each kind of shim, and what it was given.
StepOf(op, s) ==
    \/ op = "new" /\ s \in {"convert", "body", "claim", "insert"}
    \/ op = "method" /\ s \in {"convert", "claim", "get", "body", "tail"}
    \/ op = "field" /\ s \in {"claim", "get", "body"}
    \/ op = "release" /\ s \in {"claim", "release"}
    \/ op = "func" /\ s \in {"convert", "body", "tail", "unused"}
    \/ op = "next" /\ s \in {"body", "tail"}

Shaped(r) ==
    /\ StepOf(r.op, r.step) \/ r.step \in {"return", "read", "throw", "done"}
    /\ r.op \in {"new", "method", "field", "release"} => r.class \in Classes
    /\ r.op \in {"method", "field", "release"} => r.obj \in Calls /\ wrapper[r.obj] # NONE
    /\ r.op = "release" => r.class = call[r.obj].class
    /\ r.step \in {"get", "insert", "release"} => claim[r.class] = "owns"
    /\ r.step \in {"read", "return", "throw", "done"} \/ r.status = "Ok"

CallsShaped == \A c \in Calls : Shaped(call[c])

\* A wrapper belongs to a constructed object; an error is raised as the call ends.
Ended ==
    \A c \in Calls :
        /\ wrapper[c] # NONE => call[c].op = "new" /\ call[c].step = "done"
        /\ raised[c] # NONE => call[c].step \in {"throw", "done"}

\* An Arc is held by a body, of the class of its object.
Holding ==
    \A c \in Calls : LET o == call[c].arc IN o # NONE =>
        /\ call[c].op \in {"method", "field"} /\ call[c].step \in {"body", "tail"}
        /\ call[c].class = call[o].class /\ claim[call[c].class] = "owns"
        /\ call[o].op = "new" /\ call[o].step \in {"return", "done"} /\ call[o].status = "Ok"

Holders(o) == {c \in Calls : call[c].arc = o}
InTable(o) == IF o \in objects THEN 1 ELSE 0

Counted == \A o \in Calls : strong[o] = Cardinality(Holders(o)) + InTable(o)

\* What is in a table, and who lets it go.
Releasing(o) == \E c \in Calls : /\ call[c].op = "release" /\ call[c].obj = o
                                 /\ call[c].step \in {"claim", "release"}

ObjectsKept ==
    \A o \in objects :
        /\ call[o].op = "new" /\ claim[call[o].class] = "owns"
        /\ call[o].step \in {"return", "done"} /\ call[o].status = "Ok"
        /\ call[o].step = "done" => wrapper[o] # NONE
        /\ wrapper[o] \in {"released", "collected"} => Releasing(o)

Waiting ==
    /\ \A c \in buffers : /\ call[c].step \in {"return", "read"} /\ call[c].status = "Ok"
                          /\ call[c].op # "new"
    /\ \A e \in errors : call[e].step = "throw" /\ raised[e] = e

\* The thread's slot holds the error of the call that just failed on it.
OwnError ==
    \A t \in Threads : At(t, "return") /\ call[Top(t)].status # "Ok" => lastError[t] = Top(t)

BInv == /\ TypeOK /\ Stacked /\ Unmade /\ CallsShaped /\ Ended /\ Holding /\ Counted
        /\ ObjectsKept /\ Waiting /\ OwnError

-----------------------------------------------------------------------------
(* What the actions are made of *)

\* The calls are the numbers up to MaxCalls, none of which is NONE or GENERIC.
LEMMA CallsFinite == /\ MaxCalls \in Nat /\ IsFiniteSet(Calls) /\ NONE \notin Calls
                     /\ GENERIC \notin Calls /\ Calls \subseteq Nat
<1>1. MaxCalls \in Nat
  BY BoundaryAssumption
<1>2. IsFiniteSet(1 .. MaxCalls)
  BY <1>1, FS_Interval
<1> QED  BY <1>1, <1>2, BoundaryAssumption DEF Calls

\* A table with a free slot takes an entry.
LEMMA RoomForOne ==
    ASSUME NEW T, T \subseteq Calls, NEW c \in Calls, NEW n \in Nat, Cardinality(T) < n
    PROVE  T \cup {c} \subseteq Calls /\ Cardinality(T \cup {c}) <= n
<1>1. IsFiniteSet(T) /\ Cardinality(T) \in Nat
  BY CallsFinite, FS_Subset, FS_CardinalityType
<1>2. Cardinality(T \cup {c}) = Cardinality(T) \/ Cardinality(T \cup {c}) = Cardinality(T) + 1
  BY <1>1, FS_AddElement
<1> QED  BY <1>1, <1>2

LEMMA TablesShrink ==
    ASSUME NEW T, T \subseteq Calls, NEW U, U \subseteq T, NEW n \in Nat, Cardinality(T) <= n
    PROVE  U \subseteq Calls /\ Cardinality(U) <= n
<1>1. IsFiniteSet(T) /\ Cardinality(T) \in Nat
  BY CallsFinite, FS_Subset, FS_CardinalityType
<1>2. IsFiniteSet(U) /\ Cardinality(U) \in Nat /\ Cardinality(U) <= Cardinality(T)
  BY <1>1, FS_Subset, FS_CardinalityType
<1> QED  BY <1>1, <1>2

\* The innermost call of a thread runs, and is on no other stack.
LEMMA TopRuns ==
    ASSUME TypeOK, Stacked, NEW t \in Threads, stack[t] # <<>>
    PROVE  /\ Len(stack[t]) \in Nat \ {0} /\ Top(t) = stack[t][Len(stack[t])]
           /\ Top(t) \in Calls /\ Running(Top(t))
           /\ \A u \in Threads : stack[u] # <<>> /\ Top(u) = Top(t) => u = t
<1>1. \A u \in Threads : stack[u] # <<>> =>
          Len(stack[u]) \in Nat \ {0} /\ Top(u) = stack[u][Len(stack[u])] /\ Top(u) \in Calls
  BY DEF TypeOK, Top, Last
<1>2. \A u \in Threads : stack[u] # <<>> => Len(stack[u]) \in 1 .. Len(stack[u])
  BY <1>1
<1>3. Running(Top(t))
  BY <1>1, <1>2 DEF Stacked
<1>4. \A u \in Threads : stack[u] # <<>> /\ Top(u) = Top(t) => u = t
  BY <1>1, <1>2 DEF Stacked
<1> QED  BY <1>1, <1>3, <1>4

\* A step that changes one call, and not what it was asked for.
Moved(c) ==
    /\ call' \in [Calls -> CallRecords] /\ \A d \in Calls : d # c => call'[d] = call[d]
    /\ call'[c].op = call[c].op /\ call'[c].class = call[c].class /\ call'[c].obj = call[c].obj

Steps == {"unused", "convert", "claim", "get", "body", "insert", "tail", "release", "return",
          "read", "throw", "done"}

LEMMA GotoMoves ==
    ASSUME TypeOK, NEW c \in Calls, NEW s \in Steps, call' = [call EXCEPT ![c].step = s]
    PROVE  /\ Moved(c) /\ call'[c].step = s
           /\ call'[c].status = call[c].status /\ call'[c].arc = call[c].arc
<1>1. call \in [Calls -> CallRecords]
  BY DEF TypeOK, CallRecords
<1>2. call'[c] = [call[c] EXCEPT !.step = s] /\ \A d \in Calls : d # c => call'[d] = call[d]
  BY <1>1
<1>3. call[c] \in CallRecords
  BY <1>1
<1>4. [call[c] EXCEPT !.step = s] \in CallRecords
  BY <1>3 DEF CallRecords, Steps
<1>5. /\ call'[c].op = call[c].op /\ call'[c].class = call[c].class /\ call'[c].obj = call[c].obj
      /\ call'[c].step = s /\ call'[c].status = call[c].status /\ call'[c].arc = call[c].arc
  BY <1>2, <1>3 DEF CallRecords
<1>6. call' \in [Calls -> CallRecords]
  BY <1>1, <1>2, <1>4
<1> QED  BY <1>2, <1>5, <1>6 DEF Moved

LEMMA ReturnMoves ==
    ASSUME TypeOK, NEW c \in Calls, NEW status \in Failures \cup {"Ok"},
           call' = [call EXCEPT ![c].step = "return", ![c].status = status, ![c].arc = NONE]
    PROVE  /\ Moved(c) /\ call'[c].step = "return"
           /\ call'[c].status = status /\ call'[c].arc = NONE
<1>1. call \in [Calls -> CallRecords]
  BY DEF TypeOK, CallRecords
<1> DEFINE r == [call[c] EXCEPT !.step = "return", !.status = status, !.arc = NONE]
<1>2. call'[c] = r /\ \A d \in Calls : d # c => call'[d] = call[d]
  BY <1>1
<1>3. call[c] \in CallRecords
  BY <1>1
<1>4. r \in CallRecords
  BY <1>3 DEF CallRecords
<1>5. /\ r.op = call[c].op /\ r.class = call[c].class /\ r.obj = call[c].obj
      /\ r.step = "return" /\ r.status = status /\ r.arc = NONE
  BY <1>3 DEF CallRecords
<1>6. call' \in [Calls -> CallRecords]
  BY <1>1, <1>2, <1>4
<1> QED  BY <1>2, <1>5, <1>6 DEF Moved

\* The holders of an object are finitely many.
LEMMA HoldersFinite == \A o \in Calls : IsFiniteSet(Holders(o)) /\ Cardinality(Holders(o)) \in Nat
<1> TAKE o \in Calls
<1>1. Holders(o) \subseteq Calls
  BY DEF Holders
<1>2. IsFiniteSet(Holders(o))
  BY <1>1, CallsFinite, FS_Subset
<1> QED  BY <1>2, FS_CardinalityType

\* A call drops the Arc it holds, if it holds one: the counts stay exact.
LEMMA DropCounted ==
    ASSUME TypeOK, Counted, NEW c \in Calls, Moved(c), call'[c].arc = NONE, UNCHANGED objects,
           strong' = IF call[c].arc = NONE THEN strong ELSE [strong EXCEPT ![call[c].arc] = @ - 1]
    PROVE  Counted' /\ strong' \in [Calls -> Nat]
<1>1. call[c].arc \in Calls \cup {NONE} /\ NONE \notin Calls
  BY CallsFinite DEF TypeOK
<1>2. PICK a \in Calls \cup {NONE} : a = call[c].arc
  BY <1>1
<1>3. \A o \in Calls : o # a => Holders(o)' = Holders(o)
  BY <1>1, <1>2 DEF Holders, Moved
<1>4. CASE a = NONE
  BY <1>1, <1>2, <1>3, <1>4 DEF TypeOK, Counted, InTable
<1>5. CASE a # NONE
  <2>1. Holders(a)' = Holders(a) \ {c} /\ c \in Holders(a) /\ a \in Calls
    BY <1>1, <1>2, <1>5 DEF Holders, Moved
  <2>2. Cardinality(Holders(a)') = Cardinality(Holders(a)) - 1 /\ Cardinality(Holders(a)) \in Nat
    BY <2>1, HoldersFinite, FS_RemoveElement
  <2>3. Cardinality(Holders(a)) # 0
    BY <2>1, HoldersFinite, FS_EmptySet
  <2>4. strong[a] \in Nat /\ strong[a] = Cardinality(Holders(a)) + InTable(a) /\ InTable(a) \in {0, 1}
    BY <2>1 DEF TypeOK, Counted, InTable
  <2>5. strong' = [strong EXCEPT ![a] = strong[a] - 1] /\ strong \in [Calls -> Nat]
    BY <1>2, <1>5 DEF TypeOK
  <2>6. strong'[a] = strong[a] - 1 /\ strong[a] - 1 \in Nat /\ \A o \in Calls : o # a => strong'[o] = strong[o]
    BY <2>1, <2>2, <2>3, <2>4, <2>5
  <2>7. strong' \in [Calls -> Nat]
    BY <2>5, <2>6
  <2>8. \A o \in Calls : InTable(o)' = InTable(o)
    BY DEF InTable
  <2>9. strong'[a] = Cardinality(Holders(a)') + InTable(a)'
    BY <2>1, <2>2, <2>4, <2>6, <2>8
  <2>10. \A o \in Calls : o # a => strong'[o] = Cardinality(Holders(o)') + InTable(o)'
    BY <1>3, <2>6, <2>8 DEF Counted
  <2> QED  BY <2>7, <2>9, <2>10 DEF Counted
<1> QED  BY <1>4, <1>5

\* A call that holds nothing before and after changes no count.
LEMMA SameCounted ==
    ASSUME Counted, NEW c \in Calls, Moved(c), call'[c].arc = call[c].arc,
           UNCHANGED <<objects, strong>>
    PROVE  Counted'
<1>1. \A o \in Calls : Holders(o)' = Holders(o) /\ InTable(o)' = InTable(o)
  BY DEF Holders, Moved, InTable
<1> QED  BY <1>1 DEF Counted

\* A step of the innermost call keeps the stacks, as long as it runs on.
LEMMA StackedKept ==
    ASSUME TypeOK, Stacked, NEW t \in Threads, stack[t] # <<>>, Moved(Top(t)), Running(Top(t))',
           UNCHANGED stack
    PROVE  Stacked'
<1> DEFINE c == Top(t)
<1>1. /\ Len(stack[t]) \in Nat \ {0} /\ c = stack[t][Len(stack[t])] /\ c \in Calls
      /\ Running(c)
  BY TopRuns
<1>2. \A d \in Calls : d # c => call'[d] = call[d]
  BY DEF Moved
<1>3. Running(c)' = (call'[c].step \notin {"unused", "done"})
  BY DEF Running, Top
<1>4. \A u \in Threads : stack[u] \in Seq(Calls) /\ Len(stack[u]) \in Nat
  BY DEF TypeOK
<1>5. \A u \in Threads : \A i \in 1 .. Len(stack[u]) : stack[u][i] \in Calls
  BY <1>4
<1>6. \A u \in Threads : \A i \in 1 .. Len(stack[u]) : i < Len(stack[u]) => stack[u][i] # c
  BY <1>1, <1>4 DEF Stacked
<1>7. \A u \in Threads : \A i \in 1 .. Len(stack[u]) :
          /\ call'[stack[u][i]].step \notin {"unused", "done"}
          /\ i < Len(stack[u]) => call'[stack[u][i]].step = "body"
  BY <1>2, <1>3, <1>5, <1>6 DEF Stacked, Running
<1>8. \A d \in Calls : call'[d].step \notin {"unused", "done"} => Running(d)
  BY <1>1, <1>2 DEF Running
<1> QED  BY <1>7, <1>8 DEF Stacked, Running

-----------------------------------------------------------------------------
(* The steps of a shim *)

ShimSteps == {"convert", "claim", "get", "body", "insert", "tail", "release"}

\* The innermost call of a thread is in its shim, and stays there or returns from it;
\* one that fails has stored its error.
ShimMoves(t, c) ==
    /\ stack[t] # <<>> /\ c = Top(t) /\ call[c].step \in ShimSteps
    /\ Moved(c) /\ call'[c].step \in ShimSteps \cup {"return"}
    /\ claim' \in [Classes -> {"new", "owns", "tag_in_use"}]
    /\ \A k \in Classes : claim[k] = "owns" => claim'[k] = "owns"
    /\ UNCHANGED <<stack, made, errors, wrapper, raised>>
    /\ lastError' \in [Threads -> Calls \cup {NONE}]
    /\ \A u \in Threads : u # t => lastError'[u] = lastError[u]
    /\ call'[c].status # "Ok" => lastError'[t] = c

\* Then what the stacks, the calls and the slots of the threads have in common is kept.
LEMMA ShimKept ==
    ASSUME BInv, NEW t \in Threads, NEW c \in Calls, ShimMoves(t, c), Shaped(call[c])'
    PROVE  /\ Stacked' /\ Unmade' /\ CallsShaped' /\ Ended' /\ OwnError'
           /\ \A e \in errors' : call'[e].step = "throw" /\ raised'[e] = e
<1> USE DEF BInv
<1>1. /\ stack[t] # <<>> /\ c = Top(t) /\ Moved(c) /\ UNCHANGED stack
      /\ call[c].step \in ShimSteps /\ call'[c].step \in ShimSteps \cup {"return"}
  BY DEF ShimMoves
<1>2. \A d \in Calls : d # c => call'[d] = call[d]
  BY <1>1 DEF Moved
<1>3. Stacked'
  <2>1. Moved(Top(t))
    BY <1>1
  <2>2. Running(Top(t))'
    BY <1>1 DEF Running, ShimSteps, Top
  <2> QED  BY <1>1, <2>1, <2>2, StackedKept
<1>4. Unmade'
  BY <1>1, <1>2 DEF Unmade, ShimMoves, ShimSteps, NoCall
<1>5. CallsShaped'
  <2>1. \A d \in Calls : call'[d].class = call[d].class
    BY <1>1, <1>2 DEF Moved
  <2>2. ASSUME NEW d \in Calls, d # c PROVE Shaped(call[d])'
    <3>1. Shaped(call[d]) /\ call'[d] = call[d]
      BY <1>2, <2>2 DEF CallsShaped
    <3>2. call[d].step \in {"get", "insert", "release"} => call[d].class \in Classes
      BY <3>1 DEF Shaped, StepOf
    <3>3. \A k \in Classes : claim[k] = "owns" => claim'[k] = "owns"
      BY DEF ShimMoves
    <3>4. wrapper' = wrapper
      BY DEF ShimMoves
    <3> QED  BY <2>1, <3>1, <3>2, <3>3, <3>4 DEF Shaped
  <2> QED  BY <2>2 DEF CallsShaped
<1>6. Ended'
  BY <1>1, <1>2 DEF Ended, ShimMoves, ShimSteps
<1>7. OwnError'
  <2>1. \A u \in Threads : stack[u] # <<>> => Top(u) \in Calls /\ (Top(u) = c => u = t)
    BY <1>1, TopRuns
  <2>2. \A u \in Threads : u # t /\ stack[u] # <<>> => call'[Top(u)] = call[Top(u)]
    BY <1>2, <2>1
  <2>3. \A u \in Threads : Top(u)' = Top(u)
    BY <1>1 DEF Top
  <2>4. ASSUME NEW u \in Threads, At(u, "return")', (call[Top(u)].status # "Ok")'
        PROVE  lastError'[u] = Top(u)'
    BY <1>1, <2>2, <2>3, <2>4 DEF OwnError, At, ShimMoves
  <2> QED  BY <2>4 DEF OwnError
<1>8. \A e \in errors' : call'[e].step = "throw" /\ raised'[e] = e
  <2>1. errors \subseteq Calls /\ errors' = errors /\ raised' = raised
    BY DEF TypeOK, ShimMoves
  <2> QED  BY <1>1, <1>2, <2>1 DEF Waiting, ShimSteps
<1> QED  BY <1>3, <1>4, <1>5, <1>6, <1>7, <1>8

\* A shim goes on within itself: its Arc is kept, the tables are not touched.
LEMMA GoOn ==
    ASSUME BInv, NEW t \in Threads, NEW c \in Calls, ShimMoves(t, c), Shaped(call[c])',
           call'[c].step \in ShimSteps, call'[c].arc = call[c].arc,
           call[c].arc # NONE => call'[c].step \in {"body", "tail"},
           UNCHANGED <<objects, strong, buffers>>
    PROVE  BInv'
<1> USE DEF BInv
<1>1. /\ Stacked' /\ Unmade' /\ CallsShaped' /\ Ended' /\ OwnError'
      /\ \A e \in errors' : call'[e].step = "throw" /\ raised'[e] = e
  BY ShimKept
<1>2. /\ Moved(c) /\ call[c].step \in ShimSteps
      /\ UNCHANGED <<stack, made, errors, wrapper, raised>>
      /\ \A k \in Classes : claim[k] = "owns" => claim'[k] = "owns"
  BY DEF ShimMoves
<1>3. \A d \in Calls : d # c => call'[d] = call[d]
  BY <1>2 DEF Moved
<1>4. /\ call \in [Calls -> CallRecords] /\ call' \in [Calls -> CallRecords]
      /\ NONE \notin Calls
      /\ \A d \in Calls : call[d].arc \in Calls \cup {NONE} /\ call'[d].arc \in Calls \cup {NONE}
  BY <1>2, CallsFinite DEF TypeOK, CallRecords, Moved
<1>5. TypeOK'
  BY <1>2, <1>4 DEF TypeOK, CallRecords, ShimMoves
<1>6. Counted'
  BY <1>2, SameCounted
<1>7. \A d \in Calls : /\ call'[d].class = call[d].class /\ call'[d].op = call[d].op
                       /\ call'[d].obj = call[d].obj
  BY <1>2, <1>3 DEF Moved
<1>8. \A d \in Calls : call[d].op \in {"new", "method", "field", "release"} => call[d].class \in Classes
  BY DEF CallsShaped, Shaped
<1>9. Holding'
  <2> SUFFICES ASSUME NEW d \in Calls, NEW o \in Calls, call'[d].arc = o
               PROVE  /\ call'[d].op \in {"method", "field"} /\ call'[d].step \in {"body", "tail"}
                      /\ call'[d].class = call'[o].class /\ claim'[call'[d].class] = "owns"
                      /\ call'[o].op = "new" /\ call'[o].step \in {"return", "done"} /\ call'[o].status = "Ok"
    BY <1>4 DEF Holding
  <2>1. call[d].arc = o /\ o # NONE
    BY <1>3, <1>4
  <2>2. /\ call[d].op \in {"method", "field"} /\ call[d].step \in {"body", "tail"}
        /\ call[d].class = call[o].class /\ claim[call[d].class] = "owns"
        /\ call[o].op = "new" /\ call[o].step \in {"return", "done"} /\ call[o].status = "Ok"
    BY <2>1 DEF Holding
  <2>3. o # c
    BY <1>2, <2>2 DEF ShimSteps
  <2>4. call'[d].step \in {"body", "tail"}
    BY <1>3, <2>1, <2>2
  <2> QED  BY <1>2, <1>3, <1>7, <1>8, <2>2, <2>3, <2>4
<1>10. ObjectsKept'
  <2> SUFFICES ASSUME NEW o \in objects
               PROVE  /\ call'[o].op = "new" /\ claim'[call'[o].class] = "owns"
                      /\ call'[o].step \in {"return", "done"} /\ call'[o].status = "Ok"
                      /\ call'[o].step = "done" => wrapper'[o] # NONE
                      /\ wrapper'[o] \in {"released", "collected"} => Releasing(o)'
    BY DEF ObjectsKept
  <2>1. o \in Calls
    BY DEF TypeOK
  <2>2. o # c
    BY <1>2 DEF ObjectsKept, ShimSteps
  <2>3. ASSUME wrapper'[o] \in {"released", "collected"} PROVE Releasing(o)'
    <3>1. PICK d \in Calls : /\ call[d].op = "release" /\ call[d].obj = o
                             /\ call[d].step \in {"claim", "release"}
      BY <1>2, <2>3 DEF ObjectsKept, Releasing
    <3>2. Shaped(call[c])'
      OBVIOUS
    <3>3. call'[c].op = "release" => call'[c].step \in {"claim", "release"}
      BY <3>2 DEF Shaped, StepOf, ShimSteps
    <3>4. call'[d].step \in {"claim", "release"}
      BY <1>3, <1>7, <3>1, <3>3
    <3> QED  BY <1>7, <3>1, <3>4 DEF Releasing
  <2> QED  BY <1>2, <1>3, <1>7, <1>8, <2>1, <2>2, <2>3 DEF ObjectsKept
<1>11. Waiting'
  <2>1. buffers \subseteq Calls /\ c \notin buffers
    BY <1>2 DEF TypeOK, Waiting, ShimSteps
  <2>2. \A d \in buffers : /\ call'[d].step \in {"return", "read"} /\ call'[d].status = "Ok"
                            /\ call'[d].op # "new"
    BY <1>3, <2>1 DEF Waiting
  <2> QED  BY <1>1, <2>2 DEF Waiting
<1> QED  BY <1>1, <1>5, <1>6, <1>9, <1>10, <1>11

\* A shim returns, with its Arc dropped; its bytes may be stored for the loader.  A
\* release that returns has not left its object in the table.
LEMMA Returned ==
    ASSUME BInv, NEW t \in Threads, NEW c \in Calls, NEW status \in Failures \cup {"Ok"},
           ShimMoves(t, c), Return(t, status),
           call[c].op = "release" => call[c].obj \notin objects,
           \/ buffers' = buffers
           \/ /\ buffers' = buffers \cup {c} /\ Cardinality(buffers) < BufferSlots
              /\ status = "Ok" /\ call[c].op # "new",
           UNCHANGED objects
    PROVE  BInv'
<1> USE DEF BInv
<1>1. /\ c = Top(t) /\ call[c].step \in ShimSteps /\ c \notin objects /\ c \notin buffers
      /\ UNCHANGED <<stack, made, errors, wrapper, raised>>
      /\ \A k \in Classes : claim[k] = "owns" => claim'[k] = "owns"
  <2>1. /\ c = Top(t) /\ call[c].step \in ShimSteps /\ UNCHANGED <<stack, made, errors, wrapper, raised>>
        /\ \A k \in Classes : claim[k] = "owns" => claim'[k] = "owns"
    BY DEF ShimMoves
  <2>2. call[c].step \notin {"return", "done", "read"}
    BY <2>1 DEF ShimSteps
  <2>3. c \notin objects /\ c \notin buffers
    BY <2>2 DEF ObjectsKept, Waiting
  <2> QED  BY <2>1, <2>3
<1>2. /\ Moved(c) /\ call'[c].step = "return" /\ call'[c].status = status /\ call'[c].arc = NONE
  <2>1. call' = [call EXCEPT ![c].step = "return", ![c].status = status, ![c].arc = NONE]
    BY <1>1 DEF Return
  <2> QED  BY <2>1, ReturnMoves
<1>3. \A d \in Calls : d # c => call'[d] = call[d]
  BY <1>2 DEF Moved
<1>4. \A d \in Calls : /\ call'[d].class = call[d].class /\ call'[d].op = call[d].op
                       /\ call'[d].obj = call[d].obj
  BY <1>2, <1>3 DEF Moved
<1>5. \A d \in Calls : call[d].op \in {"new", "method", "field", "release"} => call[d].class \in Classes
  BY DEF CallsShaped, Shaped
<1>6. Shaped(call[c])'
  <2>1. Shaped(call[c])
    BY DEF CallsShaped
  <2>2. call[c].obj \in Calls => call'[call[c].obj].class = call[call[c].obj].class
    BY <1>4
  <2> QED  BY <1>1, <1>2, <1>4, <2>1, <2>2 DEF Shaped
<1>7. /\ Stacked' /\ Unmade' /\ CallsShaped' /\ Ended' /\ OwnError'
      /\ \A e \in errors' : call'[e].step = "throw" /\ raised'[e] = e
  BY <1>6, ShimKept
<1>8. Counted' /\ strong' \in [Calls -> Nat]
  BY <1>1, <1>2, DropCounted DEF Return
<1>9. /\ call \in [Calls -> CallRecords] /\ call' \in [Calls -> CallRecords]
      /\ NONE \notin Calls
      /\ \A d \in Calls : call[d].arc \in Calls \cup {NONE} /\ call'[d].arc \in Calls \cup {NONE}
  BY <1>2, CallsFinite DEF TypeOK, CallRecords, Moved
<1>10. buffers' \subseteq Calls /\ Cardinality(buffers') <= BufferSlots
  <2>1. buffers \subseteq Calls /\ BufferSlots \in Nat /\ Cardinality(buffers) <= BufferSlots
    BY BoundaryAssumption DEF TypeOK
  <2> QED  BY <2>1, RoomForOne
<1>11. TypeOK'
  BY <1>1, <1>8, <1>9, <1>10 DEF TypeOK, CallRecords, ShimMoves
<1>12. Holding'
  <2> SUFFICES ASSUME NEW d \in Calls, NEW o \in Calls, call'[d].arc = o
               PROVE  /\ call'[d].op \in {"method", "field"} /\ call'[d].step \in {"body", "tail"}
                      /\ call'[d].class = call'[o].class /\ claim'[call'[d].class] = "owns"
                      /\ call'[o].op = "new" /\ call'[o].step \in {"return", "done"} /\ call'[o].status = "Ok"
    BY <1>9 DEF Holding
  <2>1. d # c /\ call[d].arc = o /\ o # NONE
    BY <1>2, <1>3, <1>9
  <2>2. /\ call[d].op \in {"method", "field"} /\ call[d].step \in {"body", "tail"}
        /\ call[d].class = call[o].class /\ claim[call[d].class] = "owns"
        /\ call[o].op = "new" /\ call[o].step \in {"return", "done"} /\ call[o].status = "Ok"
    BY <2>1 DEF Holding
  <2>3. o # c
    BY <1>1, <2>2 DEF ShimSteps
  <2> QED  BY <1>1, <1>3, <1>4, <1>5, <2>1, <2>2, <2>3
<1>13. ObjectsKept'
  <2> SUFFICES ASSUME NEW o \in objects
               PROVE  /\ call'[o].op = "new" /\ claim'[call'[o].class] = "owns"
                      /\ call'[o].step \in {"return", "done"} /\ call'[o].status = "Ok"
                      /\ call'[o].step = "done" => wrapper'[o] # NONE
                      /\ wrapper'[o] \in {"released", "collected"} => Releasing(o)'
    BY DEF ObjectsKept
  <2>1. o \in Calls /\ o # c
    BY <1>1 DEF TypeOK
  <2>2. ASSUME wrapper'[o] \in {"released", "collected"} PROVE Releasing(o)'
    <3>1. PICK d \in Calls : /\ call[d].op = "release" /\ call[d].obj = o
                             /\ call[d].step \in {"claim", "release"}
      BY <1>1, <2>2 DEF ObjectsKept, Releasing
    <3>2. d # c
      BY <3>1
    <3> QED  BY <1>3, <3>1, <3>2 DEF Releasing
  <2> QED  BY <1>1, <1>3, <1>4, <1>5, <2>1, <2>2 DEF ObjectsKept
<1>14. Waiting'
  <2>1. buffers \subseteq Calls
    BY DEF TypeOK
  <2>2. \A d \in buffers : /\ call'[d].step \in {"return", "read"} /\ call'[d].status = "Ok"
                            /\ call'[d].op # "new"
    BY <1>1, <1>3, <2>1 DEF Waiting
  <2>3. c \in buffers' => status = "Ok" /\ call'[c].op # "new"
    BY <1>1, <1>4
  <2> QED  BY <1>2, <1>7, <2>2, <2>3 DEF Waiting
<1> QED  BY <1>7, <1>8, <1>11, <1>12, <1>13, <1>14

\* The two ways to make such a step.
ClaimsKept ==
    /\ claim' \in [Classes -> {"new", "owns", "tag_in_use"}]
    /\ \A k \in Classes : claim[k] = "owns" => claim'[k] = "owns"

InShim(t, c) == stack[t] # <<>> /\ c = Top(t) /\ call[c].step \in ShimSteps

LEMMA GotoShim ==
    ASSUME BInv, NEW t \in Threads, NEW c \in Calls, InShim(t, c), NEW s \in ShimSteps, Goto(t, s),
           ClaimsKept, UNCHANGED <<stack, made, errors, wrapper, raised, lastError>>
    PROVE  /\ ShimMoves(t, c) /\ call'[c].step = s
           /\ call'[c].status = call[c].status /\ call'[c].arc = call[c].arc
<1>1. s \in Steps
  BY DEF Steps, ShimSteps
<1>2. /\ Moved(c) /\ call'[c].step = s
      /\ call'[c].status = call[c].status /\ call'[c].arc = call[c].arc
  BY <1>1, GotoMoves DEF BInv, InShim, Goto
<1>3. call[c].status = "Ok"
  BY DEF BInv, CallsShaped, Shaped, InShim, ShimSteps
<1>4. lastError \in [Threads -> Calls \cup {NONE}]
  BY DEF BInv, TypeOK
<1> QED  BY <1>2, <1>3, <1>4 DEF ShimMoves, InShim, ClaimsKept

LEMMA ReturnShim ==
    ASSUME BInv, NEW t \in Threads, NEW c \in Calls, InShim(t, c), NEW status \in Failures \cup {"Ok"},
           Return(t, status), ClaimsKept, UNCHANGED <<stack, made, errors, wrapper, raised>>,
           \/ status = "Ok" /\ lastError' = lastError
           \/ lastError' = [lastError EXCEPT ![t] = Top(t)]
    PROVE  /\ ShimMoves(t, c) /\ call'[c].step = "return"
           /\ call'[c].status = status /\ call'[c].arc = NONE
<1>1. /\ Moved(c) /\ call'[c].step = "return" /\ call'[c].status = status /\ call'[c].arc = NONE
  BY ReturnMoves DEF BInv, InShim, Return
<1>2. lastError \in [Threads -> Calls \cup {NONE}]
  BY DEF BInv, TypeOK
<1>3. /\ lastError' \in [Threads -> Calls \cup {NONE}]
      /\ \A u \in Threads : u # t => lastError'[u] = lastError[u]
      /\ status # "Ok" => lastError'[t] = c
  BY <1>2 DEF InShim
<1> QED  BY <1>1, <1>3 DEF ShimMoves, InShim, ClaimsKept

\* A shim fails before it changes a table.
LEMMA Failed ==
    ASSUME BInv, NEW t \in Threads, NEW c \in Calls, InShim(t, c), NEW status \in Failures,
           Fail(t, status), ClaimsKept, UNCHANGED <<stack, made, objects, buffers, errors, wrapper, raised>>,
           call[c].op = "release" => call[c].obj \notin objects
    PROVE  BInv'
<1>1. Return(t, status) /\ lastError' = [lastError EXCEPT ![t] = Top(t)]
  BY DEF Fail
<1>2. ShimMoves(t, c)
  BY <1>1, ReturnShim
<1> QED  BY <1>1, <1>2, Returned

\* The innermost call of a thread at a step of its shim.
LEMMA AtShim ==
    ASSUME BInv, NEW t \in Threads, NEW s \in ShimSteps, At(t, s)
    PROVE  /\ Top(t) \in Calls /\ InShim(t, Top(t)) /\ Shaped(call[Top(t)])
           /\ call[Top(t)].step = s /\ StepOf(call[Top(t)].op, s)
<1>1. Top(t) \in Calls /\ stack[t] # <<>> /\ call[Top(t)].step = s
  BY TopRuns DEF BInv, At
<1>2. Shaped(call[Top(t)])
  BY <1>1 DEF BInv, CallsShaped
<1> QED  BY <1>1, <1>2 DEF InShim, Shaped, ShimSteps

\* Claims that are left alone.
LEMMA ClaimsSame == ASSUME TypeOK, UNCHANGED claim PROVE ClaimsKept
  BY DEF ClaimsKept, TypeOK

\* Going on, with the class of the objects still owned.
LEMMA WentOn ==
    ASSUME BInv, NEW t \in Threads, NEW c \in Calls, InShim(t, c), NEW s \in ShimSteps, Goto(t, s),
           ClaimsKept, UNCHANGED <<stack, made, objects, strong, buffers, errors, wrapper, raised, lastError>>,
           StepOf(call[c].op, s), s \in {"get", "insert", "release"} => claim'[call[c].class] = "owns",
           call[c].arc # NONE => s \in {"body", "tail"}
    PROVE  BInv'
<1>1. /\ ShimMoves(t, c) /\ call'[c].step = s
      /\ call'[c].status = call[c].status /\ call'[c].arc = call[c].arc
  BY GotoShim
<1>2. /\ Moved(c) /\ \A d \in Calls : call'[d].class = call[d].class
      /\ call'[c].op = call[c].op /\ call'[c].obj = call[c].obj /\ wrapper' = wrapper
  BY <1>1 DEF ShimMoves, Moved
<1>3. Shaped(call[c]) /\ call[c].step \in ShimSteps
  BY DEF BInv, CallsShaped, InShim
<1>4. Shaped(call[c])'
  BY <1>1, <1>2, <1>3 DEF Shaped, ShimSteps
<1> QED  BY <1>1, <1>4, GoOn

\* The arguments are converted, or refused.
LEMMA ConvertStep == ASSUME BInv, NEW t \in Threads, Convert(t) PROVE BInv'
<1> DEFINE c == Top(t)
<1>1. /\ At(t, "convert") /\ UNCHANGED <<stack, made, claim, objects, buffers, errors, wrapper, raised>>
  BY DEF Convert
<1>2. c \in Calls /\ InShim(t, c) /\ call[c].step = "convert" /\ StepOf(call[c].op, "convert") /\ ClaimsKept
  BY <1>1, AtShim, ClaimsSame DEF BInv, ShimSteps
<1>3. CASE Goto(t, IF call[Top(t)].op = "method" THEN "claim" ELSE "body") /\ UNCHANGED <<strong, lastError>>
  <2>1. call[c].arc = NONE
    BY <1>2 DEF BInv, Holding
  <2>2. CASE call[c].op = "method"
    <3>1. Goto(t, "claim")
      BY <1>3, <2>2
    <3> QED  BY <1>1, <1>2, <1>3, <2>1, <2>2, <3>1, WentOn DEF ShimSteps, StepOf
  <2>3. CASE call[c].op # "method"
    <3>1. Goto(t, "body") /\ StepOf(call[c].op, "body")
      BY <1>2, <1>3, <2>3 DEF StepOf
    <3> QED  BY <1>1, <1>2, <1>3, <2>1, <3>1, WentOn DEF ShimSteps
  <2> QED  BY <2>2, <2>3
<1>4. CASE \E f \in {"NullPointer", "InvalidUtf8", "InvalidTag"} : Fail(t, f)
  BY <1>1, <1>2, <1>4, Failed DEF Failures, StepOf
<1> QED  BY <1>3, <1>4 DEF Convert

\* The accessor of the class answers from the memoized claim; a class that owns its
\* tag is never refused, so the release of a live object is not either.
LEMMA ClaimStep == ASSUME BInv, NEW t \in Threads, Claim(t) PROVE BInv'
<1> DEFINE c == Top(t)
           k == call[c].class
           next == [new |-> "insert", release |-> "release", method |-> "get", field |-> "get"]
<1>1. /\ At(t, "claim") /\ UNCHANGED <<stack, made, objects, buffers, errors, wrapper, raised>>
  BY DEF Claim
<1>2. /\ c \in Calls /\ InShim(t, c) /\ call[c].step = "claim" /\ StepOf(call[c].op, "claim")
      /\ Shaped(call[c])
  BY <1>1, AtShim DEF ShimSteps
<1>3. k \in Classes /\ call[c].op \in {"new", "method", "field", "release"}
  BY <1>2 DEF Shaped, StepOf
<1>4. ClaimsKept
  <2>1. claim \in [Classes -> {"new", "owns", "tag_in_use"}]
    BY DEF BInv, TypeOK
  <2>2. PICK v \in {"new", "owns", "tag_in_use"} :
            claim' = [claim EXCEPT ![k] = v] /\ (claim[k] = "owns" => v = "owns")
    <3> DEFINE taken == \E j \in Classes \ {k} : claim[j] = "owns" /\ TagOf[j] = TagOf[k]
    <3>1. claim' = [claim EXCEPT ![k] = IF claim[k] # "new" THEN claim[k]
                                        ELSE IF taken THEN "tag_in_use" ELSE "owns"]
      BY DEF Claim
    <3> QED  BY <1>3, <2>1, <3>1
  <2> QED  BY <1>3, <2>1, <2>2 DEF ClaimsKept
<1>5. CASE claim'[k] = "owns"
  <2>1. Goto(t, next[call[c].op]) /\ UNCHANGED <<strong, lastError>>
    BY <1>5 DEF Claim
  <2>2. call[c].arc = NONE
    BY <1>2 DEF BInv, Holding
  <2>3. PICK s \in {"insert", "release", "get"} : Goto(t, s) /\ StepOf(call[c].op, s)
    BY <1>3, <2>1 DEF StepOf
  <2> QED  BY <1>1, <1>2, <1>4, <1>5, <2>1, <2>2, <2>3, WentOn DEF ShimSteps
<1>6. CASE claim'[k] # "owns"
  <2>1. Fail(t, "InvalidTag")
    BY <1>6 DEF Claim
  <2>2. call[c].op = "release" => call[c].obj \notin objects
    <3>1. claim[k] # "owns"
      BY <1>3, <1>4, <1>6 DEF ClaimsKept
    <3> QED  BY <1>2, <3>1 DEF BInv, ObjectsKept, Shaped
  <2> QED  BY <1>1, <1>2, <1>4, <2>1, <2>2, Failed DEF Failures
<1> QED  BY <1>5, <1>6

\* The body ends, or panics.
LEMMA BodyStep == ASSUME BInv, NEW t \in Threads, Body(t) PROVE BInv'
<1> DEFINE c == Top(t)
           op == call[c].op
<1>1. /\ At(t, "body") /\ UNCHANGED <<stack, made, claim, objects, buffers, errors, wrapper, raised>>
  BY DEF Body
<1>2. /\ c \in Calls /\ InShim(t, c) /\ call[c].step = "body" /\ StepOf(op, "body") /\ ClaimsKept
  BY <1>1, AtShim, ClaimsSame DEF BInv, ShimSteps
<1>3. op # "release"
  BY <1>2 DEF StepOf
<1>4. CASE op = "new" /\ Goto(t, "claim") /\ UNCHANGED <<strong, lastError>>
  <2>1. call[c].arc = NONE
    BY <1>2, <1>4 DEF BInv, Holding
  <2> QED  BY <1>1, <1>2, <1>4, <2>1, WentOn DEF ShimSteps, StepOf
<1>5. CASE Return(t, "Ok") /\ UNCHANGED lastError
  <2>1. ShimMoves(t, c)
    BY <1>1, <1>2, <1>5, ReturnShim
  <2> QED  BY <1>1, <1>2, <1>3, <1>5, <2>1, Returned
<1>6. CASE op \in {"method", "func", "next"} /\ Goto(t, "tail") /\ UNCHANGED <<strong, lastError>>
  <2>1. StepOf(op, "tail")
    BY <1>6 DEF StepOf
  <2> QED  BY <1>1, <1>2, <1>6, <2>1, WentOn DEF ShimSteps
<1>7. ASSUME NEW f \in {"DomainError", "InvalidHandle", "Panic"}, Fail(t, f) PROVE BInv'
  BY <1>1, <1>2, <1>3, <1>7, Failed DEF Failures
<1> QED  BY <1>4, <1>5, <1>6, <1>7 DEF Body

\* The result is stored for the loader, if a buffer is free.
LEMMA StoreBytesStep == ASSUME BInv, NEW t \in Threads, StoreBytes(t) PROVE BInv'
<1> DEFINE c == Top(t)
<1>1. /\ At(t, "tail") /\ UNCHANGED <<stack, made, claim, objects, errors, wrapper, raised>>
  BY DEF StoreBytes
<1>2. /\ c \in Calls /\ InShim(t, c) /\ StepOf(call[c].op, "tail") /\ ClaimsKept
  BY <1>1, AtShim, ClaimsSame DEF BInv, ShimSteps
<1>3. call[c].op \notin {"release", "new"}
  BY <1>2 DEF StepOf
<1>4. CASE /\ Cardinality(buffers) < BufferSlots /\ Return(t, "Ok")
           /\ buffers' = buffers \cup {Top(t)} /\ UNCHANGED lastError
  <2>1. ShimMoves(t, c)
    BY <1>1, <1>2, <1>4, ReturnShim
  <2> QED  BY <1>1, <1>2, <1>3, <1>4, <2>1, Returned
<1>5. CASE Fail(t, "TableFull") /\ UNCHANGED buffers
  BY <1>1, <1>2, <1>3, <1>5, Failed DEF Failures
<1> QED  BY <1>4, <1>5 DEF StoreBytes

\* ObjectWrap::get: the body gets an Arc of its own.
LEMMA GetStep == ASSUME BInv, NEW t \in Threads, Get(t) PROVE BInv'
<1> USE DEF BInv
<1>1. /\ At(t, "get") /\ UNCHANGED <<stack, made, claim, objects, buffers, errors, wrapper, raised>>
  BY DEF Get
<1>2. PICK c \in Calls : c = Top(t)
  BY <1>1, AtShim DEF ShimSteps
<1>3. /\ InShim(t, c) /\ call[c].step = "get" /\ StepOf(call[c].op, "get") /\ ClaimsKept
      /\ Shaped(call[c])
  BY <1>1, <1>2, AtShim, ClaimsSame DEF ShimSteps
<1>4. call[c].op \in {"method", "field"} /\ call[c].obj \in Calls /\ call[c].arc = NONE /\ c \notin objects
  BY <1>3 DEF StepOf, Shaped, Holding, ObjectsKept
<1>5. PICK o \in Calls : o = call[c].obj
  BY <1>4
<1>6. CASE o \in objects /\ call[o].class = call[c].class
  <2>1. /\ strong' = [strong EXCEPT ![o] = @ + 1] /\ UNCHANGED lastError
        /\ call' = [call EXCEPT ![c].arc = o, ![c].step = "body"]
    BY <1>2, <1>5, <1>6 DEF Get
  <2>2. call \in [Calls -> CallRecords] /\ call[c] \in CallRecords /\ o # NONE
    BY CallsFinite DEF TypeOK, CallRecords
  <2> DEFINE r == [call[c] EXCEPT !.arc = o, !.step = "body"]
  <2>3. call'[c] = r /\ \A d \in Calls : d # c => call'[d] = call[d]
    BY <2>1, <2>2
  <2>4. r \in CallRecords
    BY <2>2 DEF CallRecords
  <2>5. /\ r.op = call[c].op /\ r.class = call[c].class /\ r.obj = call[c].obj
        /\ r.step = "body" /\ r.status = call[c].status /\ r.arc = o
    BY <2>2 DEF CallRecords
  <2>6. call' \in [Calls -> CallRecords]
    BY <2>1, <2>2, <2>3, <2>4
  <2>7. Moved(c)
    BY <2>3, <2>5, <2>6 DEF Moved
  <2>8. \A d \in Calls : /\ call'[d].class = call[d].class /\ call'[d].op = call[d].op
                         /\ call'[d].obj = call[d].obj
    BY <2>3, <2>7 DEF Moved
  <2>9. ShimMoves(t, c)
    <3>1. call'[c].status = "Ok"
      BY <1>3, <2>3, <2>5 DEF Shaped
    <3>2. lastError' \in [Threads -> Calls \cup {NONE}]
      BY <2>1 DEF TypeOK
    <3> QED  BY <1>1, <1>3, <2>1, <2>3, <2>5, <2>7, <3>1, <3>2 DEF ShimMoves, InShim, ClaimsKept, ShimSteps
  <2>10. Shaped(call[c])'
    BY <1>1, <1>3, <1>4, <2>3, <2>5, <2>8 DEF Shaped, StepOf
  <2>11. /\ Stacked' /\ Unmade' /\ CallsShaped' /\ Ended' /\ OwnError'
         /\ \A e \in errors' : call'[e].step = "throw" /\ raised'[e] = e
    BY <2>9, <2>10, ShimKept
  <2>12. Counted' /\ strong' \in [Calls -> Nat]
    <3>1. Holders(o)' = Holders(o) \cup {c} /\ c \notin Holders(o)
      BY <1>4, <2>2, <2>3, <2>5 DEF Holders
    <3>2. Cardinality(Holders(o)') = Cardinality(Holders(o)) + 1 /\ Cardinality(Holders(o)) \in Nat
      BY <3>1, HoldersFinite, FS_AddElement
    <3>3. \A p \in Calls : p # o => Holders(p)' = Holders(p)
      <4> SUFFICES ASSUME NEW p \in Calls, p # o PROVE Holders(p)' = Holders(p)
        OBVIOUS
      <4>1. p # NONE /\ call[c].arc # p /\ call'[c].arc # p
        BY <1>4, <2>3, <2>5, CallsFinite
      <4>2. \A d \in Calls : call'[d].arc = p <=> call[d].arc = p
        BY <2>3, <4>1
      <4> QED  BY <4>2 DEF Holders
    <3>4. strong \in [Calls -> Nat] /\ \A p \in Calls : strong[p] = Cardinality(Holders(p)) + InTable(p)
      BY DEF TypeOK, Counted
    <3>5. strong'[o] = strong[o] + 1 /\ \A p \in Calls : p # o => strong'[p] = strong[p]
      BY <2>1, <3>4
    <3>6. strong' \in [Calls -> Nat]
      BY <2>1, <3>4
    <3>7. \A p \in Calls : InTable(p)' = InTable(p) /\ InTable(p) \in Nat
      BY <1>1 DEF InTable
    <3>8. strong'[o] = Cardinality(Holders(o)') + InTable(o)'
      BY <3>2, <3>4, <3>5, <3>7
    <3>9. \A p \in Calls : p # o => strong'[p] = Cardinality(Holders(p)') + InTable(p)'
      BY <3>3, <3>4, <3>5, <3>7
    <3> QED  BY <3>6, <3>8, <3>9 DEF Counted
  <2>13. TypeOK'
    BY <1>1, <2>6, <2>9, <2>12 DEF TypeOK, CallRecords, ShimMoves
  <2>14. /\ call[o].op = "new" /\ claim[call[o].class] = "owns" /\ o # c
         /\ call[o].step \in {"return", "done"} /\ call[o].status = "Ok"
    BY <1>4, <1>6 DEF ObjectsKept
  <2>15. Holding'
    <3> SUFFICES ASSUME NEW d \in Calls, NEW p \in Calls, call'[d].arc = p
                 PROVE  /\ call'[d].op \in {"method", "field"} /\ call'[d].step \in {"body", "tail"}
                        /\ call'[d].class = call'[p].class /\ claim'[call'[d].class] = "owns"
                        /\ call'[p].op = "new" /\ call'[p].step \in {"return", "done"} /\ call'[p].status = "Ok"
      BY <2>6 DEF Holding, CallRecords
    <3>1. CASE d = c
      <4>1. p = o /\ call'[o] = call[o]
        BY <2>3, <2>5, <2>14, <3>1
      <4>2. call'[c].op \in {"method", "field"} /\ call'[c].step = "body" /\ call'[c].class = call[o].class
        BY <1>4, <1>6, <2>3, <2>5
      <4> QED  BY <1>1, <2>14, <3>1, <4>1, <4>2
    <3>2. CASE d # c
      <4>1. /\ call[d].op \in {"method", "field"} /\ call[d].step \in {"body", "tail"}
            /\ call[d].class = call[p].class /\ claim[call[d].class] = "owns"
            /\ call[p].op = "new" /\ call[p].step \in {"return", "done"} /\ call[p].status = "Ok"
        BY <2>3, <3>2, CallsFinite DEF Holding
      <4>2. p # c
        BY <1>3, <4>1
      <4> QED  BY <1>1, <2>3, <3>2, <4>1, <4>2
    <3> QED  BY <3>1, <3>2
  <2>16. ObjectsKept'
    <3> SUFFICES ASSUME NEW p \in objects
                 PROVE  /\ call'[p].op = "new" /\ claim'[call'[p].class] = "owns"
                        /\ call'[p].step \in {"return", "done"} /\ call'[p].status = "Ok"
                        /\ call'[p].step = "done" => wrapper'[p] # NONE
                        /\ wrapper'[p] \in {"released", "collected"} => Releasing(p)'
      BY <1>1 DEF ObjectsKept
    <3>1. p \in Calls /\ p # c
      BY <1>4 DEF TypeOK
    <3>2. Releasing(p) => Releasing(p)'
      BY <1>3, <2>3, <2>8 DEF Releasing
    <3> QED  BY <1>1, <2>3, <3>1, <3>2 DEF ObjectsKept
  <2>17. Waiting'
    <3>1. buffers \subseteq Calls /\ c \notin buffers
      BY <1>3 DEF TypeOK, Waiting
    <3>2. \A d \in buffers : /\ call'[d].step \in {"return", "read"} /\ call'[d].status = "Ok"
                              /\ call'[d].op # "new"
      BY <2>3, <3>1 DEF Waiting
    <3> QED  BY <1>1, <2>11, <3>2 DEF Waiting
  <2> QED  BY <2>11, <2>12, <2>13, <2>15, <2>16, <2>17
<1>7. CASE ~(o \in objects /\ call[o].class = call[c].class)
  <2>1. Fail(t, "InvalidHandle")
    BY <1>2, <1>5, <1>7 DEF Get
  <2> QED  BY <1>1, <1>3, <1>4, <2>1, Failed DEF Failures
<1> QED  BY <1>6, <1>7

\* A step that ends well: the call goes to "return".
LEMMA OkMoves ==
    ASSUME TypeOK, NEW c \in Calls, call' = [call EXCEPT ![c].step = "return", ![c].status = "Ok"]
    PROVE  Moved(c) /\ call'[c].step = "return" /\ call'[c].status = "Ok" /\ call'[c].arc = call[c].arc
<1>1. call \in [Calls -> CallRecords] /\ call[c] \in CallRecords
  BY DEF TypeOK, CallRecords
<1> DEFINE r == [call[c] EXCEPT !.step = "return", !.status = "Ok"]
<1>2. call'[c] = r /\ \A d \in Calls : d # c => call'[d] = call[d]
  BY <1>1
<1>3. r \in CallRecords
  BY <1>1 DEF CallRecords
<1>4. /\ r.op = call[c].op /\ r.class = call[c].class /\ r.obj = call[c].obj
      /\ r.step = "return" /\ r.status = "Ok" /\ r.arc = call[c].arc
  BY <1>1 DEF CallRecords
<1>5. call' \in [Calls -> CallRecords]
  BY <1>1, <1>2, <1>3
<1> QED  BY <1>2, <1>4, <1>5 DEF Moved

\* The one table access of a constructor or a release: what is common to both.
LEMMA TableAccess ==
    ASSUME BInv, NEW t \in Threads, NEW c \in Calls, InShim(t, c), call[c].step \in {"insert", "release"},
           call' = [call EXCEPT ![c].step = "return", ![c].status = "Ok"],
           UNCHANGED <<stack, made, claim, buffers, errors, wrapper, raised, lastError>>
    PROVE  /\ Stacked' /\ Unmade' /\ CallsShaped' /\ Ended' /\ OwnError' /\ Holding' /\ Waiting'
           /\ call' \in [Calls -> CallRecords] /\ \A d \in Calls : d # c => call'[d] = call[d]
           /\ call'[c].op = call[c].op /\ call'[c].step = "return" /\ call'[c].status = "Ok"
           /\ \A d \in Calls : call'[d].class = call[d].class
           /\ \A o \in Calls : Holders(o)' = Holders(o)
<1> USE DEF BInv
<1>1. Moved(c) /\ call'[c].step = "return" /\ call'[c].status = "Ok" /\ call'[c].arc = call[c].arc
  BY OkMoves
<1>2. \A d \in Calls : d # c => call'[d] = call[d]
  BY <1>1 DEF Moved
<1>3. \A d \in Calls : /\ call'[d].class = call[d].class /\ call'[d].op = call[d].op
                       /\ call'[d].obj = call[d].obj /\ call'[d].arc = call[d].arc
  BY <1>1, <1>2 DEF Moved
<1>4. ShimMoves(t, c)
  <2>1. ClaimsKept /\ lastError \in [Threads -> Calls \cup {NONE}]
    BY ClaimsSame DEF TypeOK
  <2> QED  BY <1>1, <2>1 DEF ShimMoves, InShim, ClaimsKept
<1>5. Shaped(call[c])'
  <2>1. Shaped(call[c])
    BY DEF CallsShaped
  <2> QED  BY <1>1, <1>3, <2>1 DEF Shaped
<1>6. /\ Stacked' /\ Unmade' /\ CallsShaped' /\ Ended' /\ OwnError'
      /\ \A e \in errors' : call'[e].step = "throw" /\ raised'[e] = e
  BY <1>4, <1>5, ShimKept
<1>7. Holding'
  <2> SUFFICES ASSUME NEW d \in Calls, NEW o \in Calls, call'[d].arc = o
               PROVE  /\ call'[d].op \in {"method", "field"} /\ call'[d].step \in {"body", "tail"}
                      /\ call'[d].class = call'[o].class /\ claim'[call'[d].class] = "owns"
                      /\ call'[o].op = "new" /\ call'[o].step \in {"return", "done"} /\ call'[o].status = "Ok"
    BY <1>1, <1>3 DEF Holding, Moved, CallRecords
  <2>1. call[d].arc = o /\ o # NONE
    BY <1>3, CallsFinite
  <2>2. /\ call[d].op \in {"method", "field"} /\ call[d].step \in {"body", "tail"}
        /\ call[d].class = call[o].class /\ claim[call[d].class] = "owns"
        /\ call[o].op = "new" /\ call[o].step \in {"return", "done"} /\ call[o].status = "Ok"
    BY <2>1 DEF Holding
  <2>3. o # c /\ d # c
    BY <2>2
  <2> QED  BY <1>2, <2>2, <2>3
<1>8. Waiting'
  <2>1. \A d \in buffers : /\ call[d].step \in {"return", "read"} /\ call[d].status = "Ok"
                            /\ call[d].op # "new"
    BY DEF Waiting
  <2>2. buffers \subseteq Calls /\ c \notin buffers
    BY <2>1 DEF TypeOK
  <2>3. \A d \in buffers : call'[d] = call[d]
    BY <1>2, <2>2
  <2>4. \A d \in buffers' : /\ call'[d].step \in {"return", "read"} /\ call'[d].status = "Ok"
                             /\ call'[d].op # "new"
    BY <2>1, <2>3
  <2> QED  BY <1>6, <2>4 DEF Waiting
<1>9. \A o \in Calls : Holders(o)' = Holders(o)
  BY <1>3 DEF Holders
<1> QED  BY <1>1, <1>2, <1>3, <1>6, <1>7, <1>8, <1>9 DEF Moved

\* A constructed object gets its entry, and its one Arc.
LEMMA InsertStep == ASSUME BInv, NEW t \in Threads, Insert(t) PROVE BInv'
<1> USE DEF BInv
<1>1. /\ At(t, "insert") /\ UNCHANGED <<stack, made, claim, buffers, errors, wrapper, raised>>
  BY DEF Insert
<1>2. PICK c \in Calls : c = Top(t)
  BY <1>1, AtShim DEF ShimSteps
<1>3. /\ InShim(t, c) /\ call[c].step = "insert" /\ call[c].op = "new" /\ ClaimsKept
      /\ claim[call[c].class] = "owns"
  BY <1>1, <1>2, AtShim, ClaimsSame DEF ShimSteps, StepOf, Shaped
<1>4. CASE /\ objects' = objects \cup {c} /\ strong' = [strong EXCEPT ![c] = 1]
           /\ call' = [call EXCEPT ![c].step = "return", ![c].status = "Ok"] /\ UNCHANGED lastError
  <2>1. /\ Stacked' /\ Unmade' /\ CallsShaped' /\ Ended' /\ OwnError' /\ Holding' /\ Waiting'
        /\ call' \in [Calls -> CallRecords] /\ \A d \in Calls : d # c => call'[d] = call[d]
        /\ call'[c].op = call[c].op /\ call'[c].step = "return" /\ call'[c].status = "Ok"
        /\ \A d \in Calls : call'[d].class = call[d].class
        /\ \A o \in Calls : Holders(o)' = Holders(o)
    BY <1>1, <1>3, <1>4, TableAccess
  <2>2. strong \in [Calls -> Nat] /\ strong' \in [Calls -> Nat]
    BY <1>4 DEF TypeOK
  <2>3. Counted'
    <3>1. Holders(c) = {}
      BY <1>3, CallsFinite DEF Holders, Holding
    <3>2. Cardinality(Holders(c)) = 0
      BY <3>1, FS_EmptySet
    <3>3. strong'[c] = 1 /\ InTable(c)' = 1
      BY <1>4, <2>2 DEF InTable
    <3>4. \A o \in Calls : o # c => strong'[o] = strong[o] /\ InTable(o)' = InTable(o)
      BY <1>4, <2>2 DEF InTable
    <3>5. \A o \in Calls : strong'[o] = Cardinality(Holders(o)') + InTable(o)'
      BY <2>1, <3>2, <3>3, <3>4 DEF Counted
    <3> QED  BY <3>5 DEF Counted
  <2>4. TypeOK'
    BY <1>1, <1>4, <2>1, <2>2 DEF TypeOK, CallRecords
  <2>5. ObjectsKept'
    <3>1. wrapper[c] = NONE
      BY <1>3 DEF Ended
    <3>2. ASSUME NEW o \in objects, o # c
          PROVE  /\ call'[o].op = "new" /\ claim'[call'[o].class] = "owns"
                 /\ call'[o].step \in {"return", "done"} /\ call'[o].status = "Ok"
                 /\ call'[o].step = "done" => wrapper'[o] # NONE
                 /\ wrapper'[o] \in {"released", "collected"} => Releasing(o)'
      <4>1. o \in Calls /\ call'[o] = call[o]
        BY <2>1, <3>2 DEF TypeOK
      <4>2. Releasing(o) => Releasing(o)'
        BY <1>3, <2>1 DEF Releasing
      <4> QED  BY <1>1, <3>2, <4>1, <4>2 DEF ObjectsKept
    <3>3. claim'[call'[c].class] = "owns" /\ wrapper'[c] \notin {"released", "collected"}
      BY <1>1, <1>3, <2>1, <3>1, BoundaryAssumption
    <3> QED  BY <1>3, <1>4, <2>1, <3>2, <3>3 DEF ObjectsKept
  <2> QED  BY <2>1, <2>3, <2>4, <2>5
<1>5. CASE Fail(t, "TableFull") /\ UNCHANGED objects
  BY <1>1, <1>3, <1>5, Failed DEF Failures
<1> QED  BY <1>2, <1>4, <1>5 DEF Insert

\* A release takes the table's Arc; other holders keep the object alive.
LEMMA ReleaseStep == ASSUME BInv, NEW t \in Threads, Release(t) PROVE BInv'
<1> USE DEF BInv
<1>1. /\ At(t, "release") /\ UNCHANGED <<stack, made, claim, buffers, errors, wrapper, raised>>
  BY DEF Release
<1>2. PICK c \in Calls : c = Top(t)
  BY <1>1, AtShim DEF ShimSteps
<1>3. /\ InShim(t, c) /\ call[c].step = "release" /\ call[c].op = "release" /\ ClaimsKept
      /\ call[c].obj \in Calls /\ call[c].class = call[call[c].obj].class
  BY <1>1, <1>2, AtShim, ClaimsSame DEF ShimSteps, StepOf, Shaped
<1>4. PICK o \in Calls : o = call[c].obj
  BY <1>3
<1>5. CASE o \in objects
  <2>1. /\ objects' = objects \ {o} /\ strong' = [strong EXCEPT ![o] = @ - 1]
        /\ call' = [call EXCEPT ![c].step = "return", ![c].status = "Ok"] /\ UNCHANGED lastError
    BY <1>2, <1>3, <1>4, <1>5 DEF Release
  <2>2. /\ Stacked' /\ Unmade' /\ CallsShaped' /\ Ended' /\ OwnError' /\ Holding' /\ Waiting'
        /\ call' \in [Calls -> CallRecords] /\ \A d \in Calls : d # c => call'[d] = call[d]
        /\ call'[c].op = call[c].op /\ call'[c].step = "return" /\ call'[c].status = "Ok"
        /\ \A d \in Calls : call'[d].class = call[d].class
        /\ \A p \in Calls : Holders(p)' = Holders(p)
    BY <1>1, <1>3, <2>1, TableAccess
  <2>3. Counted' /\ strong' \in [Calls -> Nat]
    <3>1. \A p \in Calls : Cardinality(Holders(p)) \in Nat /\ strong[p] = Cardinality(Holders(p)) + InTable(p)
      BY HoldersFinite DEF Counted
    <3>2. strong \in [Calls -> Nat] /\ InTable(o) = 1 /\ InTable(o)' = 0
      BY <1>5, <2>1 DEF TypeOK, InTable
    <3>3. strong[o] - 1 = Cardinality(Holders(o)) /\ strong'[o] = strong[o] - 1
      BY <2>1, <3>1, <3>2
    <3>4. \A p \in Calls : p # o => strong'[p] = strong[p] /\ InTable(p)' = InTable(p)
      BY <2>1, <3>2 DEF InTable
    <3>5. \A p \in Calls : strong'[p] = Cardinality(Holders(p)') + InTable(p)'
      BY <2>2, <3>1, <3>2, <3>3, <3>4
    <3>6. strong' \in [Calls -> Nat]
      BY <2>1, <3>1, <3>2, <3>3
    <3> QED  BY <3>5, <3>6 DEF Counted
  <2>4. TypeOK'
    BY <1>1, <2>1, <2>2, <2>3 DEF TypeOK, CallRecords
  <2>5. ObjectsKept'
    <3> SUFFICES ASSUME NEW p \in objects, p # o
                 PROVE  /\ call'[p].op = "new" /\ claim'[call'[p].class] = "owns"
                        /\ call'[p].step \in {"return", "done"} /\ call'[p].status = "Ok"
                        /\ call'[p].step = "done" => wrapper'[p] # NONE
                        /\ wrapper'[p] \in {"released", "collected"} => Releasing(p)'
      BY <2>1 DEF ObjectsKept
    <3>1. p \in Calls /\ p # c
      BY <1>3 DEF TypeOK, ObjectsKept
    <3>2. Releasing(p) => Releasing(p)'
      <4>1. \A d \in Calls : call[d].obj = p => d # c
        BY <1>4
      <4> QED  BY <2>2, <4>1 DEF Releasing
    <3> QED  BY <1>1, <2>2, <3>1, <3>2 DEF ObjectsKept
  <2> QED  BY <2>2, <2>3, <2>4, <2>5
<1>6. CASE o \notin objects
  <2>1. Fail(t, "InvalidHandle") /\ UNCHANGED objects
    BY <1>2, <1>4, <1>6 DEF Release
  <2> QED  BY <1>1, <1>3, <1>4, <1>6, <2>1, Failed DEF Failures
<1> QED  BY <1>5, <1>6

-----------------------------------------------------------------------------
(* A call starts *)

\* A thread that may run JS has none of its calls outside of a body.
LEMMA JsRunsInBodies ==
    ASSUME TypeOK, Stacked, NEW t \in Threads, JsRuns(t)
    PROVE  /\ stack[t] \in Seq(Calls) /\ Len(stack[t]) \in Nat /\ Len(stack[t]) + 1 <= MaxDepth
           /\ \A i \in 1 .. Len(stack[t]) : call[stack[t][i]].step = "body"
<1>1. stack[t] \in Seq(Calls) /\ Len(stack[t]) \in Nat /\ MaxDepth \in Nat
  BY BoundaryAssumption DEF TypeOK
<1>2. Len(stack[t]) + 1 <= MaxDepth
  BY <1>1 DEF JsRuns
<1>3. stack[t] = <<>> \/ call[stack[t][Len(stack[t])]].step = "body"
  BY TopRuns DEF JsRuns, At
<1>4. \A i \in 1 .. Len(stack[t]) : call[stack[t][i]].step = "body"
  BY <1>1, <1>3 DEF Stacked
<1> QED  BY <1>1, <1>2, <1>4

\* The new call is on top of its thread's stack.
LEMMA EnterStacked ==
    ASSUME TypeOK, Stacked, NEW t \in Threads, JsRuns(t), NEW c \in Calls, ~Running(c),
           stack' = [stack EXCEPT ![t] = Append(@, c)], Running(c)',
           \A d \in Calls : d # c => call'[d] = call[d]
    PROVE  Stacked'
<1>1. /\ stack[t] \in Seq(Calls) /\ Len(stack[t]) \in Nat
      /\ \A i \in 1 .. Len(stack[t]) : call[stack[t][i]].step = "body"
  BY JsRunsInBodies
<1>2. \A u \in Threads : stack[u] \in Seq(Calls) /\ Len(stack[u]) \in Nat
  BY DEF TypeOK
<1>3. \A u \in Threads : \A i \in 1 .. Len(stack[u]) : stack[u][i] \in Calls /\ stack[u][i] # c
  BY <1>2 DEF Stacked
<1>4. stack'[t] = Append(stack[t], c) /\ \A u \in Threads : u # t => stack'[u] = stack[u]
  BY DEF TypeOK
<1>5. /\ Len(stack'[t]) = Len(stack[t]) + 1 /\ stack'[t][Len(stack[t]) + 1] = c
      /\ \A i \in 1 .. Len(stack[t]) : stack'[t][i] = stack[t][i]
  BY <1>1, <1>4
<1>6. \A i \in 1 .. Len(stack'[t]) : i \in 1 .. Len(stack[t]) \/ i = Len(stack[t]) + 1
  BY <1>1, <1>5
<1>7. ASSUME NEW u \in Threads, NEW v \in Threads, NEW i \in 1 .. Len(stack'[u]),
             NEW j \in 1 .. Len(stack'[v]), stack'[u][i] = stack'[v][j]
      PROVE  u = v /\ i = j
  <2>1. CASE u = t /\ i = Len(stack[t]) + 1
    BY <1>3, <1>4, <1>5, <1>6, <1>7, <2>1
  <2>2. CASE v = t /\ j = Len(stack[t]) + 1
    BY <1>3, <1>4, <1>5, <1>6, <1>7, <2>2
  <2>3. CASE ~(u = t /\ i = Len(stack[t]) + 1) /\ ~(v = t /\ j = Len(stack[t]) + 1)
    <3>1. /\ i \in 1 .. Len(stack[u]) /\ stack'[u][i] = stack[u][i]
          /\ j \in 1 .. Len(stack[v]) /\ stack'[v][j] = stack[v][j]
      BY <1>4, <1>5, <1>6, <2>3
    <3> QED  BY <1>7, <3>1 DEF Stacked
  <2> QED  BY <2>1, <2>2, <2>3
<1>8. ASSUME NEW u \in Threads, NEW i \in 1 .. Len(stack'[u])
      PROVE  /\ call'[stack'[u][i]].step \notin {"unused", "done"}
             /\ i < Len(stack'[u]) => call'[stack'[u][i]].step = "body"
  <2>1. CASE u = t /\ i = Len(stack[t]) + 1
    BY <1>1, <1>5, <2>1 DEF Running
  <2>2. CASE u = t /\ i \in 1 .. Len(stack[t])
    BY <1>1, <1>3, <1>5, <2>2
  <2>3. CASE u # t
    BY <1>3, <1>4, <2>3 DEF Stacked, Running
  <2> QED  BY <1>6, <2>1, <2>2, <2>3
<1>9. ASSUME NEW d \in Calls, call'[d].step \notin {"unused", "done"}
      PROVE  \E u \in Threads : \E i \in 1 .. Len(stack'[u]) : stack'[u][i] = d
  <2>1. CASE d = c
    BY <1>1, <1>5, <2>1
  <2>2. CASE d # c
    <3>1. PICK u \in Threads : \E i \in 1 .. Len(stack[u]) : stack[u][i] = d
      BY <1>9, <2>2 DEF Stacked, Running
    <3>2. PICK i \in 1 .. Len(stack[u]) : stack[u][i] = d
      BY <3>1
    <3>3. i \in 1 .. Len(stack'[u]) /\ stack'[u][i] = d
      BY <1>1, <1>2, <1>4, <1>5, <3>2
    <3> QED  BY <3>3
  <2> QED  BY <2>1, <2>2
<1> QED  BY <1>7, <1>8, <1>9 DEF Stacked, Running

\* The step keeps everything else: nobody knew of the call.
LEMMA Entered ==
    ASSUME BInv, NEW t \in Threads, JsRuns(t), NEW op \in Ops, NEW class \in Classes \cup {NONE},
           NEW obj \in Calls \cup {NONE}, NEW s \in ShimSteps, Enter(t, op, class, obj, s),
           StepOf(op, s), s \notin {"get", "insert", "release"},
           op \in {"new", "method", "field", "release"} => class \in Classes,
           op \in {"method", "field", "release"} => obj \in Calls /\ wrapper[obj] # NONE,
           op = "release" => class = call[obj].class /\ s = "claim",
           UNCHANGED <<claim, tables, lastError, raised>>,
           wrapper' \in [Calls -> {NONE, "held", "released", "collected"}],
           \A o \in Calls : wrapper'[o] # NONE <=> wrapper[o] # NONE,
           \A o \in Calls : wrapper'[o] # wrapper[o] => op = "release" /\ obj = o
    PROVE  BInv'
<1> USE DEF BInv
<1>1. PICK c \in Calls : /\ c = made + 1 /\ made' = c
                         /\ stack' = [stack EXCEPT ![t] = Append(@, c)]
                         /\ call' = [call EXCEPT ![c] = [NoCall EXCEPT !.op = op, !.class = class,
                                                                      !.obj = obj, !.step = s]]
  <2>1. made \in 0 .. MaxCalls /\ MaxCalls \in Nat /\ made < MaxCalls /\ made' = made + 1
    BY CallsFinite DEF TypeOK, Enter
  <2>2. made + 1 \in Calls
    BY <2>1 DEF Calls
  <2>3. stack' = [stack EXCEPT ![t] = Append(@, made')]
    BY DEF Enter
  <2>4. call' = [call EXCEPT ![made'] = [NoCall EXCEPT !.op = op, !.class = class, !.obj = obj, !.step = s]]
    BY DEF Enter
  <2> QED  BY <2>1, <2>2, <2>3, <2>4
<1> DEFINE r == [NoCall EXCEPT !.op = op, !.class = class, !.obj = obj, !.step = s]
<1>2. /\ r.op = op /\ r.class = class /\ r.obj = obj /\ r.step = s
      /\ r.arc = NONE /\ r.status = "Ok" /\ r \in CallRecords
  BY DEF NoCall, CallRecords, ShimSteps
<1>3. call \in [Calls -> CallRecords] /\ made \in Nat /\ Calls \subseteq Nat /\ NONE \notin Calls
  BY CallsFinite DEF TypeOK, CallRecords
<1>4. call'[c] = r /\ (\A d \in Calls : d # c => call'[d] = call[d]) /\ call' \in [Calls -> CallRecords]
  BY <1>1, <1>2, <1>3
<1>5. /\ call[c] = NoCall /\ raised[c] = NONE /\ wrapper[c] = NONE /\ c > made
      /\ call[c].op = "func" /\ call[c].step = "unused" /\ call[c].arc = NONE
  BY <1>1, <1>3 DEF Unmade, NoCall
<1> HIDE DEF r
<1>6. Stacked'
  <2>1. ~Running(c) /\ Running(c)'
    BY <1>2, <1>4, <1>5 DEF Running, ShimSteps
  <2> QED  BY <1>1, <1>4, <2>1, EnterStacked
<1>7. TypeOK'
  <2>1. stack' \in [Threads -> Seq(Calls)] /\ \A u \in Threads : Len(stack'[u]) <= MaxDepth
    <3>1. stack[t] \in Seq(Calls) /\ Len(stack[t]) \in Nat /\ Len(stack[t]) + 1 <= MaxDepth
      BY JsRunsInBodies
    <3>2. stack \in [Threads -> Seq(Calls)] /\ \A u \in Threads : Len(stack[u]) <= MaxDepth
      BY DEF TypeOK
    <3>3. Append(stack[t], c) \in Seq(Calls) /\ Len(Append(stack[t], c)) = Len(stack[t]) + 1
      BY <3>1
    <3> QED  BY <1>1, <3>1, <3>2, <3>3
  <2>2. made' \in 0 .. MaxCalls
    BY <1>1, CallsFinite DEF Calls
  <2> QED  BY <1>4, <2>1, <2>2 DEF TypeOK, CallRecords, tables
<1>8. Unmade'
  <2>1. ASSUME NEW d \in Calls, d > c PROVE call'[d] = NoCall /\ raised'[d] = NONE /\ wrapper'[d] = NONE
    <3>1. d # c /\ d > made
      BY <1>1, <1>3, <2>1
    <3> QED  BY <1>4, <3>1 DEF Unmade
  <2>2. ASSUME NEW d \in Calls, ~(d > c) PROVE call'[d].step # "unused"
    <3>1. d = c \/ ~(d > made)
      BY <1>1, <1>3, <2>2
    <3>2. s # "unused"
      BY DEF ShimSteps
    <3> QED  BY <1>2, <1>4, <3>1, <3>2 DEF Unmade
  <2> QED  BY <1>1, <2>1, <2>2 DEF Unmade
<1>9. \A o \in Calls : wrapper[o] # NONE => o # c /\ call'[o] = call[o]
  BY <1>4, <1>5
<1>10. CallsShaped'
  <2> SUFFICES ASSUME NEW d \in Calls PROVE Shaped(call[d])'
    BY DEF CallsShaped
  <2>1. CASE d = c
    <3>1. op \in {"method", "field", "release"} => wrapper'[obj] # NONE /\ call'[obj].class = call[obj].class
      BY <1>9
    <3> QED  BY <1>2, <1>4, <2>1, <3>1 DEF Shaped
  <2>2. CASE d # c
    <3>1. Shaped(call[d]) /\ call'[d] = call[d] /\ claim' = claim
      BY <1>4, <2>2 DEF CallsShaped
    <3>2. call[d].op \in {"method", "field", "release"} =>
              wrapper'[call[d].obj] # NONE /\ call'[call[d].obj].class = call[call[d].obj].class
      BY <1>9, <3>1 DEF Shaped
    <3> QED  BY <3>1, <3>2 DEF Shaped
  <2> QED  BY <2>1, <2>2
<1>11. Ended'
  BY <1>4, <1>5 DEF Ended
<1>12. Holding'
  <2> SUFFICES ASSUME NEW d \in Calls, NEW o \in Calls, call'[d].arc = o
               PROVE  /\ call'[d].op \in {"method", "field"} /\ call'[d].step \in {"body", "tail"}
                      /\ call'[d].class = call'[o].class /\ claim'[call'[d].class] = "owns"
                      /\ call'[o].op = "new" /\ call'[o].step \in {"return", "done"} /\ call'[o].status = "Ok"
    BY <1>4 DEF Holding, CallRecords
  <2>1. d # c /\ call[d].arc = o /\ o # NONE
    BY <1>2, <1>3, <1>4
  <2>2. /\ call[d].op \in {"method", "field"} /\ call[d].step \in {"body", "tail"}
        /\ call[d].class = call[o].class /\ claim[call[d].class] = "owns"
        /\ call[o].op = "new" /\ call[o].step \in {"return", "done"} /\ call[o].status = "Ok"
    BY <2>1 DEF Holding
  <2>3. o # c
    BY <1>5, <2>2
  <2> QED  BY <1>4, <2>1, <2>2, <2>3
<1>13. Counted'
  <2>1. \A d \in Calls : call'[d].arc = call[d].arc
    BY <1>2, <1>4, <1>5
  <2>2. \A o \in Calls : Holders(o)' = Holders(o) /\ InTable(o)' = InTable(o)
    BY <2>1 DEF Holders, InTable, tables
  <2> QED  BY <2>2 DEF Counted, tables
<1>14. ObjectsKept'
  <2> SUFFICES ASSUME NEW o \in objects
               PROVE  /\ call'[o].op = "new" /\ claim'[call'[o].class] = "owns"
                      /\ call'[o].step \in {"return", "done"} /\ call'[o].status = "Ok"
                      /\ call'[o].step = "done" => wrapper'[o] # NONE
                      /\ wrapper'[o] \in {"released", "collected"} => Releasing(o)'
    BY DEF ObjectsKept, tables
  <2>1. o \in Calls /\ o # c /\ call'[o] = call[o]
    BY <1>4, <1>5 DEF TypeOK, ObjectsKept
  <2>2. ASSUME wrapper'[o] \in {"released", "collected"} PROVE Releasing(o)'
    <3>1. CASE wrapper'[o] = wrapper[o]
      <4>1. PICK d \in Calls : /\ call[d].op = "release" /\ call[d].obj = o
                               /\ call[d].step \in {"claim", "release"}
        BY <2>2, <3>1 DEF ObjectsKept, Releasing
      <4> QED  BY <1>4, <1>5, <4>1 DEF Releasing
    <3>2. CASE wrapper'[o] # wrapper[o]
      BY <1>2, <1>4, <2>1, <3>2 DEF Releasing
    <3> QED  BY <3>1, <3>2
  <2> QED  BY <2>1, <2>2 DEF ObjectsKept
<1>15. Waiting'
  <2>1. buffers \subseteq Calls /\ c \notin buffers /\ errors \subseteq Calls /\ c \notin errors
    BY <1>5 DEF TypeOK, Waiting
  <2> QED  BY <1>4, <2>1 DEF Waiting, tables
<1>16. OwnError'
  <2>1. stack[t] \in Seq(Calls) /\ stack' = [stack EXCEPT ![t] = Append(stack[t], c)]
    BY <1>1 DEF TypeOK
  <2>2. Last(stack'[t]) = c /\ \A u \in Threads : u # t => stack'[u] = stack[u]
    BY <2>1 DEF TypeOK, Last
  <2>3. ASSUME NEW u \in Threads, stack'[u] # <<>>, call'[Last(stack'[u])].step = "return",
               call'[Last(stack'[u])].status # "Ok"
        PROVE  lastError'[u] = Last(stack'[u])
    <3>1. u # t
      BY <1>2, <1>4, <2>2, <2>3 DEF ShimSteps
    <3>2. stack'[u] = stack[u] /\ Top(u) \in Calls /\ Running(Top(u)) /\ lastError' = lastError
      BY <2>2, <2>3, <3>1, TopRuns
    <3>3. call'[Top(u)] = call[Top(u)]
      BY <1>4, <1>5, <3>2 DEF Running
    <3> QED  BY <2>3, <3>2, <3>3 DEF OwnError, At, Top
  <2> QED  BY <2>3 DEF OwnError, At, Top
<1> QED  BY <1>6, <1>7, <1>8, <1>10, <1>11, <1>12, <1>13, <1>14, <1>15, <1>16

\* A call from JS, a callback or the finalizer.
LEMMA CallStep ==
    ASSUME BInv, NEW t \in Threads,
           \/ \E k \in Classes : CallNew(t, k)
           \/ \E k \in Classes, o \in Calls : CallMember(t, k, o)
           \/ CallFunction(t)
    PROVE  BInv'
<1>1. wrapper \in [Calls -> {NONE, "held", "released", "collected"}]
  BY DEF BInv, TypeOK
<1>2. ASSUME NEW k \in Classes, CallNew(t, k) PROVE BInv'
  <2>1. JsRuns(t) /\ Enter(t, "new", k, NONE, "convert") /\ UNCHANGED <<claim, tables, lastError, wrapper, raised>>
    BY <1>2 DEF CallNew
  <2> QED  BY <1>1, <2>1, Entered DEF Ops, ShimSteps, StepOf
<1>3. ASSUME NEW k \in Classes, NEW o \in Calls, CallMember(t, k, o) PROVE BInv'
  <2>1. JsRuns(t) /\ wrapper[o] # NONE /\ UNCHANGED <<claim, tables, lastError, wrapper, raised>>
    BY <1>3 DEF CallMember
  <2>2. CASE Enter(t, "method", k, o, "convert")
    BY <1>1, <2>1, <2>2, Entered DEF Ops, ShimSteps, StepOf
  <2>3. CASE Enter(t, "field", k, o, "claim")
    BY <1>1, <2>1, <2>3, Entered DEF Ops, ShimSteps, StepOf
  <2> QED  BY <1>3, <2>2, <2>3 DEF CallMember
<1>4. ASSUME CallFunction(t) PROVE BInv'
  <2>1. JsRuns(t) /\ UNCHANGED <<claim, tables, lastError, wrapper, raised>>
    BY <1>4 DEF CallFunction
  <2>2. CASE Enter(t, "func", NONE, NONE, "convert")
    BY <1>1, <2>1, <2>2, Entered DEF Ops, ShimSteps, StepOf
  <2>3. CASE Enter(t, "next", NONE, NONE, "body")
    BY <1>1, <2>1, <2>3, Entered DEF Ops, ShimSteps, StepOf
  <2> QED  BY <1>4, <2>2, <2>3 DEF CallFunction
<1> QED  BY <1>2, <1>3, <1>4

LEMMA CallReleaseStep ==
    ASSUME BInv, NEW t \in Threads, NEW o \in Calls, CallRelease(t, o) \/ Finalize(t, o) PROVE BInv'
<1>1. PICK w \in {"released", "collected"} : wrapper' = [wrapper EXCEPT ![o] = w]
  BY DEF CallRelease, Finalize
<1>2. /\ wrapper[o] \in {"held", "released"} /\ Enter(t, "release", call[o].class, o, "claim")
      /\ UNCHANGED <<claim, tables, lastError, raised>>
  BY DEF CallRelease, Finalize
<1>3. JsRuns(t)
  <2>1. stack[t] = <<>> => Len(stack[t]) < MaxDepth
    BY BoundaryAssumption
  <2> QED  BY <2>1 DEF CallRelease, Finalize, JsRuns
<1>4. call[o].class \in Classes
  <2>1. wrapper[o] # NONE
    BY <1>2, BoundaryAssumption
  <2>2. call[o].op = "new" /\ Shaped(call[o])
    BY <2>1 DEF BInv, Ended, CallsShaped
  <2> QED  BY <2>2 DEF Shaped
<1>5. /\ wrapper' \in [Calls -> {NONE, "held", "released", "collected"}]
      /\ \A p \in Calls : wrapper'[p] # NONE <=> wrapper[p] # NONE
      /\ \A p \in Calls : wrapper'[p] # wrapper[p] => p = o
      /\ wrapper[o] # NONE
  BY <1>1, <1>2, BoundaryAssumption DEF BInv, TypeOK
<1> QED  BY <1>2, <1>3, <1>4, <1>5, Entered DEF Ops, ShimSteps, StepOf

-----------------------------------------------------------------------------
(* The loader *)

\* What is left of a stack whose innermost call is gone.
LEMMA FrontElements ==
    ASSUME NEW S, NEW s \in Seq(S), s # <<>>
    PROVE  /\ Front(s) \in Seq(S) /\ Len(s) \in Nat \ {0} /\ Len(Front(s)) = Len(s) - 1
           /\ \A i \in 1 .. Len(s) - 1 : Front(s)[i] = s[i]
<1>1. Len(s) \in Nat \ {0} /\ \A i \in 1 .. Len(s) - 1 : s[i] \in S
  OBVIOUS
<1> DEFINE n == Len(s) - 1
<1>2. n \in Nat /\ \A i \in 1 .. n : s[i] \in S
  BY <1>1
<1> HIDE DEF n
<1>3. /\ SubSeq(s, 1, n) \in Seq(S) /\ Len(SubSeq(s, 1, n)) = IF 1 <= n THEN n - 1 + 1 ELSE 0
      /\ \A i \in 1 .. n - 1 + 1 : SubSeq(s, 1, n)[i] = s[1 + i - 1]
  BY <1>2, SubSeqProperties
<1>4. /\ SubSeq(s, 1, n) \in Seq(S) /\ Len(SubSeq(s, 1, n)) = n
      /\ \A i \in 1 .. n : SubSeq(s, 1, n)[i] = s[i]
  BY <1>2, <1>3
<1> QED  BY <1>1, <1>4 DEF Front, n

\* The innermost call of a thread is over: it leaves its stack.
Popped(t, c) ==
    /\ stack' \in [Threads -> Seq(Calls)] /\ \A u \in Threads : Len(stack'[u]) <= Len(stack[u])
    /\ \A u \in Threads : \A i \in 1 .. Len(stack'[u]) :
         i \in 1 .. Len(stack[u]) /\ stack'[u][i] = stack[u][i] /\ stack[u][i] # c
    /\ \A i \in 1 .. Len(stack'[t]) : call'[stack'[t][i]].step = "body"

LEMMA DoneStacked ==
    ASSUME TypeOK, Stacked, NEW t \in Threads, stack[t] # <<>>, NEW c \in Calls, c = Top(t),
           stack' = [stack EXCEPT ![t] = Front(@)], call'[c].step = "done",
           \A d \in Calls : d # c => call'[d] = call[d]
    PROVE  Stacked' /\ Popped(t, c)
<1>1. /\ stack[t] \in Seq(Calls) /\ Front(stack[t]) \in Seq(Calls) /\ Len(stack[t]) \in Nat \ {0}
      /\ Len(Front(stack[t])) = Len(stack[t]) - 1
      /\ \A i \in 1 .. Len(stack[t]) - 1 : Front(stack[t])[i] = stack[t][i]
  <2>1. stack[t] \in Seq(Calls)
    BY DEF TypeOK
  <2> QED  BY <2>1, FrontElements
<1>2. \A u \in Threads : stack[u] \in Seq(Calls) /\ Len(stack[u]) \in Nat
  BY DEF TypeOK
<1>3. \A u \in Threads : \A i \in 1 .. Len(stack[u]) : stack[u][i] \in Calls
  BY <1>2
<1>4. stack'[t] = Front(stack[t]) /\ \A u \in Threads : u # t => stack'[u] = stack[u]
  BY DEF TypeOK
<1>5. /\ stack' \in [Threads -> Seq(Calls)] /\ Len(stack'[t]) = Len(stack[t]) - 1
      /\ \A i \in 1 .. Len(stack'[t]) : i \in 1 .. Len(stack[t]) /\ i < Len(stack[t]) /\ stack'[t][i] = stack[t][i]
  BY <1>1, <1>4 DEF TypeOK
<1>6. /\ c = stack[t][Len(stack[t])] /\ Len(stack[t]) \in 1 .. Len(stack[t])
  BY <1>1, TopRuns
<1>7. \A u \in Threads : \A i \in 1 .. Len(stack'[u]) :
          i \in 1 .. Len(stack[u]) /\ stack'[u][i] = stack[u][i] /\ stack[u][i] # c
  <2> TAKE u \in Threads
  <2> TAKE i \in 1 .. Len(stack'[u])
  <2>1. CASE u = t
    BY <1>2, <1>5, <1>6, <2>1 DEF Stacked
  <2>2. CASE u # t
    BY <1>4, <1>6, <2>2 DEF Stacked
  <2> QED  BY <2>1, <2>2
<1>8. \A u \in Threads : Len(stack'[u]) \in Nat /\ Len(stack'[u]) <= Len(stack[u])
  BY <1>1, <1>2, <1>4, <1>5
<1>9. \A u, v \in Threads : \A i \in 1 .. Len(stack'[u]), j \in 1 .. Len(stack'[v]) :
          stack'[u][i] = stack'[v][j] => u = v /\ i = j
  BY <1>7 DEF Stacked
<1>10. ASSUME NEW u \in Threads, NEW i \in 1 .. Len(stack'[u])
       PROVE  /\ call'[stack'[u][i]].step \notin {"unused", "done"}
              /\ i < Len(stack'[u]) \/ u = t => call'[stack'[u][i]].step = "body"
  <2>1. /\ i \in 1 .. Len(stack[u]) /\ stack'[u][i] = stack[u][i] /\ stack[u][i] # c /\ stack[u][i] \in Calls
        /\ call'[stack[u][i]] = call[stack[u][i]]
    BY <1>3, <1>7
  <2>2. i < Len(stack'[u]) \/ u = t => i < Len(stack[u])
    BY <1>2, <1>5, <1>8, <2>1
  <2>3. /\ call[stack[u][i]].step \notin {"unused", "done"}
        /\ i < Len(stack[u]) => call[stack[u][i]].step = "body"
    BY <2>1 DEF Stacked, Running
  <2> QED  BY <2>1, <2>2, <2>3
<1>11. ASSUME NEW d \in Calls, call'[d].step \notin {"unused", "done"}
       PROVE  \E u \in Threads : \E i \in 1 .. Len(stack'[u]) : stack'[u][i] = d
  <2>1. d # c /\ Running(d)
    BY <1>11 DEF Running
  <2>2. PICK u \in Threads : \E i \in 1 .. Len(stack[u]) : stack[u][i] = d
    BY <2>1 DEF Stacked
  <2>3. PICK i \in 1 .. Len(stack[u]) : stack[u][i] = d
    BY <2>2
  <2>4. CASE u = t
    <3>1. i # Len(stack[t])
      BY <1>6, <2>1, <2>3, <2>4
    <3>2. i \in 1 .. Len(stack'[t])
      BY <1>1, <1>5, <2>4, <3>1
    <3> QED  BY <1>7, <2>3, <2>4, <3>2
  <2>5. CASE u # t
    BY <1>4, <2>3, <2>5
  <2> QED  BY <2>4, <2>5
<1>12. Stacked'
  BY <1>9, <1>10, <1>11 DEF Stacked, Running
<1> QED  BY <1>5, <1>7, <1>8, <1>10, <1>12 DEF Popped

\* The loader hands the outcome on, and leaves nothing of the call in the two
\* runtime tables.  A constructor that succeeded gets its wrapper.
LEMMA Finished ==
    ASSUME BInv, NEW t \in Threads, stack[t] # <<>>, NEW c \in Calls, c = Top(t),
           call[c].step \in {"return", "read", "throw"},
           NEW error \in Calls \cup {NONE, GENERIC}, Done(t, error),
           UNCHANGED <<made, claim, objects, strong>>,
           buffers' \subseteq buffers, c \notin buffers', errors' \subseteq errors, c \notin errors',
           lastError' \in [Threads -> Calls \cup {NONE}],
           \A u \in Threads : u # t => lastError'[u] = lastError[u],
           \/ wrapper' = wrapper /\ c \notin objects
           \/ wrapper' = [wrapper EXCEPT ![c] = "held"] /\ call[c].op = "new"
    PROVE  BInv'
<1> USE DEF BInv
<1>1. call' = [call EXCEPT ![c].step = "done"] /\ raised' = [raised EXCEPT ![c] = error]
      /\ stack' = [stack EXCEPT ![t] = Front(@)]
  BY DEF Done
<1>2. Moved(c) /\ call'[c].step = "done" /\ call'[c].status = call[c].status /\ call'[c].arc = call[c].arc
  BY <1>1, GotoMoves DEF Steps
<1>3. \A d \in Calls : d # c => call'[d] = call[d]
  BY <1>2 DEF Moved
<1>4. \A d \in Calls : /\ call'[d].class = call[d].class /\ call'[d].op = call[d].op
                       /\ call'[d].obj = call[d].obj /\ call'[d].arc = call[d].arc
                       /\ call'[d].status = call[d].status
  BY <1>2, <1>3 DEF Moved
<1>5. /\ Stacked' /\ stack' \in [Threads -> Seq(Calls)]
      /\ \A u \in Threads : Len(stack'[u]) <= Len(stack[u])
      /\ \A u \in Threads : \A i \in 1 .. Len(stack'[u]) :
           i \in 1 .. Len(stack[u]) /\ stack'[u][i] = stack[u][i] /\ stack[u][i] # c
      /\ \A i \in 1 .. Len(stack'[t]) : call'[stack'[t][i]].step = "body"
  <2>1. TypeOK /\ Stacked
    OBVIOUS
  <2>2. Stacked' /\ Popped(t, c)
    BY <1>1, <1>2, <1>3, <2>1, DoneStacked
  <2> QED  BY <2>2 DEF Popped
<1>6. /\ raised \in [Calls -> Calls \cup {NONE, GENERIC}]
      /\ raised' \in [Calls -> Calls \cup {NONE, GENERIC}]
      /\ \A d \in Calls : d # c => raised'[d] = raised[d]
  BY <1>1 DEF TypeOK
<1>7. /\ wrapper' \in [Calls -> {NONE, "held", "released", "collected"}]
      /\ \A d \in Calls : d # c => wrapper'[d] = wrapper[d]
      /\ \/ wrapper'[c] = wrapper[c] /\ c \notin objects
         \/ wrapper'[c] = "held" /\ call[c].op = "new"
      /\ wrapper[c] = NONE
  <2>1. wrapper \in [Calls -> {NONE, "held", "released", "collected"}] /\ wrapper[c] = NONE
    BY DEF TypeOK, Ended
  <2> QED  BY <2>1
<1>8. \A d \in Calls : wrapper[d] # NONE => wrapper'[d] # NONE
  BY <1>7
<1>9. TypeOK'
  <2>1. \A u \in Threads : Len(stack'[u]) <= MaxDepth
    BY <1>5, BoundaryAssumption DEF TypeOK
  <2>3. /\ buffers' \subseteq Calls /\ Cardinality(buffers') <= BufferSlots
        /\ errors' \subseteq Calls /\ Cardinality(errors') <= ErrorSlots
    BY TablesShrink, BoundaryAssumption DEF TypeOK
  <2>4. call' \in [Calls -> CallRecords]
    BY <1>2 DEF Moved
  <2> QED  BY <1>5, <1>6, <1>7, <2>1, <2>3, <2>4 DEF TypeOK, CallRecords
<1>10. Unmade'
  <2>1. ~(c > made)
    BY DEF Unmade, NoCall
  <2> QED  BY <1>2, <1>3, <1>6, <1>7, <2>1 DEF Unmade
<1>11. CallsShaped'
  <2> SUFFICES ASSUME NEW d \in Calls PROVE Shaped(call[d])'
    BY DEF CallsShaped
  <2>1. Shaped(call[d])
    BY DEF CallsShaped
  <2>2. call'[d].step = call[d].step \/ call'[d].step = "done"
    BY <1>2, <1>3
  <2>3. call[d].obj \in Calls => call'[call[d].obj].class = call[call[d].obj].class
    BY <1>4
  <2>4. call[d].obj \in Calls /\ wrapper[call[d].obj] # NONE => wrapper'[call[d].obj] # NONE
    BY <1>8
  <2> QED  BY <1>4, <2>1, <2>2, <2>3, <2>4 DEF Shaped
<1>12. Ended'
  BY <1>2, <1>3, <1>4, <1>6, <1>7 DEF Ended
<1>13. Holding'
  <2> SUFFICES ASSUME NEW d \in Calls, NEW o \in Calls, call'[d].arc = o
               PROVE  /\ call'[d].op \in {"method", "field"} /\ call'[d].step \in {"body", "tail"}
                      /\ call'[d].class = call'[o].class /\ claim'[call'[d].class] = "owns"
                      /\ call'[o].op = "new" /\ call'[o].step \in {"return", "done"} /\ call'[o].status = "Ok"
    BY <1>2 DEF Holding, Moved, CallRecords
  <2>1. call[d].arc = o /\ o # NONE
    BY <1>4, CallsFinite
  <2>2. /\ call[d].op \in {"method", "field"} /\ call[d].step \in {"body", "tail"}
        /\ call[d].class = call[o].class /\ claim[call[d].class] = "owns"
        /\ call[o].op = "new" /\ call[o].step \in {"return", "done"} /\ call[o].status = "Ok"
    BY <2>1 DEF Holding
  <2>3. d # c /\ call'[d] = call[d] /\ call'[o].step \in {"return", "done"}
    BY <1>2, <1>3, <2>2
  <2> QED  BY <1>4, <2>2, <2>3
<1>14. Counted'
  BY <1>2, SameCounted
<1>15. ObjectsKept'
  <2> SUFFICES ASSUME NEW o \in objects
               PROVE  /\ call'[o].op = "new" /\ claim'[call'[o].class] = "owns"
                      /\ call'[o].step \in {"return", "done"} /\ call'[o].status = "Ok"
                      /\ call'[o].step = "done" => wrapper'[o] # NONE
                      /\ wrapper'[o] \in {"released", "collected"} => Releasing(o)'
    BY DEF ObjectsKept
  <2>1. o \in Calls
    BY DEF TypeOK
  <2>2. Releasing(o) => Releasing(o)'
    BY <1>3 DEF Releasing
  <2>3. CASE o = c
    BY <1>2, <1>4, <1>7, <2>1, <2>3, BoundaryAssumption DEF ObjectsKept
  <2>4. CASE o # c
    BY <1>3, <1>7, <2>1, <2>2, <2>4 DEF ObjectsKept
  <2> QED  BY <2>3, <2>4
<1>16. Waiting'
  <2>1. buffers \subseteq Calls /\ errors \subseteq Calls
    BY DEF TypeOK
  <2> QED  BY <1>3, <1>6, <2>1 DEF Waiting
<1>17. OwnError'
  <2> SUFFICES ASSUME NEW u \in Threads, stack'[u] # <<>>, call'[Last(stack'[u])].step = "return",
                      call'[Last(stack'[u])].status # "Ok"
               PROVE  lastError'[u] = Last(stack'[u])
    BY DEF OwnError, At, Top
  <2>1. Len(stack'[u]) \in Nat \ {0} /\ Last(stack'[u]) = stack'[u][Len(stack'[u])]
    BY <1>5 DEF Last
  <2>2. u # t
    BY <1>5, <2>1
  <2>3. stack'[u] = stack[u] /\ Top(u) \in Calls /\ Top(u) # c
    BY <1>1, <2>2, TopRuns DEF TypeOK
  <2>4. call'[Top(u)] = call[Top(u)]
    BY <1>3, <2>3
  <2> QED  BY <2>2, <2>3, <2>4 DEF OwnError, At, Top
<1> QED  BY <1>5, <1>9, <1>10, <1>11, <1>12, <1>13, <1>14, <1>15, <1>16, <1>17

\* The loader reads a buffer or an error before it goes on.
LEMMA Turned ==
    ASSUME BInv, NEW t \in Threads, stack[t] # <<>>, NEW c \in Calls, c = Top(t),
           NEW s \in {"read", "throw"}, call[c].step = "return", Goto(t, s),
           UNCHANGED <<stack, made, claim, objects, strong, buffers, wrapper>>,
           c \notin objects, s = "throw" => c \notin buffers, call[c].op = "new" => call[c].status # "Ok",
           \/ errors' = errors /\ raised' = raised
           \/ /\ s = "throw" /\ errors' = errors \cup {c} /\ Cardinality(errors) < ErrorSlots
              /\ raised' = [raised EXCEPT ![c] = c],
           lastError' \in [Threads -> Calls \cup {NONE}],
           \A u \in Threads : u # t => lastError'[u] = lastError[u]
    PROVE  BInv'
<1> USE DEF BInv
<1>1. Moved(c) /\ call'[c].step = s /\ call'[c].status = call[c].status /\ call'[c].arc = call[c].arc
  BY GotoMoves DEF Goto, Steps
<1>2. \A d \in Calls : d # c => call'[d] = call[d]
  BY <1>1 DEF Moved
<1>3. \A d \in Calls : /\ call'[d].class = call[d].class /\ call'[d].op = call[d].op
                       /\ call'[d].obj = call[d].obj /\ call'[d].arc = call[d].arc
                       /\ call'[d].status = call[d].status
  BY <1>1, <1>2 DEF Moved
<1>4. /\ raised \in [Calls -> Calls \cup {NONE, GENERIC}]
      /\ raised' \in [Calls -> Calls \cup {NONE, GENERIC}]
      /\ \A d \in Calls : d # c => raised'[d] = raised[d]
      /\ raised[c] = NONE
      /\ raised'[c] = raised[c] \/ s = "throw"
  <2>1. raised \in [Calls -> Calls \cup {NONE, GENERIC}]
    BY DEF TypeOK
  <2>2. raised[c] = NONE
    BY DEF Ended
  <2>3. CASE raised' = raised
    BY <2>1, <2>2, <2>3
  <2>4. CASE raised' = [raised EXCEPT ![c] = c] /\ s = "throw"
    BY <2>1, <2>2, <2>4
  <2> QED  BY <2>3, <2>4
<1>5. c \notin errors /\ errors \subseteq Calls /\ buffers \subseteq Calls
  BY DEF Waiting, TypeOK
<1>6. Stacked'
  <2>1. Moved(Top(t)) /\ TypeOK /\ Stacked
    BY <1>1
  <2>2. Running(Top(t))'
    BY <1>1 DEF Running, Top
  <2> QED  BY <2>1, <2>2, StackedKept
<1>7. TypeOK'
  <2>1. errors' \subseteq Calls /\ Cardinality(errors') <= ErrorSlots
    <3>1. Cardinality(errors) <= ErrorSlots /\ ErrorSlots \in Nat
      BY BoundaryAssumption DEF TypeOK
    <3>2. CASE errors' = errors
      BY <1>5, <3>1, <3>2
    <3>3. CASE errors' = errors \cup {c} /\ Cardinality(errors) < ErrorSlots
      <4>1. errors \cup {c} \subseteq Calls /\ Cardinality(errors \cup {c}) <= ErrorSlots
        BY <1>5, <3>1, <3>3, RoomForOne
      <4> QED  BY <3>3, <4>1
    <3> QED  BY <3>2, <3>3
  <2>2. call' \in [Calls -> CallRecords]
    BY <1>1 DEF Moved
  <2> QED  BY <1>4, <2>1, <2>2 DEF TypeOK, CallRecords
<1>8. Unmade'
  <2>1. ~(c > made)
    BY DEF Unmade, NoCall
  <2> QED  BY <1>1, <1>2, <1>4, <2>1 DEF Unmade
<1>9. CallsShaped'
  <2> SUFFICES ASSUME NEW d \in Calls PROVE Shaped(call[d])'
    BY DEF CallsShaped
  <2>1. Shaped(call[d])
    BY DEF CallsShaped
  <2>2. call'[d].step = call[d].step \/ call'[d].step \in {"read", "throw"}
    BY <1>1, <1>2
  <2>3. call[d].obj \in Calls => call'[call[d].obj].class = call[call[d].obj].class
    BY <1>3
  <2> QED  BY <1>3, <2>1, <2>2, <2>3 DEF Shaped
<1>10. Ended'
  BY <1>1, <1>2, <1>3, <1>4 DEF Ended
<1>11. Holding'
  <2> SUFFICES ASSUME NEW d \in Calls, NEW o \in Calls, call'[d].arc = o
               PROVE  /\ call'[d].op \in {"method", "field"} /\ call'[d].step \in {"body", "tail"}
                      /\ call'[d].class = call'[o].class /\ claim'[call'[d].class] = "owns"
                      /\ call'[o].op = "new" /\ call'[o].step \in {"return", "done"} /\ call'[o].status = "Ok"
    BY <1>1 DEF Holding, Moved, CallRecords
  <2>1. call[d].arc = o /\ o # NONE
    BY <1>3, CallsFinite
  <2>2. /\ call[d].op \in {"method", "field"} /\ call[d].step \in {"body", "tail"}
        /\ call[d].class = call[o].class /\ claim[call[d].class] = "owns"
        /\ call[o].op = "new" /\ call[o].step \in {"return", "done"} /\ call[o].status = "Ok"
    BY <2>1 DEF Holding
  <2>3. d # c /\ call'[d] = call[d]
    BY <1>2, <2>2
  <2>4. o # c
    BY <2>2
  <2> QED  BY <1>2, <2>2, <2>3, <2>4
<1>12. Counted'
  BY <1>1, SameCounted
<1>13. ObjectsKept'
  <2> SUFFICES ASSUME NEW o \in objects
               PROVE  /\ call'[o].op = "new" /\ claim'[call'[o].class] = "owns"
                      /\ call'[o].step \in {"return", "done"} /\ call'[o].status = "Ok"
                      /\ call'[o].step = "done" => wrapper'[o] # NONE
                      /\ wrapper'[o] \in {"released", "collected"} => Releasing(o)'
    BY DEF ObjectsKept
  <2>1. o \in Calls /\ o # c
    BY DEF TypeOK
  <2>2. Releasing(o) => Releasing(o)'
    BY <1>2 DEF Releasing
  <2> QED  BY <1>2, <2>1, <2>2 DEF ObjectsKept
<1>14. Waiting'
  <2>1. \A d \in buffers : /\ call'[d].step \in {"return", "read"} /\ call'[d].status = "Ok"
                            /\ call'[d].op # "new"
    BY <1>1, <1>2, <1>3, <1>5 DEF Waiting
  <2>2. \A e \in errors : call'[e].step = "throw" /\ raised'[e] = e
    BY <1>2, <1>4, <1>5 DEF Waiting
  <2>3. c \in errors' => call'[c].step = "throw" /\ raised'[c] = c
    BY <1>1, <1>4, <1>5
  <2> QED  BY <2>1, <2>2, <2>3 DEF Waiting
<1>15. OwnError'
  <2> SUFFICES ASSUME NEW u \in Threads, stack[u] # <<>>, call'[Top(u)].step = "return",
                      call'[Top(u)].status # "Ok"
               PROVE  lastError'[u] = Top(u)
    BY DEF OwnError, At, Top
  <2>1. Top(u) \in Calls /\ (u # t => Top(u) # c)
    BY TopRuns
  <2>2. u # t
    BY <1>1
  <2> QED  BY <1>2, <2>1, <2>2 DEF OwnError, At
<1> QED  BY <1>6, <1>7, <1>8, <1>9, <1>10, <1>11, <1>12, <1>13, <1>14, <1>15

LEMMA SucceedStep == ASSUME BInv, NEW t \in Threads, Succeed(t) PROVE BInv'
<1> USE DEF BInv
<1>1. PICK c \in Calls : c = Top(t) /\ stack[t] # <<>> /\ call[c].step = "return" /\ call[c].status = "Ok"
  BY TopRuns DEF Succeed, At
<1>2. /\ UNCHANGED <<made, claim, objects, strong, buffers, errors, lastError>>
      /\ wrapper' = [wrapper EXCEPT ![c] = IF call[c].op = "new" THEN "held" ELSE @]
  BY <1>1 DEF Succeed, tables
<1>3. c \notin errors /\ (c \in objects => call[c].op = "new") /\ (c \in buffers => call[c].op # "new")
  BY <1>1 DEF Waiting, ObjectsKept
<1>4. lastError' \in [Threads -> Calls \cup {NONE}] /\ \A u \in Threads : lastError'[u] = lastError[u]
  BY <1>2 DEF TypeOK
<1>5. call[c].op # "new" => wrapper' = wrapper
  BY <1>2 DEF TypeOK
<1>6. CASE c \in buffers
  <2>1. Goto(t, "read") /\ UNCHANGED <<stack, raised>>
    BY <1>1, <1>6 DEF Succeed
  <2> QED  BY <1>1, <1>2, <1>3, <1>4, <1>5, <1>6, <2>1, Turned
<1>7. CASE c \notin buffers
  <2>1. Done(t, NONE)
    BY <1>1, <1>7 DEF Succeed
  <2>2. \/ wrapper' = wrapper /\ c \notin objects
        \/ wrapper' = [wrapper EXCEPT ![c] = "held"] /\ call[c].op = "new"
    BY <1>2, <1>3, <1>5
  <2> QED  BY <1>1, <1>2, <1>3, <1>4, <1>7, <2>1, <2>2, Finished
<1> QED  BY <1>6, <1>7

\* The other ends of a call.
LEMMA EndStep ==
    ASSUME BInv, NEW t \in Threads, ReadBuffer(t) \/ LeaveError(t) \/ Throw(t)
    PROVE  BInv'
<1> USE DEF BInv
<1>1. PICK c \in Calls : c = Top(t) /\ stack[t] # <<>> /\ call[c].step \in {"return", "read", "throw"}
  BY TopRuns DEF ReadBuffer, LeaveError, Throw, At
<1>2. /\ UNCHANGED <<made, claim, objects, strong, lastError, wrapper>>
      /\ lastError' \in [Threads -> Calls \cup {NONE}] /\ \A u \in Threads : lastError'[u] = lastError[u]
  BY DEF ReadBuffer, LeaveError, Throw, tables, TypeOK
<1>3. CASE ReadBuffer(t)
  <2>1. Done(t, NONE) /\ buffers' = buffers \ {c} /\ errors' = errors /\ call[c].step = "read"
    BY <1>1, <1>3 DEF ReadBuffer, At
  <2>2. c \notin errors /\ c \notin objects
    BY <2>1 DEF Waiting, ObjectsKept
  <2> QED  BY <1>1, <1>2, <2>1, <2>2, Finished
<1>4. CASE LeaveError(t)
  <2>1. call[c].step = "return" /\ call[c].status # "Ok"
    BY <1>1, <1>4 DEF LeaveError, At
  <2>2. c \notin errors /\ c \notin buffers /\ c \notin objects
    BY <2>1 DEF Waiting, ObjectsKept
  <2>3. PICK error \in {NONE, GENERIC} : Done(t, error) /\ buffers' = buffers /\ errors' = errors
    BY <1>4 DEF LeaveError, tables
  <2> QED  BY <1>1, <1>2, <2>2, <2>3, Finished
<1>5. CASE Throw(t)
  <2>1. call[c].step = "throw" /\ Done(t, raised[c]) /\ errors' = errors \ {raised[c]} /\ buffers' = buffers
    BY <1>1, <1>5 DEF Throw, At
  <2>2. c \notin errors' /\ c \notin buffers /\ c \notin objects
    BY <2>1 DEF Waiting, ObjectsKept
  <2>3. raised[c] \in Calls \cup {NONE, GENERIC}
    BY DEF TypeOK
  <2> QED  BY <1>1, <1>2, <2>1, <2>2, <2>3, Finished
<1> QED  BY <1>3, <1>4, <1>5

\* bffi_error_take_last: the slot of the thread holds the error of this call.
LEMMA TakesOwnError ==
    ASSUME BInv, NEW t \in Threads, TakeError(t)
    PROVE  \E c \in Calls :
             /\ c = Top(t) /\ stack[t] # <<>> /\ call[c].step = "return" /\ call[c].status # "Ok"
             /\ lastError' = [lastError EXCEPT ![t] = NONE]
             /\ UNCHANGED <<made, claim, objects, strong, buffers, wrapper>>
             /\ \/ /\ Cardinality(errors) < ErrorSlots /\ errors' = errors \cup {c}
                   /\ raised' = [raised EXCEPT ![c] = c] /\ Goto(t, "throw") /\ UNCHANGED stack
                \/ Cardinality(errors) = ErrorSlots /\ Done(t, GENERIC) /\ UNCHANGED errors
<1> USE DEF BInv
<1>1. PICK c \in Calls : c = Top(t) /\ stack[t] # <<>> /\ call[c].step = "return" /\ call[c].status # "Ok"
  BY TopRuns DEF TakeError, At
<1>2. lastError[t] = c /\ c # NONE
  BY <1>1, CallsFinite DEF OwnError, At
<1>3. /\ lastError' = [lastError EXCEPT ![t] = NONE]
      /\ UNCHANGED <<made, claim, objects, strong, buffers, wrapper>>
  BY DEF TakeError
<1>4. CASE Cardinality(errors) < ErrorSlots
  <2>1. /\ errors' = errors \cup {c} /\ raised' = [raised EXCEPT ![c] = c]
        /\ Goto(t, "throw") /\ UNCHANGED stack
    BY <1>1, <1>2, <1>4 DEF TakeError
  <2> QED  BY <1>1, <1>3, <1>4, <2>1
<1>5. CASE ~(Cardinality(errors) < ErrorSlots)
  <2>1. Done(t, GENERIC) /\ UNCHANGED errors
    BY <1>1, <1>2, <1>5 DEF TakeError
  <2>2. errors \subseteq Calls /\ Cardinality(errors) <= ErrorSlots /\ ErrorSlots \in Nat
    BY BoundaryAssumption DEF TypeOK
  <2>3. Cardinality(errors) \in Nat
    BY <2>2, CallsFinite, FS_Subset, FS_CardinalityType
  <2>4. Cardinality(errors) = ErrorSlots
    BY <1>5, <2>2, <2>3
  <2> QED  BY <1>1, <1>3, <2>1, <2>4
<1> QED  BY <1>4, <1>5

LEMMA TakeErrorStep == ASSUME BInv, NEW t \in Threads, TakeError(t) PROVE BInv'
<1> USE DEF BInv
<1>1. PICK c \in Calls :
             /\ c = Top(t) /\ stack[t] # <<>> /\ call[c].step = "return" /\ call[c].status # "Ok"
             /\ lastError' = [lastError EXCEPT ![t] = NONE]
             /\ UNCHANGED <<made, claim, objects, strong, buffers, wrapper>>
             /\ \/ /\ Cardinality(errors) < ErrorSlots /\ errors' = errors \cup {c}
                   /\ raised' = [raised EXCEPT ![c] = c] /\ Goto(t, "throw") /\ UNCHANGED stack
                \/ Cardinality(errors) = ErrorSlots /\ Done(t, GENERIC) /\ UNCHANGED errors
  BY TakesOwnError
<1>2. c \notin errors /\ c \notin buffers /\ c \notin objects
  BY <1>1 DEF Waiting, ObjectsKept
<1>3. /\ lastError' \in [Threads -> Calls \cup {NONE}]
      /\ \A u \in Threads : u # t => lastError'[u] = lastError[u]
  BY <1>1 DEF TypeOK
<1>4. CASE errors' = errors \cup {c} /\ Goto(t, "throw")
  BY <1>1, <1>2, <1>3, <1>4, Turned
<1>5. CASE Done(t, GENERIC) /\ UNCHANGED errors
  BY <1>1, <1>2, <1>3, <1>5, Finished
<1> QED  BY <1>1, <1>4, <1>5

-----------------------------------------------------------------------------
(* The invariant of the specification *)

LEMMA InitBInv == Init => BInv
<1> SUFFICES ASSUME Init PROVE BInv
  OBVIOUS
<1> USE DEF Init
<1>1. \A c \in Calls : /\ call[c].op = "func" /\ call[c].step = "unused" /\ call[c].arc = NONE
                       /\ call[c].status = "Ok" /\ call[c] = NoCall /\ wrapper[c] = NONE /\ raised[c] = NONE
  BY DEF NoCall
<1>2. TypeOK
  <2>1. NoCall \in CallRecords
    BY DEF NoCall, CallRecords, Ops
  <2>2. /\ stack \in [Threads -> Seq(Calls)] /\ \A t \in Threads : Len(stack[t]) <= MaxDepth
        /\ made \in 0 .. MaxCalls
    BY BoundaryAssumption
  <2>3. Cardinality({}) <= BufferSlots /\ Cardinality({}) <= ErrorSlots
    BY FS_EmptySet, BoundaryAssumption
  <2> QED  BY <2>1, <2>2, <2>3 DEF TypeOK, CallRecords
<1>3. Stacked
  BY <1>1 DEF Stacked, Running
<1>4. Unmade /\ Ended /\ Holding /\ ObjectsKept /\ Waiting /\ OwnError
  <2>1. \A c \in Calls : c > made
    BY DEF Calls
  <2> QED  BY <1>1, <2>1 DEF Unmade, Ended, Holding, ObjectsKept, Waiting, OwnError, At
<1>5. CallsShaped
  BY <1>1 DEF CallsShaped, Shaped, StepOf
<1>6. Counted
  <2>1. \A o \in Calls : Holders(o) = {}
    BY <1>1, CallsFinite DEF Holders
  <2>2. \A o \in Calls : strong[o] = 0 /\ InTable(o) = 0 /\ Cardinality(Holders(o)) = 0
    BY <2>1, FS_EmptySet DEF InTable
  <2> QED  BY <2>2 DEF Counted
<1> QED  BY <1>2, <1>3, <1>4, <1>5, <1>6 DEF BInv

LEMMA NextBInv == BInv /\ [Next]_vars => BInv'
<1> SUFFICES ASSUME BInv, [Next]_vars PROVE BInv'
  OBVIOUS
<1>1. CASE Next
  <2>1. PICK t \in Threads :
          \/ \E k \in Classes : CallNew(t, k)
          \/ \E k \in Classes, o \in Calls : CallMember(t, k, o)
          \/ \E o \in Calls : CallRelease(t, o) \/ Finalize(t, o)
          \/ CallFunction(t)
          \/ Convert(t) \/ Claim(t) \/ Get(t) \/ Body(t) \/ Insert(t) \/ Release(t) \/ StoreBytes(t)
          \/ Succeed(t) \/ ReadBuffer(t) \/ LeaveError(t) \/ TakeError(t) \/ Throw(t)
    BY <1>1 DEF Next
  <2>2. CASE \/ \E k \in Classes : CallNew(t, k)
             \/ \E k \in Classes, o \in Calls : CallMember(t, k, o)
             \/ CallFunction(t)
    BY <2>2, CallStep
  <2>3. CASE \E o \in Calls : CallRelease(t, o) \/ Finalize(t, o)
    BY <2>3, CallReleaseStep
  <2>4. CASE \/ Convert(t) \/ Claim(t) \/ Get(t) \/ Body(t)
             \/ Insert(t) \/ Release(t) \/ StoreBytes(t)
    BY <2>4, ConvertStep, ClaimStep, GetStep, BodyStep, InsertStep, ReleaseStep, StoreBytesStep
  <2>5. CASE Succeed(t) \/ ReadBuffer(t) \/ LeaveError(t) \/ TakeError(t) \/ Throw(t)
    BY <2>5, SucceedStep, EndStep, TakeErrorStep
  <2> QED  BY <2>1, <2>2, <2>3, <2>4, <2>5
<1>2. CASE UNCHANGED vars
  <2>1. UNCHANGED <<stack, made, call, claim, objects, strong, buffers, errors, lastError, wrapper, raised>>
    BY <1>2 DEF vars, tables
  <2>2. TypeOK' /\ Stacked' /\ Unmade' /\ Ended'
    BY <2>1 DEF BInv, TypeOK, Stacked, Running, Unmade, Ended
  <2>3. CallsShaped'
    BY <2>1 DEF BInv, CallsShaped, Shaped
  <2>4. Holding' /\ Waiting' /\ OwnError'
    BY <2>1 DEF BInv, Holding, Waiting, OwnError, At, Top
  <2>5. Counted' /\ ObjectsKept'
    BY <2>1 DEF BInv, Counted, Holders, InTable, ObjectsKept, Releasing
  <2> QED  BY <2>2, <2>3, <2>4, <2>5 DEF BInv
<1> QED  BY <1>1, <1>2

\* Every variable keeps its type: no count goes below zero, and the runtime tables
\* stay within their capacity.
THEOREM TypeCorrect == Spec => []TypeOK
<1>1. BInv => TypeOK
  BY DEF BInv
<1> QED  BY <1>1, InitBInv, NextBInv, PTL DEF Spec

\* An object's strong count is the table's reference and one for each body that runs
\* on it, and those bodies are of its own class: a method keeps what it runs on alive
\* through every release, by a callback, the finalizer or another thread.
THEOREM MethodsHoldObjects == Spec => []MethodHoldsItsObject
<1>1. BInv => MethodHoldsItsObject
  <2> SUFFICES ASSUME BInv, NEW o \in Calls
               PROVE  /\ strong[o] = Cardinality(Holders(o)) + (IF o \in objects THEN 1 ELSE 0)
                      /\ \A c \in Holders(o) : call[c].class = call[o].class /\ claim[call[c].class] = "owns"
    BY DEF MethodHoldsItsObject, Holders
  <2>1. strong[o] = Cardinality(Holders(o)) + (IF o \in objects THEN 1 ELSE 0)
    BY DEF BInv, Counted, InTable
  <2>2. ASSUME NEW c \in Calls, call[c].arc = o
        PROVE  call[c].class = call[o].class /\ claim[call[c].class] = "owns"
    BY <2>2, CallsFinite DEF BInv, Holding
  <2> QED  BY <2>1, <2>2 DEF Holders
<1> QED  BY <1>1, InitBInv, NextBInv, PTL DEF Spec

\* A buffer, a drained error and an object each have somebody who is about to let it
\* go, or a wrapper whose finalizer will.
THEOREM TablesDrain == Spec => []NothingLeaks
<1>1. BInv => NothingLeaks
  <2> SUFFICES ASSUME BInv PROVE NothingLeaks
    OBVIOUS
  <2> USE DEF BInv
  <2> DEFINE running == UNION {ToSet(stack[t]) : t \in Threads}
  <2>1. ASSUME NEW c \in Calls, Running(c) PROVE c \in running
    <3>1. PICK t \in Threads : \E i \in 1 .. Len(stack[t]) : stack[t][i] = c
      BY <2>1 DEF Stacked
    <3>2. c \in ToSet(stack[t])
      BY <3>1 DEF ToSet, TypeOK
    <3> QED  BY <3>2
  <2>2. buffers \subseteq Calls /\ errors \subseteq Calls /\ objects \subseteq Calls
    BY DEF TypeOK
  <2>3. \A c \in buffers : c \in running /\ call[c].step \in {"return", "read"}
    BY <2>1, <2>2 DEF Waiting, Running
  <2>4. \A e \in errors : \E c \in running : call[c].step = "throw" /\ raised[c] = e
    BY <2>1, <2>2 DEF Waiting, Running
  <2>5. ASSUME NEW o \in objects
        PROVE  \/ wrapper[o] = "held"
               \/ o \in running /\ call[o].step = "return"
               \/ \E c \in running : call[c].op = "release" /\ call[c].obj = o
    <3>1. CASE wrapper[o] = NONE
      BY <2>1, <2>2, <3>1 DEF ObjectsKept, Running
    <3>2. CASE wrapper[o] \in {"released", "collected"}
      <4>1. PICK c \in Calls : /\ call[c].op = "release" /\ call[c].obj = o
                               /\ call[c].step \in {"claim", "release"}
        BY <3>2 DEF ObjectsKept, Releasing
      <4> QED  BY <2>1, <4>1 DEF Running
    <3> QED  BY <2>2, <3>1, <3>2 DEF TypeOK
  <2> HIDE DEF running
  <2>6. /\ \A c \in buffers : c \in running /\ call[c].step \in {"return", "read"}
        /\ \A e \in errors : \E c \in running : call[c].step = "throw" /\ raised[c] = e
        /\ \A o \in objects :
              \/ wrapper[o] = "held"
              \/ o \in running /\ call[o].step = "return"
              \/ \E c \in running : call[c].op = "release" /\ call[c].obj = o
    BY <2>3, <2>4, <2>5
  <2> QED  BY <2>6 DEF NothingLeaks, running
<1> QED  BY <1>1, InitBInv, NextBInv, PTL DEF Spec

\* A failed call throws its own error: no step raises the error of another call, and
\* the details are lost only where the code loses them.
THEOREM OwnErrorsOnly == Spec => CallerSeesOwnError
<1> DEFINE A == \A c \in Calls : raised'[c] # raised[c] =>
                 \/ raised'[c] = c
                 \/ raised'[c] = GENERIC /\ (call[c].op = "next" \/ Cardinality(errors) = ErrorSlots)
<1>1. BInv /\ [Next]_vars => [A]_vars
  <2> SUFFICES ASSUME BInv, Next PROVE A
    BY DEF vars
  <2>1. CASE raised' = raised
    BY <2>1
  <2>2. PICK t \in Threads : raised' = raised \/ Succeed(t) \/ ReadBuffer(t) \/ LeaveError(t)
                            \/ TakeError(t) \/ Throw(t)
    BY DEF Next, CallNew, CallMember, CallRelease, Finalize, CallFunction, Convert, Claim, Get, Body,
           Insert, Release, StoreBytes
  <2>3. raised \in [Calls -> Calls \cup {NONE, GENERIC}]
    BY DEF BInv, TypeOK
  <2>4. CASE Succeed(t) \/ ReadBuffer(t) \/ LeaveError(t) \/ Throw(t)
    <3>1. PICK c \in Calls : c = Top(t) /\ call[c].step \in {"return", "read", "throw"}
      BY <2>4, TopRuns DEF BInv, Succeed, ReadBuffer, LeaveError, Throw, At
    <3>2. call[c].step # "throw" => raised[c] = NONE
      BY <3>1 DEF BInv, Ended
    <3>3. \/ raised' = [raised EXCEPT ![c] = NONE] /\ call[c].step # "throw"
          \/ raised' = [raised EXCEPT ![c] = GENERIC] /\ call[c].op = "next"
          \/ raised' = [raised EXCEPT ![c] = raised[c]]
          \/ raised' = raised
      BY <2>4, <3>1 DEF Succeed, ReadBuffer, LeaveError, Throw, Done, At
    <3> QED  BY <2>3, <3>2, <3>3
  <2>5. CASE TakeError(t)
    <3>1. PICK c \in Calls : \/ raised' = [raised EXCEPT ![c] = c]
                             \/ Cardinality(errors) = ErrorSlots /\ raised' = [raised EXCEPT ![c] = GENERIC]
      BY <2>5, TakesOwnError DEF Done
    <3> QED  BY <2>3, <3>1
  <2> QED  BY <2>1, <2>2, <2>4, <2>5
<1> QED  BY <1>1, InitBInv, NextBInv, PTL DEF Spec, CallerSeesOwnError
=============================================================================
