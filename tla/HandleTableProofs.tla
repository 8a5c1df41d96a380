-------------------------- MODULE HandleTableProofs --------------------------
(***************************************************************************)
(* Theorems about the handle table for every number of threads, every      *)
(* capacity, generation width and index width: first its memory safety,    *)
(* whether or not handles are passed to remove more than once, then its    *)
(* slots, its counters and the atomic map that it implements.              *)
(*                                                                         *)
(* The retire list stays short because each entry that a drain keeps is    *)
(* protected by a thread that protects no other one (KeptProtected).       *)
(***************************************************************************)
EXTENDS HandleTableRefinement, FiniteSetTheorems, WellFoundedInduction, TLAPS

\* The index an insert is about to pop is a slot, not FREE_END, and the value a
\* remove is about to unlink, or has unlinked, is not null.
InUse ==
    \A t \in Threads :
        /\ pc[t] \in {"pop_next", "pop_cas"} => loc[t].word.top \in Slots
        /\ pc[t] \in {"rem_cas"} \cup UnlinkedPc => loc[t].ptr \in Ptrs

\* A value in a cell is counted, and is in no other cell.
CellsOwn ==
    /\ \A i \in Slots : value[i] # NULL => TABLE \in owners[value[i]]
    /\ \A i, j \in Slots : value[i] # NULL /\ value[i] = value[j] => i = j

\* Until its value is stored, an insert is the only owner of it.
InsertOwns ==
    \A t \in Threads : pc[t] \in InsertPc \ {"publish"} =>
        loc[t].ptr \in Ptrs /\ owners[loc[t].ptr] = {t}

\* A thread that unlinked a value has the table's reference to itself.
UnlinkedOwns ==
    \A t \in Threads : pc[t] \in UnlinkedPc =>
        /\ loc[t].ptr \in Ptrs /\ TABLE \in owners[loc[t].ptr]
        /\ loc[t].ptr \notin retired
        /\ \A i \in Slots : value[i] # loc[t].ptr
        /\ \A u \in Threads : pc[u] \in UnlinkedPc /\ loc[u].ptr = loc[t].ptr => u = t

\* So has the retire list, of which at most one thread drains entries.
RetiredOwns ==
    /\ \A p \in retired : TABLE \in owners[p] /\ \A i \in Slots : value[i] # p
    /\ \A t \in Threads : pc[t] \in {"drain_pick", "drain_scan"} =>
         /\ loc[t].work \subseteq retired
         /\ pc[t] = "drain_scan" => loc[t].entry \in retired \ loc[t].work
         /\ \A u \in Threads : pc[u] \in {"drain_pick", "drain_scan"} => u = t

\* A reader re-validates, and takes its count, under its published hazard.
HazardPublished ==
    \A t \in Threads :
        /\ pc[t] \in {"get_pub", "rem_cas"} => loc[t].ptr \in Ptrs
        /\ pc[t] \in {"get_gen2", "get_val2", "get_inc"} =>
             loc[t].ptr \in Ptrs /\ hazard[t] = loc[t].ptr /\ t \in claimed

\* The value of a validated reader is counted, and no scan has missed, or can
\* miss, the reader's hazard slot: the scanner still has to look at it.
ReaderProtected ==
    \A t \in Threads : pc[t] = "get_inc" =>
        /\ TABLE \in owners[loc[t].ptr]
        /\ \A r \in Threads :
             /\ pc[r] = "rem_unref" => loc[r].ptr # loc[t].ptr
             /\ pc[r] = "rem_scan" /\ loc[r].ptr = loc[t].ptr => t \in loc[r].left
             /\ pc[r] = "drain_scan" /\ loc[r].entry = loc[t].ptr => t \in loc[r].left

TypeInv == TypeOK /\ InUse
MemoryInv ==
    /\ CellsOwn /\ InsertOwns /\ UnlinkedOwns /\ RetiredOwns
    /\ HazardPublished /\ ReaderProtected

-----------------------------------------------------------------------------
(* Type correctness *)

\* The locals of a thread outside of any call, and of one that holds an Arc.
LEMMA RestingLocals ==
  /\ NoLocals \in Locals
  /\ \A p \in Ptrs \cup {NULL} : [NoLocals EXCEPT !.ptr = p] \in Locals
  <1>1. NoLocals \in Locals
    BY TableAssumption DEF NoLocals, Locals, Words, Slots, Links, END
  <1>2. \A p \in Ptrs \cup {NULL} : [NoLocals EXCEPT !.ptr = p] \in Locals
    BY <1>1 DEF Locals
  <1> QED BY <1>1, <1>2

\* Updating fields of the locals with values of their types keeps their type.
LEMMA SetCell == \A l \in Locals, g \in 0 .. MaxGeneration, i \in Slots :
                   [l EXCEPT !.gen = g, !.idx = i] \in Locals
  BY DEF Locals
LEMMA SetIdx == \A l \in Locals, i \in Slots : [l EXCEPT !.idx = i] \in Locals
  BY DEF Locals
LEMMA SetPtr == \A l \in Locals, p \in Ptrs \cup {NULL} : [l EXCEPT !.ptr = p] \in Locals
  BY DEF Locals
LEMMA SetWord == \A l \in Locals, w \in Words : [l EXCEPT !.word = w] \in Locals
  BY DEF Locals
LEMMA SetNext == \A l \in Locals, n \in Links : [l EXCEPT !.next = n] \in Locals
  BY DEF Locals
LEMMA SetLeft == \A l \in Locals, s \in SUBSET Threads : [l EXCEPT !.left = s] \in Locals
  BY DEF Locals
LEMMA SetWork == \A l \in Locals, w \in SUBSET Ptrs : [l EXCEPT !.work = w] \in Locals
  BY DEF Locals
LEMMA SetEntry == \A l \in Locals, p \in Ptrs \cup {NULL} : [l EXCEPT !.entry = p] \in Locals
  BY DEF Locals
LEMMA SetLeftEntry == \A l \in Locals, s \in SUBSET Threads, p \in Ptrs \cup {NULL} :
                        [l EXCEPT !.left = s, !.entry = p] \in Locals
  BY DEF Locals
LEMMA SetScan == \A l \in Locals, w \in SUBSET Ptrs, p \in Ptrs \cup {NULL}, s \in SUBSET Threads :
                   [l EXCEPT !.work = w, !.entry = p, !.left = s] \in Locals
  BY DEF Locals

\* One thread's locals change.
LEMMA LocUpdate ==
  ASSUME TypeOK, NEW t \in Threads, NEW l \in Locals
  PROVE  [loc EXCEPT ![t] = l] \in [Threads -> Locals]
  BY DEF TypeOK

\* The fields of a thread's locals.
Fields(t) ==
  /\ loc[t] \in Locals /\ loc[t].gen \in 0 .. MaxGeneration /\ loc[t].idx \in Slots
  /\ loc[t].ptr \in Ptrs \cup {NULL} /\ loc[t].word \in Words
  /\ loc[t].word.tag \in Nat /\ loc[t].word.top \in Links /\ loc[t].next \in Links
  /\ loc[t].left \in SUBSET Threads /\ loc[t].work \in SUBSET Ptrs
  /\ loc[t].entry \in Ptrs \cup {NULL}

LEMMA LocalsFields == ASSUME TypeOK, NEW t \in Threads PROVE Fields(t)
  BY DEF TypeOK, Locals, Words, Fields

\* The initial state is well typed.
LEMMA TypeInit == Init => TypeInv
  <1> SUFFICES ASSUME Init PROVE TypeInv
    OBVIOUS
  <1>1. loc \in [Threads -> Locals]
    BY RestingLocals DEF Init
  <1>2. free \in Words /\ nextFree \in [Slots -> Links] /\ generation \in [Slots -> 0 .. MaxGeneration]
    BY TableAssumption DEF Init, Words, Links, END
  <1>3. pc \in [Threads -> Pcs]
    BY DEF Init, Resting, Pcs
  <1>4. TypeOK
    BY <1>1, <1>2, <1>3, TableAssumption DEF Init, TypeOK
  <1> QED BY <1>4 DEF Init, InUse, TypeInv, UnlinkedPc

\* Caller steps preserve the types.
LEMMA TypeCaller ==
  ASSUME TypeInv, NEW t \in Threads, Caller(t)
  PROVE  TypeInv'
  <1>1. TypeOK /\ InUse
    BY DEF TypeInv
  <1>2. Fields(t)
    BY <1>1, LocalsFields
  <1>3. CASE CallInsert(t)
    <2>2. loc' \in [Threads -> Locals]
      BY <1>1, <1>3, SetPtr DEF TypeOK, CallInsert, Start
    <2>3. pc' \in [Threads -> Pcs]
      BY <1>1, <1>3 DEF TypeOK, CallInsert, Start, Goto, Pcs, InsertPc, GetPc, RemovePc, UnlinkedPc,
         DrainPc, Resting
    <2>4. TypeOK'
      BY <1>1, <1>3, <2>2, <2>3 DEF TypeOK, CallInsert, Start, cells, index, hazards
    <2>5. InUse'
      BY <1>1, <1>3 DEF TypeOK, InUse, CallInsert, Start, Goto
    <2> QED BY <2>4, <2>5 DEF TypeInv
  <1>4. CASE CallGet(t)
    <2>1. PICK h \in issued : CallWith(t, h, "get_gen")
      BY <1>4 DEF CallGet
    <2>2. h \in Handles /\ h.gen \in 0 .. MaxGeneration /\ h.idx \in Slots
      BY <1>1 DEF TypeOK, Handles
    <2>3. [loc[t] EXCEPT !.gen = h.gen, !.idx = h.idx] \in Locals
      BY <1>2, <2>2, SetCell DEF Fields
    <2>4. loc' \in [Threads -> Locals]
      BY <1>1, <2>1, <2>3, LocUpdate DEF CallWith
    <2>5. pc' \in [Threads -> Pcs]
      BY <1>1, <2>1 DEF TypeOK, CallWith, Start, Goto, Pcs, InsertPc, GetPc, RemovePc, UnlinkedPc,
         DrainPc, Resting
    <2>6. disposed' \in SUBSET Handles
      BY <1>1, <1>4, <2>2 DEF TypeOK, CallWith, CallGet
    <2>7. TypeOK'
      BY <1>1, <2>1, <2>4, <2>5, <2>6 DEF TypeOK, CallWith, Start, cells, index, hazards
    <2>8. InUse'
      BY <1>1, <2>1 DEF InUse, CallWith, Start, Goto, UnlinkedPc
    <2> QED BY <2>7, <2>8 DEF TypeInv
  <1>5. CASE CallRemove(t)
    <2>1. PICK h \in issued : CallWith(t, h, "rem_gen")
      BY <1>5 DEF CallRemove
    <2>2. h \in Handles /\ h.gen \in 0 .. MaxGeneration /\ h.idx \in Slots
      BY <1>1 DEF TypeOK, Handles
    <2>3. [loc[t] EXCEPT !.gen = h.gen, !.idx = h.idx] \in Locals
      BY <1>2, <2>2, SetCell DEF Fields
    <2>4. loc' \in [Threads -> Locals]
      BY <1>1, <2>1, <2>3, LocUpdate DEF CallWith
    <2>5. pc' \in [Threads -> Pcs]
      BY <1>1, <2>1 DEF TypeOK, CallWith, Start, Goto, Pcs, InsertPc, GetPc, RemovePc, UnlinkedPc,
         DrainPc, Resting
    <2>6. disposed' \in SUBSET Handles
      BY <1>1, <1>5 DEF TypeOK, CallRemove
    <2>7. TypeOK'
      BY <1>1, <2>1, <2>4, <2>5, <2>6 DEF TypeOK, CallWith, Start, cells, index, hazards
    <2>8. InUse'
      BY <1>1, <2>1 DEF InUse, CallWith, Start, Goto, UnlinkedPc
    <2> QED BY <2>7, <2>8 DEF TypeInv
  <1>6. CASE DropArc(t)
    <2>2. loc' \in [Threads -> Locals]
      BY <1>1, <1>6, LocUpdate, RestingLocals DEF DropArc, ReturnNothing
    <2>3. pc' \in [Threads -> Pcs]
      BY <1>1, <1>6 DEF TypeOK, DropArc, ReturnNothing, Pcs, InsertPc, GetPc, RemovePc, UnlinkedPc,
         DrainPc, Resting
    <2>4. TypeOK'
      BY <1>1, <1>6, <2>2, <2>3 DEF TypeOK, DropArc, ReturnNothing, cells, index, hazards, client
    <2>5. InUse'
      BY <1>1, <1>6 DEF InUse, UnlinkedPc, DropArc, ReturnNothing
    <2> QED BY <2>4, <2>5 DEF TypeInv
  <1> QED BY <1>3, <1>4, <1>5, <1>6 DEF Caller

\* Insert steps preserve the types.
LEMMA TypeInsert ==
  ASSUME TypeInv, NEW t \in Threads, Insert(t)
  PROVE  TypeInv'
  <1>1. TypeOK /\ InUse
    BY DEF TypeInv
  <1>2. Fields(t)
    BY <1>1, LocalsFields
  <1>3. CASE PopLoad(t)
    <2>2. loc' \in [Threads -> Locals]
      BY <1>1, <1>3, SetWord DEF TypeOK, PopLoad
    <2>3. pc' \in [Threads -> Pcs]
      BY <1>1, <1>3 DEF TypeOK, PopLoad, Goto, Pcs, InsertPc, GetPc, RemovePc, UnlinkedPc, DrainPc,
         Resting
    <2>4. TypeOK'
      BY <1>1, <1>3, <2>2, <2>3 DEF TypeOK, PopLoad, cells, index, hazards, client
    <2>5. InUse'
      BY <1>1, <1>3 DEF TypeOK, InUse, UnlinkedPc, Words, Links, PopLoad, Goto
    <2> QED BY <2>4, <2>5 DEF TypeInv
  <1>4. CASE PopNext(t)
    <2>1. [loc[t] EXCEPT !.next = nextFree[loc[t].word.top]] \in Locals
      BY <1>1, <1>4, SetNext DEF TypeOK, InUse, Goto, PopNext
    <2>2. loc' \in [Threads -> Locals]
      BY <1>1, <1>4, <2>1, LocUpdate DEF PopNext
    <2>3. pc' \in [Threads -> Pcs]
      BY <1>1, <1>4 DEF TypeOK, PopNext, Goto, Pcs, InsertPc, GetPc, RemovePc, UnlinkedPc, DrainPc,
         Resting
    <2>4. TypeOK'
      BY <1>1, <1>4, <2>1, <2>2, <2>3 DEF TypeOK, PopNext, cells, index, hazards, client
    <2>5. InUse'
      BY <1>1, <1>4 DEF InUse, UnlinkedPc, PopNext, Goto
    <2> QED BY <2>4, <2>5 DEF TypeInv
  <1>5. CASE PopCas(t)
    <2>0. loc[t].word.top \in Slots /\ [loc[t] EXCEPT !.idx = loc[t].word.top] \in Locals
      BY <1>1, <1>5, SetIdx DEF TypeOK, InUse, Goto, PopCas
    <2>1. free' \in Words
      BY <1>1, <1>2, <1>5 DEF TypeOK, Fields, Words, PopCas
    <2>2. loc' \in [Threads -> Locals]
      BY <1>1, <1>5, <2>0 DEF TypeOK, PopCas
    <2>3. pc' \in [Threads -> Pcs]
      BY <1>1, <1>5 DEF TypeOK, PopCas, Goto, Pcs, InsertPc, GetPc, RemovePc, UnlinkedPc, DrainPc,
         Resting
    <2>4. TypeOK'
      BY <1>1, <1>5, <2>1, <2>2, <2>3 DEF TypeOK, PopCas, cells, hazards, client
    <2>5. InUse'
      BY <1>1, <1>5 DEF TypeOK, InUse, UnlinkedPc, PopCas, Goto
    <2> QED BY <2>4, <2>5 DEF TypeInv
  <1>6. CASE Fresh(t)
    <2>0. nextIndex < Capacity => [loc[t] EXCEPT !.idx = nextIndex] \in Locals
      <3>1. nextIndex < Capacity => nextIndex \in Slots
        BY <1>1, TableAssumption DEF TypeOK, Slots
      <3> QED BY <1>2, <3>1, SetIdx DEF Fields
    <2>1. nextIndex' \in Nat /\ nextIndex \in Nat /\ owners' \in [Ptrs -> SUBSET (Threads \cup {TABLE})]
      BY <1>1, <1>6, TableAssumption DEF TypeOK, Fresh
    <2>2. loc' \in [Threads -> Locals]
      BY <1>1, <1>6, <2>0, LocUpdate, RestingLocals DEF Fresh, ReturnNothing
    <2>3. pc' \in [Threads -> Pcs]
      BY <1>1, <1>6 DEF TypeOK, Fresh, ReturnNothing, Goto, Pcs, InsertPc, GetPc, RemovePc,
         UnlinkedPc, DrainPc, Resting
    <2>4. TypeOK'
      BY <1>1, <1>6, <2>1, <2>2, <2>3 DEF TypeOK, Fresh, ReturnNothing, cells, hazards, client
    <2>5. InUse'
      BY <1>1, <1>6 DEF TypeOK, InUse, UnlinkedPc, Fresh, ReturnNothing, Goto
    <2> QED BY <2>4, <2>5 DEF TypeInv
  <1>7. CASE Store(t)
    <2>2. loc' \in [Threads -> Locals]
      BY <1>1, <1>7 DEF TypeOK, Store
    <2>3. pc' \in [Threads -> Pcs]
      BY <1>1, <1>7 DEF TypeOK, Store, Goto, Pcs, InsertPc, GetPc, RemovePc, UnlinkedPc, DrainPc,
         Resting
    <2>4. TypeOK'
      BY <1>1, <1>2, <1>7, <2>2, <2>3 DEF TypeOK, Fields, Store, index, hazards, client
    <2>5. InUse'
      BY <1>1, <1>7 DEF InUse, UnlinkedPc, Store, Goto
    <2> QED BY <2>4, <2>5 DEF TypeInv
  <1>8. CASE Publish(t)
    <2>1. [gen |-> generation[loc[t].idx], idx |-> loc[t].idx] \in Handles
      BY <1>1, <1>2, <1>8 DEF TypeOK, Fields, Handles
    <2>2. loc' \in [Threads -> Locals]
      BY <1>1, <1>8, <2>1, LocUpdate, RestingLocals DEF Publish, ReturnNothing
    <2>3. pc' \in [Threads -> Pcs]
      BY <1>1, <1>8 DEF TypeOK, Publish, ReturnNothing, Pcs, InsertPc, GetPc, RemovePc, UnlinkedPc,
         DrainPc, Resting
    <2>4. TypeOK'
      BY <1>1, <1>8, <2>1, <2>2, <2>3 DEF TypeOK, Publish, ReturnNothing, cells, hazards
    <2>5. InUse'
      BY <1>1, <1>8 DEF InUse, UnlinkedPc, Publish, ReturnNothing
    <2> QED BY <2>4, <2>5 DEF TypeInv
  <1> QED BY <1>3, <1>4, <1>5, <1>6, <1>7, <1>8 DEF Insert

\* Get steps preserve the types.
LEMMA TypeGet ==
  ASSUME TypeInv, NEW t \in Threads, Get(t)
  PROVE  TypeInv'
  <1>1. TypeOK /\ InUse
    BY DEF TypeInv
  <1>2. Fields(t)
    BY <1>1, LocalsFields
  <1>3. CASE GetGen(t)
    <2>2. loc' \in [Threads -> Locals]
      BY <1>1, <1>3, RestingLocals DEF TypeOK, GetGen, ReturnNothing
    <2>3. pc' \in [Threads -> Pcs]
      BY <1>1, <1>3 DEF TypeOK, GetGen, ReturnNothing, Goto, Pcs, InsertPc, GetPc, RemovePc,
         UnlinkedPc, DrainPc, Resting
    <2>4. TypeOK'
      BY <1>1, <1>3, <2>2, <2>3 DEF TypeOK, GetGen, ReturnNothing, cells, index, hazards, client
    <2>5. InUse'
      BY <1>1, <1>3 DEF TypeOK, InUse, UnlinkedPc, GetGen, ReturnNothing, Goto
    <2> QED BY <2>4, <2>5 DEF TypeInv
  <1>4. CASE GetVal(t)
    <2>2. loc' \in [Threads -> Locals]
      BY <1>1, <1>2, <1>4, SetPtr, RestingLocals DEF TypeOK, Fields, GetVal, ReturnNothing
    <2>3. pc' \in [Threads -> Pcs]
      BY <1>1, <1>4 DEF TypeOK, GetVal, ReturnNothing, Goto, Pcs, InsertPc, GetPc, RemovePc,
         UnlinkedPc, DrainPc, Resting
    <2>4. TypeOK'
      BY <1>1, <1>4, <2>2, <2>3 DEF TypeOK, GetVal, ReturnNothing, cells, index, hazards, client
    <2>5. InUse'
      BY <1>1, <1>4 DEF TypeOK, InUse, UnlinkedPc, GetVal, ReturnNothing, Goto
    <2> QED BY <2>4, <2>5 DEF TypeInv
  <1>5. CASE GetPublish(t)
    <2>2. loc' \in [Threads -> Locals]
      BY <1>1, <1>5 DEF TypeOK, GetPublish
    <2>3. pc' \in [Threads -> Pcs]
      BY <1>1, <1>5 DEF TypeOK, GetPublish, Goto, Pcs, InsertPc, GetPc, RemovePc, UnlinkedPc,
         DrainPc, Resting
    <2>4. TypeOK'
      BY <1>1, <1>2, <1>5, <2>2, <2>3 DEF TypeOK, Fields, GetPublish, cells, index, client
    <2>5. InUse'
      BY <1>1, <1>5 DEF InUse, UnlinkedPc, GetPublish, Goto
    <2> QED BY <2>4, <2>5 DEF TypeInv
  <1>6. CASE GetGen2(t)
    <2>2. loc' \in [Threads -> Locals]
      BY <1>1, <1>6 DEF TypeOK, GetGen2
    <2>3. pc' \in [Threads -> Pcs]
      BY <1>1, <1>6 DEF TypeOK, GetGen2, Goto, Pcs, InsertPc, GetPc, RemovePc, UnlinkedPc, DrainPc,
         Resting
    <2>4. TypeOK'
      BY <1>1, <1>6, <2>2, <2>3 DEF TypeOK, GetGen2, cells, index, hazards, client
    <2>5. InUse'
      BY <1>1, <1>6 DEF InUse, UnlinkedPc, GetGen2, Goto
    <2> QED BY <2>4, <2>5 DEF TypeInv
  <1>7. CASE GetVal2(t)
    <2>2. loc' \in [Threads -> Locals]
      BY <1>1, <1>7 DEF TypeOK, GetVal2
    <2>3. pc' \in [Threads -> Pcs]
      BY <1>1, <1>7 DEF TypeOK, GetVal2, Goto, Pcs, InsertPc, GetPc, RemovePc, UnlinkedPc, DrainPc,
         Resting
    <2>4. TypeOK'
      BY <1>1, <1>7, <2>2, <2>3 DEF TypeOK, GetVal2, cells, index, hazards, client
    <2>5. InUse'
      BY <1>1, <1>7 DEF InUse, UnlinkedPc, GetVal2, Goto
    <2> QED BY <2>4, <2>5 DEF TypeInv
  <1>8. CASE GetInc(t)
    <2>2. loc' \in [Threads -> Locals]
      BY <1>1, <1>8 DEF TypeOK, GetInc
    <2>3. pc' \in [Threads -> Pcs]
      BY <1>1, <1>8 DEF TypeOK, GetInc, Goto, Pcs, InsertPc, GetPc, RemovePc, UnlinkedPc, DrainPc,
         Resting
    <2>4. TypeOK'
      BY <1>1, <1>8, <2>2, <2>3 DEF TypeOK, GetInc, cells, index, hazards, client
    <2>5. InUse'
      BY <1>1, <1>8 DEF InUse, UnlinkedPc, GetInc, Goto
    <2> QED BY <2>4, <2>5 DEF TypeInv
  <1>9. CASE GetDone(t)
    <2>2. loc' \in [Threads -> Locals]
      BY <1>1, <1>2, <1>9, LocUpdate, RestingLocals DEF Fields, GetDone, ReturnArc
    <2>3. pc' \in [Threads -> Pcs]
      BY <1>1, <1>9 DEF TypeOK, GetDone, ReturnArc, Pcs, InsertPc, GetPc, RemovePc, UnlinkedPc,
         DrainPc, Resting
    <2>4. TypeOK'
      BY <1>1, <1>9, <2>2, <2>3 DEF TypeOK, GetDone, ReturnArc, cells, index, client
    <2>5. InUse'
      BY <1>1, <1>9 DEF InUse, UnlinkedPc, GetDone, ReturnArc
    <2> QED BY <2>4, <2>5 DEF TypeInv
  <1>10. CASE GetRetry(t)
    <2>2. loc' \in [Threads -> Locals]
      BY <1>1, <1>10, SetPtr DEF TypeOK, GetRetry
    <2>3. pc' \in [Threads -> Pcs]
      BY <1>1, <1>10 DEF TypeOK, GetRetry, Goto, Pcs, InsertPc, GetPc, RemovePc, UnlinkedPc,
         DrainPc, Resting
    <2>4. TypeOK'
      BY <1>1, <1>10, <2>2, <2>3 DEF TypeOK, GetRetry, cells, index, client
    <2>5. InUse'
      BY <1>1, <1>10 DEF InUse, UnlinkedPc, GetRetry, Goto
    <2> QED BY <2>4, <2>5 DEF TypeInv
  <1> QED BY <1>3, <1>4, <1>5, <1>6, <1>7, <1>8, <1>9, <1>10 DEF Get

\* Remove steps preserve the types.
LEMMA TypeRemove ==
  ASSUME TypeInv, NEW t \in Threads, Remove(t)
  PROVE  TypeInv'
  <1>1. TypeOK /\ InUse
    BY DEF TypeInv
  <1>2. Fields(t)
    BY <1>1, LocalsFields
  <1>3. CASE RemGen(t)
    <2>2. loc' \in [Threads -> Locals]
      BY <1>1, <1>3, RestingLocals DEF TypeOK, RemGen, ReturnNothing
    <2>3. pc' \in [Threads -> Pcs]
      BY <1>1, <1>3 DEF TypeOK, RemGen, ReturnNothing, Goto, Pcs, InsertPc, GetPc, RemovePc,
         UnlinkedPc, DrainPc, Resting
    <2>4. TypeOK'
      BY <1>1, <1>3, <2>2, <2>3 DEF TypeOK, RemGen, ReturnNothing, cells, index, hazards, client
    <2>5. InUse'
      BY <1>1, <1>3 DEF TypeOK, InUse, UnlinkedPc, RemGen, ReturnNothing, Goto
    <2> QED BY <2>4, <2>5 DEF TypeInv
  <1>4. CASE RemVal(t)
    <2>1. value[loc[t].idx] \in Ptrs \cup {NULL} /\ [loc[t] EXCEPT !.ptr = value[loc[t].idx]] \in Locals
      BY <1>1, <1>2, <1>4, SetPtr DEF TypeOK, Fields
    <2>2. loc' \in [Threads -> Locals]
      BY <1>1, <1>4, <2>1, LocUpdate, RestingLocals DEF RemVal, ReturnNothing
    <2>3. pc' \in [Threads -> Pcs]
      BY <1>1, <1>4 DEF TypeOK, RemVal, ReturnNothing, Goto, Pcs, InsertPc, GetPc, RemovePc,
         UnlinkedPc, DrainPc, Resting
    <2>4. TypeOK'
      BY <1>1, <1>4, <2>1, <2>2, <2>3 DEF TypeOK, RemVal, ReturnNothing, cells, index, hazards,
         client
    <2>5. InUse'
      <3>1. CASE value[loc[t].idx] = NULL
        BY <1>1, <1>4, <3>1 DEF TypeOK, InUse, UnlinkedPc, RemVal, ReturnNothing
      <3>2. CASE value[loc[t].idx] # NULL
        <4>1. loc'[t].ptr \in Ptrs /\ pc'[t] = "rem_cas"
          BY <1>1, <1>4, <2>1, <3>2 DEF TypeOK, Locals, RemVal, Goto
        <4>2. \A u \in Threads : u # t => loc'[u] = loc[u] /\ pc'[u] = pc[u]
          BY <1>1, <1>4, <3>2 DEF TypeOK, RemVal, Goto
        <4> QED BY <1>1, <4>1, <4>2 DEF InUse
      <3> QED BY <3>1, <3>2
    <2> QED BY <2>4, <2>5 DEF TypeInv
  <1>5. CASE RemCas(t)
    <2>1. [loc[t] EXCEPT !.ptr = NULL] \in Locals
      BY <1>2, <1>5, SetPtr DEF Fields
    <2>2. loc' \in [Threads -> Locals]
      BY <1>1, <1>5, <2>1 DEF TypeOK, RemCas
    <2>3. pc' \in [Threads -> Pcs]
      BY <1>1, <1>5 DEF TypeOK, RemCas, Goto, Pcs, InsertPc, GetPc, RemovePc, UnlinkedPc, DrainPc,
         Resting
    <2>4. TypeOK'
      BY <1>1, <1>5, <2>1, <2>2, <2>3 DEF TypeOK, RemCas, index, hazards, client
    <2>5. InUse'
      BY <1>1, <1>5, <2>1 DEF TypeOK, InUse, UnlinkedPc, RemCas, Goto
    <2> QED BY <2>4, <2>5 DEF TypeInv
  <1>6. CASE RemBump(t)
    <2>1. generation' \in [Slots -> 0 .. MaxGeneration]
      BY <1>1, <1>2, <1>6, TableAssumption DEF TypeOK, Fields, RemBump
    <2>2. loc' \in [Threads -> Locals]
      BY <1>1, <1>6, <2>1 DEF TypeOK, RemBump
    <2>3. pc' \in [Threads -> Pcs]
      BY <1>1, <1>6 DEF TypeOK, RemBump, Goto, Pcs, InsertPc, GetPc, RemovePc, UnlinkedPc, DrainPc,
         Resting
    <2>4. TypeOK'
      BY <1>1, <1>6, <2>1, <2>2, <2>3 DEF TypeOK, RemBump, index, hazards, client
    <2>5. InUse'
      BY <1>1, <1>6 DEF TypeOK, InUse, UnlinkedPc, RemBump, Goto
    <2> QED BY <2>4, <2>5 DEF TypeInv
  <1>7. CASE PushLoad(t)
    <2>2. loc' \in [Threads -> Locals]
      BY <1>1, <1>7, SetWord DEF TypeOK, PushLoad
    <2>3. pc' \in [Threads -> Pcs]
      BY <1>1, <1>7 DEF TypeOK, PushLoad, Goto, Pcs, InsertPc, GetPc, RemovePc, UnlinkedPc, DrainPc,
         Resting
    <2>4. TypeOK'
      BY <1>1, <1>7, <2>2, <2>3 DEF TypeOK, PushLoad, cells, index, hazards, client
    <2>5. InUse'
      BY <1>1, <1>7 DEF InUse, UnlinkedPc, PushLoad, Goto
    <2> QED BY <2>4, <2>5 DEF TypeInv
  <1>8. CASE PushNext(t)
    <2>2. loc' \in [Threads -> Locals]
      BY <1>1, <1>8 DEF TypeOK, PushNext
    <2>3. pc' \in [Threads -> Pcs]
      BY <1>1, <1>8 DEF TypeOK, PushNext, Goto, Pcs, InsertPc, GetPc, RemovePc, UnlinkedPc, DrainPc,
         Resting
    <2>4. TypeOK'
      BY <1>1, <1>2, <1>8, <2>2, <2>3 DEF TypeOK, Fields, PushNext, index, hazards, client
    <2>5. InUse'
      BY <1>1, <1>8 DEF InUse, UnlinkedPc, PushNext, Goto
    <2> QED BY <2>4, <2>5 DEF TypeInv
  <1>9. CASE PushCas(t)
    <2>1. free' \in Words
      BY <1>1, <1>2, <1>9 DEF TypeOK, Fields, Words, Links, PushCas
    <2>2. loc' \in [Threads -> Locals]
      BY <1>1, <1>9, <2>1 DEF TypeOK, PushCas
    <2>3. pc' \in [Threads -> Pcs]
      BY <1>1, <1>9 DEF TypeOK, PushCas, Goto, Pcs, InsertPc, GetPc, RemovePc, UnlinkedPc, DrainPc,
         Resting
    <2>4. TypeOK'
      BY <1>1, <1>9, <2>1, <2>2, <2>3 DEF TypeOK, PushCas, cells, hazards, client
    <2>5. InUse'
      BY <1>1, <1>9 DEF TypeOK, InUse, UnlinkedPc, PushCas, Goto
    <2> QED BY <2>4, <2>5 DEF TypeInv
  <1>10. CASE RemInc(t)
    <2>1. live' \in Int /\ owners' \in [Ptrs -> SUBSET (Threads \cup {TABLE})]
      BY <1>1, <1>10 DEF TypeOK, InUse, UnlinkedPc, Goto, RemInc
    <2>2. loc' \in [Threads -> Locals]
      BY <1>1, <1>10, <2>1 DEF TypeOK, RemInc
    <2>3. pc' \in [Threads -> Pcs]
      BY <1>1, <1>10 DEF TypeOK, RemInc, Goto, Pcs, InsertPc, GetPc, RemovePc, UnlinkedPc, DrainPc,
         Resting
    <2>4. TypeOK'
      BY <1>1, <1>10, <2>1, <2>2, <2>3 DEF TypeOK, RemInc, cells, hazards, client
    <2>5. InUse'
      BY <1>1, <1>10 DEF InUse, UnlinkedPc, RemInc, Goto
    <2> QED BY <2>4, <2>5 DEF TypeInv
  <1>11. CASE RemProtected(t)
    <2>2. loc' \in [Threads -> Locals]
      BY <1>1, <1>11, SetLeft DEF TypeOK, RemProtected
    <2>3. pc' \in [Threads -> Pcs]
      BY <1>1, <1>11 DEF TypeOK, RemProtected, Goto, Pcs, InsertPc, GetPc, RemovePc, UnlinkedPc,
         DrainPc, Resting
    <2>4. TypeOK'
      BY <1>1, <1>11, <2>2, <2>3 DEF TypeOK, RemProtected, cells, index, hazards, client
    <2>5. InUse'
      BY <1>1, <1>11 DEF InUse, UnlinkedPc, RemProtected, Goto
    <2> QED BY <2>4, <2>5 DEF TypeInv
  <1>12. CASE RemScan(t)
    <2>1. /\ [loc[t] EXCEPT !.left = {}] \in Locals
          /\ \A u \in loc[t].left : [loc[t] EXCEPT !.left = @ \ {u}] \in Locals
      BY <1>2, <1>12, SetLeft DEF Fields
    <2>2. loc' \in [Threads -> Locals]
      BY <1>1, <1>12, <2>1 DEF TypeOK, RemScan
    <2>3. pc' \in [Threads -> Pcs]
      BY <1>1, <1>12 DEF TypeOK, RemScan, Goto, Pcs, InsertPc, GetPc, RemovePc, UnlinkedPc, DrainPc,
         Resting
    <2>4. TypeOK'
      BY <1>1, <1>12, <2>1, <2>2, <2>3 DEF TypeOK, RemScan, cells, index, hazards, client
    <2>5. InUse'
      <3>1. loc'[t].ptr = loc[t].ptr /\ pc[t] = "rem_scan" /\ pc'[t] \in UnlinkedPc
        BY <1>1, <1>12 DEF TypeOK, Locals, RemScan, Goto, UnlinkedPc
      <3>2. \A u \in Threads : u # t => loc'[u] = loc[u] /\ pc'[u] = pc[u]
        BY <1>1, <1>12 DEF TypeOK, RemScan, Goto
      <3> QED BY <1>1, <3>1, <3>2 DEF InUse, UnlinkedPc
    <2> QED BY <2>4, <2>5 DEF TypeInv
  <1>13. CASE RemDefer(t)
    <2>1. loc[t].ptr \in Ptrs
      BY <1>1, <1>13 DEF InUse, UnlinkedPc, RemDefer, Goto
    <2>2. loc' \in [Threads -> Locals]
      BY <1>1, <1>13, <2>1 DEF TypeOK, RemDefer
    <2>3. pc' \in [Threads -> Pcs]
      BY <1>1, <1>13 DEF TypeOK, RemDefer, Goto, Pcs, InsertPc, GetPc, RemovePc, UnlinkedPc,
         DrainPc, Resting
    <2>4. TypeOK'
      BY <1>1, <1>13, <2>1, <2>2, <2>3 DEF TypeOK, RemDefer, cells, index, hazards, client
    <2>5. InUse'
      BY <1>1, <1>13 DEF InUse, UnlinkedPc, RemDefer, Goto
    <2> QED BY <2>4, <2>5 DEF TypeInv
  <1>14. CASE RemUnref(t)
    <2>2. loc' \in [Threads -> Locals]
      BY <1>1, <1>14 DEF TypeOK, RemUnref
    <2>3. pc' \in [Threads -> Pcs]
      BY <1>1, <1>14 DEF TypeOK, RemUnref, Goto, Pcs, InsertPc, GetPc, RemovePc, UnlinkedPc,
         DrainPc, Resting
    <2>4. TypeOK'
      BY <1>1, <1>14, <2>2, <2>3 DEF TypeOK, RemUnref, cells, index, hazards, client
    <2>5. InUse'
      BY <1>1, <1>14 DEF InUse, UnlinkedPc, RemUnref, Goto
    <2> QED BY <2>4, <2>5 DEF TypeInv
  <1>15. CASE Drain(t)
    <2>1. /\ [loc[t] EXCEPT !.work = retired] \in Locals
          /\ [NoLocals EXCEPT !.ptr = loc[t].ptr] \in Locals
      BY <1>1, <1>2, <1>15, SetWork, RestingLocals DEF Fields, TypeOK
    <2>2. loc' \in [Threads -> Locals]
      BY <1>1, <1>15, <2>1, LocUpdate DEF Drain, ReturnArc
    <2>3. pc' \in [Threads -> Pcs]
      BY <1>1, <1>15 DEF TypeOK, Drain, ReturnArc, Goto, Pcs, InsertPc, GetPc, RemovePc, UnlinkedPc,
         DrainPc, Resting
    <2>4. TypeOK'
      BY <1>1, <1>15, <2>1, <2>2, <2>3 DEF TypeOK, Drain, ReturnArc, cells, index, hazards, client
    <2>5. InUse'
      BY <1>1, <1>15 DEF TypeOK, InUse, UnlinkedPc, Drain, ReturnArc, Goto
    <2> QED BY <2>4, <2>5 DEF TypeInv
  <1>16. CASE DrainPick(t)
    <2>1. /\ [NoLocals EXCEPT !.ptr = loc[t].ptr] \in Locals
          /\ \A e \in loc[t].work :
               [loc[t] EXCEPT !.work = @ \ {e}, !.entry = e, !.left = claimed] \in Locals
      BY <1>1, <1>2, <1>16, SetScan, RestingLocals DEF Fields, TypeOK
    <2>2. loc' \in [Threads -> Locals]
      <3>1. CASE loc[t].work = {}
        BY <1>1, <1>16, <2>1, <3>1, LocUpdate DEF DrainPick, ReturnArc
      <3>2. CASE loc[t].work # {}
        <4>1. PICK e \in loc[t].work : loc' = [loc EXCEPT ![t] =
                     [loc[t] EXCEPT !.work = @ \ {e}, !.entry = e, !.left = claimed]]
          BY <1>16, <3>2 DEF DrainPick
        <4> DEFINE l == [loc[t] EXCEPT !.work = @ \ {e}, !.entry = e, !.left = claimed]
        <4>2. l \in Locals
          BY <2>1
        <4>3. loc' = [loc EXCEPT ![t] = l]
          BY <4>1
        <4> HIDE DEF l
        <4> QED BY <1>1, <4>2, <4>3, LocUpdate
      <3> QED BY <3>1, <3>2
    <2>3. pc' \in [Threads -> Pcs]
      BY <1>1, <1>16 DEF TypeOK, DrainPick, ReturnArc, Goto, Pcs, InsertPc, GetPc, RemovePc,
         UnlinkedPc, DrainPc, Resting
    <2>4. TypeOK'
      BY <1>1, <1>16, <2>1, <2>2, <2>3 DEF TypeOK, DrainPick, ReturnArc, cells, index, hazards,
         client
    <2>5. InUse'
      <3>1. pc'[t] \notin {"pop_next", "pop_cas", "rem_cas"} \cup UnlinkedPc
        BY <1>1, <1>16 DEF TypeOK, DrainPick, ReturnArc, Goto, UnlinkedPc
      <3>2. \A u \in Threads : u # t => loc'[u] = loc[u] /\ pc'[u] = pc[u]
        BY <1>1, <1>16 DEF TypeOK, DrainPick, ReturnArc, Goto
      <3> QED BY <1>1, <3>1, <3>2 DEF InUse
    <2> QED BY <2>4, <2>5 DEF TypeInv
  <1>17. CASE DrainScan(t)
    <2>1. /\ [loc[t] EXCEPT !.entry = NULL] \in Locals
          /\ \A u \in loc[t].left :
               /\ [loc[t] EXCEPT !.left = @ \ {u}] \in Locals
               /\ [loc[t] EXCEPT !.left = {}, !.entry = NULL] \in Locals
      BY <1>2, <1>17, SetLeft, SetEntry, SetLeftEntry DEF Fields
    <2>2. loc' \in [Threads -> Locals]
      <3>1. CASE loc[t].left = {} /\ loc' = [loc EXCEPT ![t].entry = NULL]
        BY <1>1, <2>1, <3>1, LocUpdate
      <3>2. CASE \E u \in loc[t].left :
                   \/ loc' = [loc EXCEPT ![t] = [@ EXCEPT !.left = {}, !.entry = NULL]]
                   \/ loc' = [loc EXCEPT ![t].left = @ \ {u}]
        BY <1>1, <2>1, <3>2, LocUpdate
      <3> QED BY <1>17, <3>1, <3>2 DEF DrainScan
    <2>3. pc' \in [Threads -> Pcs]
      BY <1>1, <1>17 DEF TypeOK, DrainScan, Goto, Pcs, InsertPc, GetPc, RemovePc, UnlinkedPc,
         DrainPc, Resting
    <2>4. TypeOK'
      BY <1>1, <1>17, <2>1, <2>2, <2>3 DEF TypeOK, DrainScan, cells, index, hazards, client
    <2>5. InUse'
      BY <1>1, <1>17, <2>1 DEF TypeOK, InUse, UnlinkedPc, DrainScan, Goto
    <2> QED BY <2>4, <2>5 DEF TypeInv
  <1> QED BY <1>3, <1>4, <1>5, <1>6, <1>7, <1>8, <1>9, <1>10, <1>11, <1>12, <1>13, <1>14, <1>15,
       <1>16, <1>17 DEF Remove

\* Dropping the table preserves the types.
LEMMA TypeDropTable == ASSUME TypeInv, DropTable PROVE TypeInv'
  <1>1. TypeOK /\ InUse
    BY DEF TypeInv
  <1>2. owners' \in [Ptrs -> SUBSET (Threads \cup {TABLE})]
    BY <1>1 DEF DropTable, TypeOK
  <1>3. value' \in [Slots -> Ptrs \cup {NULL}] /\ retired' \in SUBSET Ptrs /\ phase' \in {"alive", "dropped"}
    BY DEF DropTable
  <1>4. TypeOK'
    BY <1>1 DEF TypeOK, DropTable, index, hazards
  <1>5. InUse'
    BY <1>1 DEF InUse, DropTable
  <1> QED BY <1>4, <1>5 DEF TypeInv

\* Every step preserves the types.
LEMMA TypeStep == TypeInv /\ [Next]_vars => TypeInv'
  <1> SUFFICES ASSUME TypeInv, [Next]_vars PROVE TypeInv'
    OBVIOUS
  <1>1. ASSUME NEW t \in Threads, Caller(t) PROVE TypeInv'
    BY <1>1, TypeCaller
  <1>2. ASSUME NEW t \in Threads, Step(t) PROVE TypeInv'
    BY <1>2, TypeInsert, TypeGet, TypeRemove DEF Step
  <1>3. CASE DropTable
    BY <1>3, TypeDropTable
  <1>4. CASE UNCHANGED vars
    BY <1>4 DEF TypeInv, TypeOK, InUse, vars, cells, index, hazards, client
  <1> QED BY <1>1, <1>2, <1>3, <1>4 DEF Next

\* Type correctness of the handle table, for every value of the constants.
THEOREM TypeCorrect == Spec => []TypeOK
  <1>1. Init => TypeInv
    BY TypeInit
  <1>2. TypeInv /\ [Next]_vars => TypeInv'
    BY TypeStep
  <1>3. TypeInv => TypeOK
    BY DEF TypeInv
  <1> QED BY <1>1, <1>2, <1>3, PTL DEF Spec

-----------------------------------------------------------------------------
(* Memory safety: IInv is inductive *)

IInv == TypeInv /\ MemoryInv

\* The parts of the invariant, and what is known of one thread.
LEMMA Parts ==
  ASSUME IInv, NEW t \in Threads
  PROVE  /\ TypeOK /\ InUse /\ Fields(t)
         /\ CellsOwn /\ InsertOwns /\ UnlinkedOwns /\ RetiredOwns
         /\ HazardPublished /\ ReaderProtected
  BY LocalsFields DEF IInv, TypeInv, MemoryInv

\* What a step of thread t leaves alone: the program counters and the locals of
\* the other threads.
Others(t) == \A u \in Threads : u # t => loc'[u] = loc[u] /\ pc'[u] = pc[u]

\* The initial state: no cell holds a value and no thread is in a call.
LEMMA MemoryInit == Init => MemoryInv
  BY DEF Init, MemoryInv, CellsOwn, InsertOwns, UnlinkedOwns, RetiredOwns, HazardPublished,
     ReaderProtected, InsertPc, UnlinkedPc

\* A step that touches no cell, count, hazard or retire list, and takes its
\* thread to no place of which the invariant says anything new.
Quiet(t) ==
  /\ Others(t)
  /\ UNCHANGED <<value, retired, hazards, owners>>
  /\ pc'[t] \in InsertPc \ {"publish"} => pc[t] \in InsertPc \ {"publish"} /\ loc'[t].ptr = loc[t].ptr
  /\ pc'[t] \in UnlinkedPc => pc[t] \in UnlinkedPc /\ loc'[t].ptr = loc[t].ptr
  /\ pc'[t] \in {"get_pub", "rem_cas"} => loc'[t].ptr \in Ptrs
  /\ pc'[t] \in {"get_gen2", "get_val2"} =>
       pc[t] \in {"get_gen2", "get_val2"} /\ loc'[t].ptr = loc[t].ptr
  /\ pc'[t] \notin {"get_inc", "rem_scan", "rem_unref", "drain_pick", "drain_scan"}

LEMMA QuietMemory == ASSUME IInv, NEW t \in Threads, Quiet(t) PROVE MemoryInv'
  <1>1. TypeOK /\ InUse /\ Fields(t) /\ MemoryInv
    BY Parts DEF IInv
  <1>2. CellsOwn'
    BY <1>1 DEF MemoryInv, CellsOwn, Quiet
  <1>3. InsertOwns'
    BY <1>1 DEF MemoryInv, InsertOwns, Quiet, Others
  <1>4. UnlinkedOwns'
    BY <1>1 DEF MemoryInv, UnlinkedOwns, Quiet, Others
  <1>5. RetiredOwns'
    BY <1>1 DEF MemoryInv, RetiredOwns, Quiet, Others
  <1>6. HazardPublished'
    BY <1>1 DEF MemoryInv, HazardPublished, Quiet, Others, hazards
  <1>7. ReaderProtected'
    BY <1>1 DEF MemoryInv, ReaderProtected, Quiet, Others
  <1> QED BY <1>2, <1>3, <1>4, <1>5, <1>6, <1>7 DEF MemoryInv

\* The quiet actions.
LEMMA MemoryQuiet ==
  ASSUME IInv, NEW t \in Threads,
         \/ CallGet(t) \/ CallRemove(t) \/ PopLoad(t) \/ PopNext(t) \/ PopCas(t) \/ Publish(t)
         \/ GetGen(t) \/ GetVal(t) \/ GetGen2(t) \/ RemGen(t) \/ RemVal(t) \/ RemBump(t)
         \/ PushLoad(t) \/ PushNext(t) \/ PushCas(t)
  PROVE  MemoryInv'
  <1>1. TypeOK /\ InUse /\ Fields(t)
    BY Parts
  <1>2. SUFFICES Quiet(t)
    BY QuietMemory
  <1>3. CASE CallGet(t)
    <2>1. Others(t) /\ pc'[t] = "get_gen" /\ UNCHANGED <<value, retired, hazards, owners>>
      BY <1>1, <1>3 DEF CallGet, CallWith, Start, Goto, Others, TypeOK, cells
    <2> QED BY <2>1 DEF Quiet, InsertPc, UnlinkedPc
  <1>4. CASE CallRemove(t)
    <2>1. Others(t) /\ pc'[t] = "rem_gen" /\ UNCHANGED <<value, retired, hazards, owners>>
      BY <1>1, <1>4 DEF CallRemove, CallWith, Start, Goto, Others, TypeOK, cells
    <2> QED BY <2>1 DEF Quiet, InsertPc, UnlinkedPc
  <1>5. CASE PopLoad(t)
    BY <1>5 DEF PopLoad, Goto, Quiet, Others, Locals, cells, InsertPc, UnlinkedPc
  <1>6. CASE PopNext(t)
    BY <1>6 DEF PopNext, Goto, Quiet, Others, Locals, cells, InsertPc, UnlinkedPc
  <1>7. CASE PopCas(t)
    BY <1>1, <1>7 DEF PopCas, Goto, Quiet, Others, TypeOK, Locals, cells, InsertPc, UnlinkedPc
  <1>8. CASE Publish(t)
    BY <1>8 DEF Publish, ReturnNothing, Quiet, Others, Locals, cells, InsertPc, UnlinkedPc
  <1>9. CASE GetGen(t)
    BY <1>1, <1>9 DEF GetGen, ReturnNothing, Goto, Quiet, Others, TypeOK, Locals, cells, InsertPc,
       UnlinkedPc
  <1>10. CASE GetVal(t)
    BY <1>1, <1>10 DEF GetVal, ReturnNothing, Goto, Quiet, Others, TypeOK, Locals, cells, InsertPc,
       UnlinkedPc
  <1>11. CASE GetGen2(t)
    BY <1>11 DEF GetGen2, Goto, Quiet, Others, Locals, cells, InsertPc, UnlinkedPc
  <1>12. CASE RemGen(t)
    BY <1>1, <1>12 DEF RemGen, ReturnNothing, Goto, Quiet, Others, TypeOK, Locals, cells, InsertPc,
       UnlinkedPc
  <1>13. CASE RemVal(t)
    BY <1>1, <1>13 DEF RemVal, ReturnNothing, Goto, Quiet, Others, TypeOK, Locals, cells, InsertPc,
       UnlinkedPc
  <1>14. CASE RemBump(t)
    BY <1>1, <1>14 DEF RemBump, Goto, Quiet, Others, TypeOK, Locals, InsertPc, UnlinkedPc
  <1>15. CASE PushLoad(t)
    BY <1>15 DEF PushLoad, Goto, Quiet, Others, Locals, cells, InsertPc, UnlinkedPc
  <1>16. CASE PushNext(t)
    BY <1>16 DEF PushNext, Goto, Quiet, Others, Locals, InsertPc, UnlinkedPc
  <1>17. CASE PushCas(t)
    BY <1>1, <1>17 DEF PushCas, Goto, Quiet, Others, TypeOK, Locals, cells, InsertPc, UnlinkedPc
  <1> QED BY <1>3, <1>4, <1>5, <1>6, <1>7, <1>8, <1>9, <1>10, <1>11, <1>12, <1>13, <1>14, <1>15,
       <1>16, <1>17

\* An insert begins with a fresh value: nobody else owns its address.
LEMMA MemoryCallInsert == ASSUME IInv, NEW t \in Threads, CallInsert(t) PROVE MemoryInv'
  <1>1. /\ TypeOK /\ InUse /\ Fields(t) /\ CellsOwn /\ InsertOwns /\ UnlinkedOwns
        /\ RetiredOwns /\ HazardPublished /\ ReaderProtected
    BY Parts
  <1>2. pc[t] = "idle" /\ pc'[t] = "pop" /\ Others(t)
    BY <1>1 DEF TypeOK, Others, CallInsert, Start, Goto
  <1>3. PICK p \in Ptrs : /\ owners[p] = {} /\ owners' = [owners EXCEPT ![p] = {t}]
                         /\ loc' = [loc EXCEPT ![t].ptr = p]
    BY DEF CallInsert
  <1>4. CellsOwn'
    BY <1>1 DEF CellsOwn, CallInsert, Start, cells
  <1>5. InsertOwns'
    <2>1. loc'[t].ptr = p /\ owners'[p] = {t}
      BY <1>1, <1>3 DEF TypeOK, Locals
    <2>2. \A u \in Threads : u # t /\ pc[u] \in InsertPc \ {"publish"} => loc[u].ptr # p
      BY <1>1, <1>3 DEF InsertOwns
    <2> QED BY <1>1, <1>2, <1>3, <2>1, <2>2 DEF InsertOwns, Others
  <1>6. UnlinkedOwns'
    BY <1>1, <1>2 DEF UnlinkedOwns, Others, UnlinkedPc, CallInsert, Start, cells
  <1>7. RetiredOwns'
    BY <1>1, <1>2 DEF RetiredOwns, Others, CallInsert, Start, cells
  <1>8. HazardPublished'
    BY <1>1, <1>2 DEF HazardPublished, Others, CallInsert, Start, hazards
  <1>9. ReaderProtected'
    BY <1>1, <1>2 DEF ReaderProtected, Others, CallInsert, Start
  <1> QED BY <1>4, <1>5, <1>6, <1>7, <1>8, <1>9 DEF MemoryInv

\* The caller gives up its own count only.
LEMMA MemoryDropArc == ASSUME IInv, NEW t \in Threads, DropArc(t) PROVE MemoryInv'
  <1>1. /\ TypeOK /\ InUse /\ Fields(t) /\ CellsOwn /\ InsertOwns /\ UnlinkedOwns
        /\ RetiredOwns /\ HazardPublished /\ ReaderProtected
    BY Parts
  <1>2. pc[t] = "held" /\ pc'[t] = "idle" /\ Others(t)
    BY <1>1 DEF TypeOK, Others, DropArc, ReturnNothing
  <1>4. CellsOwn'
    BY <1>1, TableAssumption DEF CellsOwn, DropArc, ReturnNothing, cells
  <1>5. InsertOwns'
    BY <1>1 DEF InsertOwns, InsertPc, DropArc, ReturnNothing
  <1>6. UnlinkedOwns'
    BY <1>1, TableAssumption DEF UnlinkedOwns, UnlinkedPc, DropArc, ReturnNothing, cells
  <1>7. RetiredOwns'
    BY <1>1, TableAssumption DEF RetiredOwns, DropArc, ReturnNothing, cells
  <1>8. HazardPublished'
    BY <1>1 DEF HazardPublished, DropArc, ReturnNothing, hazards
  <1>9. ReaderProtected'
    BY <1>1, TableAssumption DEF ReaderProtected, DropArc, ReturnNothing
  <1> QED BY <1>4, <1>5, <1>6, <1>7, <1>8, <1>9 DEF MemoryInv

\* A failed insert gives up its own count, which nobody shares.
LEMMA MemoryFresh == ASSUME IInv, NEW t \in Threads, Fresh(t) PROVE MemoryInv'
  <1>1. /\ TypeOK /\ InUse /\ Fields(t) /\ CellsOwn /\ InsertOwns /\ UnlinkedOwns
        /\ RetiredOwns /\ HazardPublished /\ ReaderProtected
    BY Parts
  <1>2. pc[t] = "fresh" /\ pc'[t] \in {"store", "idle"} /\ Others(t)
    BY <1>1 DEF TypeOK, Others, Fresh, ReturnNothing, Goto
  <1>3. /\ \A p \in Ptrs : p # loc[t].ptr => owners'[p] = owners[p]
        /\ \A p \in Ptrs : TABLE \in owners[p] => TABLE \in owners'[p]
        /\ pc'[t] = "store" => loc'[t].ptr = loc[t].ptr /\ owners' = owners
    BY <1>1, TableAssumption DEF Fresh, Goto, ReturnNothing, TypeOK, Fields, Locals
  <1>4. CellsOwn'
    BY <1>1, <1>3 DEF CellsOwn, TypeOK, Fresh, ReturnNothing, cells
  <1>5. InsertOwns'
    <2>1. \A u \in Threads : u # t /\ pc[u] \in InsertPc \ {"publish"} => loc[u].ptr # loc[t].ptr
      BY <1>1, <1>2 DEF InsertOwns, InsertPc
    <2> QED BY <1>1, <1>2, <1>3, <2>1 DEF InsertOwns, Others, InsertPc
  <1>6. UnlinkedOwns'
    BY <1>1, <1>2, <1>3 DEF UnlinkedOwns, Others, UnlinkedPc, Fresh, ReturnNothing, cells
  <1>7. RetiredOwns'
    BY <1>1, <1>2, <1>3 DEF RetiredOwns, Others, TypeOK, Fresh, ReturnNothing, cells
  <1>8. HazardPublished'
    BY <1>1, <1>2 DEF HazardPublished, Others, Fresh, ReturnNothing, hazards
  <1>9. ReaderProtected'
    BY <1>1, <1>2, <1>3 DEF ReaderProtected, HazardPublished, Others
  <1> QED BY <1>4, <1>5, <1>6, <1>7, <1>8, <1>9 DEF MemoryInv

\* The cell takes over the only count on the value it is given.
LEMMA MemoryStore == ASSUME IInv, NEW t \in Threads, Store(t) PROVE MemoryInv'
  <1>1. /\ TypeOK /\ InUse /\ Fields(t) /\ CellsOwn /\ InsertOwns /\ UnlinkedOwns
        /\ RetiredOwns /\ HazardPublished /\ ReaderProtected
    BY Parts
  <1>2. pc[t] = "store" /\ pc'[t] = "publish" /\ Others(t)
    BY <1>1 DEF TypeOK, Others, Store, Goto
  <1>3. /\ loc[t].ptr \in Ptrs /\ owners[loc[t].ptr] = {t}
        /\ \A p \in Ptrs : p # loc[t].ptr => owners'[p] = owners[p]
        /\ owners'[loc[t].ptr] = {TABLE} /\ TABLE \notin owners[loc[t].ptr]
        /\ \A i \in Slots : i # loc[t].idx => value'[i] = value[i]
        /\ value'[loc[t].idx] = loc[t].ptr
        /\ UNCHANGED <<loc, retired, hazards>>
    BY <1>1, <1>2, TableAssumption DEF Store, InsertOwns, InsertPc, TypeOK, Fields
  <1>4. CellsOwn'
    <2>1. \A i \in Slots : value[i] # NULL => value[i] \in Ptrs /\ TABLE \in owners[value[i]]
      BY <1>1 DEF CellsOwn, TypeOK
    <2>2. \A i \in Slots : value[i] # NULL => value[i] # loc[t].ptr
      BY <1>3, <2>1
    <2> QED BY <1>1, <1>3, <2>1, <2>2 DEF CellsOwn
  <1>5. InsertOwns'
    <2>1. \A u \in Threads : u # t /\ pc[u] \in InsertPc \ {"publish"} => loc[u].ptr # loc[t].ptr
      BY <1>1, <1>3 DEF InsertOwns
    <2> QED BY <1>1, <1>2, <1>3, <2>1 DEF InsertOwns, Others
  <1>6. UnlinkedOwns'
    <2>1. \A u \in Threads : pc[u] \in UnlinkedPc => loc[u].ptr # loc[t].ptr
      BY <1>1, <1>3 DEF UnlinkedOwns
    <2> QED BY <1>1, <1>2, <1>3, <2>1 DEF UnlinkedOwns, Others, UnlinkedPc
  <1>7. RetiredOwns'
    <2>1. \A p \in retired : p \in Ptrs /\ p # loc[t].ptr
      BY <1>1, <1>3 DEF RetiredOwns, TypeOK
    <2> QED BY <1>1, <1>2, <1>3, <2>1 DEF RetiredOwns, Others
  <1>8. HazardPublished'
    BY <1>1, <1>2 DEF HazardPublished, Others, Store, hazards
  <1>9. ReaderProtected'
    BY <1>1, <1>2 DEF ReaderProtected, Others, Store
  <1> QED BY <1>4, <1>5, <1>6, <1>7, <1>8, <1>9 DEF MemoryInv

\* The hazard slot of a thread holds the pointer it will validate.
LEMMA MemoryGetPublish == ASSUME IInv, NEW t \in Threads, GetPublish(t) PROVE MemoryInv'
  <1>1. /\ TypeOK /\ InUse /\ Fields(t) /\ CellsOwn /\ InsertOwns /\ UnlinkedOwns
        /\ RetiredOwns /\ HazardPublished /\ ReaderProtected
    BY Parts
  <1>2. pc[t] = "get_pub" /\ pc'[t] = "get_gen2" /\ Others(t)
    BY <1>1 DEF TypeOK, Others, GetPublish, Goto
  <1>3. loc'[t].ptr = loc[t].ptr
    BY <1>1 DEF Locals, GetPublish
  <1>4. CellsOwn'
    BY <1>1 DEF CellsOwn, GetPublish, cells
  <1>5. InsertOwns'
    BY <1>1, <1>2 DEF InsertOwns, Others, InsertPc, GetPublish
  <1>6. UnlinkedOwns'
    BY <1>1, <1>2 DEF UnlinkedOwns, Others, UnlinkedPc, GetPublish, cells
  <1>7. RetiredOwns'
    BY <1>1, <1>2 DEF RetiredOwns, Others, GetPublish, cells
  <1>8. HazardPublished'
    BY <1>1, <1>2 DEF HazardPublished, Others, TypeOK, GetPublish
  <1>9. ReaderProtected'
    BY <1>1, <1>2 DEF ReaderProtected, Others, GetPublish
  <1> QED BY <1>4, <1>5, <1>6, <1>7, <1>8, <1>9 DEF MemoryInv

\* A validated value is in a cell, and so in no remover's hands and not retired.
LEMMA MemoryGetVal2 == ASSUME IInv, NEW t \in Threads, GetVal2(t) PROVE MemoryInv'
  <1>1. /\ TypeOK /\ InUse /\ Fields(t) /\ CellsOwn /\ InsertOwns /\ UnlinkedOwns
        /\ RetiredOwns /\ HazardPublished /\ ReaderProtected
    BY Parts
  <1>2. pc[t] = "get_val2" /\ pc'[t] \in {"get_inc", "get_retry"} /\ Others(t)
    BY <1>1 DEF TypeOK, Others, GetVal2, Goto
  <1>3. loc'[t].ptr = loc[t].ptr
    BY <1>1 DEF Locals, GetVal2
  <1>4. CellsOwn'
    BY <1>1 DEF CellsOwn, GetVal2, cells
  <1>5. InsertOwns'
    BY <1>1, <1>2 DEF InsertOwns, Others, InsertPc, GetVal2
  <1>6. UnlinkedOwns'
    BY <1>1, <1>2 DEF UnlinkedOwns, Others, UnlinkedPc, GetVal2, cells
  <1>7. RetiredOwns'
    BY <1>1, <1>2 DEF RetiredOwns, Others, GetVal2, cells
  <1>8. HazardPublished'
    BY <1>1, <1>2 DEF HazardPublished, Others, GetVal2, hazards
  <1>9. ReaderProtected'
    <2>1. UNCHANGED <<loc, owners, hazards, value, retired>>
      BY DEF GetVal2, cells
    <2>2. CASE pc'[t] = "get_inc"
      <3>1. value[loc[t].idx] = loc[t].ptr /\ loc[t].ptr \in Ptrs /\ loc[t].idx \in Slots
        BY <1>1, <2>2 DEF GetVal2, Goto, Fields, HazardPublished
      <3>2. TABLE \in owners[loc[t].ptr]
        BY <1>1, <3>1, TableAssumption DEF CellsOwn
      <3>3. \A r \in Threads : pc[r] \in UnlinkedPc => loc[r].ptr # loc[t].ptr
        BY <1>1, <3>1 DEF UnlinkedOwns
      <3>4. \A r \in Threads : pc[r] = "drain_scan" => loc[r].entry # loc[t].ptr
        BY <1>1, <3>1 DEF RetiredOwns
      <3> QED BY <1>1, <1>2, <2>1, <2>2, <3>2, <3>3, <3>4 DEF ReaderProtected, Others, UnlinkedPc
    <2>3. CASE pc'[t] = "get_retry"
      BY <1>1, <1>2, <2>1, <2>3 DEF ReaderProtected, Others
    <2> QED BY <1>2, <2>2, <2>3
  <1> QED BY <1>4, <1>5, <1>6, <1>7, <1>8, <1>9 DEF MemoryInv

\* The count a reader takes is on a value the table owns, so on no pending insert.
LEMMA MemoryGetInc == ASSUME IInv, NEW t \in Threads, GetInc(t) PROVE MemoryInv'
  <1>1. /\ TypeOK /\ InUse /\ Fields(t) /\ CellsOwn /\ InsertOwns /\ UnlinkedOwns
        /\ RetiredOwns /\ HazardPublished /\ ReaderProtected
    BY Parts
  <1>2. pc[t] = "get_inc" /\ pc'[t] = "get_done" /\ Others(t)
    BY <1>1 DEF TypeOK, Others, GetInc, Goto
  <1>3. /\ TABLE \in owners[loc[t].ptr] /\ loc' = loc
        /\ \A p \in Ptrs : p # loc[t].ptr => owners'[p] = owners[p]
        /\ \A p \in Ptrs : TABLE \in owners[p] => TABLE \in owners'[p]
    BY <1>1, <1>2 DEF GetInc, ReaderProtected
  <1>4. CellsOwn'
    BY <1>1 DEF CellsOwn, GetInc, cells
  <1>5. InsertOwns'
    <2>1. \A u \in Threads : pc[u] \in InsertPc \ {"publish"} => loc[u].ptr # loc[t].ptr
      BY <1>1, <1>3, TableAssumption DEF InsertOwns
    <2> QED BY <1>1, <1>2, <1>3, <2>1 DEF InsertOwns, Others, InsertPc
  <1>6. UnlinkedOwns'
    BY <1>1, <1>2 DEF UnlinkedOwns, Others, UnlinkedPc, GetInc, cells
  <1>7. RetiredOwns'
    BY <1>1, <1>2 DEF RetiredOwns, Others, GetInc, cells
  <1>8. HazardPublished'
    BY <1>1, <1>2 DEF HazardPublished, Others, GetInc, hazards
  <1>9. ReaderProtected'
    BY <1>1, <1>2 DEF ReaderProtected, Others, GetInc
  <1> QED BY <1>4, <1>5, <1>6, <1>7, <1>8, <1>9 DEF MemoryInv

\* So is the count a remover takes for its caller.
LEMMA MemoryRemInc == ASSUME IInv, NEW t \in Threads, RemInc(t) PROVE MemoryInv'
  <1>1. /\ TypeOK /\ InUse /\ Fields(t) /\ CellsOwn /\ InsertOwns /\ UnlinkedOwns
        /\ RetiredOwns /\ HazardPublished /\ ReaderProtected
    BY Parts
  <1>2. pc[t] = "rem_inc" /\ pc'[t] = "rem_prot" /\ Others(t)
    BY <1>1 DEF TypeOK, Others, RemInc, Goto
  <1>3. /\ TABLE \in owners[loc[t].ptr] /\ loc' = loc
        /\ \A p \in Ptrs : p # loc[t].ptr => owners'[p] = owners[p]
        /\ \A p \in Ptrs : TABLE \in owners[p] => TABLE \in owners'[p]
    BY <1>1, <1>2 DEF RemInc, UnlinkedOwns, UnlinkedPc
  <1>4. CellsOwn'
    BY <1>1 DEF CellsOwn, RemInc, cells
  <1>5. InsertOwns'
    <2>1. \A u \in Threads : pc[u] \in InsertPc \ {"publish"} => loc[u].ptr # loc[t].ptr
      BY <1>1, <1>3, TableAssumption DEF InsertOwns
    <2> QED BY <1>1, <1>2, <1>3, <2>1 DEF InsertOwns, Others, InsertPc
  <1>6. UnlinkedOwns'
    BY <1>1, <1>2 DEF UnlinkedOwns, Others, UnlinkedPc, RemInc, cells
  <1>7. RetiredOwns'
    BY <1>1, <1>2 DEF RetiredOwns, Others, RemInc, cells
  <1>8. HazardPublished'
    BY <1>1, <1>2 DEF HazardPublished, Others, RemInc, hazards
  <1>9. ReaderProtected'
    BY <1>1, <1>2 DEF ReaderProtected, Others, RemInc
  <1> QED BY <1>4, <1>5, <1>6, <1>7, <1>8, <1>9 DEF MemoryInv

\* A reader that has its count no longer needs its hazard.
LEMMA MemoryGetDone == ASSUME IInv, NEW t \in Threads, GetDone(t) PROVE MemoryInv'
  <1>1. /\ TypeOK /\ InUse /\ Fields(t) /\ CellsOwn /\ InsertOwns /\ UnlinkedOwns
        /\ RetiredOwns /\ HazardPublished /\ ReaderProtected
    BY Parts
  <1>2. pc[t] = "get_done" /\ pc'[t] = "held" /\ Others(t)
    BY <1>1 DEF TypeOK, Others, GetDone, ReturnArc
  <1>4. CellsOwn'
    BY <1>1 DEF CellsOwn, GetDone, ReturnArc, cells
  <1>5. InsertOwns'
    BY <1>1 DEF InsertOwns, InsertPc, GetDone, ReturnArc
  <1>6. UnlinkedOwns'
    BY <1>1 DEF UnlinkedOwns, UnlinkedPc, GetDone, ReturnArc, cells
  <1>7. RetiredOwns'
    BY <1>1 DEF RetiredOwns, GetDone, ReturnArc, cells
  <1>8. HazardPublished'
    BY <1>1 DEF HazardPublished, GetDone, ReturnArc
  <1>9. ReaderProtected'
    BY <1>1 DEF ReaderProtected, GetDone, ReturnArc
  <1> QED BY <1>4, <1>5, <1>6, <1>7, <1>8, <1>9 DEF MemoryInv

\* Nor does one whose validation failed.
LEMMA MemoryGetRetry == ASSUME IInv, NEW t \in Threads, GetRetry(t) PROVE MemoryInv'
  <1>1. /\ TypeOK /\ InUse /\ Fields(t) /\ CellsOwn /\ InsertOwns /\ UnlinkedOwns
        /\ RetiredOwns /\ HazardPublished /\ ReaderProtected
    BY Parts
  <1>2. pc[t] = "get_retry" /\ pc'[t] = "get_gen" /\ Others(t)
    BY <1>1 DEF TypeOK, Others, GetRetry, Goto
  <1>4. CellsOwn'
    BY <1>1 DEF CellsOwn, GetRetry, cells
  <1>5. InsertOwns'
    BY <1>1, <1>2 DEF InsertOwns, Others, InsertPc, GetRetry
  <1>6. UnlinkedOwns'
    BY <1>1, <1>2 DEF UnlinkedOwns, Others, UnlinkedPc, GetRetry, cells
  <1>7. RetiredOwns'
    BY <1>1, <1>2 DEF RetiredOwns, Others, GetRetry, cells
  <1>8. HazardPublished'
    BY <1>1, <1>2 DEF HazardPublished, Others, GetRetry
  <1>9. ReaderProtected'
    BY <1>1, <1>2 DEF ReaderProtected, Others, GetRetry
  <1> QED BY <1>4, <1>5, <1>6, <1>7, <1>8, <1>9 DEF MemoryInv

\* The thread that unlinks a value has taken the only cell that held it.
LEMMA MemoryRemCas == ASSUME IInv, NEW t \in Threads, RemCas(t) PROVE MemoryInv'
  <1>1. /\ TypeOK /\ InUse /\ Fields(t) /\ CellsOwn /\ InsertOwns /\ UnlinkedOwns
        /\ RetiredOwns /\ HazardPublished /\ ReaderProtected
    BY Parts
  <1>2. pc[t] = "rem_cas" /\ pc'[t] \in {"rem_bump", "rem_gen"} /\ Others(t)
    BY <1>1 DEF TypeOK, Others, RemCas, Goto
  <1>3. /\ UNCHANGED <<owners, retired, hazards>>
        /\ \A i \in Slots : value'[i] \in {value[i], NULL}
        /\ pc'[t] = "rem_bump" => /\ loc' = loc /\ loc[t].ptr \in Ptrs /\ value[loc[t].idx] = loc[t].ptr
                                  /\ value' = [value EXCEPT ![loc[t].idx] = NULL]
    BY <1>1 DEF RemCas, Goto, TypeOK, HazardPublished
  <1>4. CellsOwn'
    BY <1>1, <1>3 DEF CellsOwn, RemCas
  <1>5. InsertOwns'
    BY <1>1, <1>2 DEF InsertOwns, Others, InsertPc, RemCas
  <1>6. UnlinkedOwns'
    <2>1. CASE pc'[t] = "rem_gen"
      BY <1>1, <1>2, <1>3, <2>1, TableAssumption DEF UnlinkedOwns, Others, UnlinkedPc
    <2>2. CASE pc'[t] = "rem_bump"
      <3>1. TABLE \in owners[loc[t].ptr] /\ loc[t].ptr \notin retired
        BY <1>1, <1>3, <2>2, TableAssumption DEF CellsOwn, RetiredOwns, Fields
      <3>2. \A i \in Slots : value'[i] # loc[t].ptr
        BY <1>1, <1>3, <2>2, TableAssumption DEF CellsOwn, TypeOK, Fields
      <3>3. \A u \in Threads : pc[u] \in UnlinkedPc => loc[u].ptr # loc[t].ptr
        BY <1>1, <1>3, <2>2 DEF UnlinkedOwns, Fields
      <3>4. \A u \in Threads : pc[u] \in UnlinkedPc => \A i \in Slots : value'[i] # loc[u].ptr
        BY <1>1, <1>3, TableAssumption DEF UnlinkedOwns
      <3> QED BY <1>1, <1>2, <1>3, <2>2, <3>1, <3>2, <3>3, <3>4 DEF UnlinkedOwns, Others
    <2> QED BY <1>2, <2>1, <2>2
  <1>7. RetiredOwns'
    BY <1>1, <1>2, TableAssumption DEF RetiredOwns, Others, TypeOK, RemCas
  <1>8. HazardPublished'
    BY <1>1, <1>2 DEF HazardPublished, Others, RemCas, hazards
  <1>9. ReaderProtected'
    BY <1>1, <1>2 DEF ReaderProtected, Others, RemCas
  <1> QED BY <1>4, <1>5, <1>6, <1>7, <1>8, <1>9 DEF MemoryInv

\* A scan starts with every hazard slot still to be read.
LEMMA MemoryRemProtected == ASSUME IInv, NEW t \in Threads, RemProtected(t) PROVE MemoryInv'
  <1>1. /\ TypeOK /\ InUse /\ Fields(t) /\ CellsOwn /\ InsertOwns /\ UnlinkedOwns
        /\ RetiredOwns /\ HazardPublished /\ ReaderProtected
    BY Parts
  <1>2. pc[t] = "rem_prot" /\ pc'[t] = "rem_scan" /\ Others(t)
    BY <1>1 DEF TypeOK, Others, RemProtected, Goto
  <1>3. /\ loc'[t].ptr = loc[t].ptr /\ loc'[t].left = claimed /\ loc'[t].entry = loc[t].entry
        /\ UNCHANGED <<owners, value, retired, hazards>>
    BY <1>1 DEF TypeOK, Locals, RemProtected, cells
  <1>4. CellsOwn'
    BY <1>1, <1>3 DEF CellsOwn, RemProtected
  <1>5. InsertOwns'
    BY <1>1, <1>2 DEF InsertOwns, Others, InsertPc, RemProtected
  <1>6. UnlinkedOwns'
    BY <1>1, <1>2, <1>3 DEF UnlinkedOwns, Others, UnlinkedPc, RemProtected
  <1>7. RetiredOwns'
    BY <1>1, <1>2, <1>3 DEF RetiredOwns, Others, RemProtected
  <1>8. HazardPublished'
    BY <1>1, <1>2 DEF HazardPublished, Others, RemProtected, hazards
  <1>9. ReaderProtected'
    <2>1. \A u \in Threads : pc[u] = "get_inc" => u \in claimed
      BY <1>1 DEF HazardPublished
    <2>2. ASSUME NEW u \in Threads, pc'[u] = "get_inc" PROVE u # t /\ pc[u] = "get_inc" /\ loc'[u] = loc[u]
      BY <1>2, <2>2 DEF Others
    <2> QED BY <1>1, <1>2, <1>3, <2>1, <2>2 DEF ReaderProtected, Others
  <1> QED BY <1>4, <1>5, <1>6, <1>7, <1>8, <1>9 DEF MemoryInv

\* A scan that reads the hazard slot of a reader of its value defers the release.
LEMMA MemoryRemScan == ASSUME IInv, NEW t \in Threads, RemScan(t) PROVE MemoryInv'
  <1>1. /\ TypeOK /\ InUse /\ Fields(t) /\ CellsOwn /\ InsertOwns /\ UnlinkedOwns
        /\ RetiredOwns /\ HazardPublished /\ ReaderProtected
    BY Parts
  <1>2. pc[t] = "rem_scan" /\ pc'[t] \in {"rem_scan", "rem_unref", "rem_defer"} /\ Others(t)
    BY <1>1 DEF TypeOK, Others, RemScan, Goto
  <1>3. /\ loc'[t].ptr = loc[t].ptr /\ UNCHANGED <<owners, value, retired, hazards>>
        /\ \/ loc[t].left = {} /\ pc'[t] = "rem_unref"
           \/ pc'[t] = "rem_defer"
           \/ /\ pc'[t] = "rem_scan"
              /\ \E v \in loc[t].left : hazard[v] # loc[t].ptr /\ loc'[t].left = loc[t].left \ {v}
    BY <1>1 DEF TypeOK, Locals, RemScan, Goto, cells
  <1>4. CellsOwn'
    BY <1>1, <1>3 DEF CellsOwn, RemScan
  <1>5. InsertOwns'
    BY <1>1, <1>2 DEF InsertOwns, Others, InsertPc, RemScan
  <1>6. UnlinkedOwns'
    BY <1>1, <1>2, <1>3 DEF UnlinkedOwns, Others, UnlinkedPc, RemScan
  <1>7. RetiredOwns'
    BY <1>1, <1>2, <1>3 DEF RetiredOwns, Others, RemScan
  <1>8. HazardPublished'
    BY <1>1, <1>2 DEF HazardPublished, Others, RemScan, hazards
  <1>9. ReaderProtected'
    <2>1. \A u \in Threads : pc'[u] = "get_inc" =>
             u # t /\ pc[u] = "get_inc" /\ loc'[u] = loc[u] /\ hazard[u] = loc[u].ptr
      BY <1>1, <1>2 DEF Others, HazardPublished
    <2>2. \A u \in Threads : pc[u] = "get_inc" /\ loc[u].ptr = loc[t].ptr => u \in loc[t].left
      BY <1>1, <1>2 DEF ReaderProtected
    <2>3. ASSUME NEW u \in Threads, pc'[u] = "get_inc"
          PROVE  /\ pc'[t] = "rem_unref" => loc'[t].ptr # loc'[u].ptr
                 /\ pc'[t] = "rem_scan" /\ loc'[t].ptr = loc'[u].ptr => u \in loc'[t].left
      BY <1>3, <2>1, <2>2, <2>3
    <2> QED BY <1>1, <1>2, <1>3, <2>1, <2>3 DEF ReaderProtected, Others
  <1> QED BY <1>4, <1>5, <1>6, <1>7, <1>8, <1>9 DEF MemoryInv

\* A deferred value leaves the remover's hands for the retire list.
LEMMA MemoryRemDefer == ASSUME IInv, NEW t \in Threads, RemDefer(t) PROVE MemoryInv'
  <1>1. /\ TypeOK /\ InUse /\ Fields(t) /\ CellsOwn /\ InsertOwns /\ UnlinkedOwns
        /\ RetiredOwns /\ HazardPublished /\ ReaderProtected
    BY Parts
  <1>2. pc[t] = "rem_defer" /\ pc'[t] = "drain" /\ Others(t)
    BY <1>1 DEF TypeOK, Others, RemDefer, Goto
  <1>3. /\ retired' = retired \cup {loc[t].ptr} /\ UNCHANGED <<loc, owners, value, hazards>>
        /\ TABLE \in owners[loc[t].ptr] /\ \A i \in Slots : value[i] # loc[t].ptr
    BY <1>1, <1>2 DEF RemDefer, UnlinkedOwns, UnlinkedPc, cells
  <1>4. CellsOwn'
    BY <1>1, <1>3 DEF CellsOwn, RemDefer
  <1>5. InsertOwns'
    BY <1>1, <1>2 DEF InsertOwns, Others, InsertPc, RemDefer
  <1>6. UnlinkedOwns'
    BY <1>1, <1>2, <1>3 DEF UnlinkedOwns, Others, UnlinkedPc, RemDefer
  <1>7. RetiredOwns'
    <2>1. \A u \in Threads : pc'[u] \in {"drain_pick", "drain_scan"} => pc[u] = pc'[u]
      BY <1>2 DEF Others
    <2> QED BY <1>1, <1>3, <2>1 DEF RetiredOwns
  <1>8. HazardPublished'
    BY <1>1, <1>2 DEF HazardPublished, Others, RemDefer, hazards
  <1>9. ReaderProtected'
    BY <1>1, <1>2 DEF ReaderProtected, Others, RemDefer
  <1> QED BY <1>4, <1>5, <1>6, <1>7, <1>8, <1>9 DEF MemoryInv

\* A value that is released at once was in no other place.
LEMMA MemoryRemUnref == ASSUME IInv, NEW t \in Threads, RemUnref(t) PROVE MemoryInv'
  <1>1. /\ TypeOK /\ InUse /\ Fields(t) /\ CellsOwn /\ InsertOwns /\ UnlinkedOwns
        /\ RetiredOwns /\ HazardPublished /\ ReaderProtected
    BY Parts
  <1>2. pc[t] = "rem_unref" /\ pc'[t] = "drain" /\ Others(t)
    BY <1>1 DEF TypeOK, Others, RemUnref, Goto
  <1>3. /\ \A p \in Ptrs : p # loc[t].ptr => owners'[p] = owners[p]
        /\ \A i \in Slots : value[i] # loc[t].ptr
        /\ loc[t].ptr \notin retired /\ loc[t].ptr \in Ptrs
        /\ UNCHANGED <<loc, retired, value, hazards>>
    BY <1>1, <1>2 DEF RemUnref, UnlinkedOwns, UnlinkedPc, cells
  <1>4. CellsOwn'
    BY <1>1, <1>3 DEF CellsOwn, TypeOK
  <1>5. InsertOwns'
    BY <1>1, <1>2, TableAssumption DEF InsertOwns, Others, InsertPc, RemUnref
  <1>6. UnlinkedOwns'
    BY <1>1, <1>2, <1>3 DEF UnlinkedOwns, Others, UnlinkedPc, RemUnref
  <1>7. RetiredOwns'
    <2>1. \A p \in retired : p \in Ptrs /\ p # loc[t].ptr
      BY <1>1, <1>3 DEF TypeOK
    <2> QED BY <1>1, <1>2, <1>3, <2>1 DEF RetiredOwns, Others
  <1>8. HazardPublished'
    BY <1>1, <1>2 DEF HazardPublished, Others, RemUnref, hazards
  <1>9. ReaderProtected'
    BY <1>1, <1>2 DEF ReaderProtected, Others, RemUnref
  <1> QED BY <1>4, <1>5, <1>6, <1>7, <1>8, <1>9 DEF MemoryInv

\* One thread at a time drains the retire list.
LEMMA MemoryDrain == ASSUME IInv, NEW t \in Threads, Drain(t) PROVE MemoryInv'
  <1>1. /\ TypeOK /\ InUse /\ Fields(t) /\ CellsOwn /\ InsertOwns /\ UnlinkedOwns
        /\ RetiredOwns /\ HazardPublished /\ ReaderProtected
    BY Parts
  <1>2. pc[t] = "drain" /\ pc'[t] \in {"held", "drain_pick"} /\ Others(t)
    BY <1>1 DEF TypeOK, Others, Drain, ReturnArc, Goto
  <1>3. /\ UNCHANGED <<owners, value, retired, hazards>>
        /\ pc'[t] = "drain_pick" => loc'[t].work = retired
        /\ \A u \in Threads : pc[u] \notin {"drain_pick", "drain_scan"}
    BY <1>1 DEF TypeOK, Locals, Drain, ReturnArc, RetiredLocked, cells
  <1>4. CellsOwn'
    BY <1>1, <1>3 DEF CellsOwn, Drain, ReturnArc
  <1>5. InsertOwns'
    BY <1>1, <1>2 DEF InsertOwns, Others, InsertPc, Drain, ReturnArc
  <1>6. UnlinkedOwns'
    BY <1>1, <1>2, <1>3 DEF UnlinkedOwns, Others, UnlinkedPc, Drain, ReturnArc
  <1>7. RetiredOwns'
    BY <1>1, <1>2, <1>3 DEF RetiredOwns, Others
  <1>8. HazardPublished'
    BY <1>1, <1>2 DEF HazardPublished, Others, Drain, ReturnArc, hazards
  <1>9. ReaderProtected'
    BY <1>1, <1>2 DEF ReaderProtected, Others, Drain, ReturnArc
  <1> QED BY <1>4, <1>5, <1>6, <1>7, <1>8, <1>9 DEF MemoryInv

\* The scan of a retired entry starts with every hazard slot still to be read.
LEMMA MemoryDrainPick == ASSUME IInv, NEW t \in Threads, DrainPick(t) PROVE MemoryInv'
  <1>1. /\ TypeOK /\ InUse /\ Fields(t) /\ CellsOwn /\ InsertOwns /\ UnlinkedOwns
        /\ RetiredOwns /\ HazardPublished /\ ReaderProtected
    BY Parts
  <1>2. pc[t] = "drain_pick" /\ pc'[t] \in {"held", "drain_scan"} /\ Others(t)
    BY <1>1 DEF TypeOK, Others, DrainPick, ReturnArc, Goto
  <1>3. /\ UNCHANGED <<owners, value, retired, hazards>>
        /\ pc'[t] = "drain_scan" =>
             /\ loc'[t].entry \in loc[t].work /\ loc'[t].left = claimed
             /\ loc'[t].work = loc[t].work \ {loc'[t].entry}
    <2>1. CASE loc[t].work = {}
      BY <1>1, <2>1 DEF TypeOK, DrainPick, ReturnArc, cells
    <2>2. CASE loc[t].work # {}
      <3>1. PICK e \in loc[t].work : loc' = [loc EXCEPT ![t] =
                     [loc[t] EXCEPT !.work = @ \ {e}, !.entry = e, !.left = claimed]]
        BY <2>2 DEF DrainPick
      <3>2. loc'[t].entry = e /\ loc'[t].left = claimed /\ loc'[t].work = loc[t].work \ {e}
        BY <1>1, <3>1 DEF TypeOK, Locals
      <3> QED BY <3>2 DEF DrainPick, ReturnArc, cells
    <2> QED BY <2>1, <2>2
  <1>4. CellsOwn'
    BY <1>1, <1>3 DEF CellsOwn
  <1>5. InsertOwns'
    BY <1>1, <1>2 DEF InsertOwns, Others, InsertPc, DrainPick, ReturnArc
  <1>6. UnlinkedOwns'
    BY <1>1, <1>2, <1>3 DEF UnlinkedOwns, Others, UnlinkedPc
  <1>7. RetiredOwns'
    BY <1>1, <1>2, <1>3 DEF RetiredOwns, Others
  <1>8. HazardPublished'
    BY <1>1, <1>2 DEF HazardPublished, Others, DrainPick, ReturnArc, hazards
  <1>9. ReaderProtected'
    <2>1. \A u \in Threads : pc'[u] = "get_inc" =>
             u # t /\ pc[u] = "get_inc" /\ loc'[u] = loc[u] /\ u \in claimed
      BY <1>1, <1>2 DEF Others, HazardPublished
    <2> QED BY <1>1, <1>2, <1>3, <2>1 DEF ReaderProtected, Others
  <1> QED BY <1>4, <1>5, <1>6, <1>7, <1>8, <1>9 DEF MemoryInv

\* A retired entry is released when no hazard slot held it.
LEMMA MemoryDrainScan == ASSUME IInv, NEW t \in Threads, DrainScan(t) PROVE MemoryInv'
  <1>1. /\ TypeOK /\ InUse /\ Fields(t) /\ CellsOwn /\ InsertOwns /\ UnlinkedOwns
        /\ RetiredOwns /\ HazardPublished /\ ReaderProtected
    BY Parts
  <1>2. pc[t] = "drain_scan" /\ pc'[t] \in {"drain_pick", "drain_scan"} /\ Others(t)
    BY <1>1 DEF TypeOK, Others, DrainScan, Goto
  <1>3. /\ UNCHANGED <<value, hazards>> /\ loc[t].entry \in retired \ loc[t].work /\ loc'[t].work = loc[t].work
        /\ \A p \in Ptrs : p # loc[t].entry => owners'[p] = owners[p]
        /\ \/ /\ loc[t].left = {} /\ pc'[t] = "drain_pick" /\ retired' = retired \ {loc[t].entry}
           \/ pc'[t] = "drain_pick" /\ UNCHANGED <<owners, retired>>
           \/ /\ pc'[t] = "drain_scan" /\ UNCHANGED <<owners, retired>>
              /\ loc'[t].entry = loc[t].entry
              /\ \E v \in loc[t].left : hazard[v] # loc[t].entry /\ loc'[t].left = loc[t].left \ {v}
    <2>1. loc[t].entry \in retired \ loc[t].work
      BY <1>1, <1>2 DEF RetiredOwns
    <2>2. CASE /\ loc[t].left = {} /\ Goto(t, "drain_scan", "drain_pick")
               /\ owners' = [owners EXCEPT ![loc[t].entry] = @ \ {TABLE}]
               /\ retired' = retired \ {loc[t].entry} /\ loc' = [loc EXCEPT ![t].entry = NULL]
               /\ UNCHANGED <<cells, index, hazards, client>>
      BY <1>1, <2>1, <2>2 DEF TypeOK, Locals, Goto, cells
    <2>3. CASE /\ \E u \in loc[t].left :
                    IF hazard[u] = loc[t].entry
                    THEN /\ Goto(t, "drain_scan", "drain_pick")
                         /\ loc' = [loc EXCEPT ![t] = [@ EXCEPT !.left = {}, !.entry = NULL]]
                    ELSE /\ pc[t] = "drain_scan" /\ UNCHANGED pc
                         /\ loc' = [loc EXCEPT ![t].left = @ \ {u}]
               /\ UNCHANGED <<owners, retired, cells, index, hazards, client>>
      <3>1. PICK u \in loc[t].left :
                 IF hazard[u] = loc[t].entry
                 THEN /\ Goto(t, "drain_scan", "drain_pick")
                      /\ loc' = [loc EXCEPT ![t] = [@ EXCEPT !.left = {}, !.entry = NULL]]
                 ELSE /\ pc[t] = "drain_scan" /\ UNCHANGED pc
                      /\ loc' = [loc EXCEPT ![t].left = @ \ {u}]
        BY <2>3
      <3>2. CASE hazard[u] = loc[t].entry
        <4>1. loc' = [loc EXCEPT ![t] = [loc[t] EXCEPT !.left = {}, !.entry = NULL]] /\ pc' = [pc EXCEPT ![t] = "drain_pick"]
          BY <3>1, <3>2 DEF Goto
        <4>2. loc'[t].work = loc[t].work /\ pc'[t] = "drain_pick"
          BY <1>1, <4>1 DEF TypeOK, Locals
        <4> QED BY <2>1, <2>3, <4>2 DEF cells
      <3>3. CASE hazard[u] # loc[t].entry
        BY <1>1, <2>1, <2>3, <3>1, <3>3 DEF TypeOK, Locals, cells
      <3> QED BY <3>2, <3>3
    <2> QED BY <2>2, <2>3 DEF DrainScan
  <1>4. CellsOwn'
    <2>1. \A i \in Slots : value[i] # loc[t].entry
      BY <1>1, <1>3 DEF RetiredOwns
    <2> QED BY <1>1, <1>3, <2>1 DEF CellsOwn, TypeOK
  <1>5. InsertOwns'
    <2>1. \A u \in Threads : pc[u] \in InsertPc \ {"publish"} => loc[u].ptr # loc[t].entry
      BY <1>1, <1>3, TableAssumption DEF InsertOwns, RetiredOwns
    <2> QED BY <1>1, <1>2, <1>3, <2>1 DEF InsertOwns, Others, InsertPc
  <1>6. UnlinkedOwns'
    <2>1. \A u \in Threads : pc[u] \in UnlinkedPc => loc[u].ptr # loc[t].entry
      BY <1>1, <1>3 DEF UnlinkedOwns
    <2> QED BY <1>1, <1>2, <1>3, <2>1 DEF UnlinkedOwns, Others, UnlinkedPc
  <1>7. RetiredOwns'
    <2>1. \A p \in retired' : p \in retired /\ owners'[p] = owners[p]
      BY <1>1, <1>3 DEF TypeOK
    <2>2. \A p \in retired' : TABLE \in owners'[p] /\ \A i \in Slots : value'[i] # p
      BY <1>1, <1>3, <2>1 DEF RetiredOwns
    <2>3. \A u \in Threads : u # t => pc'[u] \notin {"drain_pick", "drain_scan"}
      BY <1>1, <1>2 DEF RetiredOwns, Others
    <2>4. loc'[t].work \subseteq retired' /\ (pc'[t] = "drain_scan" => loc'[t].entry \in retired' \ loc'[t].work)
      BY <1>1, <1>2, <1>3 DEF RetiredOwns
    <2> QED BY <2>2, <2>3, <2>4 DEF RetiredOwns
  <1>8. HazardPublished'
    BY <1>1, <1>2 DEF HazardPublished, Others, DrainScan, hazards
  <1>9. ReaderProtected'
    <2>1. \A u \in Threads : pc'[u] = "get_inc" =>
             u # t /\ pc[u] = "get_inc" /\ loc'[u] = loc[u] /\ hazard[u] = loc[u].ptr /\ loc[u].ptr \in Ptrs
      BY <1>1, <1>2 DEF Others, HazardPublished
    <2>2. \A u \in Threads : pc[u] = "get_inc" /\ loc[u].ptr = loc[t].entry => u \in loc[t].left
      BY <1>1, <1>2 DEF ReaderProtected
    <2>3. ASSUME NEW u \in Threads, pc'[u] = "get_inc"
          PROVE  /\ TABLE \in owners'[loc'[u].ptr]
                 /\ pc'[t] = "drain_scan" /\ loc'[t].entry = loc'[u].ptr => u \in loc'[t].left
      BY <1>1, <1>3, <2>1, <2>2, <2>3 DEF ReaderProtected
    <2> QED BY <1>1, <1>2, <2>1, <2>3 DEF ReaderProtected, Others
  <1> QED BY <1>4, <1>5, <1>6, <1>7, <1>8, <1>9 DEF MemoryInv

\* Dropping the table: no call is in progress, and no cell and no retired entry
\* is left.
LEMMA MemoryDropTable == ASSUME IInv, DropTable PROVE MemoryInv'
  <1>1. TypeOK
    BY DEF IInv, TypeInv
  <1>2. \A t \in Threads : pc'[t] \in Resting
    BY DEF DropTable
  <1>3. value' = [i \in Slots |-> NULL] /\ retired' = {}
    BY DEF DropTable
  <1>4. CellsOwn' /\ RetiredOwns'
    BY <1>2, <1>3 DEF CellsOwn, RetiredOwns, Resting
  <1>5. InsertOwns' /\ UnlinkedOwns' /\ HazardPublished' /\ ReaderProtected'
    BY <1>2 DEF InsertOwns, UnlinkedOwns, HazardPublished, ReaderProtected, Resting, InsertPc,
       UnlinkedPc
  <1> QED BY <1>4, <1>5 DEF MemoryInv

\* Every step preserves the invariant.
LEMMA MemoryStep == IInv /\ [Next]_vars => IInv'
  <1> SUFFICES ASSUME IInv, [Next]_vars PROVE IInv'
    OBVIOUS
  <1>1. SUFFICES MemoryInv'
    BY TypeStep DEF IInv
  <1>2. ASSUME NEW t \in Threads, Caller(t) PROVE MemoryInv'
    BY <1>2, MemoryQuiet, MemoryCallInsert, MemoryDropArc DEF Caller
  <1>3. ASSUME NEW t \in Threads, Insert(t) PROVE MemoryInv'
    BY <1>3, MemoryQuiet, MemoryFresh, MemoryStore DEF Insert
  <1>4. ASSUME NEW t \in Threads, Get(t) PROVE MemoryInv'
    BY <1>4, MemoryQuiet, MemoryGetPublish, MemoryGetVal2, MemoryGetInc, MemoryGetDone,
       MemoryGetRetry DEF Get
  <1>5. ASSUME NEW t \in Threads, Remove(t) PROVE MemoryInv'
    BY <1>5, MemoryQuiet, MemoryRemCas, MemoryRemInc, MemoryRemProtected, MemoryRemScan,
       MemoryRemDefer, MemoryRemUnref, MemoryDrain, MemoryDrainPick, MemoryDrainScan DEF Remove
  <1>6. CASE DropTable
    BY <1>6, MemoryDropTable
  <1>7. CASE UNCHANGED vars
    BY <1>7 DEF IInv, MemoryInv, CellsOwn, InsertOwns, UnlinkedOwns, RetiredOwns, HazardPublished,
       ReaderProtected, vars, cells, hazards
  <1> QED BY <1>2, <1>3, <1>4, <1>5, <1>6, <1>7 DEF Next, Step

\* The invariant holds in every reachable state.
LEMMA Inductive == Spec => []IInv
  <1>1. Init => IInv
    BY TypeInit, MemoryInit DEF IInv
  <1>2. IInv /\ [Next]_vars => IInv'
    BY MemoryStep
  <1> QED BY <1>1, <1>2, PTL DEF Spec

\* Memory safety: get and remove raise a strong count only on a value that the
\* table still owns (the SAFETY comments of get and remove in table.rs).
THEOREM MemorySafe == Spec => []NoUseAfterFree
  <1>1. IInv => NoUseAfterFree
    BY DEF IInv, MemoryInv, NoUseAfterFree, ReaderProtected, UnlinkedOwns, UnlinkedPc
  <1> QED BY <1>1, Inductive, PTL

\* Exclusive custody: a value is never in two places of PlacesOf, and when it is
\* in one, the table's reference on it is counted.  So no two threads release the
\* reference, and none is released twice; HandleTableSlotProofs adds that
\* nothing leaks (ReferenceInOnePlace).
Custody ==
    \A p \in Ptrs : /\ \A a, b \in PlacesOf(p) : a = b
                    /\ PlacesOf(p) # {} => TABLE \in owners[p]

\* No reference of the table is released twice, whatever two threads remove.
THEOREM SingleCustody == Spec => []Custody
  <1>1. ASSUME IInv, NEW p \in Ptrs
        PROVE  /\ \A a, b \in PlacesOf(p) : a = b
               /\ PlacesOf(p) # {} => TABLE \in owners[p]
    <2>1. CellsOwn /\ UnlinkedOwns /\ RetiredOwns
      BY <1>1 DEF IInv, MemoryInv
    <2>2. ASSUME NEW a \in PlacesOf(p)
          PROVE  \/ \E i \in Slots : a = <<"cell", i>> /\ value[i] = p
                 \/ \E t \in Threads : a = <<"thread", t>> /\ pc[t] \in UnlinkedPc /\ loc[t].ptr = p
                 \/ a = <<"retired", p>> /\ p \in retired
      BY <2>2 DEF PlacesOf
    <2>3. \A i, j \in Slots : value[i] = p /\ value[j] = p => i = j
      BY <2>1, TableAssumption DEF CellsOwn
    <2>4. ASSUME NEW t \in Threads, NEW u \in Threads, pc[t] \in UnlinkedPc, loc[t].ptr = p,
                 pc[u] \in UnlinkedPc, loc[u].ptr = p
          PROVE  t = u
      BY <2>1, <2>4 DEF UnlinkedOwns
    <2>5. \A t \in Threads : pc[t] \in UnlinkedPc /\ loc[t].ptr = p =>
             p \notin retired /\ \A i \in Slots : value[i] # p
      BY <2>1 DEF UnlinkedOwns
    <2>6. p \in retired => \A i \in Slots : value[i] # p
      BY <2>1 DEF RetiredOwns
    <2>7. \A a, b \in PlacesOf(p) : a = b
      BY <2>2, <2>3, <2>4, <2>5, <2>6
    <2>8. PlacesOf(p) # {} => TABLE \in owners[p]
      BY <2>1, <2>2, TableAssumption DEF CellsOwn, UnlinkedOwns, RetiredOwns
    <2> QED BY <2>7, <2>8
  <1>2. IInv => Custody
    BY <1>1 DEF Custody
  <1> QED BY <1>2, Inductive, PTL

-----------------------------------------------------------------------------
(* Where a call goes, and what it leaves alone *)

RemovingPc == RemovePc \cup UnlinkedPc \cup DrainPc

\* One thread goes to a place of the set.
Goes(t, places) == pc' = pc \/ \E to \in places : pc' = [pc EXCEPT ![t] = to]

LEMMA GetFrame ==
    ASSUME NEW t \in Threads, Get(t)
    PROVE  /\ pc[t] \in GetPc /\ Goes(t, GetPc \cup Resting)
           /\ UNCHANGED <<cells, index, retired, client>>
<1> USE DEF GetPc, Resting, Goes
<1>1. CASE GetGen(t)
  BY <1>1 DEF GetGen, Goto, ReturnNothing
<1>2. CASE GetVal(t)
  BY <1>2 DEF GetVal, Goto, ReturnNothing
<1>3. CASE GetPublish(t)
  BY <1>3 DEF GetPublish, Goto
<1>4. CASE GetGen2(t)
  BY <1>4 DEF GetGen2, Goto
<1>5. CASE GetVal2(t)
  BY <1>5 DEF GetVal2, Goto
<1>6. CASE GetInc(t)
  BY <1>6 DEF GetInc, Goto
<1>7. CASE GetDone(t)
  BY <1>7 DEF GetDone, ReturnArc
<1>8. CASE GetRetry(t)
  BY <1>8 DEF GetRetry, Goto
<1> QED  BY <1>1, <1>2, <1>3, <1>4, <1>5, <1>6, <1>7, <1>8 DEF Get

LEMMA RemoveFrame ==
    ASSUME NEW t \in Threads, Remove(t)
    PROVE  /\ pc[t] \in RemovingPc /\ Goes(t, RemovingPc \cup Resting)
           /\ UNCHANGED <<nextIndex, client>>
<1> USE DEF RemovePc, UnlinkedPc, DrainPc, RemovingPc, Resting, Goes, index
<1>1. CASE RemGen(t)
  BY <1>1 DEF RemGen, Goto, ReturnNothing
<1>2. CASE RemVal(t)
  BY <1>2 DEF RemVal, Goto, ReturnNothing
<1>3. CASE RemCas(t)
  BY <1>3 DEF RemCas, Goto
<1>4. CASE RemBump(t)
  BY <1>4 DEF RemBump, Goto
<1>5. CASE PushLoad(t)
  BY <1>5 DEF PushLoad, Goto
<1>6. CASE PushNext(t)
  BY <1>6 DEF PushNext, Goto
<1>7. CASE PushCas(t)
  BY <1>7 DEF PushCas, Goto
<1>8. CASE RemInc(t)
  BY <1>8 DEF RemInc, Goto
<1>9. CASE RemProtected(t)
  BY <1>9 DEF RemProtected, Goto
<1>10. CASE RemScan(t)
  BY <1>10 DEF RemScan, Goto
<1>11. CASE RemDefer(t)
  BY <1>11 DEF RemDefer, Goto
<1>12. CASE RemUnref(t)
  BY <1>12 DEF RemUnref, Goto
<1>13. CASE Drain(t)
  BY <1>13 DEF Drain, Goto, ReturnArc
<1>14. CASE DrainPick(t)
  BY <1>14 DEF DrainPick, Goto, ReturnArc
<1>15. CASE DrainScan(t)
  BY <1>15 DEF DrainScan, Goto
<1> QED  BY <1>1, <1>2, <1>3, <1>4, <1>5, <1>6, <1>7, <1>8, <1>9, <1>10, <1>11, <1>12, <1>13, <1>14,
     <1>15 DEF Remove

-----------------------------------------------------------------------------
(* The retire list stays short *)

\* A published hazard belongs to a claimed slot and to a reader's pointer.
ReadingPc == {"get_gen2", "get_val2", "get_inc", "get_done", "get_retry"}
HazardsRead ==
    \A t \in Threads : hazard[t] # NULL =>
        /\ t \in claimed /\ hazard[t] = loc[t].ptr
        /\ pc[t] \in ReadingPc

\* What a drain has still to look at.
Left(t) == loc[t].work \cup (IF pc[t] = "drain_scan" THEN {loc[t].entry} ELSE {})
\* A thread that protects, and is about to protect, none of it.
Spent(u, t) == hazard[u] \notin Left(t) /\ (pc[u] = "get_pub" => loc[u].ptr \notin Left(t))

\* An entry that a drain keeps was protected by a thread that, while the entry
\* stays retired, can protect no other one.
Draining == {t \in Threads : pc[t] \in DrainPc}
KeptProtected ==
    \A t \in Threads : pc[t] \in {"drain_pick", "drain_scan"} =>
        Cardinality(retired \ Left(t)) <= Cardinality({u \in claimed : Spent(u, t)})
ScansClaimed ==
    \A t \in Threads : pc[t] \in {"rem_scan", "drain_scan"} => loc[t].left \subseteq claimed

DrainInv ==
    /\ IsFiniteSet(claimed) /\ IsFiniteSet(retired) /\ IsFiniteSet(Draining)
    /\ HazardsRead /\ ScansClaimed /\ KeptProtected /\ RetiredBounded

LEMMA DrainersLeft ==
    ASSUME IInv, NEW r \in Threads, pc[r] \in {"drain_pick", "drain_scan"}
    PROVE  Left(r) \subseteq retired /\ NULL \notin Left(r)
<1>1. RetiredOwns /\ retired \subseteq Ptrs /\ NULL \notin Ptrs
  BY Parts, TableAssumption DEF TypeOK
<1> QED  BY <1>1 DEF RetiredOwns, Left

\* There are no fewer hazard slots than threads that registered one, and there
\* are never fewer of them than before.
LEMMA CountOfSlots ==
    ASSUME NEW S, NEW T, IsFiniteSet(T), S \subseteq T
    PROVE  LET Count(U) == IF U = {} THEN 1 ELSE Cardinality(U)
           IN  /\ Count(S) \in Nat /\ Count(S) >= 1 /\ Count(S) >= Cardinality(S)
               /\ Cardinality(S) \in Nat /\ Count(T) >= Count(S) /\ Count(T) \in Nat
<1>1. IsFiniteSet(S) /\ Cardinality(S) <= Cardinality(T)
  BY FS_Subset
<1>2. \A U \in {S, T} : Cardinality(U) \in Nat /\ (U = {} <=> Cardinality(U) = 0)
  BY <1>1, FS_CardinalityType, FS_EmptySet
<1> QED  BY <1>1, <1>2

\* The bound holds as long as the list does not change and no drain ends.
LEMMA BoundKept ==
    ASSUME IsFiniteSet(claimed'), claimed \subseteq claimed', RetiredBounded, IsFiniteSet(retired),
           IsFiniteSet(Draining'), retired' = retired, Draining \subseteq Draining'
    PROVE  RetiredBounded'
<1>1. SlotCount \in Nat /\ SlotCount' \in Nat /\ SlotCount' >= SlotCount
  BY CountOfSlots DEF SlotCount
<1>2. IsFiniteSet(Draining) /\ Cardinality(Draining) <= Cardinality(Draining')
  BY FS_Subset
<1>3. Cardinality(retired) \in Nat /\ Cardinality(Draining) \in Nat /\ Cardinality(Draining') \in Nat
  BY <1>2, FS_CardinalityType
<1>4. Cardinality(retired) <= 2 * SlotCount - 1 + Cardinality(Draining)
  BY DEF RetiredBounded, Draining
<1>5. Cardinality(retired') <= 2 * SlotCount' - 1 + Cardinality(Draining')
  BY <1>1, <1>2, <1>3, <1>4
<1> QED  BY <1>5 DEF RetiredBounded, Draining

\* What is kept stays protected as long as the list does not change and no
\* thread begins to protect an entry that a drain has still to look at.
LEMMA KeptKept ==
    ASSUME IsFiniteSet(claimed'), claimed \subseteq claimed', KeptProtected, IsFiniteSet(retired),
           retired' = retired,
           \A r \in Threads : pc'[r] \in {"drain_pick", "drain_scan"} =>
               /\ pc[r] \in {"drain_pick", "drain_scan"} /\ Left(r)' = Left(r)
               /\ \A u \in claimed : Spent(u, r) => Spent(u, r)'
    PROVE  KeptProtected'
<1> SUFFICES ASSUME NEW r \in Threads, pc'[r] \in {"drain_pick", "drain_scan"}
             PROVE  Cardinality(retired' \ Left(r)') <= Cardinality({u \in claimed' : Spent(u, r)'})
  BY DEF KeptProtected
<1> DEFINE S == {u \in claimed : Spent(u, r)}
           T == {u \in claimed' : Spent(u, r)'}
<1>1. Cardinality(retired \ Left(r)) <= Cardinality(S)
  BY DEF KeptProtected
<1>2. S \subseteq T
  OBVIOUS
<1>3. IsFiniteSet(T)
  BY FS_Subset
<1>4. Cardinality(S) <= Cardinality(T) /\ Cardinality(S) \in Nat /\ Cardinality(T) \in Nat
  BY <1>2, <1>3, FS_Subset, FS_CardinalityType
<1>5. Cardinality(retired \ Left(r)) \in Nat
  BY FS_Subset, FS_CardinalityType
<1>6. retired' \ Left(r)' = retired \ Left(r)
  OBVIOUS
<1> HIDE DEF S, T
<1>7. Cardinality(retired' \ Left(r)') <= Cardinality(T)
  BY <1>1, <1>4, <1>5, <1>6
<1> QED  BY <1>7 DEF T

\* A step of a thread that does not drain, and publishes or clears no hazard: it
\* loads no pointer that is retired.
DrainQuiet(t) ==
    /\ Others(t)
    /\ UNCHANGED <<retired, hazard, claimed>>
    /\ pc[t] \notin DrainPc /\ pc'[t] \notin {"drain_pick", "drain_scan"}
    /\ hazard[t] # NULL => pc'[t] \in ReadingPc /\ loc'[t].ptr = loc[t].ptr
    /\ pc'[t] = "get_pub" => loc'[t].ptr \notin retired
    /\ pc'[t] = "rem_scan" => loc'[t].left \subseteq claimed

\* The drains in progress while one thread moves.
LEMMA DrainingOf ==
    ASSUME NEW t \in Threads, Others(t), IsFiniteSet(Draining)
    PROVE  /\ Draining' = IF pc'[t] \in DrainPc THEN Draining \cup {t} ELSE Draining \ {t}
           /\ IsFiniteSet(Draining')
<1>1. Draining' = IF pc'[t] \in DrainPc THEN Draining \cup {t} ELSE Draining \ {t}
  BY DEF Others, Draining
<1> QED  BY <1>1, FS_AddElement, FS_RemoveElement

LEMMA QuietDrains == ASSUME IInv, DrainInv, NEW t \in Threads, DrainQuiet(t) PROVE DrainInv'
<1>1. /\ UNCHANGED <<retired, hazard, claimed>>
      /\ \A u \in Threads : u # t => pc'[u] = pc[u] /\ loc'[u] = loc[u]
      /\ pc[t] \notin {"drain", "drain_pick", "drain_scan"} /\ pc'[t] \notin {"drain_pick", "drain_scan"}
  BY DEF DrainQuiet, Others, DrainPc
<1>2. /\ IsFiniteSet(claimed) /\ IsFiniteSet(retired) /\ IsFiniteSet(Draining) /\ claimed \subseteq Threads
      /\ HazardsRead /\ ScansClaimed /\ KeptProtected /\ RetiredBounded
  BY DEF DrainInv, IInv, TypeInv, TypeOK
<1>3. IsFiniteSet(Draining') /\ Draining \subseteq Draining'
  <2>1. t \notin Draining
    BY <1>1 DEF Draining, DrainPc
  <2> QED  BY <1>2, <2>1, DrainingOf DEF DrainQuiet
<1>4. RetiredBounded'
  BY <1>1, <1>2, <1>3, BoundKept
<1>5. HazardsRead'
  BY <1>1, <1>2 DEF HazardsRead, DrainQuiet, ReadingPc
<1>6. ScansClaimed'
  BY <1>1, <1>2 DEF ScansClaimed, DrainQuiet
<1>7. KeptProtected'
  <2>1. ASSUME NEW r \in Threads, pc'[r] \in {"drain_pick", "drain_scan"}
        PROVE  /\ pc[r] \in {"drain_pick", "drain_scan"} /\ Left(r)' = Left(r)
               /\ \A u \in claimed : Spent(u, r) => Spent(u, r)'
    <3>1. pc'[r] = pc[r] /\ loc'[r] = loc[r]
      BY <1>1, <2>1
    <3>2. Left(r)' = Left(r)
      BY <3>1 DEF Left
    <3>3. Left(r) \subseteq retired
      BY <2>1, <3>1, DrainersLeft
    <3>4. ASSUME NEW u \in claimed, Spent(u, r) PROVE Spent(u, r)'
      <4>1. CASE u = t
        <5>1. pc'[t] = "get_pub" => loc'[t].ptr \notin Left(r)
          BY <3>3 DEF DrainQuiet
        <5> QED  BY <1>1, <3>2, <3>4, <4>1, <5>1 DEF Spent
      <4>2. CASE u # t
        BY <1>1, <1>2, <3>2, <3>4, <4>2 DEF Spent
      <4> QED  BY <4>1, <4>2
    <3> QED  BY <2>1, <3>1, <3>2, <3>4
  <2> QED  BY <1>1, <1>2, <2>1, KeptKept
<1> QED  BY <1>1, <1>2, <1>3, <1>4, <1>5, <1>6, <1>7 DEF DrainInv

LEMMA DrainOthers ==
    ASSUME IInv, DrainInv, NEW t \in Threads,
           \/ Caller(t) \/ Insert(t)
           \/ GetGen(t) \/ GetVal(t) \/ GetGen2(t) \/ GetVal2(t) \/ GetInc(t)
           \/ RemGen(t) \/ RemVal(t) \/ RemCas(t) \/ RemBump(t)
           \/ PushLoad(t) \/ PushNext(t) \/ PushCas(t) \/ RemInc(t)
           \/ RemProtected(t) \/ RemScan(t) \/ RemUnref(t)
    PROVE  DrainQuiet(t)
<1>1. TypeOK /\ Fields(t) /\ InUse /\ RetiredOwns
  BY Parts
<1>2. /\ hazard[t] # NULL => pc[t] \in ReadingPc /\ hazard[t] = loc[t].ptr
      /\ pc[t] = "rem_scan" => loc[t].left \subseteq claimed
  BY DEF DrainInv, HazardsRead, ScansClaimed, ReadingPc
<1> USE DEF DrainQuiet, Others, TypeOK, hazards, DrainPc, ReadingPc
<1>3. CASE Caller(t)
  <2>1. CASE CallInsert(t)
    BY <1>1, <1>2, <2>1 DEF CallInsert, Start, Goto
  <2>2. CASE CallGet(t)
    BY <1>1, <1>2, <2>2 DEF CallGet, CallWith, Start, Goto
  <2>3. CASE CallRemove(t)
    BY <1>1, <1>2, <2>3 DEF CallRemove, CallWith, Start, Goto
  <2>4. CASE DropArc(t)
    BY <1>1, <1>2, <2>4 DEF DropArc, ReturnNothing
  <2> QED  BY <1>3, <2>1, <2>2, <2>3, <2>4 DEF Caller
<1>4. CASE Insert(t)
  <2>1. CASE PopLoad(t) \/ PopNext(t) \/ PopCas(t)
    BY <1>1, <1>2, <2>1 DEF PopLoad, PopNext, PopCas, Goto
  <2>2. CASE Fresh(t)
    BY <1>1, <1>2, <2>2 DEF Fresh, ReturnNothing, Goto
  <2>3. CASE Store(t) \/ Publish(t)
    BY <1>1, <1>2, <2>3 DEF Store, Publish, ReturnNothing, Goto
  <2> QED  BY <1>4, <2>1, <2>2, <2>3 DEF Insert
<1>5. CASE GetGen(t)
  BY <1>1, <1>2, <1>5 DEF GetGen, ReturnNothing, Goto
<1>6. CASE GetVal(t)
  <2>1. value[loc[t].idx] \notin retired
    BY <1>1 DEF RetiredOwns, Fields
  <2> QED  BY <1>1, <1>2, <1>6, <2>1 DEF GetVal, ReturnNothing, Goto, Locals
<1>7. CASE GetGen2(t) \/ GetVal2(t) \/ GetInc(t)
  BY <1>1, <1>2, <1>7 DEF GetGen2, GetVal2, GetInc, Goto
<1>8. CASE RemGen(t) \/ RemVal(t) \/ RemCas(t) \/ RemBump(t)
  BY <1>1, <1>2, <1>8 DEF RemGen, RemVal, RemCas, RemBump, ReturnNothing, Goto
<1>9. CASE PushLoad(t) \/ PushNext(t) \/ PushCas(t) \/ RemInc(t) \/ RemUnref(t)
  BY <1>1, <1>2, <1>9 DEF PushLoad, PushNext, PushCas, RemInc, RemUnref, Goto
<1>10. CASE RemProtected(t)
  BY <1>1, <1>2, <1>10 DEF RemProtected, Goto, Locals
<1>11. CASE RemScan(t)
  BY <1>1, <1>2, <1>11 DEF RemScan, Goto, Locals
<1> QED  BY <1>3, <1>4, <1>5, <1>6, <1>7, <1>8, <1>9, <1>10, <1>11

\* A reader publishes or clears its hazard: it protects no entry that a drain has
\* still to look at, because it loaded its pointer from a cell.
LEMMA HazardDrains ==
    ASSUME IInv, DrainInv, NEW t \in Threads, GetPublish(t) \/ GetDone(t) \/ GetRetry(t)
    PROVE  DrainInv'
<1>1. /\ IsFiniteSet(claimed) /\ IsFiniteSet(retired) /\ IsFiniteSet(Draining) /\ claimed \subseteq Threads
      /\ HazardsRead /\ ScansClaimed /\ KeptProtected /\ RetiredBounded
      /\ TypeOK /\ Fields(t)
  BY Parts DEF DrainInv, TypeOK
<1>2. /\ retired' = retired /\ claimed' \in {claimed, claimed \cup {t}}
      /\ \A u \in Threads : u # t => pc'[u] = pc[u] /\ loc'[u] = loc[u] /\ hazard'[u] = hazard[u]
      /\ pc[t] \in {"get_pub", "get_done", "get_retry"} /\ pc'[t] \in {"get_gen2", "held", "get_gen"}
      /\ \/ hazard'[t] = NULL
         \/ pc[t] = "get_pub" /\ hazard'[t] = loc[t].ptr /\ loc'[t].ptr = loc[t].ptr
            /\ t \in claimed' /\ pc'[t] = "get_gen2"
  BY <1>1 DEF GetPublish, GetDone, GetRetry, ReturnArc, Goto, TypeOK
<1>3. IsFiniteSet(claimed') /\ claimed \subseteq claimed'
  BY <1>1, <1>2, FS_AddElement
<1>4. Draining' = Draining
  BY <1>2 DEF Draining, DrainPc
<1>5. RetiredBounded'
  BY <1>1, <1>2, <1>3, <1>4, BoundKept
<1>6. HazardsRead'
  BY <1>1, <1>2, <1>3 DEF HazardsRead, ReadingPc
<1>7. ScansClaimed'
  BY <1>1, <1>2, <1>3 DEF ScansClaimed
<1>8. KeptProtected'
  <2>1. ASSUME NEW r \in Threads, pc'[r] \in {"drain_pick", "drain_scan"}
        PROVE  /\ pc[r] \in {"drain_pick", "drain_scan"} /\ Left(r)' = Left(r)
               /\ \A u \in claimed : Spent(u, r) => Spent(u, r)'
    <3>1. pc'[r] = pc[r] /\ loc'[r] = loc[r]
      BY <1>2, <2>1
    <3>2. Left(r)' = Left(r)
      BY <3>1 DEF Left
    <3>3. NULL \notin Left(r)
      BY <2>1, <3>1, DrainersLeft
    <3>4. ASSUME NEW u \in claimed, Spent(u, r) PROVE Spent(u, r)'
      <4>1. CASE u = t
        BY <1>2, <3>2, <3>3, <3>4, <4>1 DEF Spent
      <4>2. CASE u # t
        BY <1>1, <1>2, <3>2, <3>4, <4>2 DEF Spent
      <4> QED  BY <4>1, <4>2
    <3> QED  BY <2>1, <3>1, <3>2, <3>4
  <2> QED  BY <1>1, <1>2, <1>3, <2>1, KeptKept
<1> QED  BY <1>1, <1>2, <1>3, <1>4, <1>5, <1>6, <1>7, <1>8 DEF DrainInv

\* A remove adds its value to the list before it drains it.
LEMMA DeferDrains == ASSUME IInv, DrainInv, NEW t \in Threads, RemDefer(t) PROVE DrainInv'
<1>1. /\ IsFiniteSet(claimed) /\ IsFiniteSet(retired) /\ IsFiniteSet(Draining)
      /\ HazardsRead /\ ScansClaimed /\ RetiredBounded /\ TypeOK
  BY Parts DEF DrainInv
<1>2. /\ retired' = retired \cup {loc[t].ptr} /\ UNCHANGED <<hazard, claimed, loc>>
      /\ pc[t] = "rem_defer" /\ pc'[t] = "drain" /\ \A u \in Threads : u # t => pc'[u] = pc[u]
      /\ \A u \in Threads : pc[u] \notin {"drain_pick", "drain_scan"}
  BY <1>1 DEF RemDefer, Goto, RetiredLocked, TypeOK, hazards
<1>3. /\ Draining' = Draining \cup {t} /\ t \notin Draining
  BY <1>2 DEF Draining, DrainPc
<1>4. /\ IsFiniteSet(retired') /\ IsFiniteSet(Draining')
      /\ Cardinality(Draining') = Cardinality(Draining) + 1
      /\ Cardinality(retired') <= Cardinality(retired) + 1
      /\ Cardinality(retired) \in Nat /\ Cardinality(retired') \in Nat /\ Cardinality(Draining) \in Nat
  <2>1. IsFiniteSet(Draining') /\ Cardinality(Draining') = Cardinality(Draining) + 1
    BY <1>1, <1>3, FS_AddElement
  <2>2. IsFiniteSet(retired') /\ Cardinality(retired') \in {Cardinality(retired), Cardinality(retired) + 1}
    BY <1>1, <1>2, FS_AddElement
  <2>3. Cardinality(retired) \in Nat /\ Cardinality(retired') \in Nat /\ Cardinality(Draining) \in Nat
    BY <1>1, <2>2, FS_CardinalityType
  <2> QED  BY <2>1, <2>2, <2>3
<1>5. RetiredBounded'
  <2>1. SlotCount \in Nat /\ SlotCount' = SlotCount
    BY <1>1, <1>2, CountOfSlots DEF SlotCount
  <2>2. Cardinality(retired) <= 2 * SlotCount - 1 + Cardinality(Draining)
    BY <1>1 DEF RetiredBounded, Draining
  <2>3. Cardinality(retired') <= 2 * SlotCount' - 1 + Cardinality(Draining')
    BY <1>4, <2>1, <2>2
  <2> QED  BY <2>3 DEF RetiredBounded, Draining
<1>6. HazardsRead'
  BY <1>1, <1>2 DEF HazardsRead, ReadingPc
<1>7. ScansClaimed'
  BY <1>1, <1>2 DEF ScansClaimed
<1>8. KeptProtected'
  BY <1>2 DEF KeptProtected
<1> QED  BY <1>1, <1>2, <1>4, <1>5, <1>6, <1>7, <1>8 DEF DrainInv

\* A drain ends with fewer entries than twice the slots, or begins with all of
\* them to look at.
LEMMA BeginDrains == ASSUME IInv, DrainInv, NEW t \in Threads, Drain(t) PROVE DrainInv'
<1>1. /\ IsFiniteSet(claimed) /\ IsFiniteSet(retired) /\ IsFiniteSet(Draining)
      /\ HazardsRead /\ ScansClaimed /\ RetiredBounded /\ TypeOK
  BY Parts DEF DrainInv
<1>2. /\ UNCHANGED <<retired, hazard, claimed>>
      /\ pc[t] = "drain" /\ \A u \in Threads : u # t => pc'[u] = pc[u] /\ loc'[u] = loc[u]
      /\ \A u \in Threads : pc[u] \notin {"drain_pick", "drain_scan"}
      /\ \/ pc'[t] = "held" /\ Cardinality(retired) < 2 * SlotCount
         \/ pc'[t] = "drain_pick" /\ loc'[t].work = retired
  BY <1>1 DEF Drain, ReturnArc, Goto, RetiredLocked, TypeOK, hazards, Locals
<1>3. /\ Others(t) /\ IsFiniteSet(Draining') /\ t \in Draining
      /\ Cardinality(Draining') \in Nat /\ Cardinality(retired) \in Nat
  BY <1>1, <1>2, DrainingOf, FS_CardinalityType DEF Others, Draining, DrainPc
<1>4. RetiredBounded'
  <2>1. CASE pc'[t] = "held"
    <3>1. SlotCount \in Nat /\ SlotCount' = SlotCount
      BY <1>1, <1>2, CountOfSlots DEF SlotCount
    <3>2. Cardinality(retired') <= 2 * SlotCount' - 1 + Cardinality(Draining')
      BY <1>2, <1>3, <2>1, <3>1
    <3> QED  BY <3>2 DEF RetiredBounded, Draining
  <2>2. CASE pc'[t] = "drain_pick"
    <3>1. Draining \subseteq Draining'
      BY <1>1, <1>3, <2>2, DrainingOf DEF DrainPc
    <3> QED  BY <1>1, <1>2, <1>3, <3>1, BoundKept
  <2> QED  BY <1>2, <2>1, <2>2
<1>5. HazardsRead'
  BY <1>1, <1>2 DEF HazardsRead, ReadingPc
<1>6. ScansClaimed'
  BY <1>1, <1>2 DEF ScansClaimed
<1>7. KeptProtected'
  <2> SUFFICES ASSUME NEW r \in Threads, pc'[r] \in {"drain_pick", "drain_scan"}
               PROVE  Cardinality(retired' \ Left(r)') <= Cardinality({u \in claimed' : Spent(u, r)'})
    BY DEF KeptProtected
  <2>1. r = t /\ pc'[t] = "drain_pick" /\ loc'[t].work = retired
    BY <1>2
  <2>2. retired' \ Left(r)' = {}
    BY <1>2, <2>1 DEF Left
  <2>3. Cardinality(retired' \ Left(r)') = 0
    BY <2>2, FS_EmptySet
  <2>4. Cardinality({u \in claimed' : Spent(u, r)'}) \in Nat
    BY <1>1, <1>2, FS_Subset, FS_CardinalityType
  <2> QED  BY <2>3, <2>4
<1> QED  BY <1>1, <1>2, <1>3, <1>4, <1>5, <1>6, <1>7 DEF DrainInv

\* A scan that found every entry protected has found as many protecting threads;
\* one that has entries left begins with the hazard slots there are.
LEMMA PickDrains == ASSUME IInv, DrainInv, NEW t \in Threads, DrainPick(t) PROVE DrainInv'
<1>1. /\ IsFiniteSet(claimed) /\ IsFiniteSet(retired) /\ IsFiniteSet(Draining)
      /\ HazardsRead /\ ScansClaimed /\ KeptProtected /\ RetiredBounded /\ TypeOK /\ RetiredOwns
  BY Parts DEF DrainInv
<1>2. /\ UNCHANGED <<retired, hazard, claimed>>
      /\ pc[t] = "drain_pick" /\ \A u \in Threads : u # t => pc'[u] = pc[u] /\ loc'[u] = loc[u]
      /\ \/ pc'[t] = "held" /\ loc[t].work = {}
         \/ pc'[t] = "drain_scan" /\ Left(t)' = Left(t) /\ loc'[t].left = claimed
  <2>1. CASE loc[t].work = {}
    BY <1>1, <2>1 DEF DrainPick, ReturnArc, TypeOK, hazards
  <2>2. CASE loc[t].work # {}
    <3>1. PICK e \in loc[t].work : loc' = [loc EXCEPT ![t] =
                   [loc[t] EXCEPT !.work = @ \ {e}, !.entry = e, !.left = claimed]]
      BY <2>2 DEF DrainPick
    <3>2. loc'[t].entry = e /\ loc'[t].left = claimed /\ loc'[t].work = loc[t].work \ {e}
      BY <1>1, <3>1 DEF TypeOK, Locals
    <3>3. /\ pc[t] = "drain_pick" /\ pc' = [pc EXCEPT ![t] = "drain_scan"]
          /\ UNCHANGED <<retired, hazard, claimed>>
      BY <2>2 DEF DrainPick, Goto, hazards
    <3>4. pc'[t] = "drain_scan" /\ \A u \in Threads : u # t => pc'[u] = pc[u] /\ loc'[u] = loc[u]
      BY <1>1, <3>1, <3>3 DEF TypeOK
    <3>5. Left(t)' = Left(t)
      BY <3>2, <3>3, <3>4 DEF Left
    <3> QED  BY <3>2, <3>3, <3>4, <3>5
  <2> QED  BY <2>1, <2>2
<1>3. /\ Others(t) /\ IsFiniteSet(Draining') /\ t \in Draining
      /\ Cardinality(Draining') \in Nat /\ Cardinality(retired) \in Nat
  BY <1>1, <1>2, DrainingOf, FS_CardinalityType DEF Others, Draining, DrainPc
<1>4. RetiredBounded'
  <2>1. CASE pc'[t] = "held"
    <3>1. Left(t) = {}
      BY <1>2, <2>1 DEF Left
    <3>2. Cardinality(retired) <= Cardinality({u \in claimed : Spent(u, t)})
      <4>1. Cardinality(retired \ Left(t)) <= Cardinality({u \in claimed : Spent(u, t)})
        BY <1>1, <1>2 DEF KeptProtected
      <4>2. retired \ Left(t) = retired
        BY <3>1
      <4> QED  BY <4>1, <4>2
    <3>3. /\ Cardinality({u \in claimed : Spent(u, t)}) <= Cardinality(claimed)
          /\ Cardinality({u \in claimed : Spent(u, t)}) \in Nat
      BY <1>1, FS_Subset, FS_CardinalityType
    <3>4. SlotCount \in Nat /\ SlotCount' = SlotCount /\ SlotCount >= 1 /\ Cardinality(claimed) <= SlotCount
          /\ Cardinality(claimed) \in Nat
      BY <1>1, <1>2, CountOfSlots DEF SlotCount
    <3>5. Cardinality(retired') <= 2 * SlotCount' - 1 + Cardinality(Draining')
      BY <1>2, <1>3, <3>2, <3>3, <3>4
    <3> QED  BY <3>5 DEF RetiredBounded, Draining
  <2>2. CASE pc'[t] = "drain_scan"
    <3>1. Draining \subseteq Draining'
      BY <1>1, <1>3, <2>2, DrainingOf DEF DrainPc
    <3> QED  BY <1>1, <1>2, <1>3, <3>1, BoundKept
  <2> QED  BY <1>2, <2>1, <2>2
<1>5. HazardsRead'
  BY <1>1, <1>2 DEF HazardsRead, ReadingPc
<1>6. ScansClaimed'
  BY <1>1, <1>2 DEF ScansClaimed
<1>7. KeptProtected'
  <2>1. ASSUME NEW r \in Threads, pc'[r] \in {"drain_pick", "drain_scan"}
        PROVE  /\ pc[r] \in {"drain_pick", "drain_scan"} /\ Left(r)' = Left(r)
               /\ \A u \in claimed : Spent(u, r) => Spent(u, r)'
    <3>1. r = t /\ pc'[t] = "drain_scan" /\ Left(t)' = Left(t)
      BY <1>1, <1>2, <2>1 DEF RetiredOwns
    <3>2. ASSUME NEW u \in claimed, Spent(u, r) PROVE Spent(u, r)'
      <4>1. u \in Threads
        BY <1>1 DEF TypeOK
      <4> QED  BY <1>2, <3>1, <3>2, <4>1 DEF Spent
    <3> QED  BY <1>2, <3>1, <3>2
  <2> QED  BY <1>1, <1>2, <2>1, KeptKept
<1> QED  BY <1>1, <1>2, <1>3, <1>4, <1>5, <1>6, <1>7 DEF DrainInv

\* One hazard slot is compared with one entry: the last of them releases it, a
\* protecting one keeps it.
LEMMA ScanDrains == ASSUME IInv, DrainInv, NEW t \in Threads, DrainScan(t) PROVE DrainInv'
<1>1. /\ IsFiniteSet(claimed) /\ IsFiniteSet(retired) /\ IsFiniteSet(Draining) /\ claimed \subseteq Threads
      /\ HazardsRead /\ ScansClaimed /\ KeptProtected /\ RetiredBounded /\ TypeOK /\ RetiredOwns
      /\ retired \subseteq Ptrs /\ NULL \notin Ptrs
  BY Parts, TableAssumption DEF DrainInv, TypeOK
<1>2. pc[t] = "drain_scan" /\ UNCHANGED <<hazard, claimed>>
  BY DEF DrainScan, Goto, hazards
<1>3. /\ loc[t].entry \in retired \ loc[t].work /\ loc[t].work \subseteq retired
      /\ loc[t].left \subseteq claimed /\ Left(t) = loc[t].work \cup {loc[t].entry}
      /\ \A u \in Threads : pc[u] \in {"drain_pick", "drain_scan"} => u = t
  BY <1>1, <1>2 DEF RetiredOwns, ScansClaimed, Left
<1>4. /\ \A u \in Threads : u # t => pc'[u] = pc[u] /\ loc'[u] = loc[u]
      /\ \/ /\ pc'[t] = "drain_pick" /\ loc'[t].work = loc[t].work /\ retired' = retired \ {loc[t].entry}
         \/ /\ pc'[t] = "drain_pick" /\ loc'[t].work = loc[t].work /\ retired' = retired
            /\ \E v \in loc[t].left : hazard[v] = loc[t].entry
         \/ /\ pc'[t] = "drain_scan" /\ loc'[t].work = loc[t].work /\ retired' = retired
            /\ loc'[t].entry = loc[t].entry /\ loc'[t].left \subseteq loc[t].left
  <2>1. CASE /\ loc[t].left = {} /\ Goto(t, "drain_scan", "drain_pick")
             /\ retired' = retired \ {loc[t].entry} /\ loc' = [loc EXCEPT ![t].entry = NULL]
    BY <1>1, <2>1 DEF TypeOK, Locals, Goto
  <2>2. CASE \E v \in loc[t].left :
               /\ IF hazard[v] = loc[t].entry
                  THEN /\ Goto(t, "drain_scan", "drain_pick")
                       /\ loc' = [loc EXCEPT ![t] = [@ EXCEPT !.left = {}, !.entry = NULL]]
                  ELSE /\ pc[t] = "drain_scan" /\ UNCHANGED pc
                       /\ loc' = [loc EXCEPT ![t].left = @ \ {v}]
               /\ UNCHANGED <<owners, retired>>
    <3>1. PICK v \in loc[t].left :
               /\ IF hazard[v] = loc[t].entry
                  THEN /\ Goto(t, "drain_scan", "drain_pick")
                       /\ loc' = [loc EXCEPT ![t] = [@ EXCEPT !.left = {}, !.entry = NULL]]
                  ELSE /\ pc[t] = "drain_scan" /\ UNCHANGED pc
                       /\ loc' = [loc EXCEPT ![t].left = @ \ {v}]
               /\ UNCHANGED <<owners, retired>>
      BY <2>2
    <3>2. CASE hazard[v] = loc[t].entry
      <4>1. pc' = [pc EXCEPT ![t] = "drain_pick"] /\ loc' = [loc EXCEPT ![t] = [loc[t] EXCEPT !.left = {}, !.entry = NULL]]
        BY <3>1, <3>2 DEF Goto
      <4>2. pc'[t] = "drain_pick" /\ loc'[t].work = loc[t].work
        BY <1>1, <4>1 DEF TypeOK, Locals
      <4> QED  BY <1>1, <3>1, <3>2, <4>1, <4>2 DEF TypeOK
    <3>3. CASE hazard[v] # loc[t].entry
      BY <1>1, <1>2, <3>1, <3>3 DEF TypeOK, Locals
    <3> QED  BY <3>2, <3>3
  <2> QED  BY <2>1, <2>2 DEF DrainScan
<1>5. Draining' = Draining
  <2>1. pc[t] \in DrainPc /\ pc'[t] \in DrainPc
    BY <1>2, <1>4 DEF DrainPc
  <2> QED  BY <1>4, <2>1 DEF Draining
<1>6. retired' \subseteq retired /\ IsFiniteSet(retired') /\ Cardinality(retired') <= Cardinality(retired)
  <2>1. retired' \subseteq retired
    BY <1>4
  <2> QED  BY <1>1, <2>1, FS_Subset
<1>7. RetiredBounded'
  <2>1. SlotCount \in Nat /\ SlotCount' = SlotCount
    BY <1>1, <1>2, CountOfSlots DEF SlotCount
  <2>2. /\ Cardinality(Draining) \in Nat /\ Cardinality(retired) \in Nat /\ Cardinality(retired') \in Nat
    BY <1>1, <1>6, FS_CardinalityType
  <2>3. Cardinality(retired) <= 2 * SlotCount - 1 + Cardinality(Draining)
    BY <1>1 DEF RetiredBounded, Draining
  <2>4. Cardinality(retired') <= 2 * SlotCount' - 1 + Cardinality(Draining')
    BY <1>5, <1>6, <2>1, <2>2, <2>3
  <2> QED  BY <2>4 DEF RetiredBounded, Draining
<1>8. HazardsRead'
  BY <1>1, <1>2, <1>4 DEF HazardsRead, ReadingPc
<1>9. ScansClaimed'
  BY <1>1, <1>2, <1>3, <1>4 DEF ScansClaimed
<1>10. KeptProtected'
  <2> DEFINE S == {u \in claimed : Spent(u, t)}
             T == {u \in claimed : Spent(u, t)'}
  <2>1. \A r \in Threads : pc'[r] \in {"drain_pick", "drain_scan"} => r = t
    BY <1>3, <1>4
  <2>2. SUFFICES Cardinality(retired' \ Left(t)') <= Cardinality(T)
    BY <1>2, <2>1 DEF KeptProtected
  <2>3. Cardinality(retired \ Left(t)) <= Cardinality(S)
    BY <1>1, <1>2 DEF KeptProtected
  <2>4. Left(t)' \subseteq Left(t)
    BY <1>3, <1>4 DEF Left
  <2>5. S \subseteq T
    BY <1>1, <1>2, <1>4, <2>4 DEF Spent
  <2>6. IsFiniteSet(S) /\ IsFiniteSet(T) /\ Cardinality(S) <= Cardinality(T)
    BY <1>1, <2>5, FS_Subset
  <2>7. Cardinality(S) \in Nat /\ Cardinality(T) \in Nat /\ IsFiniteSet(retired \ Left(t))
        /\ Cardinality(retired \ Left(t)) \in Nat
    BY <1>1, <2>6, FS_CardinalityType, FS_Subset
  <2>8. CASE retired' \ Left(t)' = retired \ Left(t)
    BY <2>3, <2>6, <2>7, <2>8
  <2>9. CASE retired' \ Left(t)' # retired \ Left(t)
    <3>1. /\ pc'[t] = "drain_pick" /\ loc'[t].work = loc[t].work /\ retired' = retired
          /\ \E v \in loc[t].left : hazard[v] = loc[t].entry
      <4>1. CASE pc'[t] = "drain_pick" /\ loc'[t].work = loc[t].work /\ retired' = retired \ {loc[t].entry}
        <5>1. Left(t)' = loc[t].work
          BY <4>1 DEF Left
        <5> QED  BY <1>3, <2>9, <4>1, <5>1
      <4>2. CASE /\ pc'[t] = "drain_scan" /\ loc'[t].work = loc[t].work /\ retired' = retired
                 /\ loc'[t].entry = loc[t].entry
        <5>1. Left(t)' = Left(t)
          BY <1>2, <4>2 DEF Left
        <5> QED  BY <2>9, <4>2, <5>1
      <4> QED  BY <1>4, <4>1, <4>2
    <3>2. PICK v \in loc[t].left : hazard[v] = loc[t].entry
      BY <3>1
    <3>3. Left(t)' = loc[t].work
      BY <3>1 DEF Left
    <3>4. retired' \ Left(t)' = (retired \ Left(t)) \cup {loc[t].entry} /\ loc[t].entry \notin retired \ Left(t)
      BY <1>3, <3>1, <3>3
    <3>5. Cardinality(retired' \ Left(t)') = Cardinality(retired \ Left(t)) + 1
      BY <2>7, <3>4, FS_AddElement
    <3>6. v \in T /\ v \notin S
      <4>1. v \in Threads /\ v \in claimed /\ hazard[v] # NULL
        BY <1>1, <1>3, <3>2
      <4>2. pc[v] \in ReadingPc
        BY <1>1, <4>1 DEF HazardsRead
      <4>3. v # t /\ pc'[v] # "get_pub"
        BY <1>2, <1>4, <4>1, <4>2 DEF ReadingPc
      <4>4. v \in T
        BY <1>2, <1>3, <3>2, <3>3, <4>1, <4>3 DEF Spent
      <4>5. v \notin S
        BY <1>3, <3>2 DEF Spent
      <4> QED  BY <4>4, <4>5
    <3>7. S \cup {v} \subseteq T /\ IsFiniteSet(S \cup {v}) /\ Cardinality(S \cup {v}) = Cardinality(S) + 1
      BY <2>5, <2>6, <3>6, FS_AddElement
    <3>8. Cardinality(S) + 1 <= Cardinality(T)
      BY <2>6, <3>7, FS_Subset
    <3> HIDE DEF S, T
    <3> QED  BY <2>3, <2>7, <3>5, <3>8
  <2> QED  BY <2>8, <2>9
<1> QED  BY <1>1, <1>2, <1>5, <1>6, <1>7, <1>8, <1>9, <1>10 DEF DrainInv

LEMMA DropDrains == ASSUME IInv, DrainInv, DropTable PROVE DrainInv'
<1>1. /\ IsFiniteSet(claimed) /\ IsFiniteSet(Draining) /\ HazardsRead /\ ScansClaimed
  BY DEF DrainInv
<1>2. /\ UNCHANGED <<hazard, claimed, pc, loc>> /\ retired' = {}
      /\ \A t \in Threads : pc[t] \notin {"drain", "drain_pick", "drain_scan", "rem_scan"}
  BY DEF DropTable, Resting, hazards
<1>3. IsFiniteSet(retired') /\ Cardinality(retired') = 0 /\ Draining' = Draining
  BY <1>2, FS_EmptySet DEF Draining
<1>4. RetiredBounded'
  <2>1. SlotCount' \in Nat /\ SlotCount' >= 1
    BY <1>1, <1>2, CountOfSlots DEF SlotCount
  <2>2. Cardinality(Draining') \in Nat
    BY <1>1, <1>3, FS_CardinalityType
  <2>3. Cardinality(retired') <= 2 * SlotCount' - 1 + Cardinality(Draining')
    BY <1>3, <2>1, <2>2
  <2> QED  BY <2>3 DEF RetiredBounded, Draining
<1>5. HazardsRead' /\ ScansClaimed' /\ KeptProtected'
  BY <1>1, <1>2 DEF HazardsRead, ScansClaimed, KeptProtected
<1> QED  BY <1>1, <1>2, <1>3, <1>4, <1>5 DEF DrainInv

LEMMA DrainStep == ASSUME IInv, DrainInv, [Next]_vars PROVE DrainInv'
<1>1. ASSUME NEW t \in Threads, Caller(t) \/ Insert(t) PROVE DrainInv'
  BY <1>1, DrainOthers, QuietDrains
<1>2. ASSUME NEW t \in Threads, Get(t) PROVE DrainInv'
  BY <1>2, DrainOthers, QuietDrains, HazardDrains DEF Get
<1>3. ASSUME NEW t \in Threads, Remove(t) PROVE DrainInv'
  BY <1>3, DrainOthers, QuietDrains, DeferDrains, BeginDrains, PickDrains, ScanDrains DEF Remove
<1>4. CASE DropTable
  BY <1>4, DropDrains
<1>5. CASE UNCHANGED vars
  BY <1>5 DEF DrainInv, HazardsRead, ScansClaimed, KeptProtected, RetiredBounded, SlotCount, Draining,
     Left, Spent, vars, cells, hazards
<1> QED  BY <1>1, <1>2, <1>3, <1>4, <1>5 DEF Next, Step

\* Deferred references do not pile up: a drain leaves at most one entry for each
\* hazard slot, so that outside of the drains in progress fewer than twice as many
\* wait (drain_retired and scan_retired of table.rs).
THEOREM RetireListBounded == Spec => []RetiredBounded
<1>1. Init => DrainInv
  <2> SUFFICES ASSUME Init PROVE DrainInv
    OBVIOUS
  <2>1. IsFiniteSet(claimed) /\ IsFiniteSet(retired) /\ IsFiniteSet(Draining)
        /\ Cardinality(retired) = 0 /\ Cardinality(Draining) = 0
    <3>1. Draining = {} /\ retired = {} /\ claimed = Registered
      BY DEF Init, Draining, DrainPc
    <3> QED  BY <3>1, FS_EmptySet, RegisteredAssumption
  <2>2. HazardsRead /\ ScansClaimed /\ KeptProtected
    BY DEF Init, HazardsRead, ScansClaimed, KeptProtected
  <2>3. SlotCount \in Nat /\ SlotCount >= 1
    BY <2>1, CountOfSlots DEF SlotCount
  <2>4. Cardinality(retired) <= 2 * SlotCount - 1 + Cardinality(Draining)
    BY <2>1, <2>3
  <2> QED  BY <2>1, <2>2, <2>4 DEF DrainInv, RetiredBounded, Draining
<1>2. IInv /\ DrainInv /\ [Next]_vars => DrainInv'
  BY DrainStep
<1>3. DrainInv => RetiredBounded
  BY DEF DrainInv
<1> QED  BY <1>1, <1>2, <1>3, Inductive, PTL DEF Spec

-----------------------------------------------------------------------------
(* The slots, the counters and the atomic map.                             *)
(*                                                                         *)
(* The freelist is a list of distinct slots that starts at the head word   *)
(* and that no thread can change but by an exchange of that word, whose    *)
(* tag tells it was not replaced meanwhile (Freelist, WordsTagged).  A     *)
(* slot that is not on it belongs to one thread or holds a value           *)
(* (SlotsOwned), so an insert never overwrites one: no reference is lost   *)
(* (NoneLeaked) and the count is exact (LiveCounted).  This holds as long  *)
(* as next_index does not wrap.                                            *)
(*                                                                         *)
(* When no handle is passed to remove twice, moreover, only the call that  *)
(* a handle was given to ends its generation (RemoversApart), a slot       *)
(* between two values has a handle that nobody was given (HandlesFresh),   *)
(* and what a reader protects is not handed out again before the reader    *)
(* looks at the slot once more (ReadersSee, ReadersHold): the table takes  *)
(* the steps of HandleMap.                                                 *)

\* A thread that has a slot to itself, and one that has read the head word.
Owning(t) == pc[t] \in {"store", "rem_bump", "push", "push_next", "push_cas"}
HasWord(t) == pc[t] \in {"pop_next", "pop_cas", "push_next", "push_cas"}

\* The freelist as the list of its n slots, from the head word along the links.
Chain(n, s) ==
    /\ s \in [1 .. n -> Slots]
    /\ \A k, m \in 1 .. n : s[k] = s[m] => k = m
    /\ free.top = IF n = 0 THEN END ELSE s[1]
    /\ \A k \in 1 .. n : nextFree[s[k]] = IF k = n THEN END ELSE s[k + 1]

\* Its slots were issued, are empty, and belong to no thread.
Unused(n, s) ==
    \A k \in 1 .. n : /\ value[s[k]] = NULL /\ s[k] < nextIndex
                      /\ \A t \in Threads : Owning(t) => loc[t].idx # s[k]

Freelist == \E n \in 0 .. Capacity : \E s \in [1 .. n -> Slots] : Chain(n, s) /\ Unused(n, s)

\* A slot is on the list.
Listed(i) ==
    \E n \in 0 .. Capacity : \E s \in [1 .. n -> Slots] : Chain(n, s) /\ \E k \in 1 .. n : s[k] = i

\* A slot in use is empty until its value is stored, and has one owner.
SlotsOwned ==
    /\ \A i \in Slots : value[i] # NULL => i < nextIndex
    /\ \A t \in Threads : Owning(t) =>
         /\ value[loc[t].idx] = NULL /\ loc[t].idx < nextIndex
         /\ \A u \in Threads : Owning(u) /\ loc[u].idx = loc[t].idx => u = t

\* The tag of the head word changes with it: a thread that finds the word it read
\* has the successor of its top (pop), or linked its slot to its top (push).
WordsTagged ==
    \A t \in Threads :
        /\ HasWord(t) => /\ loc[t].word.tag <= free.tag
                         /\ loc[t].word.tag = free.tag => loc[t].word = free
        /\ pc[t] = "pop_cas" /\ loc[t].word = free => loc[t].next = nextFree[free.top]
        /\ pc[t] = "push_cas" => nextFree[loc[t].idx] = loc[t].word.top

\* Each call claims at most one fresh index.
Looking == {t \in Threads : pc[t] \in {"pop", "pop_next", "pop_cas", "fresh"}}
IndexBounded ==
    /\ calls <= MaxCalls /\ IsFiniteSet(Looking)
    /\ nextIndex + Cardinality(Looking) <= calls

SlotInv == Freelist /\ SlotsOwned /\ WordsTagged /\ IndexBounded

\* Nothing that the table owns a reference on is out of its reach.
NoneLeaked ==
    \A p \in Ptrs : TABLE \in owners[p] =>
        \/ \E i \in Slots : value[i] = p
        \/ \E t \in Threads : pc[t] \in UnlinkedPc /\ loc[t].ptr = p
        \/ p \in retired

\* The values that are stored, the inserts that have not counted theirs, and the
\* removes that have not discounted theirs.
Stored == {i \in Slots : value[i] # NULL}
Publishing == {t \in Threads : pc[t] = "publish"}
Removing == {t \in Threads : pc[t] \in {"rem_bump", "push", "push_next", "push_cas", "rem_inc"}}
LiveCounted ==
    /\ IsFiniteSet(Publishing) /\ IsFiniteSet(Removing)
    /\ phase = "dropped" \/ live = Cardinality(Stored) + Cardinality(Removing) - Cardinality(Publishing)

-----------------------------------------------------------------------------
(* Numbers and lists *)

\* A nonempty set of natural numbers has a least element.
LEMMA LeastNat == ASSUME NEW T, T \subseteq Nat, T # {} PROVE \E n \in T : \A m \in T : n <= m
<1>1. IsWellFoundedOn(OpToRel(<, Nat), Nat)
  BY NatLessThanWellFounded, Zenon
<1>2. \A m, n \in Nat : m < n => <<m, n>> \in OpToRel(<, Nat)
  BY Zenon DEF OpToRel
<1>3. PICK n \in T : \A m \in T : <<m, n>> \notin OpToRel(<, Nat)
  BY <1>1, WFMin, Zenon
<1>4. \A m \in T : ~(m < n)
  BY <1>2, <1>3, Zenon
<1> QED  BY <1>4

LEMMA SlotsFinite == IsFiniteSet(Slots) /\ Cardinality(Slots) = Capacity /\ Capacity \in Nat \ {0} /\ Slots \subseteq Nat
<1>1. Capacity \in Nat \ {0}
  BY TableAssumption
<1>2. IsFiniteSet(0 .. Capacity - 1) /\ Cardinality(0 .. Capacity - 1) = Capacity
  BY <1>1, FS_Interval
<1> QED  BY <1>1, <1>2 DEF Slots

\* A list of distinct slots is no longer than the table.
LEMMA AtMostCapacity ==
    ASSUME NEW n \in Nat, NEW s \in [1 .. n -> Slots], \A k, m \in 1 .. n : s[k] = s[m] => k = m
    PROVE  n <= Capacity
<1>1. s \in Injection(1 .. n, Slots)
  BY DEF Injection, IsInjective
<1>2. Cardinality(1 .. n) = n
  BY FS_Interval
<1>3. Cardinality(1 .. n) <= Cardinality(Slots)
  BY <1>1, SlotsFinite, FS_Injection
<1> QED  BY <1>2, <1>3, SlotsFinite

\* The n slots of s are those that links reach from a head.
Linked(top, next, n, s) ==
    /\ top = IF n = 0 THEN END ELSE s[1]
    /\ \A k \in 1 .. n : next[s[k]] = IF k = n THEN END ELSE s[k + 1]

\* A head and links make one list of slots at most.
LEMMA LinkedOnce ==
    ASSUME NEW top, NEW next,
           NEW n \in Nat, NEW s \in [1 .. n -> Slots], Linked(top, next, n, s),
           NEW m \in Nat, NEW r \in [1 .. m -> Slots], Linked(top, next, m, r)
    PROVE  n = m /\ \A k \in 1 .. n : s[k] = r[k]
<1> USE DEF Linked
<1> DEFINE T == {k \in 1 .. n : ~(k <= m /\ s[k] = r[k])}
<1>1. END \notin Slots
  BY DEF END, Slots
<1>2. T = {}
  <2> SUFFICES ASSUME T # {} PROVE FALSE
    OBVIOUS
  <2>0. T \subseteq Nat
    OBVIOUS
  <2>1. PICK k \in T : \A j \in T : k <= j
    BY <2>0, LeastNat
  <2>2. k \in 1 .. n /\ s[k] \in Slots
    OBVIOUS
  <2>3. CASE k = 1
    BY <1>1, <2>2, <2>3
  <2>4. CASE k # 1
    <3>1. k - 1 \in 1 .. n /\ k - 1 \notin T /\ k - 1 # n /\ (k - 1) + 1 = k
      BY <2>1, <2>2, <2>4
    <3>2. k - 1 \in 1 .. m /\ s[k - 1] = r[k - 1] /\ next[s[k - 1]] = s[k]
      BY <3>1
    <3>3. k - 1 # m /\ r[k] = s[k]
      BY <1>1, <2>2, <3>1, <3>2
    <3> QED  BY <2>1, <3>1, <3>2, <3>3
  <2> QED  BY <2>3, <2>4
<1>3. \A k \in 1 .. n : k <= m /\ s[k] = r[k]
  BY <1>2
<1>4. n <= m
  <2>1. CASE n = 0
    BY <2>1
  <2>2. CASE n # 0
    BY <1>3, <2>2
  <2> QED  BY <2>1, <2>2
<1>5. ~(n < m)
  <2> SUFFICES ASSUME n < m PROVE FALSE
    OBVIOUS
  <2>1. CASE n = 0
    BY <1>1, <2>1
  <2>2. CASE n # 0
    <3>1. n \in 1 .. n /\ n \in 1 .. m /\ n + 1 \in 1 .. m /\ s[n] = r[n]
      BY <1>3, <2>2
    <3>2. next[s[n]] = END /\ next[r[n]] = r[n + 1] /\ r[n + 1] \in Slots
      BY <3>1
    <3> QED  BY <1>1, <3>1, <3>2
  <2> QED  BY <2>1, <2>2
<1> QED  BY <1>3, <1>4, <1>5

\* The walk along the freelist visits its slots, then stays at its end.
WalkOf(n, s) == [k \in 0 .. Capacity |-> IF k < n THEN s[k + 1] ELSE END]

LEMMA WalkIsChain ==
    ASSUME NEW n \in 0 .. Capacity, NEW s \in [1 .. n -> Slots], Chain(n, s)
    PROVE  \A k \in 0 .. Capacity : FreeWalk[k] = IF k < n THEN s[k + 1] ELSE END
<1> DEFINE Walk(f) == [k \in 0 .. Capacity |->
                         IF k = 0 THEN free.top
                         ELSE IF f[k - 1] = END THEN END ELSE nextFree[f[k - 1]]]
           w == WalkOf(n, s)
<1>1. Capacity \in Nat /\ n \in Nat /\ END \notin Slots
  BY TableAssumption DEF Slots, END
<1>2. \A k \in 0 .. Capacity : w[k] = IF k < n THEN s[k + 1] ELSE END
  BY DEF WalkOf
<1>3. ASSUME NEW k \in 0 .. Capacity
      PROVE  w[k] = IF k = 0 THEN free.top ELSE IF w[k - 1] = END THEN END ELSE nextFree[w[k - 1]]
  <2>1. CASE k = 0
    BY <1>1, <1>2, <2>1 DEF Chain
  <2>2. CASE k > 0
    <3>1. k - 1 \in 0 .. Capacity /\ k \in Nat
      BY <1>1, <2>2
    <3>2. CASE k - 1 < n
      <4>1. k \in 1 .. n /\ w[k - 1] = s[k] /\ s[k] \in Slots /\ s[k] # END
        BY <1>1, <1>2, <3>1, <3>2, <2>2
      <4>2. nextFree[s[k]] = IF k = n THEN END ELSE s[k + 1]
        BY <4>1 DEF Chain
      <4>3. w[k] = IF k = n THEN END ELSE s[k + 1]
        BY <1>1, <1>2, <3>1, <4>1
      <4> QED  BY <2>2, <4>1, <4>2, <4>3
    <3>3. CASE ~(k - 1 < n)
      <4>1. w[k - 1] = END /\ w[k] = END
        BY <1>1, <1>2, <3>1, <3>3
      <4> QED  BY <2>2, <4>1
    <3> QED  BY <3>2, <3>3
  <2> QED  BY <1>1, <2>1, <2>2
<1>4. w = Walk(w)
  BY <1>3 DEF WalkOf
<1>5. FreeWalk = Walk(FreeWalk)
  <2> HIDE DEF w
  <2>1. FreeWalk = CHOOSE f : f = Walk(f)
    BY DEF FreeWalk
  <2> HIDE DEF Walk
  <2> QED  BY <1>4, <2>1
<1>6. \A k \in 0 .. Capacity : FreeWalk[k] = IF k = 0 THEN free.top ELSE
         IF FreeWalk[k - 1] = END THEN END ELSE nextFree[FreeWalk[k - 1]]
  <2> DEFINE F == FreeWalk
  <2>1. F = Walk(F)
    BY <1>5
  <2> HIDE DEF F
  <2>2. \A k \in 0 .. Capacity : Walk(F)[k] = IF k = 0 THEN free.top ELSE
         IF F[k - 1] = END THEN END ELSE nextFree[F[k - 1]]
    OBVIOUS
  <2> HIDE DEF Walk
  <2>3. \A k \in 0 .. Capacity : F[k] = IF k = 0 THEN free.top ELSE
         IF F[k - 1] = END THEN END ELSE nextFree[F[k - 1]]
    BY <2>1, <2>2
  <2> QED  BY <2>3 DEF F
<1> HIDE DEF w, Walk
<1>7. \A k \in 0 .. Capacity : FreeWalk[k] = w[k]
  <2> DEFINE T == {k \in 0 .. Capacity : FreeWalk[k] # w[k]}
  <2>1. T = {}
    <3> SUFFICES ASSUME T # {} PROVE FALSE
      OBVIOUS
    <3>1. T \subseteq Nat
      OBVIOUS
    <3>2. PICK k \in T : \A m \in T : k <= m
      BY <3>1, LeastNat
    <3>3. k # 0
      BY <1>1, <1>3, <1>6, <3>2
    <3>4. k \in 0 .. Capacity /\ k - 1 \in 0 .. Capacity /\ k - 1 \notin T
      BY <1>1, <3>2, <3>3
    <3>5. FreeWalk[k - 1] = w[k - 1]
      BY <3>4
    <3> QED  BY <1>3, <1>6, <3>2, <3>3, <3>4, <3>5
  <2> QED  BY <2>1
<1> QED  BY <1>2, <1>7

\* There is only one such list.
LEMMA ListedOnce ==
    ASSUME NEW n \in 0 .. Capacity, NEW s \in [1 .. n -> Slots], Chain(n, s), NEW i \in Slots
    PROVE  /\ Listed(i) => \E k \in 1 .. n : s[k] = i
           /\ Listed(i) <=> i \in FreeSlots
<1>1. Capacity \in Nat /\ END \notin Slots
  BY SlotsFinite DEF END, Slots
<1>2. \A k \in 0 .. Capacity : FreeWalk[k] = IF k < n THEN s[k + 1] ELSE END
  BY WalkIsChain
<1>3. ASSUME Listed(i) PROVE \E k \in 1 .. n : s[k] = i
  <2>1. PICK m \in 0 .. Capacity : \E r \in [1 .. m -> Slots] : Chain(m, r) /\ \E k \in 1 .. m : r[k] = i
    BY <1>3 DEF Listed
  <2>2. PICK r \in [1 .. m -> Slots] : Chain(m, r) /\ \E k \in 1 .. m : r[k] = i
    BY <2>1
  <2>3. n \in Nat /\ m \in Nat
    BY <1>1
  <2>4. Linked(free.top, nextFree, n, s) /\ Linked(free.top, nextFree, m, r)
    BY <2>2 DEF Chain, Linked
  <2>5. n = m /\ \A k \in 1 .. n : s[k] = r[k]
    BY <2>3, <2>4, LinkedOnce
  <2> QED  BY <2>2, <2>5
<1>4. ASSUME i \in FreeSlots PROVE Listed(i)
  <2>1. PICK j \in 0 .. Capacity : FreeWalk[j] = i
    BY <1>4 DEF FreeSlots
  <2>2. j < n /\ s[j + 1] = i
    BY <1>1, <1>2, <2>1
  <2>3. j + 1 \in 1 .. n
    BY <1>1, <2>2
  <2> QED  BY <2>2, <2>3 DEF Listed
<1>5. ASSUME NEW k \in 1 .. n, s[k] = i PROVE i \in FreeSlots
  <2>1. k - 1 \in 0 .. Capacity /\ k - 1 < n /\ (k - 1) + 1 = k
    BY <1>1
  <2>2. FreeWalk[k - 1] = i
    BY <1>2, <1>5, <2>1
  <2> QED  BY <1>1, <2>1, <2>2 DEF FreeSlots
<1> QED  BY <1>3, <1>4, <1>5

\* Nor is there another one after a step.
LEMMA ListedNext ==
    ASSUME NEW n \in 0 .. Capacity, NEW s \in [1 .. n -> Slots], Chain(n, s)', NEW i \in Slots, Listed(i)'
    PROVE  \E k \in 1 .. n : s[k] = i
<1>1. PICK m \in 0 .. Capacity : \E r \in [1 .. m -> Slots] : Chain(m, r)' /\ \E k \in 1 .. m : r[k] = i
  BY DEF Listed
<1>2. PICK r \in [1 .. m -> Slots] : Chain(m, r)' /\ \E k \in 1 .. m : r[k] = i
  BY <1>1
<1>3. n \in Nat /\ m \in Nat
  BY SlotsFinite
<1>4. Linked(free'.top, nextFree', n, s) /\ Linked(free'.top, nextFree', m, r)
  BY <1>2 DEF Chain, Linked
<1>5. n = m /\ \A k \in 1 .. n : s[k] = r[k]
  BY <1>3, <1>4, LinkedOnce
<1> QED  BY <1>2, <1>5

LEMMA ListKept ==
    ASSUME UNCHANGED <<free, nextFree>>, NEW i \in Slots
    PROVE  Listed(i) <=> Listed(i)'
  BY DEF Listed, Chain

-----------------------------------------------------------------------------
(* The freelist and its owners *)

LEMMA SlotInit == Init => SlotInv
<1> SUFFICES ASSUME Init PROVE SlotInv
  OBVIOUS
<1>1. Freelist
  <2>1. \E s : s \in [1 .. 0 -> Slots]
    <3>1. [k \in 1 .. 0 |-> 0] \in [1 .. 0 -> Slots]
      OBVIOUS
    <3> QED  BY <3>1
  <2>2. PICK s \in [1 .. 0 -> Slots] : TRUE
    BY <2>1
  <2>3. Chain(0, s) /\ Unused(0, s)
    BY DEF Init, Chain, Unused
  <2>4. 0 \in 0 .. Capacity
    BY TableAssumption
  <2> QED  BY <2>3, <2>4 DEF Freelist
<1>2. SlotsOwned /\ WordsTagged
  BY DEF Init, SlotsOwned, WordsTagged, Owning, HasWord
<1>3. IndexBounded
  <2>1. Looking = {}
    BY DEF Init, Looking
  <2> QED  BY <2>1, TableAssumption, FS_EmptySet DEF Init, IndexBounded
<1> QED  BY <1>1, <1>2, <1>3 DEF SlotInv

\* A call that begins or goes on without an index of its own, and one that returns.
LEMMA IndexKept ==
    ASSUME IndexBounded, nextIndex' = nextIndex, calls' \in Nat, calls' >= calls, calls' <= MaxCalls,
           Looking' \subseteq Looking, nextIndex \in Nat, calls \in Nat
    PROVE  IndexBounded'
<1>1. /\ IsFiniteSet(Looking') /\ Cardinality(Looking') <= Cardinality(Looking)
      /\ Cardinality(Looking') \in Nat /\ Cardinality(Looking) \in Nat
  BY FS_Subset, FS_CardinalityType DEF IndexBounded
<1> QED  BY <1>1, TableAssumption DEF IndexBounded

\* A step that leaves the freelist and the values alone, and gives its thread no
\* slot it did not own.
SlotQuiet(t) ==
    /\ Others(t)
    /\ UNCHANGED <<value, nextFree, free, nextIndex>>
    /\ Owning(t)' => Owning(t) /\ loc'[t].idx = loc[t].idx
    /\ HasWord(t)' => loc'[t].word = free \/ (HasWord(t) /\ loc'[t].word = loc[t].word)
    /\ pc'[t] = "pop_cas" /\ loc'[t].word = free => loc'[t].next = nextFree[free.top]
    /\ pc'[t] = "push_cas" => nextFree[loc'[t].idx] = loc'[t].word.top

LEMMA QuietSlots ==
    ASSUME TypeOK, Freelist, SlotsOwned, WordsTagged, NEW t \in Threads, SlotQuiet(t)
    PROVE  Freelist' /\ SlotsOwned' /\ WordsTagged'
<1>1. UNCHANGED <<value, nextFree, free, nextIndex>>
  BY DEF SlotQuiet
<1>2. \A u \in Threads : Owning(u)' => Owning(u) /\ loc'[u].idx = loc[u].idx
  BY DEF SlotQuiet, Others, Owning
<1>3. Freelist'
  <2>0. PICK n \in 0 .. Capacity : \E s \in [1 .. n -> Slots] : Chain(n, s) /\ Unused(n, s)
    BY DEF Freelist
  <2>1. PICK s \in [1 .. n -> Slots] : Chain(n, s) /\ Unused(n, s)
    BY <2>0
  <2>2. Chain(n, s)'
    BY <1>1, <2>1 DEF Chain
  <2>3. Unused(n, s)'
    BY <1>1, <1>2, <2>1 DEF Unused
  <2> QED  BY <2>2, <2>3 DEF Freelist
<1>4. SlotsOwned'
  BY <1>1, <1>2 DEF SlotsOwned
<1>5. WordsTagged'
  <2> SUFFICES ASSUME NEW u \in Threads
               PROVE  /\ HasWord(u)' => /\ loc'[u].word.tag <= free.tag
                                        /\ loc'[u].word.tag = free.tag => loc'[u].word = free
                      /\ pc'[u] = "pop_cas" /\ loc'[u].word = free => loc'[u].next = nextFree[free.top]
                      /\ pc'[u] = "push_cas" => nextFree[loc'[u].idx] = loc'[u].word.top
    BY <1>1 DEF WordsTagged
  <2>1. CASE u = t
    <3>1. free.tag \in Nat
      BY DEF TypeOK, Words
    <3> QED  BY <1>1, <2>1, <3>1 DEF WordsTagged, SlotQuiet
  <2>2. CASE u # t
    BY <1>1, <2>2 DEF WordsTagged, SlotQuiet, Others, HasWord
  <2> QED  BY <2>1, <2>2
<1> QED  BY <1>3, <1>4, <1>5

\* The steps of calls that touch neither a slot nor the freelist.
LEMMA CallerQuiet ==
    ASSUME TypeInv, NEW t \in Threads, Caller(t)
    PROVE  SlotQuiet(t)
<1>1. TypeOK /\ Fields(t)
  BY LocalsFields DEF TypeInv
<1>2. CASE CallInsert(t)
  BY <1>1, <1>2 DEF CallInsert, Start, Goto, SlotQuiet, Others, TypeOK, Locals, cells, index, Owning, HasWord
<1>3. CASE CallGet(t)
  BY <1>1, <1>3 DEF CallGet, CallWith, Start, Goto, SlotQuiet, Others, TypeOK, Locals, cells, index,
     Owning, HasWord
<1>4. CASE CallRemove(t)
  BY <1>1, <1>4 DEF CallRemove, CallWith, Start, Goto, SlotQuiet, Others, TypeOK, Locals, cells, index,
     Owning, HasWord
<1>5. CASE DropArc(t)
  BY <1>1, <1>5 DEF DropArc, ReturnNothing, SlotQuiet, Others, TypeOK, Locals, cells, index, Owning, HasWord
<1> QED  BY <1>2, <1>3, <1>4, <1>5 DEF Caller

LEMMA GetQuiet ==
    ASSUME TypeInv, NEW t \in Threads, Get(t)
    PROVE  SlotQuiet(t)
<1>1. TypeOK /\ Fields(t)
  BY LocalsFields DEF TypeInv
<1> USE DEF SlotQuiet, Others, TypeOK, cells, index, Owning, HasWord
<1>2. CASE GetGen(t)
  BY <1>1, <1>2 DEF GetGen, ReturnNothing, Goto
<1>3. CASE GetVal(t)
  BY <1>1, <1>3 DEF GetVal, ReturnNothing, Goto
<1>4. CASE GetPublish(t)
  BY <1>1, <1>4 DEF GetPublish, Goto
<1>5. CASE GetGen2(t)
  BY <1>1, <1>5 DEF GetGen2, Goto
<1>6. CASE GetVal2(t)
  BY <1>1, <1>6 DEF GetVal2, Goto
<1>7. CASE GetInc(t)
  BY <1>1, <1>7 DEF GetInc, Goto
<1>8. CASE GetDone(t)
  BY <1>1, <1>8 DEF GetDone, ReturnArc
<1>9. CASE GetRetry(t)
  BY <1>1, <1>9 DEF GetRetry, Goto
<1> QED  BY <1>2, <1>3, <1>4, <1>5, <1>6, <1>7, <1>8, <1>9 DEF Get

LEMMA RemoveQuiet ==
    ASSUME TypeInv, NEW t \in Threads,
           \/ RemGen(t) \/ RemVal(t) \/ RemBump(t) \/ PushLoad(t) \/ RemInc(t)
           \/ RemProtected(t) \/ RemScan(t) \/ RemDefer(t) \/ RemUnref(t)
           \/ Drain(t) \/ DrainPick(t) \/ DrainScan(t)
    PROVE  SlotQuiet(t)
<1>1. TypeOK /\ Fields(t)
  BY LocalsFields DEF TypeInv
<1> USE DEF SlotQuiet, Others, TypeOK, cells, index, Owning, HasWord
<1>2. CASE RemGen(t)
  BY <1>1, <1>2 DEF RemGen, ReturnNothing, Goto
<1>3. CASE RemVal(t)
  BY <1>1, <1>3 DEF RemVal, ReturnNothing, Goto
<1>4. CASE RemBump(t)
  BY <1>1, <1>4 DEF RemBump, Goto
<1>5. CASE PushLoad(t)
  BY <1>1, <1>5 DEF PushLoad, Goto, Locals
<1>6. CASE RemInc(t)
  BY <1>1, <1>6 DEF RemInc, Goto
<1>7. CASE RemProtected(t)
  BY <1>1, <1>7 DEF RemProtected, Goto
<1>8. CASE RemScan(t)
  BY <1>1, <1>8 DEF RemScan, Goto
<1>9. CASE RemDefer(t)
  BY <1>1, <1>9 DEF RemDefer, Goto
<1>10. CASE RemUnref(t)
  BY <1>1, <1>10 DEF RemUnref, Goto
<1>11. CASE Drain(t)
  BY <1>1, <1>11 DEF Drain, ReturnArc, Goto
<1>12. CASE DrainPick(t)
  BY <1>1, <1>12 DEF DrainPick, ReturnArc, Goto
<1>13. CASE DrainScan(t)
  BY <1>1, <1>13 DEF DrainScan, Goto
<1> QED  BY <1>2, <1>3, <1>4, <1>5, <1>6, <1>7, <1>8, <1>9, <1>10, <1>11, <1>12, <1>13

\* A pop or a push that reads the head word or its successor, or finds that the
\* word has changed; an insert that publishes, or finds the table full.
LEMMA InsertQuiet ==
    ASSUME TypeInv, WordsTagged, NEW t \in Threads,
           \/ PopLoad(t) \/ PopNext(t) \/ Publish(t)
           \/ PopCas(t) /\ free # loc[t].word
           \/ PushCas(t) /\ free # loc[t].word
           \/ RemCas(t) /\ value[loc[t].idx] # loc[t].ptr
    PROVE  SlotQuiet(t)
<1>1. TypeOK /\ Fields(t)
  BY LocalsFields DEF TypeInv
<1> USE DEF SlotQuiet, Others, TypeOK, cells, index, Owning, HasWord
<1>2. CASE PopLoad(t)
  BY <1>1, <1>2 DEF PopLoad, Goto, Locals
<1>3. CASE PopNext(t)
  BY <1>1, <1>3 DEF PopNext, Goto, Locals, WordsTagged
<1>4. CASE Publish(t)
  BY <1>1, <1>4 DEF Publish, ReturnNothing
<1>5. CASE PopCas(t) /\ free # loc[t].word
  BY <1>1, <1>5 DEF PopCas, Goto
<1>6. CASE PushCas(t) /\ free # loc[t].word
  BY <1>1, <1>6 DEF PushCas, Goto
<1>7. CASE RemCas(t) /\ value[loc[t].idx] # loc[t].ptr
  BY <1>1, <1>7 DEF RemCas, Goto
<1> QED  BY <1>2, <1>3, <1>4, <1>5, <1>6, <1>7

\* A pop that finds its word takes the first slot of the list, which becomes the
\* thread's own, and leaves the rest of the list.
LEMMA PopTakes ==
    ASSUME TypeInv, Freelist, SlotsOwned, WordsTagged, NEW t \in Threads, PopCas(t), free = loc[t].word
    PROVE  /\ Freelist' /\ SlotsOwned' /\ WordsTagged'
           /\ \A i \in Slots : Listed(i) /\ i # loc'[t].idx => Listed(i)'
           /\ Listed(loc'[t].idx) /\ \A i \in Slots : Listed(i)' => Listed(i)
<1>1. TypeOK /\ Fields(t) /\ InUse
  BY LocalsFields DEF TypeInv
<1>2. /\ pc[t] = "pop_cas" /\ pc' = [pc EXCEPT ![t] = "store"]
      /\ free' = [tag |-> free.tag + 1, top |-> loc[t].next]
      /\ loc' = [loc EXCEPT ![t].idx = loc[t].word.top]
      /\ UNCHANGED <<generation, value, nextFree, nextIndex>>
  BY DEF PopCas, Goto, cells
<1>3. /\ pc'[t] = "store" /\ loc'[t].idx = free.top /\ free.top \in Slots /\ free.tag \in Nat
      /\ free'.tag = free.tag + 1 /\ free'.top = nextFree[free.top]
      /\ \A u \in Threads : u # t => pc'[u] = pc[u] /\ loc'[u] = loc[u]
  BY <1>1, <1>2 DEF TypeOK, Locals, Words, InUse, WordsTagged
<1>4. PICK n \in 0 .. Capacity : \E s \in [1 .. n -> Slots] : Chain(n, s) /\ Unused(n, s)
  BY DEF Freelist
<1>5. PICK s \in [1 .. n -> Slots] : Chain(n, s) /\ Unused(n, s)
  BY <1>4
<1>6. Capacity \in Nat /\ END \notin Slots
  BY TableAssumption DEF Slots, END
<1>7. n \in 1 .. Capacity /\ n - 1 \in 0 .. Capacity /\ free.top = s[1]
  BY <1>3, <1>5, <1>6 DEF Chain
<1>8. \A u \in Threads : Owning(u) => loc[u].idx # free.top
  BY <1>5, <1>7 DEF Unused
<1>9. /\ Freelist' /\ \A i \in Slots : Listed(i) /\ i # free.top => Listed(i)'
      /\ Listed(free.top) /\ \A i \in Slots : Listed(i)' => Listed(i)
  <2> DEFINE r == [k \in 1 .. n - 1 |-> s[k + 1]]
  <2>1. \A k \in 1 .. n - 1 : k + 1 \in 1 .. n /\ r[k] = s[k + 1]
    BY <1>7
  <2>2. r \in [1 .. n - 1 -> Slots]
    BY <2>1
  <2> HIDE DEF r
  <2>3. Chain(n - 1, r)'
    <3>1. \A k, m \in 1 .. n - 1 : r[k] = r[m] => k = m
      BY <1>5, <2>1 DEF Chain
    <3>2. free'.top = IF n - 1 = 0 THEN END ELSE r[1]
      BY <1>3, <1>5, <1>7, <2>1 DEF Chain
    <3>3. \A k \in 1 .. n - 1 : nextFree[r[k]] = IF k = n - 1 THEN END ELSE r[k + 1]
      <4> SUFFICES ASSUME NEW k \in 1 .. n - 1
                   PROVE  nextFree[r[k]] = IF k = n - 1 THEN END ELSE r[k + 1]
        OBVIOUS
      <4>1. k + 1 \in 1 .. n /\ nextFree[s[k + 1]] = IF k + 1 = n THEN END ELSE s[k + 2]
        BY <1>5, <2>1 DEF Chain
      <4>2. CASE k = n - 1
        BY <1>7, <2>1, <4>1, <4>2
      <4>3. CASE k # n - 1
        <5>1. k + 1 \in 1 .. n - 1 /\ k + 1 # n
          BY <1>7, <4>3
        <5> QED  BY <2>1, <4>1, <4>3, <5>1
      <4> QED  BY <4>2, <4>3
    <3> QED  BY <1>2, <2>2, <3>1, <3>2, <3>3 DEF Chain
  <2>4. Unused(n - 1, r)'
    <3> SUFFICES ASSUME NEW k \in 1 .. n - 1
                 PROVE  /\ value'[r[k]] = NULL /\ r[k] < nextIndex'
                        /\ \A u \in Threads : Owning(u)' => loc'[u].idx # r[k]
      BY DEF Unused
    <3>1. k + 1 \in 1 .. n /\ 1 \in 1 .. n /\ r[k] = s[k + 1] /\ k + 1 # 1
      BY <1>7, <2>1
    <3>2. r[k] # free.top
      BY <1>5, <1>7, <3>1 DEF Chain
    <3>3. value'[r[k]] = NULL /\ r[k] < nextIndex'
      BY <1>2, <1>5, <3>1 DEF Unused
    <3>4. ASSUME NEW u \in Threads, Owning(u)' PROVE loc'[u].idx # r[k]
      <4>1. CASE u = t
        BY <1>3, <3>2, <4>1
      <4>2. CASE u # t
        BY <1>3, <1>5, <3>1, <3>4, <4>2 DEF Unused, Owning
      <4> QED  BY <4>1, <4>2
    <3> QED  BY <3>3, <3>4
  <2>5. ASSUME NEW i \in Slots, Listed(i), i # free.top PROVE Listed(i)'
    <3>1. PICK k \in 1 .. n : s[k] = i
      BY <1>5, <2>5, ListedOnce
    <3>2. k - 1 \in 1 .. n - 1 /\ r[k - 1] = i
      BY <1>7, <2>1, <2>5, <3>1
    <3> QED  BY <1>7, <2>2, <2>3, <3>2 DEF Listed
  <2>6. Listed(free.top)
    BY <1>5, <1>7 DEF Listed
  <2>7. ASSUME NEW i \in Slots, Listed(i)' PROVE Listed(i)
    <3>1. PICK k \in 1 .. n - 1 : r[k] = i
      BY <1>7, <2>2, <2>3, <2>7, ListedNext
    <3> QED  BY <1>5, <2>1, <3>1 DEF Listed
  <2> QED  BY <1>7, <2>2, <2>3, <2>4, <2>5, <2>6, <2>7 DEF Freelist
<1>10. SlotsOwned'
  <2>1. value[free.top] = NULL /\ free.top < nextIndex
    BY <1>5, <1>7 DEF Unused
  <2>2. \A u \in Threads : u # t => (Owning(u)' <=> Owning(u))
    BY <1>3 DEF Owning
  <2> QED  BY <1>2, <1>3, <1>8, <2>1, <2>2 DEF SlotsOwned
<1>11. WordsTagged'
  <2> SUFFICES ASSUME NEW u \in Threads
               PROVE  /\ HasWord(u)' => /\ loc'[u].word.tag <= free'.tag
                                        /\ loc'[u].word.tag = free'.tag => loc'[u].word = free'
                      /\ pc'[u] = "pop_cas" /\ loc'[u].word = free' => loc'[u].next = nextFree'[free'.top]
                      /\ pc'[u] = "push_cas" => nextFree'[loc'[u].idx] = loc'[u].word.top
    BY DEF WordsTagged
  <2>1. CASE u = t
    BY <1>3, <2>1 DEF HasWord
  <2>2. CASE u # t
    <3>1. Fields(u) /\ pc'[u] = pc[u] /\ loc'[u] = loc[u]
      BY <1>1, <1>3, <2>2, LocalsFields
    <3>2. HasWord(u) => loc[u].word.tag < free'.tag
      BY <1>3, <3>1 DEF WordsTagged, Fields
    <3> QED  BY <1>2, <1>3, <3>1, <3>2 DEF WordsTagged, HasWord, Fields
  <2> QED  BY <2>1, <2>2
<1> QED  BY <1>3, <1>9, <1>10, <1>11

\* A push links its slot to the top it read: nobody else follows that link.
LEMMA PushLinks ==
    ASSUME TypeInv, Freelist, SlotsOwned, WordsTagged, NEW t \in Threads, PushNext(t)
    PROVE  /\ Freelist' /\ SlotsOwned' /\ WordsTagged'
           /\ \A i \in Slots : Listed(i) <=> Listed(i)'
<1>1. TypeOK /\ Fields(t) /\ InUse
  BY LocalsFields DEF TypeInv
<1>2. /\ pc[t] = "push_next" /\ pc' = [pc EXCEPT ![t] = "push_cas"]
      /\ nextFree' = [nextFree EXCEPT ![loc[t].idx] = loc[t].word.top]
      /\ UNCHANGED <<generation, value, free, nextIndex, loc>>
  BY DEF PushNext, Goto, index
<1>3. /\ pc'[t] = "push_cas" /\ Owning(t) /\ HasWord(t) /\ loc[t].idx \in Slots
      /\ nextFree'[loc[t].idx] = loc[t].word.top
      /\ \A i \in Slots : i # loc[t].idx => nextFree'[i] = nextFree[i]
      /\ \A u \in Threads : u # t => pc'[u] = pc[u]
  BY <1>1, <1>2 DEF TypeOK, Fields, Owning, HasWord
<1>4. \A u \in Threads : (Owning(u)' <=> Owning(u)) /\ (HasWord(u)' <=> HasWord(u))
  BY <1>3 DEF Owning, HasWord
<1>5. PICK n \in 0 .. Capacity : \E s \in [1 .. n -> Slots] : Chain(n, s) /\ Unused(n, s)
  BY DEF Freelist
<1>6. PICK s \in [1 .. n -> Slots] : Chain(n, s) /\ Unused(n, s)
  BY <1>5
<1>7. \A k \in 1 .. n : s[k] # loc[t].idx /\ s[k] \in Slots
  BY <1>3, <1>6 DEF Unused
<1>8. Freelist' /\ \A i \in Slots : Listed(i) <=> Listed(i)'
  <2>1. Chain(n, s)'
    BY <1>2, <1>3, <1>6, <1>7 DEF Chain
  <2>2. Unused(n, s)'
    BY <1>2, <1>4, <1>6 DEF Unused
  <2>3. ASSUME NEW i \in Slots, Listed(i) PROVE Listed(i)'
    <3>1. \E k \in 1 .. n : s[k] = i
      BY <1>6, <2>3, ListedOnce
    <3> QED  BY <2>1, <3>1 DEF Listed
  <2>4. ASSUME NEW i \in Slots, Listed(i)' PROVE Listed(i)
    <3>1. \E k \in 1 .. n : s[k] = i
      BY <2>1, <2>4, ListedNext
    <3> QED  BY <1>6, <3>1 DEF Listed
  <2> QED  BY <2>1, <2>2, <2>3, <2>4 DEF Freelist
<1>9. SlotsOwned'
  BY <1>2, <1>4 DEF SlotsOwned
<1>10. WordsTagged'
  <2> SUFFICES ASSUME NEW u \in Threads
               PROVE  /\ HasWord(u)' => /\ loc[u].word.tag <= free.tag
                                        /\ loc[u].word.tag = free.tag => loc[u].word = free
                      /\ pc'[u] = "pop_cas" /\ loc[u].word = free => loc[u].next = nextFree'[free.top]
                      /\ pc'[u] = "push_cas" => nextFree'[loc[u].idx] = loc[u].word.top
    BY <1>2 DEF WordsTagged
  <2>1. HasWord(u)' => loc[u].word.tag <= free.tag /\ (loc[u].word.tag = free.tag => loc[u].word = free)
    BY <1>4 DEF WordsTagged
  <2>2. ASSUME pc'[u] = "pop_cas", loc[u].word = free PROVE loc[u].next = nextFree'[free.top]
    <3>1. u # t /\ pc[u] = "pop_cas"
      BY <1>3, <2>2
    <3>2. free.top \in Slots
      BY <1>1, <2>2, <3>1 DEF InUse
    <3>3. free.top # loc[t].idx
      <4>1. END \notin Slots
        BY DEF Slots, END
      <4>2. n \in Nat /\ n # 0 /\ free.top = s[1]
        BY <1>6, <3>2, <4>1 DEF Chain
      <4> QED  BY <1>7, <4>2
    <3> QED  BY <1>3, <2>2, <3>1, <3>2, <3>3 DEF WordsTagged
  <2>3. ASSUME pc'[u] = "push_cas" PROVE nextFree'[loc[u].idx] = loc[u].word.top
    <3>1. CASE u = t
      BY <1>3, <3>1
    <3>2. CASE u # t
      <4>1. pc[u] = "push_cas" /\ Owning(u)
        BY <1>3, <2>3, <3>2 DEF Owning
      <4>2. loc[u].idx # loc[t].idx
        BY <1>3, <3>2, <4>1 DEF SlotsOwned
      <4>3. loc[u].idx \in Slots
        BY <1>1, LocalsFields DEF Fields
      <4> QED  BY <1>3, <4>1, <4>2, <4>3 DEF WordsTagged
    <3> QED  BY <3>1, <3>2
  <2> QED  BY <2>1, <2>2, <2>3
<1> QED  BY <1>8, <1>9, <1>10

\* A push that finds its word puts the thread's slot before the list.
LEMMA PushPuts ==
    ASSUME TypeInv, Freelist, SlotsOwned, WordsTagged, NEW t \in Threads, PushCas(t), free = loc[t].word
    PROVE  /\ Freelist' /\ SlotsOwned' /\ WordsTagged'
           /\ \A i \in Slots : Listed(i) \/ i = loc[t].idx <=> Listed(i)'
<1>1. TypeOK /\ Fields(t)
  BY LocalsFields DEF TypeInv
<1>2. /\ pc[t] = "push_cas" /\ pc' = [pc EXCEPT ![t] = "rem_inc"]
      /\ free' = [tag |-> free.tag + 1, top |-> loc[t].idx]
      /\ UNCHANGED <<generation, value, nextFree, nextIndex, loc>>
  BY DEF PushCas, Goto, cells
<1>3. /\ pc'[t] = "rem_inc" /\ Owning(t) /\ loc[t].idx \in Slots /\ free.tag \in Nat
      /\ free'.tag = free.tag + 1 /\ free'.top = loc[t].idx /\ nextFree[loc[t].idx] = free.top
      /\ \A u \in Threads : u # t => pc'[u] = pc[u]
  BY <1>1, <1>2 DEF TypeOK, Fields, Words, Owning, WordsTagged
<1>4. /\ ~Owning(t)' /\ ~HasWord(t)'
      /\ \A u \in Threads : u # t => (Owning(u)' <=> Owning(u)) /\ (HasWord(u)' <=> HasWord(u))
  BY <1>3 DEF Owning, HasWord
<1>5. PICK n \in 0 .. Capacity : \E s \in [1 .. n -> Slots] : Chain(n, s) /\ Unused(n, s)
  BY DEF Freelist
<1>6. PICK s \in [1 .. n -> Slots] : Chain(n, s) /\ Unused(n, s)
  BY <1>5
<1>7. \A k \in 1 .. n : s[k] # loc[t].idx /\ s[k] \in Slots
  BY <1>3, <1>6 DEF Unused
<1>8. Freelist' /\ \A i \in Slots : Listed(i) \/ i = loc[t].idx <=> Listed(i)'
  <2>0. PICK top \in Slots : top = loc[t].idx
    BY <1>3
  <2> DEFINE r == [k \in 1 .. n + 1 |-> IF k = 1 THEN top ELSE s[k - 1]]
  <2>1. n \in Nat /\ n + 1 \in Nat
    BY TableAssumption
  <2>2. \A k \in 1 .. n + 1 : /\ k = 1 => r[k] = top
                              /\ k # 1 => k - 1 \in 1 .. n /\ r[k] = s[k - 1]
    BY <2>1
  <2>3. r \in [1 .. n + 1 -> Slots]
    BY <1>7, <2>2
  <2> HIDE DEF r
  <2>4. \A k, m \in 1 .. n + 1 : r[k] = r[m] => k = m
    <3> SUFFICES ASSUME NEW k \in 1 .. n + 1, NEW m \in 1 .. n + 1, r[k] = r[m] PROVE k = m
      OBVIOUS
    <3>1. CASE k = 1 \/ m = 1
      BY <1>7, <2>0, <2>2, <3>1
    <3>2. CASE k # 1 /\ m # 1
      <4>1. k - 1 = m - 1
        BY <1>6, <2>2, <3>2 DEF Chain
      <4> QED  BY <2>1, <4>1
    <3> QED  BY <3>1, <3>2
  <2>5. n + 1 \in 0 .. Capacity
    <3>1. n + 1 <= Capacity
      BY <2>1, <2>3, <2>4, AtMostCapacity
    <3> QED  BY <2>1, <3>1, TableAssumption
  <2>6. Chain(n + 1, r)'
    <3>1. free'.top = IF n + 1 = 0 THEN END ELSE r[1]
      BY <1>3, <2>0, <2>1, <2>2
    <3>2. \A k \in 1 .. n + 1 : nextFree[r[k]] = IF k = n + 1 THEN END ELSE r[k + 1]
      <4> SUFFICES ASSUME NEW k \in 1 .. n + 1
                   PROVE  nextFree[r[k]] = IF k = n + 1 THEN END ELSE r[k + 1]
        OBVIOUS
      <4>1. CASE k = 1
        <5>1. nextFree[r[k]] = IF n = 0 THEN END ELSE s[1]
          BY <1>3, <1>6, <2>0, <2>2, <4>1 DEF Chain
        <5>2. CASE n = 0
          BY <4>1, <5>1, <5>2
        <5>3. CASE n # 0
          <6>1. 2 \in 1 .. n + 1 /\ r[2] = s[1]
            BY <2>1, <2>2, <5>3
          <6> QED  BY <2>1, <4>1, <5>1, <5>3, <6>1
        <5> QED  BY <5>2, <5>3
      <4>2. CASE k # 1
        <5>1. k - 1 \in 1 .. n /\ r[k] = s[k - 1]
          BY <2>2, <4>2
        <5>2. nextFree[s[k - 1]] = IF k - 1 = n THEN END ELSE s[k]
          BY <1>6, <2>1, <5>1 DEF Chain
        <5>3. k # n + 1 => r[k + 1] = s[k]
          <6> SUFFICES ASSUME k # n + 1 PROVE r[k + 1] = s[k]
            OBVIOUS
          <6>1. k + 1 \in 1 .. n + 1 /\ k + 1 # 1 /\ (k + 1) - 1 = k
            BY <2>1
          <6> QED  BY <2>2, <6>1
        <5> QED  BY <2>1, <5>1, <5>2, <5>3
      <4> QED  BY <4>1, <4>2
    <3> QED  BY <1>2, <2>3, <2>4, <3>1, <3>2 DEF Chain
  <2>7. Unused(n + 1, r)'
    <3> SUFFICES ASSUME NEW k \in 1 .. n + 1
                 PROVE  /\ value[r[k]] = NULL /\ r[k] < nextIndex
                        /\ \A u \in Threads : Owning(u)' => loc[u].idx # r[k]
      BY <1>2 DEF Unused
    <3>1. CASE k = 1
      BY <1>3, <1>4, <2>0, <2>2, <3>1 DEF SlotsOwned
    <3>2. CASE k # 1
      BY <1>4, <1>6, <2>2, <3>2 DEF Unused
    <3> QED  BY <3>1, <3>2
  <2>8. ASSUME NEW i \in Slots, Listed(i) \/ i = loc[t].idx PROVE Listed(i)'
    <3>1. \E k \in 1 .. n + 1 : r[k] = i
      <4>1. CASE i = loc[t].idx
        BY <2>0, <2>1, <2>2, <4>1
      <4>2. CASE i # loc[t].idx
        <5>1. PICK k \in 1 .. n : s[k] = i
          BY <1>6, <2>8, <4>2, ListedOnce
        <5>2. k + 1 \in 1 .. n + 1 /\ k + 1 # 1 /\ (k + 1) - 1 = k
          BY <2>1
        <5> QED  BY <2>2, <5>1, <5>2
      <4> QED  BY <4>1, <4>2
    <3> QED  BY <2>3, <2>5, <2>6, <3>1 DEF Listed
  <2>9. ASSUME NEW i \in Slots, Listed(i)' PROVE Listed(i) \/ i = loc[t].idx
    <3>1. PICK k \in 1 .. n + 1 : r[k] = i
      BY <2>3, <2>5, <2>6, <2>9, ListedNext
    <3>2. k # 1 => k - 1 \in 1 .. n /\ s[k - 1] = i
      BY <2>2, <3>1
    <3> QED  BY <1>6, <2>0, <2>2, <3>1, <3>2 DEF Listed
  <2> QED  BY <2>3, <2>5, <2>6, <2>7, <2>8, <2>9 DEF Freelist
<1>9. SlotsOwned'
  BY <1>2, <1>4 DEF SlotsOwned
<1>10. WordsTagged'
  <2> SUFFICES ASSUME NEW u \in Threads
               PROVE  /\ HasWord(u)' => /\ loc[u].word.tag <= free'.tag
                                        /\ loc[u].word.tag = free'.tag => loc[u].word = free'
                      /\ pc'[u] = "pop_cas" /\ loc[u].word = free' => loc[u].next = nextFree[free'.top]
                      /\ pc'[u] = "push_cas" => nextFree[loc[u].idx] = loc[u].word.top
    BY <1>2 DEF WordsTagged
  <2>1. CASE u = t
    BY <1>3, <1>4, <2>1
  <2>2. CASE u # t
    <3>1. Fields(u) /\ pc'[u] = pc[u]
      BY <1>1, <1>3, <2>2, LocalsFields
    <3>2. HasWord(u) => loc[u].word.tag < free'.tag
      BY <1>3, <3>1 DEF WordsTagged, Fields
    <3> QED  BY <1>3, <3>1, <3>2 DEF WordsTagged, HasWord, Fields
  <2> QED  BY <2>1, <2>2
<1> QED  BY <1>8, <1>9, <1>10

\* An insert that finds no free slot takes the next index, of a slot that is in
\* no place yet, unless next_index wraps.
LEMMA FreshTakes ==
    ASSUME TypeInv, Freelist, SlotsOwned, WordsTagged, NEW t \in Threads, Fresh(t),
           nextIndex' = nextIndex + 1
    PROVE  Freelist' /\ SlotsOwned' /\ WordsTagged'
<1>1. TypeOK /\ Fields(t)
  BY LocalsFields DEF TypeInv
<1>2. /\ pc[t] = "fresh" /\ UNCHANGED <<generation, value, nextFree, free>>
      /\ \/ nextIndex < Capacity /\ pc' = [pc EXCEPT ![t] = "store"] /\ loc' = [loc EXCEPT ![t].idx = nextIndex]
         \/ pc' = [pc EXCEPT ![t] = "idle"] /\ loc' = [loc EXCEPT ![t] = NoLocals]
  BY DEF Fresh, Goto, ReturnNothing, cells
<1>3. /\ \A u \in Threads : u # t => pc'[u] = pc[u] /\ loc'[u] = loc[u]
      /\ Owning(t)' => nextIndex < Capacity /\ loc'[t].idx = nextIndex
      /\ ~HasWord(t)' /\ pc'[t] \notin {"pop_cas", "push_cas"}
      /\ nextIndex \in Nat
  BY <1>1, <1>2 DEF TypeOK, Locals, Owning, HasWord
<1>4. \A u \in Threads : u # t => (Owning(u)' <=> Owning(u)) /\ (HasWord(u)' <=> HasWord(u))
  BY <1>3 DEF Owning, HasWord
<1>5. \A i \in Slots : i \in Int
  BY TableAssumption DEF Slots
<1>6. Freelist'
  <2>0. PICK n \in 0 .. Capacity : \E s \in [1 .. n -> Slots] : Chain(n, s) /\ Unused(n, s)
    BY DEF Freelist
  <2>1. PICK s \in [1 .. n -> Slots] : Chain(n, s) /\ Unused(n, s)
    BY <2>0
  <2>2. Chain(n, s)'
    BY <1>2, <2>1 DEF Chain
  <2>3. Unused(n, s)'
    <3> SUFFICES ASSUME NEW k \in 1 .. n
                 PROVE  /\ value'[s[k]] = NULL /\ s[k] < nextIndex'
                        /\ \A u \in Threads : Owning(u)' => loc'[u].idx # s[k]
      BY DEF Unused
    <3>1. s[k] \in Int /\ s[k] < nextIndex /\ value[s[k]] = NULL
      BY <1>5, <2>1 DEF Unused
    <3>2. ASSUME NEW u \in Threads, Owning(u)' PROVE loc'[u].idx # s[k]
      <4>1. CASE u = t
        BY <1>3, <3>1, <3>2, <4>1
      <4>2. CASE u # t
        BY <1>3, <1>4, <2>1, <3>2, <4>2 DEF Unused
      <4> QED  BY <4>1, <4>2
    <3> QED  BY <1>2, <1>3, <3>1, <3>2
  <2> QED  BY <2>2, <2>3 DEF Freelist
<1>7. SlotsOwned'
  <2>1. \A i \in Slots : value'[i] # NULL => i < nextIndex'
    BY <1>2, <1>3, <1>5 DEF SlotsOwned
  <2>2. ASSUME NEW u \in Threads, Owning(u)'
        PROVE  /\ value'[loc'[u].idx] = NULL /\ loc'[u].idx < nextIndex'
               /\ \A v \in Threads : Owning(v)' /\ loc'[v].idx = loc'[u].idx => v = u
    <3>1. \A v \in Threads : v # t /\ Owning(v)' =>
             Owning(v) /\ loc'[v] = loc[v] /\ loc[v].idx \in Int /\ loc[v].idx < nextIndex
      BY <1>1, <1>3, <1>4, <1>5, LocalsFields DEF SlotsOwned, Fields
    <3>2. CASE u = t
      <4>1. nextIndex \in Slots
        BY <1>3, <2>2, <3>2, TableAssumption DEF Slots
      <4>2. value[nextIndex] = NULL
        BY <1>3, <4>1 DEF SlotsOwned
      <4>3. \A v \in Threads : Owning(v)' /\ loc'[v].idx = loc'[u].idx => v = u
        BY <1>3, <2>2, <3>1, <3>2
      <4> QED  BY <1>2, <1>3, <2>2, <3>2, <4>2, <4>3
    <3>3. CASE u # t
      <4>1. Owning(u) /\ loc'[u] = loc[u] /\ loc[u].idx < nextIndex /\ loc[u].idx \in Int
        BY <2>2, <3>1, <3>3
      <4>2. \A v \in Threads : Owning(v)' /\ loc'[v].idx = loc'[u].idx => v = u
        <5> SUFFICES ASSUME NEW v \in Threads, Owning(v)', loc'[v].idx = loc'[u].idx PROVE v = u
          OBVIOUS
        <5>1. CASE v = t
          BY <1>3, <4>1, <5>1
        <5>2. CASE v # t
          BY <3>1, <4>1, <5>2 DEF SlotsOwned
        <5> QED  BY <5>1, <5>2
      <4>3. value[loc[u].idx] = NULL
        BY <4>1 DEF SlotsOwned
      <4> QED  BY <1>2, <1>3, <4>1, <4>2, <4>3
    <3> QED  BY <3>2, <3>3
  <2> QED  BY <2>1, <2>2 DEF SlotsOwned
<1>8. WordsTagged'
  BY <1>2, <1>3, <1>4 DEF WordsTagged
<1> QED  BY <1>6, <1>7, <1>8

\* An insert stores its value in its own slot.
LEMMA StoreFills ==
    ASSUME TypeInv, Freelist, SlotsOwned, WordsTagged, NEW t \in Threads, Store(t)
    PROVE  Freelist' /\ SlotsOwned' /\ WordsTagged'
<1>1. TypeOK /\ Fields(t)
  BY LocalsFields DEF TypeInv
<1>2. /\ pc[t] = "store" /\ pc' = [pc EXCEPT ![t] = "publish"]
      /\ value' = [value EXCEPT ![loc[t].idx] = loc[t].ptr]
      /\ UNCHANGED <<generation, nextFree, free, nextIndex, loc>>
  BY DEF Store, Goto, index
<1>3. /\ \A u \in Threads : u # t => pc'[u] = pc[u]
      /\ Owning(t) /\ ~Owning(t)' /\ ~HasWord(t)' /\ loc[t].idx \in Slots
      /\ \A i \in Slots : i # loc[t].idx => value'[i] = value[i]
  BY <1>1, <1>2 DEF TypeOK, Fields, Owning, HasWord
<1>4. \A u \in Threads : u # t => (Owning(u)' <=> Owning(u)) /\ (HasWord(u)' <=> HasWord(u))
  BY <1>3 DEF Owning, HasWord
<1>5. Freelist'
  <2>0. PICK n \in 0 .. Capacity : \E s \in [1 .. n -> Slots] : Chain(n, s) /\ Unused(n, s)
    BY DEF Freelist
  <2>1. PICK s \in [1 .. n -> Slots] : Chain(n, s) /\ Unused(n, s)
    BY <2>0
  <2>2. Chain(n, s)'
    BY <1>2, <2>1 DEF Chain
  <2>3. Unused(n, s)'
    BY <1>2, <1>3, <1>4, <2>1 DEF Unused
  <2> QED  BY <2>2, <2>3 DEF Freelist
<1>6. SlotsOwned'
  <2>1. \A i \in Slots : value'[i] # NULL => i < nextIndex
    BY <1>3 DEF SlotsOwned
  <2>2. \A u \in Threads : Owning(u)' => u # t /\ loc[u].idx # loc[t].idx /\ loc[u].idx \in Slots
    BY <1>1, <1>3, <1>4, LocalsFields DEF SlotsOwned, Fields
  <2> QED  BY <1>2, <1>3, <1>4, <2>1, <2>2 DEF SlotsOwned
<1>7. WordsTagged'
  <2>1. pc'[t] \notin {"pop_cas", "push_cas"}
    BY <1>3 DEF HasWord
  <2> QED  BY <1>2, <1>3, <1>4, <2>1 DEF WordsTagged
<1> QED  BY <1>5, <1>6, <1>7

\* A remove that unlinks a value has the slot to itself.
LEMMA RemCasEmpties ==
    ASSUME TypeInv, Freelist, SlotsOwned, WordsTagged, NEW t \in Threads, RemCas(t),
           value[loc[t].idx] = loc[t].ptr
    PROVE  Freelist' /\ SlotsOwned' /\ WordsTagged'
<1>1. TypeOK /\ Fields(t) /\ InUse
  BY LocalsFields DEF TypeInv
<1>2. /\ pc[t] = "rem_cas" /\ pc' = [pc EXCEPT ![t] = "rem_bump"]
      /\ value' = [value EXCEPT ![loc[t].idx] = NULL]
      /\ UNCHANGED <<generation, nextFree, free, nextIndex, loc>>
  BY DEF RemCas, Goto, index
<1>3. /\ \A u \in Threads : u # t => pc'[u] = pc[u]
      /\ ~Owning(t) /\ Owning(t)' /\ ~HasWord(t)' /\ loc[t].idx \in Slots
      /\ value[loc[t].idx] # NULL /\ value'[loc[t].idx] = NULL
      /\ \A i \in Slots : value'[i] # NULL => value[i] # NULL
  BY <1>1, <1>2, TableAssumption DEF TypeOK, Fields, Owning, HasWord, InUse
<1>4. \A u \in Threads : u # t => (Owning(u)' <=> Owning(u)) /\ (HasWord(u)' <=> HasWord(u))
  BY <1>3 DEF Owning, HasWord
<1>5. Freelist'
  <2>0. PICK n \in 0 .. Capacity : \E s \in [1 .. n -> Slots] : Chain(n, s) /\ Unused(n, s)
    BY DEF Freelist
  <2>1. PICK s \in [1 .. n -> Slots] : Chain(n, s) /\ Unused(n, s)
    BY <2>0
  <2>2. Chain(n, s)'
    BY <1>2, <2>1 DEF Chain
  <2>3. \A k \in 1 .. n : s[k] # loc[t].idx /\ s[k] \in Slots
    BY <1>3, <2>1 DEF Unused
  <2>4. Unused(n, s)'
    BY <1>2, <1>3, <1>4, <2>1, <2>3 DEF Unused
  <2> QED  BY <2>2, <2>4 DEF Freelist
<1>6. SlotsOwned'
  <2>1. \A i \in Slots : value'[i] # NULL => i < nextIndex
    BY <1>3 DEF SlotsOwned
  <2>2. \A u \in Threads : Owning(u) => loc[u].idx # loc[t].idx /\ loc[u].idx \in Slots
    BY <1>1, <1>3, LocalsFields DEF SlotsOwned, Fields
  <2>3. loc[t].idx < nextIndex
    BY <1>3 DEF SlotsOwned
  <2>4. ASSUME NEW u \in Threads, Owning(u)'
        PROVE  /\ value'[loc[u].idx] = NULL /\ loc[u].idx < nextIndex
               /\ \A v \in Threads : Owning(v)' /\ loc[v].idx = loc[u].idx => v = u
    <3>1. CASE u = t
      BY <1>3, <1>4, <2>2, <2>3, <3>1
    <3>2. CASE u # t
      <4>1. Owning(u) /\ value[loc[u].idx] = NULL /\ loc[u].idx < nextIndex
        BY <1>4, <2>4, <3>2 DEF SlotsOwned
      <4>2. value'[loc[u].idx] = NULL
        BY <1>3, <2>2, <4>1
      <4>3. \A v \in Threads : Owning(v)' /\ loc[v].idx = loc[u].idx => v = u
        BY <1>4, <2>2, <4>1 DEF SlotsOwned
      <4> QED  BY <4>1, <4>2, <4>3
    <3> QED  BY <3>1, <3>2
  <2> QED  BY <1>2, <2>1, <2>4 DEF SlotsOwned
<1>7. WordsTagged'
  <2>1. pc'[t] \notin {"pop_cas", "push_cas"}
    BY <1>3 DEF HasWord
  <2> QED  BY <1>2, <1>3, <1>4, <2>1 DEF WordsTagged
<1> QED  BY <1>5, <1>6, <1>7

\* The drop of the table empties every cell, while no call is in progress.
LEMMA DropEmpties ==
    ASSUME TypeInv, Freelist, SlotsOwned, WordsTagged, DropTable
    PROVE  Freelist' /\ SlotsOwned' /\ WordsTagged'
<1>1. /\ \A t \in Threads : pc[t] \in {"idle", "held"}
      /\ value' = [i \in Slots |-> NULL]
      /\ UNCHANGED <<generation, nextFree, free, nextIndex, pc, loc>>
  BY DEF DropTable, Resting, index
<1>2. \A t \in Threads : ~Owning(t)' /\ ~HasWord(t)' /\ pc'[t] \notin {"pop_cas", "push_cas"}
  BY <1>1 DEF Owning, HasWord
<1>3. Freelist'
  <2>0. PICK n \in 0 .. Capacity : \E s \in [1 .. n -> Slots] : Chain(n, s) /\ Unused(n, s)
    BY DEF Freelist
  <2>1. PICK s \in [1 .. n -> Slots] : Chain(n, s) /\ Unused(n, s)
    BY <2>0
  <2>2. Chain(n, s)'
    BY <1>1, <2>1 DEF Chain
  <2>3. Unused(n, s)'
    BY <1>1, <1>2, <2>1 DEF Unused
  <2> QED  BY <2>2, <2>3 DEF Freelist
<1> QED  BY <1>1, <1>2, <1>3 DEF SlotsOwned, WordsTagged

\* The index counter, as long as it does not wrap.
LEMMA IndexStep ==
    ASSUME MaxCalls < IndexMod, TypeInv, IndexBounded, Next
    PROVE  IndexBounded' /\ \A t \in Threads : Fresh(t) => nextIndex' = nextIndex + 1
<1>1. TypeOK /\ \A t \in Threads : Fields(t)
  BY LocalsFields DEF TypeInv
<1>2. nextIndex \in Nat /\ calls \in Nat /\ calls <= MaxCalls /\ MaxCalls \in Nat /\ IndexMod \in Nat
  BY <1>1, TableAssumption DEF TypeOK, IndexBounded
<1>3. ASSUME NEW t \in Threads, CallInsert(t) PROVE IndexBounded' /\ ~Fresh(t)
  <2>1. /\ pc[t] = "idle" /\ pc' = [pc EXCEPT ![t] = "pop"] /\ nextIndex' = nextIndex
        /\ calls' = calls + 1 /\ calls < MaxCalls
    BY <1>3 DEF CallInsert, Start, Goto, index
  <2>2. Looking' = Looking \cup {t} /\ t \notin Looking
    BY <1>1, <2>1 DEF Looking, TypeOK
  <2>3. IsFiniteSet(Looking') /\ Cardinality(Looking') = Cardinality(Looking) + 1
    BY <2>2, FS_AddElement DEF IndexBounded
  <2>4. Cardinality(Looking) \in Nat
    BY FS_CardinalityType DEF IndexBounded
  <2>5. IndexBounded'
    BY <1>2, <2>1, <2>3, <2>4 DEF IndexBounded
  <2> QED  BY <2>1, <2>5 DEF Fresh
<1>4. ASSUME NEW t \in Threads, Fresh(t) PROVE IndexBounded' /\ nextIndex' = nextIndex + 1
  <2>1. /\ pc[t] = "fresh" /\ nextIndex' = (nextIndex + 1) % IndexMod /\ calls' = calls
        /\ (pc' = [pc EXCEPT ![t] = "store"] \/ pc' = [pc EXCEPT ![t] = "idle"])
    BY <1>4 DEF Fresh, Goto, ReturnNothing, client
  <2>2. Looking' = Looking \ {t} /\ t \in Looking
    BY <1>1, <2>1 DEF Looking, TypeOK
  <2>3. IsFiniteSet(Looking') /\ Cardinality(Looking') = Cardinality(Looking) - 1
    BY <2>2, FS_RemoveElement DEF IndexBounded
  <2>4. Cardinality(Looking') \in Nat /\ Cardinality(Looking) \in Nat
    BY <2>3, FS_CardinalityType DEF IndexBounded
  <2>5. nextIndex + 1 < IndexMod
    BY <1>2, <2>3, <2>4 DEF IndexBounded
  <2>6. nextIndex' = nextIndex + 1
    BY <1>2, <2>1, <2>5
  <2> QED  BY <1>2, <2>1, <2>3, <2>4, <2>6 DEF IndexBounded
<1>5. ASSUME Looking' \subseteq Looking, nextIndex' = nextIndex,
             calls' = calls \/ (calls' = calls + 1 /\ calls < MaxCalls)
      PROVE  IndexBounded'
  <2>1. calls' \in Nat /\ calls' >= calls /\ calls' <= MaxCalls
    BY <1>2, <1>5
  <2> QED  BY <1>2, <1>5, <2>1, IndexKept
<1>6. ASSUME NEW t \in Threads, CallGet(t) \/ CallRemove(t)
      PROVE  Looking' \subseteq Looking /\ nextIndex' = nextIndex /\ calls' = calls + 1 /\ calls < MaxCalls
  <2>1. /\ \E to \in {"get_gen", "rem_gen"} : pc' = [pc EXCEPT ![t] = to]
        /\ nextIndex' = nextIndex /\ calls' = calls + 1 /\ calls < MaxCalls
    BY <1>6 DEF CallGet, CallRemove, CallWith, Start, Goto, index
  <2> QED  BY <1>1, <2>1 DEF Looking, TypeOK
<1>7. ASSUME NEW t \in Threads, DropArc(t) \/ Get(t) \/ Remove(t)
      PROVE  Looking' \subseteq Looking /\ nextIndex' = nextIndex /\ calls' = calls
  <2>1. Goes(t, RemovingPc \cup GetPc \cup Resting) /\ UNCHANGED <<nextIndex, calls>>
    <3>1. CASE DropArc(t)
      BY <3>1 DEF DropArc, ReturnNothing, Resting, Goes, index, client
    <3>2. CASE Get(t)
      BY <3>2, GetFrame DEF Goes, index, client
    <3>3. CASE Remove(t)
      BY <3>3, RemoveFrame DEF Goes, client
    <3> QED  BY <1>7, <3>1, <3>2, <3>3
  <2> QED  BY <1>1, <2>1 DEF Looking, TypeOK, Goes, RemovingPc, RemovePc, UnlinkedPc, DrainPc, GetPc, Resting
<1>8. ASSUME NEW t \in Threads, PopLoad(t) \/ PopNext(t) \/ PopCas(t) \/ Store(t) \/ Publish(t)
      PROVE  Looking' \subseteq Looking /\ nextIndex' = nextIndex /\ calls' = calls
  <2>1. /\ nextIndex' = nextIndex /\ calls' = calls
        /\ pc[t] \in {"pop", "pop_next", "pop_cas"} \/ (pc[t] \in {"store", "publish"} /\ pc'[t] \in {"publish", "idle"})
        /\ \A u \in Threads : u # t => pc'[u] = pc[u]
    BY <1>1, <1>8 DEF PopLoad, PopNext, PopCas, Store, Publish, Goto, ReturnNothing, index, client, TypeOK
  <2> QED  BY <2>1 DEF Looking
<1>9. ASSUME DropTable PROVE IndexBounded'
  BY <1>5, <1>9 DEF DropTable, Looking, index
<1>10. ASSUME NEW t \in Threads, Caller(t) \/ Step(t) PROVE IndexBounded'
  BY <1>3, <1>4, <1>5, <1>6, <1>7, <1>8, <1>10 DEF Caller, Step, Insert
<1>11. IndexBounded'
  BY <1>9, <1>10 DEF Next
<1>12. \A t \in Threads : Fresh(t) => nextIndex' = nextIndex + 1
  BY <1>4
<1> QED  BY <1>11, <1>12

LEMMA SlotStep == ASSUME MaxCalls < IndexMod, TypeInv, SlotInv, [Next]_vars PROVE SlotInv'
<1>1. Freelist /\ SlotsOwned /\ WordsTagged /\ IndexBounded
  BY DEF SlotInv
<1>2. CASE UNCHANGED vars
  <2>1. /\ UNCHANGED <<value, nextFree, free, generation, nextIndex, phase>>
        /\ UNCHANGED <<pc, loc, calls>>
    BY <1>2 DEF vars, cells, index, client
  <2>2. Freelist'
    <3>1. ASSUME NEW n, NEW s, Chain(n, s), Unused(n, s) PROVE Chain(n, s)' /\ Unused(n, s)'
      BY <2>1, <3>1 DEF Chain, Unused, Owning
    <3> QED  BY <1>1, <3>1 DEF Freelist
  <2>3. SlotsOwned'
    BY <1>1, <2>1 DEF SlotsOwned, Owning
  <2>4. WordsTagged' /\ IndexBounded'
    BY <1>1, <2>1 DEF WordsTagged, HasWord, IndexBounded, Looking
  <2> QED  BY <2>2, <2>3, <2>4 DEF SlotInv
<1>3. CASE Next
  <2>1. IndexBounded' /\ \A t \in Threads : Fresh(t) => nextIndex' = nextIndex + 1
    BY <1>1, <1>3, IndexStep
  <2>2. ASSUME NEW t \in Threads, SlotQuiet(t) PROVE Freelist' /\ SlotsOwned' /\ WordsTagged'
    BY <1>1, <2>2, QuietSlots DEF TypeInv
  <2>3. ASSUME NEW t \in Threads, Caller(t) PROVE Freelist' /\ SlotsOwned' /\ WordsTagged'
    BY <2>2, <2>3, CallerQuiet
  <2>4. ASSUME NEW t \in Threads, Get(t) PROVE Freelist' /\ SlotsOwned' /\ WordsTagged'
    BY <2>2, <2>4, GetQuiet
  <2>5. ASSUME NEW t \in Threads, Insert(t) PROVE Freelist' /\ SlotsOwned' /\ WordsTagged'
    BY <1>1, <2>1, <2>2, <2>5, InsertQuiet, PopTakes, FreshTakes, StoreFills DEF Insert
  <2>6. ASSUME NEW t \in Threads, Remove(t) PROVE Freelist' /\ SlotsOwned' /\ WordsTagged'
    BY <1>1, <2>2, <2>6, RemoveQuiet, InsertQuiet, PushLinks, PushPuts, RemCasEmpties DEF Remove
  <2>7. ASSUME DropTable PROVE Freelist' /\ SlotsOwned' /\ WordsTagged'
    BY <1>1, <2>7, DropEmpties
  <2>8. Freelist' /\ SlotsOwned' /\ WordsTagged'
    BY <1>3, <2>3, <2>4, <2>5, <2>6, <2>7 DEF Next, Step
  <2> QED  BY <2>1, <2>8 DEF SlotInv
<1> QED  BY <1>2, <1>3

\* In a behaviour of fewer calls than next_index can count.
LEMMA SlotsInductive == ASSUME MaxCalls < IndexMod PROVE Spec => [](IInv /\ SlotInv)
<1>1. Init => SlotInv
  BY SlotInit
<1>2. IInv /\ SlotInv /\ [Next]_vars => SlotInv'
  BY SlotStep DEF IInv
<1> QED  BY <1>1, <1>2, Inductive, PTL DEF Spec

\* A set of equal elements has at most one.
LEMMA AtMostOne ==
    ASSUME NEW S, \A a, b \in S : a = b
    PROVE  IsFiniteSet(S) /\ Cardinality(S) = IF S = {} THEN 0 ELSE 1
<1>1. CASE S = {}
  BY <1>1, FS_EmptySet
<1>2. CASE S # {}
  <2>1. PICK a \in S : TRUE
    BY <1>2
  <2>2. S = {a}
    BY <2>1
  <2> QED  BY <1>2, <2>2, FS_Singleton
<1> QED  BY <1>1, <1>2

\* The Treiber stack ends, and no slot is in two places, so that no two inserts
\* are ever given the same one (pop_free and push_free of table.rs).
THEOREM SlotsUnshared == ASSUME MaxCalls < IndexMod PROVE Spec => []SlotNeverShared
<1>1. ASSUME SlotInv PROVE SlotNeverShared
  <2>1. PICK n \in 0 .. Capacity : \E s \in [1 .. n -> Slots] : Chain(n, s) /\ Unused(n, s)
    BY <1>1 DEF SlotInv, Freelist
  <2>2. PICK s \in [1 .. n -> Slots] : Chain(n, s) /\ Unused(n, s)
    BY <2>1
  <2>3. \A k \in 0 .. Capacity : FreeWalk[k] = IF k < n THEN s[k + 1] ELSE END
    BY <2>2, WalkIsChain
  <2>4. Capacity \in Nat /\ n \in Nat
    BY SlotsFinite
  <2>5. FreeWalk[Capacity] = END
    BY <2>3, <2>4
  <2>6. \A i \in FreeSlots : \E k \in 1 .. n : i = s[k]
    <3>1. \A k \in 0 .. Capacity : k < n => k + 1 \in 1 .. n
      BY <2>4
    <3> QED  BY <2>3, <3>1 DEF FreeSlots
  <2>7. \A i \in FreeSlots : value[i] = NULL /\ \A t \in Threads : Owning(t) => loc[t].idx # i
    BY <2>2, <2>6 DEF Unused
  <2>8. ASSUME NEW i \in Slots PROVE Cardinality(SlotOwners(i)) <= 1
    <3>1. ASSUME NEW a \in SlotOwners(i)
          PROVE  \/ a = <<"free", i>> /\ i \in FreeSlots
                 \/ a = <<"value", i>> /\ value[i] # NULL
                 \/ \E t \in Threads : a = <<"thread", t>> /\ Owning(t) /\ loc[t].idx = i
      BY <3>1 DEF SlotOwners, Owning
    <3>2. \A t, u \in Threads : Owning(t) /\ loc[t].idx = i /\ Owning(u) /\ loc[u].idx = i => t = u
      BY <1>1 DEF SlotInv, SlotsOwned
    <3>3. \A t \in Threads : Owning(t) /\ loc[t].idx = i => value[i] = NULL
      BY <1>1 DEF SlotInv, SlotsOwned
    <3>4. \A a, b \in SlotOwners(i) : a = b
      BY <2>7, <3>1, <3>2, <3>3
    <3> QED  BY <3>4, AtMostOne
  <2> QED  BY <2>5, <2>8 DEF SlotNeverShared
<1>2. SlotInv => SlotNeverShared
  BY <1>1
<1> QED  BY <1>2, SlotsInductive, PTL

-----------------------------------------------------------------------------
(* No reference is lost *)

\* A step that takes no value from a cell or from the retire list, and keeps the
\* value that its thread unlinked.
LeakQuiet(t) ==
    /\ Others(t)
    /\ UNCHANGED <<value, retired>>
    /\ \A p \in Ptrs : TABLE \in owners'[p] => TABLE \in owners[p]
    /\ pc[t] \in UnlinkedPc => pc'[t] \in UnlinkedPc /\ loc'[t].ptr = loc[t].ptr

LEMMA QuietLeaks == ASSUME NoneLeaked, NEW t \in Threads, LeakQuiet(t) PROVE NoneLeaked'
<1> SUFFICES ASSUME NEW p \in Ptrs, TABLE \in owners'[p]
             PROVE  \/ \E i \in Slots : value'[i] = p
                    \/ \E u \in Threads : pc'[u] \in UnlinkedPc /\ loc'[u].ptr = p
                    \/ p \in retired'
  BY DEF NoneLeaked
<1>1. \/ \E i \in Slots : value[i] = p
      \/ \E u \in Threads : pc[u] \in UnlinkedPc /\ loc[u].ptr = p
      \/ p \in retired
  BY DEF LeakQuiet, NoneLeaked
<1>2. \A u \in Threads : pc[u] \in UnlinkedPc => pc'[u] \in UnlinkedPc /\ loc'[u].ptr = loc[u].ptr
  BY DEF LeakQuiet, Others
<1> QED  BY <1>1, <1>2 DEF LeakQuiet

\* The steps that move no reference of the table.
LEMMA LeakOthers ==
    ASSUME IInv, NEW t \in Threads,
           \/ Caller(t) \/ Get(t) \/ PopLoad(t) \/ PopNext(t) \/ PopCas(t) \/ Fresh(t) \/ Publish(t)
    PROVE  LeakQuiet(t)
<1>1. TypeOK /\ Fields(t) /\ InUse /\ t # TABLE /\ InsertOwns
  BY Parts, TableAssumption
<1> USE DEF LeakQuiet, Others, TypeOK, cells, UnlinkedPc
<1>2. CASE Caller(t)
  <2>1. CASE CallInsert(t)
    BY <1>1, <2>1 DEF CallInsert, Start, Goto
  <2>2. CASE CallGet(t)
    BY <1>1, <2>2 DEF CallGet, CallWith, Start, Goto
  <2>3. CASE CallRemove(t)
    BY <1>1, <2>3 DEF CallRemove, CallWith, Start, Goto
  <2>4. CASE DropArc(t)
    BY <1>1, <2>4 DEF DropArc, ReturnNothing
  <2> QED  BY <1>2, <2>1, <2>2, <2>3, <2>4 DEF Caller
<1>3. CASE Get(t)
  <2>1. CASE GetGen(t)
    BY <1>1, <2>1 DEF GetGen, ReturnNothing, Goto
  <2>2. CASE GetVal(t)
    BY <1>1, <2>2 DEF GetVal, ReturnNothing, Goto
  <2>3. CASE GetPublish(t)
    BY <1>1, <2>3 DEF GetPublish, Goto
  <2>4. CASE GetGen2(t)
    BY <1>1, <2>4 DEF GetGen2, Goto
  <2>5. CASE GetVal2(t)
    BY <1>1, <2>5 DEF GetVal2, Goto
  <2>6. CASE GetInc(t)
    BY <1>1, <2>6 DEF GetInc, Goto
  <2>7. CASE GetDone(t)
    BY <1>1, <2>7 DEF GetDone, ReturnArc
  <2>8. CASE GetRetry(t)
    BY <1>1, <2>8 DEF GetRetry, Goto
  <2> QED  BY <1>3, <2>1, <2>2, <2>3, <2>4, <2>5, <2>6, <2>7, <2>8 DEF Get
<1>4. CASE PopLoad(t)
  BY <1>1, <1>4 DEF PopLoad, Goto
<1>5. CASE PopNext(t)
  BY <1>1, <1>5 DEF PopNext, Goto
<1>6. CASE PopCas(t)
  BY <1>1, <1>6 DEF PopCas, Goto
<1>7. CASE Fresh(t)
  BY <1>1, <1>7 DEF Fresh, ReturnNothing, Goto
<1>8. CASE Publish(t)
  BY <1>1, <1>8 DEF Publish, ReturnNothing
<1> QED  BY <1>2, <1>3, <1>4, <1>5, <1>6, <1>7, <1>8

LEMMA LeakRemove ==
    ASSUME IInv, NEW t \in Threads,
           \/ RemGen(t) \/ RemVal(t) \/ RemBump(t) \/ PushLoad(t) \/ PushNext(t) \/ PushCas(t)
           \/ RemInc(t) \/ RemProtected(t) \/ RemScan(t) \/ Drain(t) \/ DrainPick(t)
    PROVE  LeakQuiet(t)
<1>1. TypeOK /\ Fields(t) /\ InUse /\ t # TABLE
  BY Parts, TableAssumption
<1> USE DEF LeakQuiet, Others, TypeOK, cells, UnlinkedPc
<1>2. CASE RemGen(t)
  BY <1>1, <1>2 DEF RemGen, ReturnNothing, Goto
<1>3. CASE RemVal(t)
  BY <1>1, <1>3 DEF RemVal, ReturnNothing, Goto
<1>4. CASE RemBump(t)
  BY <1>1, <1>4 DEF RemBump, Goto
<1>5. CASE PushLoad(t)
  BY <1>1, <1>5 DEF PushLoad, Goto, Locals
<1>6. CASE PushNext(t)
  BY <1>1, <1>6 DEF PushNext, Goto
<1>7. CASE PushCas(t)
  BY <1>1, <1>7 DEF PushCas, Goto
<1>8. CASE RemInc(t)
  BY <1>1, <1>8 DEF RemInc, Goto
<1>9. CASE RemProtected(t)
  BY <1>1, <1>9 DEF RemProtected, Goto, Locals
<1>10. CASE RemScan(t)
  BY <1>1, <1>10 DEF RemScan, Goto, Locals
<1>11. CASE Drain(t)
  BY <1>1, <1>11 DEF Drain, ReturnArc, Goto
<1>12. CASE DrainPick(t)
  BY <1>1, <1>12 DEF DrainPick, ReturnArc, Goto
<1> QED  BY <1>2, <1>3, <1>4, <1>5, <1>6, <1>7, <1>8, <1>9, <1>10, <1>11, <1>12

\* The steps that move a reference of the table to its next place, or release it.
LEMMA LeakMoves ==
    ASSUME IInv, SlotsOwned, NoneLeaked, NEW t \in Threads,
           Store(t) \/ RemCas(t) \/ RemDefer(t) \/ RemUnref(t) \/ DrainScan(t)
    PROVE  NoneLeaked'
<1>1. TypeOK /\ Fields(t) /\ InUse /\ RetiredOwns /\ TABLE \notin Threads /\ NULL \notin Ptrs
  BY Parts, TableAssumption
<1> DEFINE In(p) == \/ \E i \in Slots : value[i] = p
                    \/ \E u \in Threads : pc[u] \in UnlinkedPc /\ loc[u].ptr = p
                    \/ p \in retired
           InNext(p) == \/ \E i \in Slots : value'[i] = p
                        \/ \E u \in Threads : pc'[u] \in UnlinkedPc /\ loc'[u].ptr = p
                        \/ p \in retired'
<1> SUFFICES ASSUME NEW p \in Ptrs, TABLE \in owners'[p] PROVE InNext(p)
  BY DEF NoneLeaked
<1>2. TABLE \in owners[p] => In(p)
  BY DEF NoneLeaked
<1>3. CASE Store(t)
  <2>1. /\ pc[t] = "store" /\ pc' = [pc EXCEPT ![t] = "publish"] /\ UNCHANGED <<loc, retired>>
        /\ value' = [value EXCEPT ![loc[t].idx] = loc[t].ptr]
        /\ owners' = [owners EXCEPT ![loc[t].ptr] = {TABLE}]
    BY <1>3 DEF Store, Goto
  <2>2. value[loc[t].idx] = NULL /\ loc[t].idx \in Slots
    BY <1>1, <2>1 DEF SlotsOwned, Owning, Fields
  <2>3. CASE p = loc[t].ptr
    BY <1>1, <2>1, <2>2, <2>3 DEF TypeOK
  <2>4. CASE p # loc[t].ptr
    <3>1. In(p)
      BY <1>1, <1>2, <2>1, <2>4 DEF TypeOK
    <3>2. ASSUME NEW i \in Slots, value[i] = p PROVE value'[i] = p
      BY <1>1, <2>1, <2>2, <3>2 DEF TypeOK
    <3>3. ASSUME NEW u \in Threads, pc[u] \in UnlinkedPc, loc[u].ptr = p
          PROVE  pc'[u] \in UnlinkedPc /\ loc'[u].ptr = p
      BY <1>1, <2>1, <3>3 DEF TypeOK, UnlinkedPc
    <3> QED  BY <2>1, <3>1, <3>2, <3>3
  <2> QED  BY <2>3, <2>4
<1>4. CASE RemCas(t)
  <2>1. pc[t] = "rem_cas" /\ UNCHANGED <<owners, retired>>
    BY <1>4 DEF RemCas, Goto
  <2>2. ASSUME NEW u \in Threads, pc[u] \in UnlinkedPc, loc[u].ptr = p
        PROVE  pc'[u] \in UnlinkedPc /\ loc'[u].ptr = p
    BY <1>1, <1>4, <2>2 DEF RemCas, Goto, TypeOK, UnlinkedPc
  <2>3. ASSUME NEW i \in Slots, value[i] = p PROVE InNext(p)
    <3>1. CASE value' = value
      BY <2>3, <3>1
    <3>2. CASE value' # value
      <4>1. /\ value[loc[t].idx] = loc[t].ptr /\ UNCHANGED loc /\ pc'[t] = "rem_bump"
            /\ value' = [value EXCEPT ![loc[t].idx] = NULL]
        BY <1>1, <1>4, <3>2 DEF RemCas, Goto, TypeOK
      <4>2. CASE i = loc[t].idx
        BY <2>3, <4>1, <4>2 DEF UnlinkedPc
      <4>3. CASE i # loc[t].idx
        BY <1>1, <2>3, <4>1, <4>3 DEF TypeOK
      <4> QED  BY <4>2, <4>3
    <3> QED  BY <3>1, <3>2
  <2> QED  BY <1>2, <2>1, <2>2, <2>3
<1>5. CASE RemDefer(t)
  <2>1. /\ pc[t] = "rem_defer" /\ UNCHANGED <<owners, value, loc>>
        /\ retired' = retired \cup {loc[t].ptr}
        /\ \A u \in Threads : u # t => pc'[u] = pc[u]
    BY <1>1, <1>5 DEF RemDefer, Goto, cells, TypeOK
  <2>2. In(p)
    BY <1>2, <2>1
  <2>3. ASSUME NEW u \in Threads, pc[u] \in UnlinkedPc, loc[u].ptr = p PROVE InNext(p)
    BY <2>1, <2>3
  <2> QED  BY <2>1, <2>2, <2>3
<1>6. CASE RemUnref(t)
  <2>1. /\ pc[t] = "rem_unref" /\ UNCHANGED <<value, loc, retired>>
        /\ owners' = [owners EXCEPT ![loc[t].ptr] = @ \ {TABLE}]
        /\ \A u \in Threads : u # t => pc'[u] = pc[u]
    BY <1>1, <1>6 DEF RemUnref, Goto, cells, TypeOK
  <2>2. p # loc[t].ptr /\ In(p)
    BY <1>1, <1>2, <2>1 DEF TypeOK
  <2>3. ASSUME NEW u \in Threads, pc[u] \in UnlinkedPc, loc[u].ptr = p PROVE InNext(p)
    BY <2>1, <2>2, <2>3
  <2> QED  BY <2>1, <2>2, <2>3
<1>7. CASE DrainScan(t)
  <2>1. pc[t] = "drain_scan" /\ UNCHANGED value /\ loc[t].entry \in retired
    BY <1>1, <1>7 DEF DrainScan, Goto, cells, RetiredOwns
  <2>2. /\ TABLE \in owners[p] /\ (p \in retired => p \in retired')
        /\ \A u \in Threads : u # t => pc'[u] = pc[u] /\ loc'[u] = loc[u]
    BY <1>1, <1>7, <2>1 DEF DrainScan, Goto, TypeOK
  <2>3. ASSUME NEW u \in Threads, pc[u] \in UnlinkedPc, loc[u].ptr = p
        PROVE  pc'[u] \in UnlinkedPc /\ loc'[u].ptr = p
    BY <2>1, <2>2, <2>3 DEF UnlinkedPc
  <2> QED  BY <1>2, <2>1, <2>2, <2>3
<1> QED  BY <1>3, <1>4, <1>5, <1>6, <1>7

LEMMA LeakStep == ASSUME IInv, SlotsOwned, NoneLeaked, [Next]_vars PROVE NoneLeaked'
<1>1. ASSUME NEW t \in Threads, Caller(t) \/ Get(t) PROVE NoneLeaked'
  BY <1>1, LeakOthers, QuietLeaks
<1>2. ASSUME NEW t \in Threads, Insert(t) PROVE NoneLeaked'
  BY <1>2, LeakOthers, QuietLeaks, LeakMoves DEF Insert
<1>3. ASSUME NEW t \in Threads, Remove(t) PROVE NoneLeaked'
  BY <1>3, LeakRemove, QuietLeaks, LeakMoves DEF Remove
<1>4. CASE DropTable
  <2>1. /\ \A t \in Threads : pc[t] \notin UnlinkedPc
        /\ owners' = [p \in Ptrs |-> IF p \in retired \/ \E i \in Slots : value[i] = p
                                     THEN owners[p] \ {TABLE} ELSE owners[p]]
    BY <1>4 DEF DropTable, Resting, UnlinkedPc
  <2>2. ASSUME NEW p \in Ptrs PROVE TABLE \notin owners'[p]
    <3>1. CASE p \in retired \/ \E i \in Slots : value[i] = p
      BY <2>1, <3>1
    <3>2. CASE ~(p \in retired \/ \E i \in Slots : value[i] = p)
      BY <2>1, <3>2 DEF NoneLeaked
    <3> QED  BY <3>1, <3>2
  <2> QED  BY <2>2 DEF NoneLeaked
<1>5. CASE UNCHANGED vars
  BY <1>5 DEF NoneLeaked, vars, cells
<1> QED  BY <1>1, <1>2, <1>3, <1>4, <1>5 DEF Next, Step

\* The table's reference on an object is in exactly one place as long as it is
\* counted and in none afterwards: remove, the retire list and Drop release it
\* once and never leak it (remove, drain_retired and Drop of table.rs).
THEOREM ReferencesInOnePlace == ASSUME MaxCalls < IndexMod PROVE Spec => []ReferenceInOnePlace
<1>1. Init => NoneLeaked
  BY DEF Init, NoneLeaked
<1>2. IInv /\ SlotInv /\ NoneLeaked /\ [Next]_vars => NoneLeaked'
  BY LeakStep DEF SlotInv
<1>3. ASSUME NoneLeaked, Custody PROVE ReferenceInOnePlace
  <2> SUFFICES ASSUME NEW p \in Ptrs PROVE Cardinality(PlacesOf(p)) = IF TABLE \in owners[p] THEN 1 ELSE 0
    BY DEF ReferenceInOnePlace
  <2>1. Cardinality(PlacesOf(p)) = IF PlacesOf(p) = {} THEN 0 ELSE 1
    <3>1. \A a, b \in PlacesOf(p) : a = b
      BY <1>3 DEF Custody
    <3> QED  BY <3>1, AtMostOne
  <2>2. PlacesOf(p) # {} => TABLE \in owners[p]
    BY <1>3 DEF Custody
  <2>3. TABLE \in owners[p] => PlacesOf(p) # {}
    <3>1. \A i \in Slots : value[i] = p => <<"cell", i>> \in PlacesOf(p)
      BY DEF PlacesOf
    <3>2. \A t \in Threads : pc[t] \in UnlinkedPc /\ loc[t].ptr = p => <<"thread", t>> \in PlacesOf(p)
      BY Zenon DEF PlacesOf
    <3>3. p \in retired => <<"retired", p>> \in PlacesOf(p)
      BY Zenon DEF PlacesOf
    <3> QED  BY <1>3, <3>1, <3>2, <3>3 DEF NoneLeaked
  <2> QED  BY <2>1, <2>2, <2>3
<1>4. NoneLeaked /\ Custody => ReferenceInOnePlace
  BY <1>3
<1> QED  BY <1>1, <1>2, <1>4, SlotsInductive, SingleCustody, PTL DEF Spec

-----------------------------------------------------------------------------
(* The count of live values *)

\* A step that neither stores, counts, unlinks nor discounts a value.
CountQuiet(t) ==
    /\ UNCHANGED <<value, live, phase>>
    /\ Publishing' = Publishing /\ Removing' = Removing

LEMMA SameSets ==
    ASSUME \A u \in Threads : /\ pc[u] = "publish" <=> pc'[u] = "publish"
                              /\ u \in Removing <=> u \in Removing'
    PROVE  Publishing' = Publishing /\ Removing' = Removing
  BY DEF Publishing, Removing

LEMMA CountOthers ==
    ASSUME TypeInv, NEW t \in Threads,
           \/ Caller(t) \/ Get(t) \/ PopLoad(t) \/ PopNext(t) \/ PopCas(t) \/ Fresh(t)
    PROVE  CountQuiet(t)
<1>1. TypeOK
  BY DEF TypeInv
<1> SUFFICES UNCHANGED <<value, live, phase>> /\ \A u \in Threads :
               (pc[u] = "publish" <=> pc'[u] = "publish") /\ (u \in Removing <=> u \in Removing')
  BY SameSets DEF CountQuiet
<1> USE DEF TypeOK, cells, index, client, Removing
<1>2. CASE Caller(t)
  <2>1. CASE CallInsert(t)
    BY <1>1, <2>1 DEF CallInsert, Start, Goto
  <2>2. CASE CallGet(t) \/ CallRemove(t)
    BY <1>1, <2>2 DEF CallGet, CallRemove, CallWith, Start, Goto
  <2>3. CASE DropArc(t)
    BY <1>1, <2>3 DEF DropArc, ReturnNothing
  <2> QED  BY <1>2, <2>1, <2>2, <2>3 DEF Caller
<1>3. CASE Get(t)
  <2>1. /\ pc[t] \notin {"publish", "rem_bump", "push", "push_next", "push_cas", "rem_inc"}
        /\ pc'[t] \notin {"publish", "rem_bump", "push", "push_next", "push_cas", "rem_inc"}
        /\ UNCHANGED <<value, live, phase>>
    BY <1>1, <1>3, GetFrame DEF Goes, GetPc, Resting
  <2>2. \A u \in Threads : u # t => pc'[u] = pc[u]
    BY <1>1, <1>3, GetFrame DEF Goes
  <2> QED  BY <2>1, <2>2
<1>4. CASE PopLoad(t) \/ PopNext(t) \/ PopCas(t)
  BY <1>1, <1>4 DEF PopLoad, PopNext, PopCas, Goto
<1>5. CASE Fresh(t)
  BY <1>1, <1>5 DEF Fresh, Goto, ReturnNothing
<1> QED  BY <1>2, <1>3, <1>4, <1>5

LEMMA CountRemove ==
    ASSUME TypeInv, NEW t \in Threads,
           \/ RemGen(t) \/ RemVal(t) \/ RemBump(t) \/ PushLoad(t) \/ PushNext(t) \/ PushCas(t)
           \/ RemProtected(t) \/ RemScan(t) \/ RemDefer(t) \/ RemUnref(t)
           \/ Drain(t) \/ DrainPick(t) \/ DrainScan(t)
           \/ RemCas(t) /\ value[loc[t].idx] # loc[t].ptr
    PROVE  CountQuiet(t)
<1>1. TypeOK
  BY DEF TypeInv
<1> SUFFICES UNCHANGED <<value, live, phase>> /\ \A u \in Threads :
               (pc[u] = "publish" <=> pc'[u] = "publish") /\ (u \in Removing <=> u \in Removing')
  BY SameSets DEF CountQuiet
<1> USE DEF TypeOK, cells, index, client, Removing
<1>2. CASE RemGen(t) \/ RemVal(t) \/ (RemCas(t) /\ value[loc[t].idx] # loc[t].ptr)
  BY <1>1, <1>2 DEF RemGen, RemVal, RemCas, Goto, ReturnNothing
<1>3. CASE RemBump(t) \/ PushLoad(t) \/ PushNext(t) \/ PushCas(t)
  BY <1>1, <1>3 DEF RemBump, PushLoad, PushNext, PushCas, Goto
<1>4. CASE RemProtected(t) \/ RemScan(t)
  BY <1>1, <1>4 DEF RemProtected, RemScan, Goto
<1>5. CASE RemDefer(t) \/ RemUnref(t)
  BY <1>1, <1>5 DEF RemDefer, RemUnref, Goto
<1>6. CASE Drain(t)
  BY <1>1, <1>6 DEF Drain, Goto, ReturnArc
<1>7. CASE DrainPick(t)
  BY <1>1, <1>7 DEF DrainPick, Goto, ReturnArc
<1>8. CASE DrainScan(t)
  BY <1>1, <1>8 DEF DrainScan, Goto
<1> QED  BY <1>2, <1>3, <1>4, <1>5, <1>6, <1>7, <1>8

LEMMA CountNumbers ==
    ASSUME TypeOK, LiveCounted
    PROVE  /\ live \in Int /\ IsFiniteSet(Stored) /\ Cardinality(Stored) \in Nat
           /\ Cardinality(Publishing) \in Nat /\ Cardinality(Removing) \in Nat
<1>1. IsFiniteSet(Stored)
  BY SlotsFinite, FS_Subset DEF Stored
<1> QED  BY <1>1, FS_CardinalityType DEF TypeOK, LiveCounted

\* A stored value is not counted yet; an unlinked one is not discounted yet.
LEMMA CountMoves ==
    ASSUME IInv, SlotsOwned, LiveCounted, NEW t \in Threads,
           \/ Store(t) \/ Publish(t) \/ RemInc(t)
           \/ RemCas(t) /\ value[loc[t].idx] = loc[t].ptr
    PROVE  LiveCounted'
<1>1. TypeOK /\ Fields(t) /\ InUse /\ InsertOwns /\ NULL \notin Ptrs
  BY Parts, TableAssumption
<1>2. /\ live \in Int /\ IsFiniteSet(Stored) /\ Cardinality(Stored) \in Nat
      /\ Cardinality(Publishing) \in Nat /\ Cardinality(Removing) \in Nat
  BY <1>1, CountNumbers
<1>3. CASE Store(t)
  <2>1. /\ pc[t] = "store" /\ pc' = [pc EXCEPT ![t] = "publish"] /\ UNCHANGED <<live, phase>>
        /\ value' = [value EXCEPT ![loc[t].idx] = loc[t].ptr]
    BY <1>3 DEF Store, Goto, index, client
  <2>2. value[loc[t].idx] = NULL /\ loc[t].idx \in Slots /\ loc[t].ptr \in Ptrs
    BY <1>1, <2>1 DEF SlotsOwned, Owning, Fields, InsertOwns, InsertPc
  <2>3. Stored' = Stored \cup {loc[t].idx} /\ loc[t].idx \notin Stored
    BY <1>1, <2>1, <2>2 DEF Stored, TypeOK
  <2>4. Publishing' = Publishing \cup {t} /\ t \notin Publishing /\ Removing' = Removing
    BY <1>1, <2>1 DEF Publishing, Removing, TypeOK
  <2>5. Cardinality(Stored') = Cardinality(Stored) + 1
    BY <1>2, <2>3, FS_AddElement
  <2>6. IsFiniteSet(Publishing') /\ Cardinality(Publishing') = Cardinality(Publishing) + 1
    BY <2>4, FS_AddElement DEF LiveCounted
  <2> QED  BY <1>2, <2>1, <2>4, <2>5, <2>6 DEF LiveCounted
<1>4. CASE Publish(t)
  <2>1. /\ pc[t] = "publish" /\ pc' = [pc EXCEPT ![t] = "idle"] /\ live' = live + 1
        /\ UNCHANGED <<value, phase>>
    BY <1>4 DEF Publish, ReturnNothing, cells
  <2>2. Publishing' = Publishing \ {t} /\ t \in Publishing /\ Removing' = Removing /\ Stored' = Stored
    BY <1>1, <2>1 DEF Publishing, Removing, Stored, TypeOK
  <2>3. IsFiniteSet(Publishing') /\ Cardinality(Publishing') = Cardinality(Publishing) - 1
    BY <2>2, FS_RemoveElement DEF LiveCounted
  <2> QED  BY <1>2, <2>1, <2>2, <2>3 DEF LiveCounted
<1>5. CASE RemInc(t)
  <2>1. /\ pc[t] = "rem_inc" /\ pc' = [pc EXCEPT ![t] = "rem_prot"] /\ live' = live - 1
        /\ UNCHANGED <<value, phase>>
    BY <1>5 DEF RemInc, Goto, cells, client
  <2>2. Publishing' = Publishing /\ t \in Removing /\ Removing' = Removing \ {t} /\ Stored' = Stored
    BY <1>1, <2>1 DEF Publishing, Removing, Stored, TypeOK
  <2>3. IsFiniteSet(Removing') /\ Cardinality(Removing') = Cardinality(Removing) - 1
    BY <2>2, FS_RemoveElement DEF LiveCounted
  <2> QED  BY <1>2, <2>1, <2>2, <2>3 DEF LiveCounted
<1>6. CASE RemCas(t) /\ value[loc[t].idx] = loc[t].ptr
  <2>1. /\ pc[t] = "rem_cas" /\ pc' = [pc EXCEPT ![t] = "rem_bump"] /\ UNCHANGED <<live, phase>>
        /\ value' = [value EXCEPT ![loc[t].idx] = NULL]
    BY <1>6 DEF RemCas, Goto, index, client
  <2>2. value[loc[t].idx] # NULL /\ loc[t].idx \in Slots
    BY <1>1, <1>6, <2>1 DEF InUse, Fields
  <2>3. Stored' = Stored \ {loc[t].idx} /\ loc[t].idx \in Stored
    BY <1>1, <2>1, <2>2 DEF Stored, TypeOK
  <2>4. Publishing' = Publishing /\ t \notin Removing /\ Removing' = Removing \cup {t}
    BY <1>1, <2>1 DEF Publishing, Removing, TypeOK
  <2>5. Cardinality(Stored') = Cardinality(Stored) - 1
    BY <1>2, <2>3, FS_RemoveElement
  <2>6. IsFiniteSet(Removing') /\ Cardinality(Removing') = Cardinality(Removing) + 1
    BY <2>4, FS_AddElement DEF LiveCounted
  <2> QED  BY <1>2, <2>1, <2>4, <2>5, <2>6 DEF LiveCounted
<1> QED  BY <1>3, <1>4, <1>5, <1>6

LEMMA CountStep == ASSUME IInv, SlotsOwned, LiveCounted, [Next]_vars PROVE LiveCounted'
<1>1. TypeInv
  BY DEF IInv
<1>2. ASSUME NEW t \in Threads, CountQuiet(t) PROVE LiveCounted'
  BY <1>2 DEF CountQuiet, LiveCounted, Stored
<1>3. ASSUME NEW t \in Threads, Caller(t) \/ Get(t) PROVE LiveCounted'
  BY <1>1, <1>2, <1>3, CountOthers
<1>4. ASSUME NEW t \in Threads, Insert(t) PROVE LiveCounted'
  BY <1>1, <1>2, <1>4, CountOthers, CountMoves DEF Insert
<1>5. ASSUME NEW t \in Threads, Remove(t) PROVE LiveCounted'
  BY <1>1, <1>2, <1>5, CountRemove, CountMoves DEF Remove
<1>6. CASE DropTable
  BY <1>6 DEF DropTable, LiveCounted, Publishing, Removing
<1>7. CASE UNCHANGED vars
  BY <1>7 DEF LiveCounted, Stored, Publishing, Removing, vars, cells, index, client
<1> QED  BY <1>3, <1>4, <1>5, <1>6, <1>7 DEF Next, Step

\* len() is exact up to the calls in progress: an insert counts its value after
\* it stored it, a remove discounts it after it unlinked it (insert, remove and
\* live of table.rs).
THEOREM LiveCountIsExact == ASSUME MaxCalls < IndexMod PROVE Spec => []LiveCountExact
<1>1. Init => LiveCounted
  <2> SUFFICES ASSUME Init PROVE LiveCounted
    OBVIOUS
  <2>1. Publishing = {} /\ Removing = {} /\ Stored = {}
    BY DEF Init, Publishing, Removing, Stored
  <2>2. live = 0 /\ Cardinality({}) = 0 /\ IsFiniteSet({})
    BY FS_EmptySet DEF Init
  <2> QED  BY <2>1, <2>2 DEF LiveCounted
<1>2. IInv /\ SlotInv /\ LiveCounted /\ [Next]_vars => LiveCounted'
  BY CountStep DEF SlotInv
<1>3. LiveCounted => LiveCountExact
  BY DEF LiveCounted, LiveCountExact, Stored, Publishing, Removing
<1> QED  BY <1>1, <1>2, <1>3, SlotsInductive, PTL DEF Spec

-----------------------------------------------------------------------------
(* Handles, and the objects they resolve to *)

\* A call that was given a handle, and the handle.
HandleAt(t) == [gen |-> loc[t].gen, idx |-> loc[t].idx]
RemoverPc == RemovePc \cup {"rem_bump"}
SeeingPc == {"get_pub", "get_gen2", "get_val2"}
FillingPc == {"store", "publish", "push", "push_next", "push_cas"}

\* A handle names a slot that was issued, at its present generation or an earlier
\* one; what is removed, or looked up, was issued.
HandlesIssued ==
    /\ \A h \in issued : h.gen <= generation[h.idx] /\ h.idx < nextIndex
    /\ disposed \subseteq issued
    /\ \A t \in Threads : pc[t] \in GetPc => HandleAt(t) \in issued

\* No two calls remove the same handle, so nobody else ends the generation that a
\* remove has found at its slot.
RemoversApart ==
    \A t \in Threads : pc[t] \in RemoverPc =>
        /\ HandleAt(t) \in disposed
        /\ \A u \in Threads : pc[u] \in RemoverPc /\ HandleAt(u) = HandleAt(t) => u = t
        /\ pc[t] # "rem_gen" => generation[loc[t].idx] = loc[t].gen

\* A slot whose next value is still to be published has a handle that nobody has.
Coming(i) ==
    \/ i >= nextIndex \/ Listed(i)
    \/ \E t \in Threads : pc[t] \in FillingPc /\ loc[t].idx = i
HandlesFresh == \A i \in Slots : Coming(i) => HandleOf(i) \notin issued

\* A stored value is in its cell until it is published, and one that is not
\* being published is published.
Publishers ==
    /\ \A t \in Threads : pc[t] = "publish" =>
         /\ loc[t].ptr \in Ptrs /\ value[loc[t].idx] = loc[t].ptr
         /\ \A u \in Threads : pc[u] = "publish" /\ loc[u].idx = loc[t].idx => u = t
    /\ \A i \in Slots : value[i] # NULL =>
         HandleOf(i) \in issued \/ \E t \in Threads : pc[t] = "publish" /\ loc[t].idx = i

\* While a reader's handle is at its generation, the reader's pointer is what the
\* slot holds or what is being removed from it.
ReadersSee ==
    \A t \in Threads : pc[t] \in SeeingPc /\ generation[loc[t].idx] = loc[t].gen =>
        \/ value[loc[t].idx] = loc[t].ptr
        \/ /\ value[loc[t].idx] = NULL
           /\ \A u \in Threads : pc[u] = "rem_bump" /\ loc[u].idx = loc[t].idx => loc[u].ptr = loc[t].ptr

\* A reader that saw its generation under its hazard keeps its pointer out of
\* every cell when the generation ends: the address is not given out again.
KeptOut(t) ==
    /\ TABLE \in owners[loc[t].ptr]
    /\ \A i \in Slots : value[i] # loc[t].ptr
    /\ \A r \in Threads :
         /\ pc[r] = "rem_unref" => loc[r].ptr # loc[t].ptr
         /\ pc[r] = "rem_scan" /\ loc[r].ptr = loc[t].ptr => t \in loc[r].left
         /\ pc[r] = "drain_scan" /\ loc[r].entry = loc[t].ptr => t \in loc[r].left
ReadersHold ==
    \A t \in Threads : pc[t] = "get_val2" /\ generation[loc[t].idx] # loc[t].gen => KeptOut(t)

MapInv == HandlesIssued /\ RemoversApart /\ HandlesFresh /\ Publishers /\ ReadersSee /\ ReadersHold

LEMMA CallerOwn ==
    ASSUME TypeInv, NEW t \in Threads, Caller(t)
    PROVE  /\ Others(t) /\ UNCHANGED <<generation, value, issued, phase>>
           /\ UNCHANGED <<free, nextFree, nextIndex>>
           /\ CallRemove(t) \/ (disposed' = disposed /\ pc'[t] \notin RemoverPc)
           /\ pc'[t] \notin FillingPc \cup SeeingPc \cup {"rem_bump"}
           /\ CallGet(t) \/ pc'[t] \notin GetPc
<1>1. TypeOK /\ Others(t)
  BY CallerQuiet DEF TypeInv, SlotQuiet
<1> USE DEF TypeOK, FillingPc, SeeingPc, RemoverPc, RemovePc, GetPc, cells, index, client
<1>2. CASE CallInsert(t)
  BY <1>1, <1>2 DEF CallInsert, Start, Goto
<1>3. CASE CallGet(t)
  BY <1>1, <1>3 DEF CallGet, CallWith, Start, Goto
<1>4. CASE CallRemove(t)
  BY <1>1, <1>4 DEF CallRemove, CallWith, Start, Goto
<1>5. CASE DropArc(t)
  BY <1>1, <1>5 DEF DropArc, ReturnNothing
<1> QED  BY <1>2, <1>3, <1>4, <1>5 DEF Caller

LEMMA GetOwn ==
    ASSUME TypeInv, NEW t \in Threads, Get(t)
    PROVE  /\ Others(t) /\ UNCHANGED <<generation, value, issued, disposed, phase>>
           /\ UNCHANGED <<free, nextFree, nextIndex>>
           /\ pc[t] \in GetPc /\ pc'[t] \in GetPc \cup Resting
           /\ pc'[t] \in GetPc => loc'[t].gen = loc[t].gen /\ loc'[t].idx = loc[t].idx
           /\ pc'[t] \in SeeingPc =>
                \/ pc[t] \in SeeingPc /\ loc'[t].ptr = loc[t].ptr
                \/ loc'[t].ptr = value[loc[t].idx]
           /\ pc'[t] = "get_val2" => generation[loc[t].idx] = loc[t].gen
<1>1. TypeOK /\ Others(t) /\ Fields(t)
  BY GetQuiet, LocalsFields DEF TypeInv, SlotQuiet
<1> USE DEF TypeOK, SeeingPc, GetPc, Resting, cells, index, client
<1>2. CASE GetGen(t)
  BY <1>1, <1>2 DEF GetGen, ReturnNothing, Goto
<1>3. CASE GetVal(t)
  BY <1>1, <1>3 DEF GetVal, ReturnNothing, Goto, Locals
<1>4. CASE GetPublish(t)
  BY <1>1, <1>4 DEF GetPublish, Goto
<1>5. CASE GetGen2(t)
  BY <1>1, <1>5 DEF GetGen2, Goto
<1>6. CASE GetVal2(t)
  BY <1>1, <1>6 DEF GetVal2, Goto
<1>7. CASE GetInc(t)
  BY <1>1, <1>7 DEF GetInc, Goto
<1>8. CASE GetDone(t)
  BY <1>1, <1>8 DEF GetDone, ReturnArc
<1>9. CASE GetRetry(t)
  BY <1>1, <1>9 DEF GetRetry, Goto, Locals
<1> QED  BY <1>2, <1>3, <1>4, <1>5, <1>6, <1>7, <1>8, <1>9 DEF Get

LEMMA InsertOwn ==
    ASSUME TypeInv, NEW t \in Threads, Insert(t)
    PROVE  /\ Others(t) /\ UNCHANGED <<generation, disposed, phase>>
           /\ pc[t] \in InsertPc /\ pc'[t] \in InsertPc \cup Resting
           /\ Store(t) \/ value' = value
           /\ Publish(t) \/ issued' = issued
           /\ PopCas(t) \/ UNCHANGED <<free, nextFree>>
           /\ Fresh(t) \/ nextIndex' = nextIndex
           /\ Store(t) \/ pc'[t] # "publish"
           /\ pc'[t] \in FillingPc =>
                \/ PopCas(t) /\ free = loc[t].word
                \/ Fresh(t) /\ nextIndex < Capacity /\ loc'[t].idx = nextIndex
                \/ Store(t)
<1>1. TypeOK /\ Fields(t)
  BY LocalsFields DEF TypeInv
<1> USE DEF TypeOK, Others, FillingPc, InsertPc, Resting, cells, index, client
<1>2. CASE PopLoad(t)
  BY <1>1, <1>2 DEF PopLoad, Goto
<1>3. CASE PopNext(t)
  BY <1>1, <1>3 DEF PopNext, Goto
<1>4. CASE PopCas(t)
  BY <1>1, <1>4 DEF PopCas, Goto
<1>5. CASE Fresh(t)
  BY <1>1, <1>5 DEF Fresh, Goto, ReturnNothing, Locals
<1>6. CASE Store(t)
  BY <1>1, <1>6 DEF Store, Goto
<1>7. CASE Publish(t)
  BY <1>1, <1>7 DEF Publish, ReturnNothing
<1> QED  BY <1>2, <1>3, <1>4, <1>5, <1>6, <1>7 DEF Insert

LEMMA RemoveOwn ==
    ASSUME TypeInv, NEW t \in Threads, Remove(t)
    PROVE  /\ Others(t) /\ UNCHANGED <<issued, disposed, phase, nextIndex>>
           /\ pc[t] \in RemovingPc /\ pc'[t] \in RemovingPc \cup Resting
           /\ RemBump(t) \/ generation' = generation
           /\ RemCas(t) \/ value' = value
           /\ PushNext(t) \/ PushCas(t) \/ UNCHANGED <<free, nextFree>>
           /\ pc'[t] \in RemoverPc =>
                /\ pc[t] \in RemovePc /\ loc'[t].gen = loc[t].gen /\ loc'[t].idx = loc[t].idx
                /\ pc'[t] # "rem_gen" => pc[t] # "rem_gen" \/ generation[loc[t].idx] = loc[t].gen
           /\ pc'[t] = "rem_bump" => RemCas(t) /\ value[loc[t].idx] = loc[t].ptr /\ loc' = loc
           /\ pc'[t] \in FillingPc =>
                /\ loc'[t].idx = loc[t].idx
                /\ pc[t] \in FillingPc \/ (RemBump(t) /\ loc[t].gen < MaxGeneration)
           /\ pc'[t] # "publish"
<1>1. TypeOK /\ Fields(t) /\ UNCHANGED <<issued, disposed, phase, nextIndex>>
  BY RemoveFrame, LocalsFields DEF TypeInv, client
<1> USE DEF TypeOK, Others, FillingPc, RemoverPc, RemovePc, UnlinkedPc, DrainPc, RemovingPc, Resting, cells, index
<1>2. CASE RemGen(t)
  BY <1>1, <1>2 DEF RemGen, ReturnNothing, Goto
<1>3. CASE RemVal(t)
  BY <1>1, <1>3 DEF RemVal, ReturnNothing, Goto, Locals
<1>4. CASE RemCas(t)
  BY <1>1, <1>4 DEF RemCas, Goto, Locals
<1>5. CASE RemBump(t)
  BY <1>1, <1>5 DEF RemBump, Goto
<1>6. CASE PushLoad(t)
  BY <1>1, <1>6 DEF PushLoad, Goto, Locals
<1>7. CASE PushNext(t)
  BY <1>1, <1>7 DEF PushNext, Goto
<1>8. CASE PushCas(t)
  BY <1>1, <1>8 DEF PushCas, Goto
<1>9. CASE RemInc(t)
  BY <1>1, <1>9 DEF RemInc, Goto
<1>10. CASE RemProtected(t)
  BY <1>1, <1>10 DEF RemProtected, Goto
<1>11. CASE RemScan(t)
  BY <1>1, <1>11 DEF RemScan, Goto
<1>12. CASE RemDefer(t)
  BY <1>1, <1>12 DEF RemDefer, Goto
<1>13. CASE RemUnref(t)
  BY <1>1, <1>13 DEF RemUnref, Goto
<1>14. CASE Drain(t)
  BY <1>1, <1>14 DEF Drain, ReturnArc, Goto
<1>15. CASE DrainPick(t)
  BY <1>1, <1>15 DEF DrainPick, ReturnArc, Goto
<1>16. CASE DrainScan(t)
  BY <1>1, <1>16 DEF DrainScan, Goto
<1> QED  BY <1>2, <1>3, <1>4, <1>5, <1>6, <1>7, <1>8, <1>9, <1>10, <1>11, <1>12, <1>13, <1>14,
     <1>15, <1>16 DEF Remove

\* A remove ends the generation it has found at its slot.
LEMMA BumpRaises ==
    ASSUME TypeInv, RemoversApart, NEW t \in Threads, RemBump(t)
    PROVE  /\ pc[t] = "rem_bump" /\ loc' = loc /\ value' = value
           /\ pc' = [pc EXCEPT ![t] = IF loc[t].gen < MaxGeneration THEN "push" ELSE "rem_inc"]
           /\ generation[loc[t].idx] = loc[t].gen
           /\ \A i \in Slots : i # loc[t].idx => generation'[i] = generation[i]
           /\ generation'[loc[t].idx] = IF loc[t].gen < MaxGeneration THEN loc[t].gen + 1 ELSE loc[t].gen
<1>1. TypeOK /\ Fields(t)
  BY LocalsFields DEF TypeInv
<1>2. pc[t] = "rem_bump" /\ loc' = loc /\ value' = value
  BY DEF RemBump, Goto
<1>3. generation[loc[t].idx] = loc[t].gen
  BY <1>2 DEF RemoversApart, RemoverPc
<1> QED  BY <1>1, <1>2, <1>3 DEF RemBump, Goto, Fields, TypeOK

LEMMA GenerationsGrow ==
    ASSUME TypeInv, RemoversApart, NEW t \in Threads, Caller(t) \/ Step(t), NEW i \in Slots
    PROVE  generation[i] \in Nat /\ generation'[i] \in Nat /\ generation[i] <= generation'[i]
<1>1. TypeOK /\ Fields(t) /\ MaxGeneration \in Nat
  BY LocalsFields, TableAssumption DEF TypeInv
<1>2. generation[i] \in Nat
  BY <1>1 DEF TypeOK
<1>3. CASE RemBump(t)
  <2>1. loc[t].gen \in Nat /\ loc[t].idx \in Slots
    BY <1>1 DEF Fields
  <2> QED  BY <1>2, <1>3, <2>1, BumpRaises
<1>4. CASE generation' = generation
  BY <1>2, <1>4
<1> QED  BY <1>3, <1>4, CallerOwn, GetOwn, InsertOwn, RemoveOwn DEF Step

LEMMA IssuedStep ==
    ASSUME RemoveOnce = TRUE, TypeInv, SlotsOwned, HandlesIssued, RemoversApart, Publishers,
           NEW t \in Threads, Caller(t) \/ Step(t), nextIndex' >= nextIndex
    PROVE  HandlesIssued'
<1>1. TypeOK /\ Fields(t) /\ NULL \notin Ptrs
  BY LocalsFields, TableAssumption DEF TypeInv
<1>2. nextIndex \in Nat /\ nextIndex' \in Int
  <2>1. nextIndex' = nextIndex \/ nextIndex' = (nextIndex + 1) % IndexMod
    BY CallerOwn, GetOwn, InsertOwn, RemoveOwn DEF Step, Fresh
  <2> QED  BY <1>1, <2>1, TableAssumption DEF TypeOK
<1>3. \A h \in issued : h.gen <= generation'[h.idx] /\ h.idx < nextIndex'
  <2> SUFFICES ASSUME NEW h \in issued PROVE h.gen <= generation'[h.idx] /\ h.idx < nextIndex'
    OBVIOUS
  <2>1. h.gen \in Nat /\ h.idx \in Slots /\ h.idx \in Nat
    <3>1. h \in Handles
      BY <1>1 DEF TypeOK
    <3>2. h.gen \in 0 .. MaxGeneration /\ h.idx \in Slots
      BY <3>1 DEF Handles
    <3>3. h.idx \in Nat
      BY <3>2, SlotsFinite
    <3>4. MaxGeneration \in Nat
      BY TableAssumption
    <3> QED  BY <3>2, <3>3, <3>4
  <2>2. generation[h.idx] \in Nat /\ generation'[h.idx] \in Nat /\ generation[h.idx] <= generation'[h.idx]
    BY <2>1, GenerationsGrow
  <2> QED  BY <1>2, <2>1, <2>2 DEF HandlesIssued
<1>4. CASE Publish(t)
  <2>1. /\ pc[t] = "publish" /\ issued' = issued \cup {HandleOf(loc[t].idx)}
        /\ UNCHANGED <<generation, nextIndex>>
    BY <1>4 DEF Publish, HandleOf, cells
  <2>2. generation[loc[t].idx] \in Nat /\ loc[t].idx < nextIndex
    BY <1>1, <2>1, TableAssumption DEF TypeOK, Fields, Publishers, SlotsOwned
  <2>3. \A h \in issued' : h.gen <= generation'[h.idx] /\ h.idx < nextIndex'
    BY <1>3, <2>1, <2>2 DEF HandleOf
  <2>4. Insert(t)
    BY <1>4 DEF Insert
  <2>5. Others(t) /\ disposed' = disposed /\ pc'[t] \notin GetPc
    BY <2>4, InsertOwn DEF InsertPc, Resting, GetPc
  <2> QED  BY <2>1, <2>3, <2>5 DEF HandlesIssued, HandleAt, Others
<1>5. CASE issued' = issued
  <2>1. disposed' \subseteq issued
    <3>1. CASE CallRemove(t)
      BY <3>1 DEF CallRemove, HandlesIssued
    <3>2. CASE disposed' = disposed
      BY <3>2 DEF HandlesIssued
    <3> QED  BY <3>1, <3>2, CallerOwn, GetOwn, InsertOwn, RemoveOwn DEF Step
  <2>2. Others(t)
    BY CallerOwn, GetOwn, InsertOwn, RemoveOwn DEF Step
  <2>3. pc'[t] \in GetPc => HandleAt(t)' \in issued
    <3>1. CASE CallGet(t)
      <4>1. PICK h \in issued : CallWith(t, h, "get_gen")
        BY <3>1 DEF CallGet
      <4>2. loc'[t].gen = h.gen /\ loc'[t].idx = h.idx
        BY <1>1, <4>1 DEF CallWith, TypeOK, Locals
      <4> QED  BY <1>1, <4>2 DEF HandleAt, TypeOK, Handles
    <3>2. CASE Caller(t) /\ ~CallGet(t)
      BY <3>2, CallerOwn
    <3>3. CASE Get(t)
      BY <3>3, GetOwn DEF HandlesIssued, HandleAt
    <3>4. CASE Insert(t)
      BY <3>4, InsertOwn DEF InsertPc, Resting, GetPc
    <3>5. CASE Remove(t)
      BY <3>5, RemoveOwn DEF RemovingPc, RemovePc, UnlinkedPc, DrainPc, Resting, GetPc
    <3> QED  BY <3>1, <3>2, <3>3, <3>4, <3>5 DEF Step
  <2> QED  BY <1>3, <1>5, <2>1, <2>2, <2>3 DEF HandlesIssued, HandleAt, Others
<1> QED  BY <1>4, <1>5, CallerOwn, GetOwn, InsertOwn, RemoveOwn DEF Step

LEMMA ApartStep ==
    ASSUME RemoveOnce = TRUE, TypeInv, RemoversApart, NEW t \in Threads, Caller(t) \/ Step(t)
    PROVE  RemoversApart'
<1>1. TypeOK /\ Fields(t)
  BY LocalsFields DEF TypeInv
<1>2. CASE CallRemove(t)
  <2>1. PICK h \in issued : h \notin disposed /\ CallWith(t, h, "rem_gen") /\ disposed' = disposed \cup {h}
    BY <1>2 DEF CallRemove
  <2>2. HandleAt(t)' = h /\ pc'[t] = "rem_gen"
    BY <1>1, <2>1 DEF CallWith, Start, Goto, TypeOK, Locals, Handles, HandleAt
  <2>3. Others(t) /\ generation' = generation
    BY <1>2, CallerOwn DEF Caller
  <2> QED  BY <2>1, <2>2, <2>3 DEF RemoversApart, Others, HandleAt
<1>3. ASSUME Others(t), disposed' = disposed, generation' = generation,
             pc'[t] \in RemoverPc =>
                /\ pc[t] \in RemoverPc /\ loc'[t].gen = loc[t].gen /\ loc'[t].idx = loc[t].idx
                /\ pc'[t] # "rem_gen" => pc[t] # "rem_gen" \/ generation[loc[t].idx] = loc[t].gen
      PROVE  RemoversApart'
  BY <1>3 DEF RemoversApart, Others, HandleAt
<1>4. CASE Caller(t) /\ ~CallRemove(t)
  BY <1>3, <1>4, CallerOwn
<1>5. CASE Get(t)
  BY <1>3, <1>5, GetOwn DEF GetPc, Resting, RemoverPc, RemovePc
<1>6. CASE Insert(t)
  BY <1>3, <1>6, InsertOwn DEF InsertPc, Resting, RemoverPc, RemovePc
<1>7. CASE Remove(t) /\ ~RemBump(t)
  BY <1>3, <1>7, RemoveOwn DEF RemoverPc
<1>8. CASE RemBump(t)
  <2>1. Remove(t)
    BY <1>8 DEF Remove
  <2>2. Others(t) /\ disposed' = disposed /\ pc'[t] \notin RemoverPc
    BY <1>1, <1>8, <2>1, RemoveOwn DEF RemoverPc, RemovePc, RemBump, Goto, TypeOK
  <2>3. ASSUME NEW u \in Threads, u # t, pc[u] \in RemoverPc, pc[u] # "rem_gen"
        PROVE  loc[u].idx # loc[t].idx
    <3> SUFFICES ASSUME loc[u].idx = loc[t].idx PROVE FALSE
      OBVIOUS
    <3>1. pc[t] \in RemoverPc /\ generation[loc[t].idx] = loc[t].gen
      BY <1>8, BumpRaises DEF RemoverPc
    <3>2. HandleAt(u) = HandleAt(t)
      BY <2>3, <3>1 DEF RemoversApart, HandleAt
    <3> QED  BY <2>3, <3>1, <3>2 DEF RemoversApart
  <2>4. \A u \in Threads : loc[u].idx \in Slots
    BY <1>1, LocalsFields DEF Fields
  <2> QED  BY <1>8, <2>2, <2>3, <2>4, BumpRaises DEF RemoversApart, Others, HandleAt
<1> QED  BY <1>2, <1>4, <1>5, <1>6, <1>7, <1>8 DEF Step

\* What is on the freelist holds nothing.
LEMMA ListedEmpty == ASSUME Freelist, NEW i \in Slots, Listed(i) PROVE value[i] = NULL
<1>1. PICK n \in 0 .. Capacity : \E s \in [1 .. n -> Slots] : Chain(n, s) /\ Unused(n, s)
  BY DEF Freelist
<1>2. PICK s \in [1 .. n -> Slots] : Chain(n, s) /\ Unused(n, s)
  BY <1>1
<1>3. PICK k \in 1 .. n : s[k] = i
  BY <1>2, ListedOnce
<1> QED  BY <1>2, <1>3 DEF Unused

\* Only a push puts a slot on the list.
LEMMA ListedFrom ==
    ASSUME TypeInv, Freelist, SlotsOwned, WordsTagged, NEW t \in Threads, Caller(t) \/ Step(t),
           NEW i \in Slots, Listed(i)'
    PROVE  Listed(i) \/ (pc[t] = "push_cas" /\ loc[t].idx = i)
<1>1. CASE UNCHANGED <<free, nextFree>>
  BY <1>1, ListKept
<1>2. CASE PopCas(t)
  <2>1. CASE free = loc[t].word
    BY <1>2, <2>1, PopTakes
  <2>2. CASE free # loc[t].word
    BY <1>1, <1>2, <2>2 DEF PopCas, cells
  <2> QED  BY <2>1, <2>2
<1>3. CASE PushNext(t)
  BY <1>3, PushLinks
<1>4. CASE PushCas(t)
  <2>1. CASE free = loc[t].word
    BY <1>4, <2>1, PushPuts DEF PushCas, Goto
  <2>2. CASE free # loc[t].word
    BY <1>1, <1>4, <2>2 DEF PushCas, cells
  <2> QED  BY <2>1, <2>2
<1> QED  BY <1>1, <1>2, <1>3, <1>4, CallerOwn, GetOwn, InsertOwn, RemoveOwn DEF Step

\* A slot comes to be filled when its generation begins, and not later.
LEMMA ComingFrom ==
    ASSUME TypeInv, Freelist, SlotsOwned, WordsTagged, NEW t \in Threads, Caller(t) \/ Step(t),
           Fresh(t) => nextIndex' = nextIndex + 1, NEW i \in Slots, Coming(i)'
    PROVE  Coming(i) \/ (RemBump(t) /\ loc[t].gen < MaxGeneration /\ loc[t].idx = i)
<1>1. TypeOK /\ i \in Nat /\ nextIndex \in Nat
  BY SlotsFinite DEF TypeInv, TypeOK
<1>2. nextIndex' = nextIndex \/ nextIndex' = nextIndex + 1
  BY CallerOwn, GetOwn, InsertOwn, RemoveOwn DEF Step
<1>3. CASE i >= nextIndex'
  BY <1>1, <1>2, <1>3 DEF Coming
<1>4. CASE Listed(i)'
  BY <1>4, ListedFrom DEF Coming, FillingPc
<1>5. ASSUME NEW u \in Threads, pc'[u] \in FillingPc, loc'[u].idx = i
      PROVE  Coming(i) \/ (RemBump(t) /\ loc[t].gen < MaxGeneration /\ loc[t].idx = i)
  <2>1. CASE u # t
    BY <1>5, <2>1, CallerOwn, GetOwn, InsertOwn, RemoveOwn DEF Step, Others, Coming
  <2>2. CASE u = t /\ Caller(t)
    BY <1>5, <2>2, CallerOwn
  <2>3. CASE u = t /\ Get(t)
    BY <1>5, <2>3, GetOwn DEF GetPc, Resting, FillingPc
  <2>4. CASE u = t /\ Insert(t)
    <3>1. CASE PopCas(t) /\ free = loc[t].word
      BY <1>5, <2>4, <3>1, PopTakes DEF Coming
    <3>2. CASE loc'[t].idx = nextIndex
      BY <1>1, <1>5, <2>4, <3>2 DEF Coming
    <3>3. CASE Store(t)
      BY <1>5, <2>4, <3>3 DEF Store, Goto, Coming, FillingPc
    <3> QED  BY <1>5, <2>4, <3>1, <3>2, <3>3, InsertOwn
  <2>5. CASE u = t /\ Remove(t)
    BY <1>5, <2>5, RemoveOwn DEF Coming
  <2> QED  BY <2>1, <2>2, <2>3, <2>4, <2>5 DEF Step
<1> QED  BY <1>3, <1>4, <1>5 DEF Coming

LEMMA FreshStep ==
    ASSUME TypeInv, Freelist, SlotsOwned, WordsTagged, HandlesIssued, RemoversApart, HandlesFresh, Publishers,
           NEW t \in Threads, Caller(t) \/ Step(t), Fresh(t) => nextIndex' = nextIndex + 1
    PROVE  HandlesFresh'
<1>1. TypeOK /\ Fields(t) /\ NULL \notin Ptrs
  BY LocalsFields, TableAssumption DEF TypeInv
<1> SUFFICES ASSUME NEW i \in Slots, Coming(i)' PROVE HandleOf(i)' \notin issued'
  BY DEF HandlesFresh
<1>2. generation[i] \in Nat
  BY GenerationsGrow
<1>3. CASE RemBump(t)
  <2>1. Remove(t)
    BY <1>3 DEF Remove
  <2>2. issued' = issued
    BY <2>1, RemoveOwn
  <2>3. CASE loc[t].idx = i /\ loc[t].gen < MaxGeneration
    <3>1. generation'[i] = generation[i] + 1
      BY <1>3, <2>3, BumpRaises
    <3>2. \A h \in issued : h.idx = i => h.gen <= generation[i]
      BY DEF HandlesIssued
    <3> QED  BY <1>2, <2>2, <3>1, <3>2 DEF HandleOf
  <2>4. CASE ~(loc[t].idx = i /\ loc[t].gen < MaxGeneration)
    <3>1. Coming(i)
      BY <2>4, ComingFrom
    <3>2. generation'[i] = generation[i]
      BY <1>3, <2>4, BumpRaises
    <3> QED  BY <2>2, <3>1, <3>2 DEF HandlesFresh, HandleOf
  <2> QED  BY <2>3, <2>4
<1>4. CASE Publish(t)
  <2>1. /\ pc[t] = "publish" /\ issued' = issued \cup {HandleOf(loc[t].idx)}
        /\ UNCHANGED <<generation, nextIndex>>
    BY <1>4 DEF Publish, HandleOf, cells
  <2>2. Insert(t)
    BY <1>4 DEF Insert
  <2>3. Coming(i)
    <3>1. ~RemBump(t)
      BY <2>1 DEF RemBump, Goto
    <3> QED  BY <3>1, ComingFrom
  <2>4. i # loc[t].idx
    <3> SUFFICES ASSUME i = loc[t].idx PROVE FALSE
      OBVIOUS
    <3>1. value[i] # NULL
      BY <1>1, <2>1 DEF Publishers
    <3>2. ~(i >= nextIndex)
      <4>1. i \in Nat /\ nextIndex \in Nat
        BY <1>1, SlotsFinite DEF TypeOK
      <4> QED  BY <3>1, <4>1 DEF SlotsOwned
    <3>3. ~Listed(i)'
      <4>1. pc[t] # "push_cas"
        BY <2>1
      <4> QED  BY <3>1, <4>1, ListedEmpty, ListedFrom
    <3>4. PICK u \in Threads : pc'[u] \in FillingPc /\ loc'[u].idx = i
      BY <2>1, <3>2, <3>3 DEF Coming
    <3>5. u # t
      BY <1>1, <1>4, <3>4 DEF Publish, ReturnNothing, TypeOK, FillingPc
    <3>6. pc[u] \in FillingPc /\ loc[u].idx = i
      BY <2>2, <3>4, <3>5, InsertOwn DEF Others
    <3>7. CASE pc[u] = "publish"
      BY <2>1, <3>5, <3>6, <3>7 DEF Publishers
    <3>8. CASE Owning(u)
      BY <3>1, <3>6, <3>8 DEF SlotsOwned
    <3> QED  BY <3>6, <3>7, <3>8 DEF FillingPc, Owning
  <2> QED  BY <2>1, <2>3, <2>4 DEF HandlesFresh, HandleOf
<1>5. CASE ~RemBump(t) /\ ~Publish(t)
  <2>1. Coming(i)
    BY <1>5, ComingFrom
  <2>2. issued' = issued /\ generation' = generation
    BY <1>5, CallerOwn, GetOwn, InsertOwn, RemoveOwn DEF Step
  <2> QED  BY <2>1, <2>2 DEF HandlesFresh, HandleOf
<1> QED  BY <1>3, <1>4, <1>5

LEMMA PublisherStep ==
    ASSUME TypeInv, InsertOwns, SlotsOwned, HandlesIssued, RemoversApart, HandlesFresh, Publishers,
           NEW t \in Threads, Caller(t) \/ Step(t)
    PROVE  Publishers'
<1>1. TypeOK /\ Fields(t) /\ NULL \notin Ptrs
  BY LocalsFields, TableAssumption DEF TypeInv
<1>2. Others(t)
  BY CallerOwn, GetOwn, InsertOwn, RemoveOwn DEF Step
<1>3. CASE Store(t)
  <2>1. /\ pc[t] = "store" /\ pc' = [pc EXCEPT ![t] = "publish"] /\ loc' = loc
        /\ value' = [value EXCEPT ![loc[t].idx] = loc[t].ptr]
        /\ UNCHANGED <<generation, issued>>
    BY <1>3 DEF Store, Goto, client
  <2>2. loc[t].ptr \in Ptrs /\ value[loc[t].idx] = NULL
    BY <2>1 DEF InsertOwns, InsertPc, SlotsOwned, Owning
  <2>3. /\ pc'[t] = "publish" /\ value'[loc[t].idx] = loc[t].ptr
        /\ \A i \in Slots : i # loc[t].idx => value'[i] = value[i]
    BY <1>1, <2>1 DEF TypeOK, Fields
  <2>4. \A u \in Threads : u # t /\ pc[u] = "publish" => loc[u].idx # loc[t].idx /\ loc[u].idx \in Slots
    BY <1>1, <2>2, LocalsFields DEF Publishers, Fields
  <2>5. ASSUME NEW u \in Threads, pc'[u] = "publish"
        PROVE  /\ loc[u].ptr \in Ptrs /\ value'[loc[u].idx] = loc[u].ptr
               /\ \A v \in Threads : pc'[v] = "publish" /\ loc[v].idx = loc[u].idx => v = u
    <3>1. CASE u = t
      BY <1>2, <2>2, <2>3, <2>4, <3>1 DEF Others
    <3>2. CASE u # t
      BY <1>2, <2>3, <2>4, <2>5, <3>2 DEF Others, Publishers
    <3> QED  BY <3>1, <3>2
  <2>6. ASSUME NEW i \in Slots, value'[i] # NULL
        PROVE  HandleOf(i) \in issued \/ \E u \in Threads : pc'[u] = "publish" /\ loc[u].idx = i
    <3>1. CASE i = loc[t].idx
      BY <2>3, <3>1
    <3>2. CASE i # loc[t].idx
      <4>1. value[i] # NULL
        BY <2>3, <2>6, <3>2
      <4>2. \A u \in Threads : pc[u] = "publish" => pc'[u] = "publish"
        BY <1>2, <2>1 DEF Others
      <4> QED  BY <4>1, <4>2 DEF Publishers
    <3> QED  BY <3>1, <3>2
  <2> QED  BY <2>1, <2>5, <2>6 DEF Publishers, HandleOf
<1>4. CASE RemCas(t) /\ value[loc[t].idx] = loc[t].ptr
  <2>1. /\ pc[t] = "rem_cas" /\ pc' = [pc EXCEPT ![t] = "rem_bump"] /\ loc' = loc
        /\ value' = [value EXCEPT ![loc[t].idx] = NULL]
        /\ UNCHANGED <<generation, issued>>
    BY <1>4 DEF RemCas, Goto, client
  <2>2. HandleOf(loc[t].idx) \in issued
    BY <2>1 DEF RemoversApart, RemoverPc, RemovePc, HandlesIssued, HandleAt, HandleOf
  <2>3. ASSUME NEW u \in Threads, pc[u] = "publish" PROVE loc[u].idx # loc[t].idx /\ loc[u].idx \in Slots
    <3>1. loc[u].idx \in Slots
      BY <1>1, LocalsFields DEF Fields
    <3>2. Coming(loc[u].idx)
      BY <2>3 DEF Coming, FillingPc
    <3> QED  BY <2>2, <3>1, <3>2 DEF HandlesFresh
  <2>4. /\ value'[loc[t].idx] = NULL
        /\ \A i \in Slots : i # loc[t].idx => value'[i] = value[i]
        /\ \A u \in Threads : pc'[u] = "publish" <=> pc[u] = "publish"
    BY <1>1, <2>1 DEF TypeOK, Fields
  <2> QED  BY <2>1, <2>3, <2>4 DEF Publishers, HandleOf
<1>5. CASE Publish(t)
  <2>1. /\ pc[t] = "publish" /\ issued' = issued \cup {HandleOf(loc[t].idx)} /\ pc'[t] = "idle"
        /\ UNCHANGED <<generation, value>>
    BY <1>1, <1>5 DEF Publish, HandleOf, cells, ReturnNothing, TypeOK
  <2>2. \A u \in Threads : pc'[u] = "publish" => u # t /\ pc[u] = "publish" /\ loc'[u] = loc[u]
    BY <1>2, <2>1 DEF Others
  <2>3. ASSUME NEW i \in Slots, value[i] # NULL
        PROVE  HandleOf(i) \in issued' \/ \E u \in Threads : pc'[u] = "publish" /\ loc'[u].idx = i
    <3>1. CASE HandleOf(i) \in issued
      BY <2>1, <3>1
    <3>2. CASE HandleOf(i) \notin issued
      <4>1. PICK u \in Threads : pc[u] = "publish" /\ loc[u].idx = i
        BY <2>3, <3>2 DEF Publishers
      <4>2. CASE u = t
        BY <2>1, <4>1, <4>2
      <4>3. CASE u # t
        BY <1>2, <4>1, <4>3 DEF Others
      <4> QED  BY <4>2, <4>3
    <3> QED  BY <3>1, <3>2
  <2> QED  BY <2>1, <2>2, <2>3 DEF Publishers, HandleOf
<1>6. ASSUME value' = value, issued' = issued, pc[t] # "publish", pc'[t] # "publish",
             \A i \in Slots : generation'[i] = generation[i] \/ value[i] = NULL
      PROVE  Publishers'
  <2>1. \A u \in Threads : /\ pc'[u] = "publish" <=> pc[u] = "publish"
                           /\ pc[u] = "publish" => loc'[u] = loc[u]
    BY <1>2, <1>6 DEF Others
  <2> QED  BY <1>6, <2>1 DEF Publishers, HandleOf
<1>7. CASE RemBump(t)
  <2>1. value' = value /\ pc[t] = "rem_bump" /\ \A i \in Slots : i # loc[t].idx => generation'[i] = generation[i]
    BY <1>7, BumpRaises
  <2>2. value[loc[t].idx] = NULL
    BY <2>1 DEF SlotsOwned, Owning
  <2>3. Remove(t)
    BY <1>7 DEF Remove
  <2> QED  BY <1>6, <2>1, <2>2, <2>3, RemoveOwn
<1>8. CASE RemCas(t) /\ value[loc[t].idx] # loc[t].ptr
  <2>1. value' = value /\ issued' = issued /\ generation' = generation /\ pc[t] = "rem_cas" /\ pc'[t] = "rem_gen"
    BY <1>1, <1>8 DEF RemCas, Goto, client, TypeOK
  <2> QED  BY <1>6, <2>1
<1>9. CASE Caller(t)
  <2>1. pc[t] # "publish"
    BY <1>9, Zenon DEF Caller, CallInsert, CallGet, CallRemove, CallWith, Start, Goto, DropArc
  <2>2. pc'[t] # "publish" /\ UNCHANGED <<generation, value, issued>>
    BY <1>9, CallerOwn DEF FillingPc
  <2> QED  BY <1>6, <2>1, <2>2
<1>10. CASE Get(t)
  BY <1>6, <1>10, GetOwn DEF GetPc, Resting
<1>11. CASE Insert(t) /\ ~Store(t) /\ ~Publish(t)
  <2>1. pc[t] # "publish"
    BY <1>11 DEF Insert, PopLoad, PopNext, PopCas, Fresh, Goto
  <2> QED  BY <1>6, <1>11, <2>1, InsertOwn
<1>12. CASE Remove(t) /\ ~RemBump(t) /\ ~RemCas(t)
  BY <1>6, <1>12, RemoveOwn DEF RemovingPc, RemovePc, UnlinkedPc, DrainPc
<1> QED  BY <1>3, <1>4, <1>5, <1>7, <1>8, <1>9, <1>10, <1>11, <1>12 DEF Step

LEMMA SeeStep ==
    ASSUME TypeInv, SlotsOwned, HandlesIssued, RemoversApart, HandlesFresh, ReadersSee,
           NEW t \in Threads, Caller(t) \/ Step(t)
    PROVE  ReadersSee'
<1>1. TypeOK /\ Fields(t) /\ NULL \notin Ptrs /\ InUse
  BY LocalsFields, TableAssumption DEF TypeInv
<1>2. Others(t)
  BY CallerOwn, GetOwn, InsertOwn, RemoveOwn DEF Step
<1>3. \A u \in Threads : pc[u] \in SeeingPc => loc[u].idx \in Slots /\ HandleAt(u) \in issued
  BY <1>1, LocalsFields DEF Fields, HandlesIssued, SeeingPc, GetPc
<1>4. ASSUME generation' = generation, value' = value,
             \A u \in Threads : pc'[u] = "rem_bump" => pc[u] = "rem_bump" /\ loc'[u] = loc[u],
             pc'[t] \in SeeingPc =>
                /\ loc'[t].gen = loc[t].gen /\ loc'[t].idx = loc[t].idx
                /\ \/ pc[t] \in SeeingPc /\ loc'[t].ptr = loc[t].ptr
                   \/ loc'[t].ptr = value[loc[t].idx]
      PROVE  ReadersSee'
  <2> SUFFICES ASSUME NEW u \in Threads, pc'[u] \in SeeingPc, generation[loc'[u].idx] = loc'[u].gen
               PROVE  \/ value[loc'[u].idx] = loc'[u].ptr
                      \/ /\ value[loc'[u].idx] = NULL
                         /\ \A v \in Threads : pc'[v] = "rem_bump" /\ loc'[v].idx = loc'[u].idx =>
                                loc'[v].ptr = loc'[u].ptr
    BY <1>4 DEF ReadersSee
  <2>1. CASE pc[u] \in SeeingPc /\ loc'[u].gen = loc[u].gen /\ loc'[u].idx = loc[u].idx /\ loc'[u].ptr = loc[u].ptr
    BY <1>4, <2>1 DEF ReadersSee
  <2>2. CASE loc'[u].ptr = value[loc'[u].idx]
    BY <2>2
  <2> QED  BY <1>2, <1>4, <2>1, <2>2 DEF Others
<1>5. CASE Store(t)
  <2>1. /\ pc[t] = "store" /\ pc' = [pc EXCEPT ![t] = "publish"] /\ loc' = loc
        /\ value' = [value EXCEPT ![loc[t].idx] = loc[t].ptr] /\ generation' = generation
    BY <1>5 DEF Store, Goto
  <2>2. HandleOf(loc[t].idx) \notin issued
    <3>1. Coming(loc[t].idx) /\ loc[t].idx \in Slots
      BY <1>1, <2>1 DEF Coming, FillingPc, Fields
    <3> QED  BY <3>1 DEF HandlesFresh
  <2>3. pc'[t] = "publish" /\ \A u \in Threads : u # t => pc'[u] = pc[u]
    BY <1>1, <1>2, <2>1 DEF Others, TypeOK
  <2>4. ASSUME NEW u \in Threads, pc[u] \in SeeingPc, generation[loc[u].idx] = loc[u].gen
        PROVE  value'[loc[u].idx] = value[loc[u].idx]
    <3>1. loc[u].idx # loc[t].idx
      BY <1>3, <2>2, <2>4 DEF HandleAt, HandleOf
    <3> QED  BY <1>1, <1>3, <2>1, <2>4, <3>1 DEF TypeOK
  <2>5. \A u \in Threads : /\ pc'[u] \in SeeingPc => pc[u] \in SeeingPc
                           /\ pc'[u] = "rem_bump" => pc[u] = "rem_bump"
    BY <2>3 DEF SeeingPc
  <2> QED  BY <2>1, <2>4, <2>5 DEF ReadersSee
<1>6. CASE RemCas(t) /\ value[loc[t].idx] = loc[t].ptr
  <2>1. /\ pc[t] = "rem_cas" /\ pc' = [pc EXCEPT ![t] = "rem_bump"] /\ loc' = loc
        /\ value' = [value EXCEPT ![loc[t].idx] = NULL] /\ generation' = generation
    BY <1>6 DEF RemCas, Goto
  <2>2. value[loc[t].idx] # NULL
    BY <1>1, <1>6, <2>1 DEF InUse
  <2>3. pc'[t] = "rem_bump" /\ \A u \in Threads : u # t => pc'[u] = pc[u]
    BY <1>1, <1>2, <2>1 DEF Others, TypeOK
  <2>4. \A u \in Threads : u # t /\ pc'[u] = "rem_bump" => loc[u].idx # loc[t].idx
    BY <2>2, <2>3 DEF SlotsOwned, Owning
  <2>5. value'[loc[t].idx] = NULL /\ \A i \in Slots : i # loc[t].idx => value'[i] = value[i]
    BY <1>1, <2>1 DEF TypeOK, Fields
  <2> SUFFICES ASSUME NEW u \in Threads, pc'[u] \in SeeingPc, generation[loc[u].idx] = loc[u].gen
               PROVE  \/ value'[loc[u].idx] = loc[u].ptr
                      \/ /\ value'[loc[u].idx] = NULL
                         /\ \A v \in Threads : pc'[v] = "rem_bump" /\ loc[v].idx = loc[u].idx =>
                                loc[v].ptr = loc[u].ptr
    BY <2>1 DEF ReadersSee
  <2>6. pc[u] \in SeeingPc
    BY <2>3 DEF SeeingPc
  <2>7. CASE loc[u].idx = loc[t].idx
    BY <1>6, <2>2, <2>4, <2>5, <2>6, <2>7 DEF ReadersSee
  <2>8. CASE loc[u].idx # loc[t].idx
    BY <1>3, <2>3, <2>5, <2>6, <2>8 DEF ReadersSee
  <2> QED  BY <2>7, <2>8
<1>7. CASE RemBump(t)
  <2>1. /\ loc' = loc /\ value' = value
        /\ \A i \in Slots : generation'[i] = generation[i]
                            \/ (i = loc[t].idx /\ generation'[i] = generation[i] + 1)
    BY <1>7, BumpRaises
  <2>2. \A u \in Threads : /\ pc'[u] \in SeeingPc => pc[u] \in SeeingPc
                           /\ pc'[u] = "rem_bump" => pc[u] = "rem_bump"
    BY <1>1, <1>2, <1>7 DEF RemBump, Goto, Others, SeeingPc, TypeOK
  <2>3. ASSUME NEW u \in Threads, pc[u] \in SeeingPc, generation'[loc[u].idx] = loc[u].gen
        PROVE  generation[loc[u].idx] = loc[u].gen
    <3>1. loc[u].gen <= generation[loc[u].idx]
      BY <1>3, <2>3 DEF HandlesIssued, HandleAt
    <3>2. generation[loc[u].idx] \in Nat
      BY <1>3, <2>3, GenerationsGrow
    <3> QED  BY <1>3, <2>1, <2>3, <3>1, <3>2
  <2> QED  BY <2>1, <2>2, <2>3 DEF ReadersSee
<1>8. CASE Caller(t)
  BY <1>2, <1>4, <1>8, CallerOwn DEF Others
<1>9. CASE Get(t)
  <2>1. pc'[t] # "rem_bump" /\ SeeingPc \subseteq GetPc
    BY <1>9, GetOwn DEF GetPc, Resting, SeeingPc
  <2> QED  BY <1>2, <1>4, <1>9, <2>1, GetOwn DEF Others
<1>10. CASE Insert(t) /\ ~Store(t)
  BY <1>2, <1>4, <1>10, InsertOwn DEF Others, InsertPc, Resting, SeeingPc
<1>11. CASE RemCas(t) /\ value[loc[t].idx] # loc[t].ptr
  <2>1. value' = value /\ generation' = generation /\ pc'[t] = "rem_gen"
    BY <1>1, <1>11 DEF RemCas, Goto, TypeOK
  <2> QED  BY <1>2, <1>4, <2>1 DEF Others, SeeingPc
<1>12. CASE Remove(t) /\ ~RemBump(t) /\ ~RemCas(t)
  <2>1. pc'[t] \notin SeeingPc
    BY <1>12, RemoveOwn DEF RemovingPc, RemovePc, UnlinkedPc, DrainPc, Resting, SeeingPc
  <2> QED  BY <1>2, <1>4, <1>12, <2>1, RemoveOwn DEF Others
<1> QED  BY <1>5, <1>6, <1>7, <1>8, <1>9, <1>10, <1>11, <1>12 DEF Step

\* Scans read every hazard slot that was claimed when they began.
LEMMA ScanOwn ==
    ASSUME TypeInv, NEW t \in Threads, Remove(t)
    PROVE  /\ pc'[t] = "rem_unref" =>
                pc[t] = "rem_scan" /\ loc[t].left = {} /\ loc'[t].ptr = loc[t].ptr
           /\ pc'[t] = "rem_scan" =>
                \/ loc'[t].left = claimed
                \/ /\ pc[t] = "rem_scan" /\ loc'[t].ptr = loc[t].ptr
                   /\ \A u \in loc[t].left : hazard[u] = loc[t].ptr => u \in loc'[t].left
           /\ pc'[t] = "drain_scan" =>
                \/ loc'[t].left = claimed
                \/ /\ pc[t] = "drain_scan" /\ loc'[t].entry = loc[t].entry
                   /\ \A u \in loc[t].left : hazard[u] = loc[t].entry => u \in loc'[t].left
           /\ \/ \A p \in Ptrs : TABLE \in owners[p] => TABLE \in owners'[p]
              \/ RemUnref(t)
              \/ DrainScan(t) /\ loc[t].left = {}
<1>1. TypeOK /\ Fields(t)
  BY LocalsFields DEF TypeInv
<1> USE DEF TypeOK
<1>2. CASE RemGen(t)
  BY <1>1, <1>2 DEF RemGen, ReturnNothing, Goto
<1>3. CASE RemVal(t)
  BY <1>1, <1>3 DEF RemVal, ReturnNothing, Goto
<1>4. CASE RemCas(t)
  BY <1>1, <1>4 DEF RemCas, Goto
<1>5. CASE RemBump(t)
  BY <1>1, <1>5 DEF RemBump, Goto
<1>6. CASE PushLoad(t)
  BY <1>1, <1>6 DEF PushLoad, Goto
<1>7. CASE PushNext(t)
  BY <1>1, <1>7 DEF PushNext, Goto
<1>8. CASE PushCas(t)
  BY <1>1, <1>8 DEF PushCas, Goto
<1>9. CASE RemInc(t)
  BY <1>1, <1>9 DEF RemInc, Goto
<1>10. CASE RemProtected(t)
  BY <1>1, <1>10 DEF RemProtected, Goto, Locals
<1>11. CASE RemScan(t)
  BY <1>1, <1>11 DEF RemScan, Goto, Locals
<1>12. CASE RemDefer(t)
  BY <1>1, <1>12 DEF RemDefer, Goto
<1>13. CASE RemUnref(t)
  BY <1>1, <1>13 DEF RemUnref, Goto
<1>14. CASE Drain(t)
  BY <1>1, <1>14 DEF Drain, ReturnArc, Goto
<1>15. CASE DrainPick(t)
  <2>1. CASE loc[t].work = {}
    BY <1>1, <1>15, <2>1 DEF DrainPick, ReturnArc
  <2>2. CASE loc[t].work # {}
    <3>1. PICK e \in loc[t].work :
             loc' = [loc EXCEPT ![t] = [loc[t] EXCEPT !.work = @ \ {e}, !.entry = e, !.left = claimed]]
      BY <1>15, <2>2 DEF DrainPick
    <3>2. loc'[t].left = claimed
      BY <1>1, <3>1 DEF Locals
    <3>3. pc'[t] = "drain_scan" /\ UNCHANGED owners
      BY <1>1, <1>15, <2>2 DEF DrainPick, Goto
    <3> QED  BY <3>2, <3>3
  <2> QED  BY <2>1, <2>2
<1>16. CASE DrainScan(t)
  <2>1. pc[t] = "drain_scan" /\ pc'[t] \in {"drain_pick", "drain_scan"}
    BY <1>1, <1>16 DEF DrainScan, Goto
  <2>2. CASE loc[t].left = {}
    <3>1. pc'[t] = "drain_pick"
      BY <1>1, <1>16, <2>2 DEF DrainScan, Goto
    <3> QED  BY <1>16, <2>2, <3>1
  <2>3. CASE loc[t].left # {}
    <3>1. PICK u \in loc[t].left :
             /\ IF hazard[u] = loc[t].entry
                THEN Goto(t, "drain_scan", "drain_pick")
                ELSE UNCHANGED pc /\ loc' = [loc EXCEPT ![t].left = @ \ {u}]
             /\ UNCHANGED owners
      BY <1>16, <2>3 DEF DrainScan
    <3>2. CASE hazard[u] = loc[t].entry
      BY <1>1, <3>1, <3>2 DEF Goto
    <3>3. CASE hazard[u] # loc[t].entry
      <4>1. loc'[t].left = loc[t].left \ {u} /\ loc'[t].entry = loc[t].entry
        BY <1>1, <3>1, <3>3 DEF Locals
      <4> QED  BY <2>1, <3>1, <3>3, <4>1
    <3> QED  BY <3>2, <3>3
  <2> QED  BY <2>2, <2>3
<1> QED  BY <1>2, <1>3, <1>4, <1>5, <1>6, <1>7, <1>8, <1>9, <1>10, <1>11, <1>12, <1>13, <1>14,
     <1>15, <1>16 DEF Remove

\* What a reader protects stays where it is until the reader has looked again.
LEMMA KeptOutStep ==
    ASSUME IInv, NEW t \in Threads, Caller(t) \/ Step(t),
           NEW u \in Threads, u # t, pc[u] = "get_val2", KeptOut(u)
    PROVE  KeptOut(u)'
<1> DEFINE p == loc[u].ptr
<1>1. TypeOK /\ Fields(t) /\ TypeInv /\ InUse /\ InsertOwns /\ NULL \notin Ptrs /\ TABLE \notin Threads
  BY Parts, LocalsFields, TableAssumption DEF IInv, TypeInv
<1>2. p \in Ptrs /\ hazard[u] = p /\ u \in claimed
  BY Parts DEF HazardPublished
<1>3. TABLE \in owners[p] /\ \A i \in Slots : value[i] # p
  BY DEF KeptOut
<1>4. Others(t) /\ loc'[u] = loc[u]
  BY <1>1, CallerOwn, GetOwn, InsertOwn, RemoveOwn DEF Step, Others
<1> HIDE DEF p
<1>5. TABLE \in owners'[p]
  <2>1. CASE CallInsert(t)
    <3>1. PICK q \in Ptrs : owners[q] = {} /\ owners' = [owners EXCEPT ![q] = {t}]
      BY <2>1 DEF CallInsert
    <3> QED  BY <1>1, <1>2, <1>3, <3>1 DEF TypeOK
  <2>2. CASE CallGet(t) \/ CallRemove(t)
    BY <1>3, <2>2 DEF CallGet, CallRemove, CallWith
  <2>3. CASE DropArc(t)
    BY <1>1, <1>2, <1>3, <2>3 DEF DropArc, TypeOK
  <2>4. CASE PopLoad(t) \/ PopNext(t) \/ PopCas(t) \/ Publish(t)
    BY <1>3, <2>4 DEF PopLoad, PopNext, PopCas, Publish
  <2>5. CASE Fresh(t)
    BY <1>1, <1>2, <1>3, <2>5 DEF Fresh, TypeOK
  <2>6. CASE Store(t)
    BY <1>1, <1>2, <1>3, <2>6 DEF Store, TypeOK
  <2>7. CASE Get(t)
    <3>1. CASE GetInc(t)
      BY <1>1, <1>2, <1>3, <3>1 DEF GetInc, TypeOK
    <3>2. CASE GetGen(t) \/ GetVal(t) \/ GetPublish(t) \/ GetGen2(t) \/ GetVal2(t) \/ GetDone(t) \/ GetRetry(t)
      BY <1>3, <3>2 DEF GetGen, GetVal, GetPublish, GetGen2, GetVal2, GetDone, GetRetry
    <3> QED  BY <2>7, <3>1, <3>2 DEF Get
  <2>8. CASE Remove(t)
    <3>1. CASE RemUnref(t)
      <4>1. loc[t].ptr # p
        BY <3>1 DEF KeptOut, RemUnref, Goto, p
      <4> QED  BY <1>1, <1>2, <1>3, <3>1, <4>1 DEF RemUnref, TypeOK
    <3>2. CASE DrainScan(t) /\ loc[t].left = {}
      <4>1. pc[t] = "drain_scan" /\ owners' = [owners EXCEPT ![loc[t].entry] = @ \ {TABLE}]
        BY <3>2 DEF DrainScan, Goto
      <4>2. loc[t].entry # p
        BY <3>2, <4>1 DEF KeptOut, p
      <4> QED  BY <1>1, <1>2, <1>3, <4>1, <4>2 DEF TypeOK
    <3> QED  BY <1>1, <1>2, <1>3, <2>8, <3>1, <3>2, ScanOwn
  <2> QED  BY <2>1, <2>2, <2>3, <2>4, <2>5, <2>6, <2>7, <2>8 DEF Caller, Step, Insert
<1>6. \A i \in Slots : value'[i] # p
  <2>1. CASE Store(t)
    <3>1. loc[t].ptr # p /\ value' = [value EXCEPT ![loc[t].idx] = loc[t].ptr]
      BY <1>1, <1>3, <2>1 DEF Store, Goto, InsertOwns, InsertPc
    <3> QED  BY <1>1, <1>3, <3>1 DEF TypeOK
  <2>2. CASE RemCas(t)
    BY <1>1, <1>2, <1>3, <2>2 DEF RemCas, TypeOK
  <2>3. CASE value' = value
    BY <1>3, <2>3
  <2> QED  BY <1>1, <2>1, <2>2, <2>3, CallerOwn, GetOwn, InsertOwn, RemoveOwn DEF Step
<1>7. ASSUME NEW r \in Threads
      PROVE  /\ pc'[r] = "rem_unref" => loc'[r].ptr # p
             /\ pc'[r] = "rem_scan" /\ loc'[r].ptr = p => u \in loc'[r].left
             /\ pc'[r] = "drain_scan" /\ loc'[r].entry = p => u \in loc'[r].left
  <2>1. CASE r # t
    BY <1>4, <2>1 DEF KeptOut, Others, p
  <2>2. CASE r = t /\ Caller(t)
    <3>1. pc'[t] \notin {"rem_unref", "rem_scan", "drain_scan"}
      BY <1>1, <2>2 DEF Caller, CallInsert, CallGet, CallRemove, CallWith, Start, Goto, DropArc, ReturnNothing, TypeOK
    <3> QED  BY <2>2, <3>1
  <2>3. CASE r = t /\ Get(t)
    BY <1>1, <2>3, GetOwn DEF GetPc, Resting
  <2>4. CASE r = t /\ Insert(t)
    BY <1>1, <2>4, InsertOwn DEF InsertPc, Resting
  <2>5. CASE r = t /\ Remove(t)
    BY <1>1, <1>2, <2>5, ScanOwn DEF KeptOut, p
  <2> QED  BY <2>1, <2>2, <2>3, <2>4, <2>5 DEF Step
<1> QED  BY <1>4, <1>5, <1>6, <1>7 DEF KeptOut, p

LEMMA HoldStep ==
    ASSUME IInv, SlotsOwned, HandlesIssued, RemoversApart, ReadersSee, ReadersHold,
           NEW t \in Threads, Caller(t) \/ Step(t)
    PROVE  ReadersHold'
<1>1. TypeOK /\ TypeInv
  BY DEF IInv, TypeInv
<1>2. Others(t)
  BY <1>1, CallerOwn, GetOwn, InsertOwn, RemoveOwn DEF Step
<1> SUFFICES ASSUME NEW u \in Threads, pc'[u] = "get_val2", generation'[loc'[u].idx] # loc'[u].gen
             PROVE  KeptOut(u)'
  BY DEF ReadersHold
<1>3. u # t
  <2> SUFFICES ASSUME u = t PROVE FALSE
    OBVIOUS
  <2>1. CASE Caller(t)
    BY <1>1, <2>1, CallerOwn DEF SeeingPc
  <2>2. CASE Get(t)
    BY <1>1, <2>2, GetOwn DEF GetPc
  <2>3. CASE Insert(t)
    BY <1>1, <2>3, InsertOwn DEF InsertPc, Resting
  <2>4. CASE Remove(t)
    BY <1>1, <2>4, RemoveOwn DEF RemovingPc, RemovePc, UnlinkedPc, DrainPc, Resting
  <2> QED  BY <2>1, <2>2, <2>3, <2>4 DEF Step
<1>4. pc[u] = "get_val2" /\ loc'[u] = loc[u] /\ loc[u].idx \in Slots
  BY <1>1, <1>2, <1>3, LocalsFields DEF Others, Fields
<1>5. CASE generation[loc[u].idx] # loc[u].gen
  BY <1>3, <1>4, <1>5, KeptOutStep DEF ReadersHold
<1>6. CASE generation[loc[u].idx] = loc[u].gen
  <2>1. RemBump(t)
    <3>1. generation' # generation
      BY <1>4, <1>6
    <3> QED  BY <1>1, <3>1, CallerOwn, GetOwn, InsertOwn, RemoveOwn DEF Step
  <2>2. pc[t] = "rem_bump" /\ loc[t].idx = loc[u].idx
    BY <1>1, <1>4, <1>6, <2>1, BumpRaises
  <2>3. value[loc[u].idx] = NULL
    BY <2>2 DEF SlotsOwned, Owning
  <2>4. loc[t].ptr = loc[u].ptr
    <3>1. loc[u].ptr \in Ptrs /\ NULL \notin Ptrs
      BY <1>4, Parts, TableAssumption DEF HazardPublished
    <3> QED  BY <1>4, <1>6, <2>2, <2>3, <3>1 DEF ReadersSee, SeeingPc
  <2>5. UnlinkedOwns /\ RetiredOwns
    BY Parts
  <2>6. /\ TABLE \in owners[loc[u].ptr] /\ loc[u].ptr \notin retired
        /\ \A i \in Slots : value[i] # loc[u].ptr
        /\ \A r \in Threads : pc[r] \in UnlinkedPc /\ loc[r].ptr = loc[u].ptr => r = t
    BY <2>2, <2>4, <2>5 DEF UnlinkedOwns, UnlinkedPc
  <2>7. KeptOut(u)
    <3>1. \A r \in Threads : pc[r] = "drain_scan" => loc[r].entry # loc[u].ptr
      BY <2>5, <2>6 DEF RetiredOwns
    <3>2. \A r \in Threads : pc[r] \in {"rem_unref", "rem_scan"} => loc[r].ptr # loc[u].ptr
      BY <2>2, <2>6 DEF UnlinkedPc
    <3> QED  BY <2>6, <3>1, <3>2 DEF KeptOut
  <2> QED  BY <1>3, <1>4, <2>7, KeptOutStep
<1> QED  BY <1>5, <1>6

LEMMA MapDrop == ASSUME MapInv, DropTable PROVE MapInv'
<1>1. /\ \A t \in Threads : pc[t] \in Resting
      /\ UNCHANGED <<generation, nextFree, free, nextIndex, pc, loc, issued, disposed>>
      /\ \A i \in Slots : value'[i] = NULL
  BY DEF DropTable, index
<1>2. \A t \in Threads : pc[t] \notin GetPc \cup RemoverPc \cup SeeingPc \cup {"publish"}
  BY <1>1 DEF Resting, GetPc, RemoverPc, RemovePc, SeeingPc
<1>3. HandlesIssued' /\ RemoversApart'
  BY <1>1, <1>2 DEF MapInv, HandlesIssued, RemoversApart
<1>4. HandlesFresh'
  <2>1. \A i \in Slots : Coming(i)' => Coming(i)
    BY <1>1, ListKept DEF Coming
  <2> QED  BY <1>1, <2>1 DEF MapInv, HandlesFresh, HandleOf
<1>5. Publishers' /\ ReadersSee'
  BY <1>1, <1>2 DEF Publishers, ReadersSee
<1>6. ReadersHold'
  BY <1>1, <1>2 DEF ReadersHold, SeeingPc
<1> QED  BY <1>3, <1>4, <1>5, <1>6 DEF MapInv

LEMMA MapStep ==
    ASSUME RemoveOnce = TRUE, MaxCalls < IndexMod, IInv, SlotInv, MapInv, [Next]_vars
    PROVE  MapInv'
<1>1. TypeInv /\ TypeOK /\ InsertOwns /\ Freelist /\ SlotsOwned /\ WordsTagged /\ IndexBounded
  BY DEF IInv, TypeInv, MemoryInv, SlotInv
<1>2. CASE UNCHANGED vars
  <2>1. UNCHANGED <<generation, value, nextFree, free, nextIndex, owners, pc, loc, issued, disposed>>
    BY <1>2 DEF vars, cells, index, client
  <2>2. \A i \in Slots : Coming(i)' => Coming(i)
    BY <2>1, ListKept DEF Coming
  <2>3. HandlesIssued' /\ RemoversApart' /\ HandlesFresh'
    BY <2>1, <2>2 DEF MapInv, HandlesIssued, RemoversApart, HandlesFresh, HandleOf, HandleAt
  <2>4. Publishers' /\ ReadersSee' /\ ReadersHold'
    BY <2>1 DEF MapInv, Publishers, ReadersSee, ReadersHold, KeptOut, HandleOf
  <2> QED  BY <2>3, <2>4 DEF MapInv
<1>3. CASE DropTable
  BY <1>3, MapDrop
<1>4. ASSUME NEW t \in Threads, Caller(t) \/ Step(t) PROVE MapInv'
  <2>1. Fresh(t) => nextIndex' = nextIndex + 1
    <3>1. Next
      BY <1>4 DEF Next
    <3> QED  BY <1>1, <3>1, IndexStep
  <2>2. nextIndex' >= nextIndex
    <3>1. nextIndex \in Nat
      BY <1>1 DEF TypeOK
    <3>2. nextIndex' = nextIndex \/ nextIndex' = nextIndex + 1
      BY <1>1, <1>4, <2>1, CallerOwn, GetOwn, InsertOwn, RemoveOwn DEF Step
    <3> QED  BY <3>1, <3>2
  <2>3. HandlesIssued'
    BY <1>1, <1>4, <2>2, IssuedStep DEF MapInv
  <2>4. RemoversApart'
    BY <1>1, <1>4, ApartStep DEF MapInv
  <2>5. HandlesFresh'
    BY <1>1, <1>4, <2>1, FreshStep DEF MapInv
  <2>6. Publishers'
    BY <1>1, <1>4, PublisherStep DEF MapInv
  <2>7. ReadersSee'
    BY <1>1, <1>4, SeeStep DEF MapInv
  <2>8. ReadersHold'
    BY <1>1, <1>4, HoldStep DEF MapInv
  <2> QED  BY <2>3, <2>4, <2>5, <2>6, <2>7, <2>8 DEF MapInv
<1> QED  BY <1>2, <1>3, <1>4 DEF Next

LEMMA MapInit == Init => MapInv
  BY DEF Init, MapInv, HandlesIssued, RemoversApart, HandlesFresh, Publishers, ReadersSee, ReadersHold,
     GetPc, RemoverPc, RemovePc, SeeingPc

LEMMA ApartInductive == ASSUME RemoveOnce = TRUE PROVE Spec => []RemoversApart
<1>1. Init => RemoversApart
  BY DEF Init, RemoversApart, RemoverPc, RemovePc
<1>2. ASSUME IInv, RemoversApart, [Next]_vars PROVE RemoversApart'
  <2>1. TypeInv
    BY <1>2 DEF IInv
  <2>2. CASE DropTable \/ UNCHANGED vars
    <3>1. UNCHANGED <<generation, pc, loc, disposed>>
      BY <2>2 DEF DropTable, vars, cells, client
    <3> QED  BY <1>2, <3>1 DEF RemoversApart, HandleAt
  <2>3. ASSUME NEW t \in Threads, Caller(t) \/ Step(t) PROVE RemoversApart'
    BY <1>2, <2>1, <2>3, ApartStep
  <2> QED  BY <1>2, <2>2, <2>3 DEF Next
<1>3. IInv /\ RemoversApart /\ [Next]_vars => RemoversApart'
  BY <1>2
<1> QED  BY <1>1, <1>3, Inductive, PTL DEF Spec

\* What a remove unlinked was at the generation of its handle, when no handle is
\* passed to remove twice: the promise of handle.rs ("ABA protection") holds under
\* that condition.
THEOREM RemovesOwnObject == ASSUME RemoveOnce = TRUE PROVE Spec => []RemoveTakesOwnObject
<1>1. RemoversApart => RemoveTakesOwnObject
  BY DEF RemoversApart, RemoveTakesOwnObject, RemoverPc
<1> QED  BY <1>1, ApartInductive, PTL

-----------------------------------------------------------------------------
(* No slot is lost *)

\* An issued slot holds a value, belongs to a thread, is on the list, or was
\* removed at its last generation.
Kept(i) ==
    \/ value[i] # NULL \/ Listed(i) \/ \E t \in Threads : Owning(t) /\ loc[t].idx = i
    \/ [gen |-> MaxGeneration, idx |-> i] \in disposed
NoneLost == phase = "dropped" \/ \A i \in Slots : i < nextIndex => Kept(i)

\* A step that leaves the freelist and the values alone, and lets go of no slot.
LossQuiet(t) ==
    /\ UNCHANGED <<nextIndex, phase>> /\ disposed \subseteq disposed'
    /\ \A i \in Slots : Listed(i) => Listed(i)'
    /\ \A i \in Slots : value[i] # NULL => value'[i] # NULL
    /\ \A u \in Threads : Owning(u) => Owning(u)' /\ loc'[u].idx = loc[u].idx

LEMMA LossOthers ==
    ASSUME TypeInv, WordsTagged, NEW t \in Threads,
           \/ Caller(t) \/ Get(t) \/ PopLoad(t) \/ PopNext(t) \/ Publish(t)
           \/ PopCas(t) /\ free # loc[t].word
           \/ PushCas(t) /\ free # loc[t].word
           \/ RemCas(t) /\ value[loc[t].idx] # loc[t].ptr
           \/ RemBump(t) /\ loc[t].gen < MaxGeneration
           \/ RemGen(t) \/ RemVal(t) \/ PushLoad(t) \/ RemInc(t)
           \/ RemProtected(t) \/ RemScan(t) \/ RemDefer(t) \/ RemUnref(t)
           \/ Drain(t) \/ DrainPick(t) \/ DrainScan(t)
    PROVE  LossQuiet(t)
<1>1. TypeOK
  BY DEF TypeInv
<1>2. SlotQuiet(t)
  BY CallerQuiet, GetQuiet, InsertQuiet, RemoveQuiet
<1>3. phase' = phase /\ disposed \subseteq disposed'
  <2>1. CASE Caller(t)
    <3>1. CASE CallRemove(t)
      BY <3>1 DEF CallRemove, CallWith
    <3>2. CASE CallInsert(t) \/ CallGet(t) \/ DropArc(t)
      BY <3>2 DEF CallInsert, CallGet, CallWith, DropArc, client
    <3> QED  BY <2>1, <3>1, <3>2 DEF Caller
  <2>2. CASE Get(t)
    BY <2>2, GetFrame DEF client
  <2>3. CASE PopLoad(t) \/ PopNext(t) \/ Publish(t) \/ PopCas(t) \/ PushCas(t)
    BY <2>3 DEF PopLoad, PopNext, Publish, PopCas, PushCas, client
  <2>4. CASE Remove(t)
    BY <2>4, RemoveFrame DEF client
  <2> QED  BY <2>1, <2>2, <2>3, <2>4 DEF Remove
<1>4. Owning(t) => Owning(t)' /\ loc'[t].idx = loc[t].idx
  <2>1. CASE Caller(t)
    BY <2>1, Zenon DEF Caller, CallInsert, CallGet, CallRemove, CallWith, DropArc, Start, Goto, Owning
  <2>2. CASE Get(t)
    BY <2>2, GetFrame DEF GetPc, Owning
  <2>3. CASE PopLoad(t) \/ PopNext(t) \/ Publish(t) \/ PopCas(t)
    BY <2>3 DEF PopLoad, PopNext, Publish, PopCas, Goto, Owning
  <2>4. CASE PushCas(t) /\ free # loc[t].word
    BY <1>1, <2>4 DEF PushCas, Goto, Owning, TypeOK
  <2>5. CASE RemGen(t) \/ RemVal(t) \/ RemCas(t) \/ RemInc(t)
    BY <2>5 DEF RemGen, RemVal, RemCas, RemInc, Goto, Owning
  <2>6. CASE RemBump(t) /\ loc[t].gen < MaxGeneration
    BY <1>1, <2>6 DEF RemBump, Goto, Owning, TypeOK
  <2>7. CASE PushLoad(t)
    BY <1>1, <2>7 DEF PushLoad, Goto, Owning, TypeOK, Locals
  <2>8. CASE RemProtected(t) \/ RemScan(t) \/ RemDefer(t) \/ RemUnref(t)
    BY <2>8, Zenon DEF RemProtected, RemScan, RemDefer, RemUnref, Goto, Owning
  <2>9. CASE Drain(t) \/ DrainPick(t) \/ DrainScan(t)
    BY <2>9, Zenon DEF Drain, DrainPick, DrainScan, Goto, Owning
  <2> QED  BY <2>1, <2>2, <2>3, <2>4, <2>5, <2>6, <2>7, <2>8, <2>9
<1>5. /\ UNCHANGED <<value, nextFree, free, nextIndex>>
      /\ \A u \in Threads : u # t => pc'[u] = pc[u] /\ loc'[u] = loc[u]
  BY <1>2 DEF SlotQuiet, Others
<1>6. \A u \in Threads : Owning(u) => Owning(u)' /\ loc'[u].idx = loc[u].idx
  BY <1>4, <1>5 DEF Owning
<1>7. \A i \in Slots : Listed(i) => Listed(i)'
  BY <1>5, ListKept
<1> QED  BY <1>3, <1>5, <1>6, <1>7 DEF LossQuiet

\* The steps that give a slot to a thread, to a value or to the list.
LEMMA LossMoves ==
    ASSUME IInv, Freelist, SlotsOwned, WordsTagged, RemoversApart, NEW t \in Threads,
           \/ PopCas(t) /\ free = loc[t].word
           \/ PushCas(t) /\ free = loc[t].word
           \/ RemCas(t) /\ value[loc[t].idx] = loc[t].ptr
           \/ RemBump(t) /\ ~(loc[t].gen < MaxGeneration)
           \/ Store(t) \/ PushNext(t)
           \/ Fresh(t) /\ nextIndex' = nextIndex + 1,
           NEW i \in Slots, i < nextIndex', i < nextIndex => Kept(i)
    PROVE  Kept(i)' /\ phase' = phase
<1>1. TypeOK /\ Fields(t) /\ TypeInv /\ InsertOwns /\ NULL \notin Ptrs
  BY Parts, TableAssumption DEF IInv
<1> DEFINE Owned == \E u \in Threads : Owning(u)' /\ loc'[u].idx = i
<1>2. CASE PopCas(t) /\ free = loc[t].word
  <2>1. /\ pc' = [pc EXCEPT ![t] = "store"] /\ pc[t] = "pop_cas" /\ UNCHANGED <<value, nextIndex, phase, disposed>>
        /\ loc' = [loc EXCEPT ![t].idx = loc[t].word.top]
    BY <1>2 DEF PopCas, Goto, cells, client
  <2>2. Listed(i) /\ i # loc'[t].idx => Listed(i)'
    BY <1>1, <1>2, PopTakes
  <2>3. Owning(t)' /\ ~Owning(t) /\ \A u \in Threads : u # t => (Owning(u)' <=> Owning(u)) /\ loc'[u] = loc[u]
    BY <1>1, <2>1 DEF Owning, TypeOK
  <2>4. CASE i = loc'[t].idx
    BY <2>1, <2>3, <2>4 DEF Kept
  <2>5. CASE i # loc'[t].idx
    BY <2>1, <2>2, <2>3, <2>5 DEF Kept
  <2> QED  BY <2>4, <2>5
<1>3. CASE PushCas(t) /\ free = loc[t].word
  <2>1. /\ pc' = [pc EXCEPT ![t] = "rem_inc"] /\ pc[t] = "push_cas"
        /\ UNCHANGED <<value, nextIndex, phase, disposed, loc>>
    BY <1>3 DEF PushCas, Goto, cells, client
  <2>2. Listed(i) \/ i = loc[t].idx => Listed(i)'
    BY <1>1, <1>3, PushPuts
  <2>3. \A u \in Threads : u # t => (Owning(u)' <=> Owning(u))
    BY <1>1, <2>1 DEF Owning, TypeOK
  <2> QED  BY <2>1, <2>2, <2>3 DEF Kept
<1>4. CASE RemCas(t) /\ value[loc[t].idx] = loc[t].ptr
  <2>1. /\ pc' = [pc EXCEPT ![t] = "rem_bump"] /\ pc[t] = "rem_cas"
        /\ value' = [value EXCEPT ![loc[t].idx] = NULL]
        /\ UNCHANGED <<nextIndex, phase, disposed, loc, free, nextFree>>
    BY <1>4 DEF RemCas, Goto, index, client
  <2>2. Listed(i) => Listed(i)'
    BY <2>1, ListKept
  <2>3. Owning(t)' /\ ~Owning(t) /\ \A u \in Threads : u # t => (Owning(u)' <=> Owning(u))
    BY <1>1, <2>1 DEF Owning, TypeOK
  <2>4. i # loc[t].idx => value'[i] = value[i]
    BY <1>1, <2>1 DEF TypeOK
  <2>5. CASE i = loc[t].idx
    BY <2>1, <2>3, <2>5 DEF Kept
  <2>6. CASE i # loc[t].idx
    BY <2>1, <2>2, <2>3, <2>4, <2>6 DEF Kept
  <2> QED  BY <2>1, <2>5, <2>6
<1>5. CASE RemBump(t) /\ ~(loc[t].gen < MaxGeneration)
  <2>1. /\ pc' = [pc EXCEPT ![t] = "rem_inc"] /\ pc[t] = "rem_bump"
        /\ UNCHANGED <<value, nextIndex, phase, disposed, loc, free, nextFree>>
    BY <1>5 DEF RemBump, Goto, index, client
  <2>2. Listed(i) => Listed(i)'
    BY <2>1, ListKept
  <2>3. \A u \in Threads : u # t => (Owning(u)' <=> Owning(u))
    BY <1>1, <2>1 DEF Owning, TypeOK
  <2>4. loc[t].gen = MaxGeneration
    BY <1>1, <1>5, TableAssumption DEF Fields
  <2>5. [gen |-> MaxGeneration, idx |-> loc[t].idx] \in disposed
    BY <2>1, <2>4 DEF RemoversApart, RemoverPc, HandleAt
  <2> QED  BY <2>1, <2>2, <2>3, <2>5 DEF Kept
<1>6. CASE Store(t)
  <2>1. /\ pc' = [pc EXCEPT ![t] = "publish"] /\ pc[t] = "store"
        /\ value' = [value EXCEPT ![loc[t].idx] = loc[t].ptr]
        /\ UNCHANGED <<nextIndex, phase, disposed, loc, free, nextFree>>
    BY <1>6 DEF Store, Goto, index, client
  <2>2. Listed(i) => Listed(i)'
    BY <2>1, ListKept
  <2>3. \A u \in Threads : u # t => (Owning(u)' <=> Owning(u))
    BY <1>1, <2>1 DEF Owning, TypeOK
  <2>4. loc[t].ptr # NULL
    BY <1>1, <2>1 DEF InsertOwns, InsertPc
  <2>5. /\ i # loc[t].idx => value'[i] = value[i]
        /\ i = loc[t].idx => value'[i] # NULL
    BY <1>1, <2>1, <2>4 DEF TypeOK
  <2> QED  BY <2>1, <2>2, <2>3, <2>5 DEF Kept
<1>7. CASE PushNext(t)
  <2>1. /\ pc' = [pc EXCEPT ![t] = "push_cas"] /\ pc[t] = "push_next"
        /\ UNCHANGED <<value, nextIndex, phase, disposed, loc>>
    BY <1>7 DEF PushNext, Goto, index, client
  <2>2. Listed(i) => Listed(i)'
    BY <1>1, <1>7, PushLinks
  <2>3. \A u \in Threads : Owning(u)' <=> Owning(u)
    BY <1>1, <2>1 DEF Owning, TypeOK
  <2> QED  BY <2>1, <2>2, <2>3 DEF Kept
<1>8. CASE Fresh(t) /\ nextIndex' = nextIndex + 1
  <2>1. /\ pc[t] = "fresh" /\ UNCHANGED <<value, phase, disposed, free, nextFree>>
        /\ \A u \in Threads : u # t => pc'[u] = pc[u] /\ loc'[u] = loc[u]
        /\ nextIndex < Capacity => pc'[t] = "store" /\ loc'[t].idx = nextIndex
    BY <1>1, <1>8 DEF Fresh, Goto, ReturnNothing, cells, client, TypeOK, Locals
  <2>2. Listed(i) => Listed(i)'
    BY <2>1, ListKept
  <2>3. ~Owning(t) /\ \A u \in Threads : u # t => (Owning(u)' <=> Owning(u))
    BY <2>1 DEF Owning
  <2>4. i \in Nat /\ nextIndex \in Nat /\ i < Capacity /\ i < nextIndex + 1
    BY <1>1, <1>8, SlotsFinite DEF Slots, TypeOK
  <2>5. CASE i < nextIndex
    BY <2>1, <2>2, <2>3, <2>5 DEF Kept
  <2>6. CASE i = nextIndex
    <3>1. Owning(t)' /\ loc'[t].idx = i
      BY <2>1, <2>4, <2>6 DEF Owning
    <3> QED  BY <2>1, <3>1 DEF Kept
  <2> QED  BY <2>4, <2>5, <2>6
<1> QED  BY <1>2, <1>3, <1>4, <1>5, <1>6, <1>7, <1>8

LEMMA LossStep ==
    ASSUME MaxCalls < IndexMod, IInv, SlotInv, RemoversApart, NoneLost, [Next]_vars
    PROVE  NoneLost'
<1>1. TypeInv /\ Freelist /\ SlotsOwned /\ WordsTagged /\ IndexBounded /\ TypeOK
  BY DEF IInv, TypeInv, SlotInv
<1>2. ASSUME NEW t \in Threads, LossQuiet(t) PROVE NoneLost'
  BY <1>2 DEF LossQuiet, Kept, NoneLost
<1>3. ASSUME NEW t \in Threads,
             \/ PopCas(t) /\ free = loc[t].word
             \/ PushCas(t) /\ free = loc[t].word
             \/ RemCas(t) /\ value[loc[t].idx] = loc[t].ptr
             \/ RemBump(t) /\ ~(loc[t].gen < MaxGeneration)
             \/ Store(t) \/ PushNext(t)
             \/ Fresh(t) /\ nextIndex' = nextIndex + 1
      PROVE  NoneLost'
  <2>1. CASE phase = "dropped"
    <3>1. phase' = phase
      BY <1>3 DEF PopCas, PushCas, RemCas, RemBump, Store, PushNext, Fresh, client
    <3> QED  BY <2>1, <3>1 DEF NoneLost
  <2>2. CASE phase # "dropped"
    BY <1>1, <1>3, <2>2, LossMoves DEF NoneLost
  <2> QED  BY <2>1, <2>2
<1>4. ASSUME NEW t \in Threads, Caller(t) \/ Get(t) PROVE NoneLost'
  BY <1>1, <1>2, <1>4, LossOthers
<1>5. ASSUME NEW t \in Threads, Insert(t), [Next]_vars PROVE NoneLost'
  <2>1. Fresh(t) => nextIndex' = nextIndex + 1
    <3>1. Fresh(t) => Next
      BY DEF Next, Step, Insert
    <3> QED  BY <1>1, <3>1, IndexStep
  <2> QED  BY <1>1, <1>2, <1>3, <1>5, <2>1, LossOthers DEF Insert
<1>6. ASSUME NEW t \in Threads, Remove(t) PROVE NoneLost'
  BY <1>1, <1>2, <1>3, <1>6, LossOthers DEF Remove
<1>7. CASE DropTable
  BY <1>7 DEF DropTable, NoneLost
<1>8. CASE UNCHANGED vars
  <2>1. UNCHANGED <<value, nextFree, free, nextIndex, pc, loc, disposed, phase>>
    BY <1>8 DEF vars, cells, index, client
  <2>2. \A i \in Slots : Listed(i) => Listed(i)'
    BY <2>1, ListKept
  <2> QED  BY <2>1, <2>2 DEF Kept, Owning, NoneLost
<1> QED  BY <1>4, <1>5, <1>6, <1>7, <1>8 DEF Next, Step

\* No slot leaks: an index that was issued and is in no place at all had its last
\* generation removed (remove of table.rs retires such a slot for ever).  disposed
\* records what was removed when each handle is passed to remove once.
THEOREM SlotsNotLost ==
    ASSUME RemoveOnce = TRUE, MaxCalls < IndexMod PROVE Spec => []SlotNeverLost
<1>1. Init => NoneLost
  <2> SUFFICES ASSUME Init PROVE NoneLost
    OBVIOUS
  <2>1. \A i \in Slots : ~(i < nextIndex)
    BY SlotsFinite DEF Init, Slots
  <2> QED  BY <2>1 DEF Init, NoneLost
<1>2. IInv /\ SlotInv /\ RemoversApart /\ NoneLost /\ [Next]_vars => NoneLost'
  BY LossStep
<1>3. ASSUME IInv, SlotInv, NoneLost PROVE SlotNeverLost
  <2> SUFFICES ASSUME NEW i \in Slots, SlotOwners(i) = {}, ~(i >= nextIndex), phase # "dropped"
               PROVE  [gen |-> MaxGeneration, idx |-> i] \in disposed
    BY DEF SlotNeverLost
  <2>1. i < nextIndex
    BY <1>3, SlotsFinite DEF IInv, TypeInv, TypeOK
  <2>2. Kept(i)
    BY <1>3, <2>1 DEF NoneLost
  <2>3. value[i] = NULL
    BY DEF SlotOwners
  <2>4. ~\E t \in Threads : Owning(t) /\ loc[t].idx = i
    BY DEF SlotOwners, Owning
  <2>5. i \notin FreeSlots
    BY DEF SlotOwners
  <2>6. ~Listed(i)
    <3>1. PICK n \in 0 .. Capacity : \E s \in [1 .. n -> Slots] : Chain(n, s) /\ Unused(n, s)
      BY <1>3 DEF SlotInv, Freelist
    <3>2. PICK s \in [1 .. n -> Slots] : Chain(n, s) /\ Unused(n, s)
      BY <3>1
    <3> QED  BY <2>5, <3>2, ListedOnce
  <2> QED  BY <2>2, <2>3, <2>4, <2>6 DEF Kept
<1>4. IInv /\ SlotInv /\ NoneLost => SlotNeverLost
  BY <1>3
<1> QED  BY <1>1, <1>2, <1>4, SlotsInductive, ApartInductive, PTL DEF Spec

-----------------------------------------------------------------------------
(* The table as one atomic map *)

\* What CallOf says at each place.
CallCases(t) ==
    LET Call(state, op, arg) == [state |-> state, op |-> op, arg |-> arg]
    IN  /\ pc[t] \in Resting => CallOf(t) = NoCall
        /\ pc[t] = "publish" => CallOf(t) = Call("done", "insert", HandleOf(loc[t].idx))
        /\ pc[t] \in InsertPc \ {"publish"} => CallOf(t) = Call("open", "insert", loc[t].ptr)
        /\ pc[t] \in {"get_inc", "get_done"} => CallOf(t) = Call("done", "get", loc[t].ptr)
        /\ pc[t] \in GetPc \ {"get_inc", "get_done"} => CallOf(t) = Call("open", "get", HandleAt(t))
        /\ pc[t] \in RemovePc => CallOf(t) = Call("open", "remove", HandleAt(t))
        /\ pc[t] \in UnlinkedPc \cup DrainPc => CallOf(t) = Call("done", "remove", loc[t].ptr)

LEMMA CallIs == ASSUME NEW t \in Threads PROVE CallCases(t) /\ CallCases(t)'
<1> USE DEF CallCases, CallOf, InsertPc, GetPc, RemovePc, UnlinkedPc, DrainPc, Resting, HandleAt
<1>1. CallCases(t)
  OBVIOUS
<1>2. CallCases(t)'
  OBVIOUS
<1> QED  BY <1>1, <1>2

\* A step of t leaves the calls of the others, and may leave what handles resolve to.
CallsOfOthers(t) == \A u \in Threads : u # t => CallOf(u)' = CallOf(u)
SameObjects == (\A h \in Handles : ObjectOf(h)' = ObjectOf(h)) /\ UsedHandles' = UsedHandles

LEMMA OtherCalls ==
    ASSUME TypeInv, SlotsOwned, RemoversApart, Publishers, NEW t \in Threads, Caller(t) \/ Step(t)
    PROVE  CallsOfOthers(t)
<1>1. Others(t)
  BY CallerOwn, GetOwn, InsertOwn, RemoveOwn DEF Step
<1>2. ASSUME NEW u \in Threads, u # t, pc[u] = "publish"
      PROVE  generation'[loc[u].idx] = generation[loc[u].idx]
  <2>1. CASE RemBump(t)
    <3>1. value[loc[t].idx] = NULL
      BY <2>1, BumpRaises DEF SlotsOwned, Owning
    <3>2. value[loc[u].idx] # NULL /\ loc[u].idx \in Slots
      BY <1>2, LocalsFields, TableAssumption DEF Publishers, Fields, TypeInv
    <3> QED  BY <2>1, <3>1, <3>2, BumpRaises
  <2>2. CASE generation' = generation
    BY <2>2
  <2> QED  BY <2>1, <2>2, CallerOwn, GetOwn, InsertOwn, RemoveOwn DEF Step
<1>3. ASSUME NEW u \in Threads, u # t PROVE CallOf(u)' = CallOf(u)
  <2>1. pc'[u] = pc[u] /\ loc'[u] = loc[u]
    BY <1>1, <1>3 DEF Others
  <2>2. CASE pc[u] = "publish"
    BY <1>2, <1>3, <2>1, <2>2 DEF CallOf, HandleOf
  <2>3. CASE pc[u] # "publish"
    BY <2>1, <2>3 DEF CallOf
  <2> QED  BY <2>2, <2>3
<1> QED  BY <1>3 DEF CallsOfOthers

\* The steps of the map, as they look through the table.
LEMMA Stutters ==
    ASSUME NEW t \in Threads, CallsOfOthers(t), SameObjects, CallOf(t)' = CallOf(t)
    PROVE  UNCHANGED Map!vars
<1>1. \A u \in Threads : CallOf(u)' = CallOf(u)
  BY DEF CallsOfOthers
<1> QED  BY <1>1 DEF SameObjects, Map!vars

LEMMA CallsNext ==
    ASSUME NEW t \in Threads, CallsOfOthers(t)
    PROVE  [u \in Threads |-> CallOf(u)'] = [[u \in Threads |-> CallOf(u)] EXCEPT ![t] = CallOf(t)']
  BY DEF CallsOfOthers

LEMMA Opens ==
    ASSUME NEW t \in Threads, CallsOfOthers(t), SameObjects, CallOf(t) = NoCall,
           NEW op, NEW arg, CallOf(t)' = [state |-> "open", op |-> op, arg |-> arg],
           (op = "insert" /\ arg \in Ptrs) \/ (op \in {"get", "remove"} /\ arg \in UsedHandles)
    PROVE  Map!Next
<1>1. Map!Open(t, op, arg)
  BY CallsNext DEF SameObjects, Map!Open, Map!Idle, NoCall
<1> QED  BY <1>1 DEF Map!Next

LEMMA Fails ==
    ASSUME NEW t \in Threads, CallsOfOthers(t), SameObjects, CallOf(t)' = NoCall,
           CallOf(t).state = "open",
           CallOf(t).op \in {"get", "remove"} =>
               CallOf(t).arg \in Handles /\ ObjectOf(CallOf(t).arg) = NULL
    PROVE  Map!Next
<1>1. Map!Fail(t)
  BY CallsNext DEF SameObjects, Map!Fail, Map!Idle, NoCall
<1> QED  BY <1>1 DEF Map!Next

LEMMA Returns ==
    ASSUME NEW t \in Threads, CallsOfOthers(t), SameObjects, CallOf(t)' = NoCall,
           CallOf(t).state = "done"
    PROVE  Map!Next
<1>1. Map!Return(t)
  BY CallsNext DEF SameObjects, Map!Return, Map!Idle, NoCall
<1> QED  BY <1>1 DEF Map!Next

LEMMA SameCells ==
    ASSUME UNCHANGED <<generation, value, issued>> PROVE SameObjects
<1>1. \A h \in Handles : ObjectOf(h)' = ObjectOf(h)
  BY DEF ObjectOf
<1>2. UsedHandles' = UsedHandles
  BY DEF UsedHandles, HandleOf
<1> QED  BY <1>1, <1>2 DEF SameObjects

\* Where a call comes from and goes to, for the calls that change no cell.
MapStutter(t) == CallOf(t)' = CallOf(t)
MapReturns(t) == CallOf(t).state = "done" /\ CallOf(t)' = NoCall
MapFails(t) ==
    /\ CallOf(t).state = "open" /\ CallOf(t)' = NoCall
    /\ CallOf(t).op \in {"get", "remove"} => CallOf(t).arg \in Handles /\ ObjectOf(CallOf(t).arg) = NULL

LEMMA Mapped ==
    ASSUME NEW t \in Threads, CallsOfOthers(t), SameObjects,
           MapStutter(t) \/ MapReturns(t) \/ MapFails(t)
    PROVE  [Map!Next]_(Map!vars)
<1>1. CASE MapStutter(t)
  BY <1>1, Stutters DEF MapStutter
<1>2. CASE MapReturns(t)
  BY <1>2, Returns DEF MapReturns
<1>3. CASE MapFails(t)
  BY <1>3, Fails DEF MapFails
<1> QED  BY <1>1, <1>2, <1>3

LEMMA HandleAtIs ==
    ASSUME TypeInv, NEW t \in Threads
    PROVE  /\ HandleAt(t) \in Handles
           /\ ObjectOf(HandleAt(t)) = IF generation[loc[t].idx] = loc[t].gen THEN value[loc[t].idx] ELSE NULL
  BY LocalsFields DEF TypeInv, Fields, Handles, HandleAt, ObjectOf

LEMMA CallerMaps ==
    ASSUME TypeInv, NEW t \in Threads, Caller(t), CallsOfOthers(t)
    PROVE  [Map!Next]_(Map!vars)
<1>1. TypeOK /\ SameObjects /\ CallCases(t) /\ CallCases(t)'
  BY CallerOwn, SameCells, CallIs DEF TypeInv
<1>2. CASE CallInsert(t)
  <2>1. PICK p \in Ptrs : loc' = [loc EXCEPT ![t].ptr = p]
    BY <1>2 DEF CallInsert
  <2>2. pc[t] = "idle" /\ pc'[t] = "pop" /\ loc'[t].ptr = p
    BY <1>1, <1>2, <2>1 DEF CallInsert, Start, Goto, TypeOK, Locals
  <2>3. CallOf(t) = NoCall /\ CallOf(t)' = [state |-> "open", op |-> "insert", arg |-> p]
    BY <1>1, <2>2 DEF CallCases, Resting, InsertPc
  <2> QED  BY <1>1, <2>3, Opens
<1>3. ASSUME NEW h \in issued, NEW to \in {"get_gen", "rem_gen"}, CallWith(t, h, to)
      PROVE  Map!Next
  <2>1. h \in Handles /\ h \in UsedHandles
    BY <1>1 DEF TypeOK, UsedHandles
  <2>2. pc[t] = "idle" /\ pc'[t] = to /\ HandleAt(t)' = h
    BY <1>1, <1>3, <2>1 DEF CallWith, Start, Goto, TypeOK, Locals, Handles, HandleAt
  <2>3. CallOf(t) = NoCall
    BY <1>1, <2>2 DEF CallCases, Resting
  <2>4. CASE to = "get_gen"
    <3>1. CallOf(t)' = [state |-> "open", op |-> "get", arg |-> h]
      BY <1>1, <2>2, <2>4 DEF CallCases, GetPc
    <3> QED  BY <1>1, <2>1, <2>3, <3>1, Opens
  <2>5. CASE to = "rem_gen"
    <3>1. CallOf(t)' = [state |-> "open", op |-> "remove", arg |-> h]
      BY <1>1, <2>2, <2>5 DEF CallCases, RemovePc
    <3> QED  BY <1>1, <2>1, <2>3, <3>1, Opens
  <2> QED  BY <2>4, <2>5
<1>4. CASE CallGet(t) \/ CallRemove(t)
  BY <1>3, <1>4 DEF CallGet, CallRemove
<1>5. CASE DropArc(t)
  <2>1. pc[t] = "held" /\ pc'[t] = "idle"
    BY <1>1, <1>5 DEF DropArc, ReturnNothing, TypeOK
  <2>2. MapStutter(t)
    BY <1>1, <2>1 DEF CallCases, Resting, MapStutter
  <2> QED  BY <1>1, <2>2, Mapped
<1> QED  BY <1>2, <1>4, <1>5 DEF Caller

LEMMA InsertMaps ==
    ASSUME TypeInv, InsertOwns, SlotsOwned, HandlesFresh, Publishers,
           NEW t \in Threads, Insert(t), CallsOfOthers(t)
    PROVE  [Map!Next]_(Map!vars)
<1>1. TypeOK /\ Fields(t) /\ CallCases(t) /\ CallCases(t)' /\ NULL \notin Ptrs
  BY CallIs, LocalsFields, TableAssumption DEF TypeInv
<1>2. CASE PopLoad(t) \/ PopNext(t) \/ PopCas(t)
  <2>1. /\ pc[t] \in InsertPc \ {"publish"} /\ pc'[t] \in InsertPc \ {"publish"} /\ loc'[t].ptr = loc[t].ptr
        /\ UNCHANGED <<generation, value, issued>>
    <3> USE DEF Goto, TypeOK, Locals, InsertPc, cells, client
    <3>1. CASE PopLoad(t)
      BY <1>1, <3>1 DEF PopLoad
    <3>2. CASE PopNext(t)
      BY <1>1, <3>2 DEF PopNext
    <3>3. CASE PopCas(t)
      BY <1>1, <3>3 DEF PopCas
    <3> QED  BY <1>2, <3>1, <3>2, <3>3
  <2>2. SameObjects /\ MapStutter(t)
    BY <1>1, <2>1, SameCells DEF CallCases, MapStutter
  <2> QED  BY <2>2, Mapped
<1>3. CASE Fresh(t)
  <2>1. pc[t] = "fresh" /\ UNCHANGED <<generation, value, issued>>
    BY <1>3 DEF Fresh, cells, client
  <2>2. CASE nextIndex < Capacity
    <3>1. pc'[t] = "store" /\ loc'[t].ptr = loc[t].ptr
      BY <1>1, <1>3, <2>2 DEF Fresh, Goto, TypeOK, Locals
    <3> QED  BY <1>1, <2>1, <3>1, SameCells, Mapped DEF CallCases, InsertPc, MapStutter
  <2>3. CASE ~(nextIndex < Capacity)
    <3>1. pc'[t] = "idle"
      BY <1>1, <1>3, <2>3 DEF Fresh, ReturnNothing, TypeOK
    <3>2. CallOf(t) = [state |-> "open", op |-> "insert", arg |-> loc[t].ptr] /\ CallOf(t)' = NoCall
      BY <1>1, <2>1, <3>1 DEF CallCases, InsertPc, Resting
    <3>3. MapFails(t)
      BY <3>2 DEF MapFails
    <3> QED  BY <2>1, <3>3, SameCells, Mapped
  <2> QED  BY <2>2, <2>3
<1>4. CASE Store(t)
  <2> DEFINE h == HandleOf(loc[t].idx)
  <2>1. /\ pc[t] = "store" /\ pc'[t] = "publish" /\ loc' = loc /\ UNCHANGED <<generation, issued>>
        /\ value' = [value EXCEPT ![loc[t].idx] = loc[t].ptr]
    BY <1>1, <1>4 DEF Store, Goto, TypeOK, client
  <2>2. value'[loc[t].idx] = loc[t].ptr /\ \A i \in Slots : i # loc[t].idx => value'[i] = value[i]
    BY <1>1, <2>1 DEF TypeOK, Fields
  <2>3. value[loc[t].idx] = NULL /\ loc[t].ptr \in Ptrs
    BY <2>1 DEF SlotsOwned, Owning, InsertOwns, InsertPc
  <2>4. h \in Handles /\ h.idx = loc[t].idx /\ h.gen = generation[loc[t].idx]
    BY <1>1 DEF HandleOf, Handles, TypeOK, Fields
  <2>5. h \notin UsedHandles
    <3>1. h \notin issued
      BY <1>1, <2>1 DEF HandlesFresh, Coming, FillingPc, Fields
    <3>2. ASSUME NEW i \in Slots, value[i] # NULL PROVE h # HandleOf(i)
      BY <2>3, <3>2 DEF HandleOf
    <3> QED  BY <3>1, <3>2 DEF UsedHandles
  <2>6. \A k \in Handles : ObjectOf(k)' = IF k = h THEN loc[t].ptr ELSE ObjectOf(k)
    <3> SUFFICES ASSUME NEW k \in Handles PROVE ObjectOf(k)' = IF k = h THEN loc[t].ptr ELSE ObjectOf(k)
      OBVIOUS
    <3>1. CASE k = h
      BY <2>1, <2>2, <2>4, <3>1 DEF ObjectOf
    <3>2. CASE k # h
      <4>1. k = [gen |-> k.gen, idx |-> k.idx] /\ k.idx \in Slots
        BY DEF Handles
      <4>2. k.idx = loc[t].idx => generation[k.idx] # k.gen
        BY <3>2, <4>1 DEF HandleOf
      <4> QED  BY <2>1, <2>2, <3>2, <4>1, <4>2 DEF ObjectOf
    <3> QED  BY <3>1, <3>2
  <2>7. UsedHandles' = UsedHandles \cup {h}
    <3>1. {i \in Slots : value'[i] # NULL} = {i \in Slots : value[i] # NULL} \cup {loc[t].idx}
      BY <1>1, <2>2, <2>3 DEF Fields
    <3>2. \A i \in Slots : HandleOf(i)' = HandleOf(i)
      BY <2>1 DEF HandleOf
    <3> QED  BY <1>1, <2>1, <3>1, <3>2 DEF UsedHandles, Fields
  <2>8. /\ CallOf(t) = [state |-> "open", op |-> "insert", arg |-> loc[t].ptr]
        /\ CallOf(t)' = [state |-> "done", op |-> "insert", arg |-> h]
    BY <1>1, <2>1 DEF CallCases, InsertPc, HandleOf
  <2> HIDE DEF h
  <2>9. Map!InsertObject(t)
    <3>1. [k \in Handles |-> ObjectOf(k)'] = [[k \in Handles |-> ObjectOf(k)] EXCEPT ![h] = loc[t].ptr]
      BY <2>4, <2>6
    <3>2. [u \in Threads |-> CallOf(u)'] = [[u \in Threads |-> CallOf(u)] EXCEPT ![t] =
             [state |-> "done", op |-> "insert", arg |-> h]]
      BY <2>8, CallsNext
    <3>3. /\ [u \in Threads |-> CallOf(u)][t].state = "open"
          /\ [u \in Threads |-> CallOf(u)][t].op = "insert"
          /\ [u \in Threads |-> CallOf(u)][t].arg = loc[t].ptr
      BY <2>8
    <3>4. h \in Handles \ UsedHandles
      BY <2>4, <2>5
    <3> QED  BY <2>7, <3>1, <3>2, <3>3, <3>4 DEF Map!InsertObject, Map!Done
  <2> QED  BY <2>9 DEF Map!Next
<1>5. CASE Publish(t)
  <2>1. /\ pc[t] = "publish" /\ pc'[t] = "idle" /\ UNCHANGED <<generation, value>>
        /\ issued' = issued \cup {HandleOf(loc[t].idx)}
    BY <1>1, <1>5 DEF Publish, ReturnNothing, TypeOK, cells, HandleOf
  <2>2. HandleOf(loc[t].idx) \in UsedHandles
    <3>1. value[loc[t].idx] # NULL
      BY <1>1, <2>1 DEF Publishers
    <3> QED  BY <1>1, <3>1 DEF UsedHandles, Fields
  <2>3. SameObjects
    <3>1. \A k \in Handles : ObjectOf(k)' = ObjectOf(k)
      BY <2>1 DEF ObjectOf
    <3>2. UsedHandles' = UsedHandles \cup {HandleOf(loc[t].idx)}
      BY <2>1 DEF UsedHandles, HandleOf
    <3> QED  BY <2>2, <3>1, <3>2 DEF SameObjects
  <2>4. MapReturns(t)
    BY <1>1, <2>1 DEF CallCases, Resting, MapReturns
  <2> QED  BY <2>3, <2>4, Mapped
<1> QED  BY <1>2, <1>3, <1>4, <1>5 DEF Insert

LEMMA GetMaps ==
    ASSUME TypeInv, HazardPublished, ReadersSee, ReadersHold, NEW t \in Threads, Get(t), CallsOfOthers(t)
    PROVE  [Map!Next]_(Map!vars)
<1>1. TypeOK /\ Fields(t) /\ CallCases(t) /\ CallCases(t)' /\ NULL \notin Ptrs
  BY CallIs, LocalsFields, TableAssumption DEF TypeInv
<1>2. SameObjects
  BY GetOwn, SameCells
<1>3. ASSUME pc[t] \in GetPc \ {"get_inc", "get_done"}, pc'[t] \in GetPc \ {"get_inc", "get_done"}
      PROVE  MapStutter(t)
  BY <1>1, <1>3, GetOwn DEF CallCases, MapStutter, HandleAt
<1>4. ASSUME pc[t] \in GetPc \ {"get_inc", "get_done"}, pc'[t] = "idle", ObjectOf(HandleAt(t)) = NULL
      PROVE  MapFails(t)
  <2>1. CallOf(t) = [state |-> "open", op |-> "get", arg |-> HandleAt(t)] /\ CallOf(t)' = NoCall
    BY <1>1, <1>4 DEF CallCases, Resting
  <2> QED  BY <1>4, <2>1, HandleAtIs DEF MapFails
<1>5. CASE GetGen(t)
  <2>1. \/ pc[t] = "get_gen" /\ pc'[t] = "get_val"
        \/ pc[t] = "get_gen" /\ pc'[t] = "idle" /\ generation[loc[t].idx] # loc[t].gen
    BY <1>1, <1>5 DEF GetGen, Goto, ReturnNothing, TypeOK
  <2> QED  BY <1>2, <1>3, <1>4, <2>1, HandleAtIs, Mapped DEF GetPc
<1>6. CASE GetVal(t)
  <2>1. \/ pc[t] = "get_val" /\ pc'[t] = "get_pub"
        \/ pc[t] = "get_val" /\ pc'[t] = "idle" /\ value[loc[t].idx] = NULL
    BY <1>1, <1>6 DEF GetVal, Goto, ReturnNothing, TypeOK
  <2> QED  BY <1>2, <1>3, <1>4, <2>1, HandleAtIs, Mapped DEF GetPc
<1>7. CASE GetPublish(t) \/ GetGen2(t) \/ GetRetry(t)
  <2>1. pc[t] \in GetPc \ {"get_inc", "get_done"} /\ pc'[t] \in GetPc \ {"get_inc", "get_done"}
    BY <1>1, <1>7 DEF GetPublish, GetGen2, GetRetry, Goto, TypeOK, GetPc
  <2> QED  BY <1>2, <1>3, <2>1, Mapped
<1>8. CASE GetVal2(t)
  <2>1. pc[t] = "get_val2" /\ loc' = loc
        /\ pc'[t] = IF value[loc[t].idx] = loc[t].ptr THEN "get_inc" ELSE "get_retry"
    BY <1>1, <1>8 DEF GetVal2, Goto, TypeOK
  <2>2. CASE value[loc[t].idx] # loc[t].ptr
    BY <1>2, <1>3, <2>1, <2>2, Mapped DEF GetPc
  <2>3. CASE value[loc[t].idx] = loc[t].ptr
    <3>1. generation[loc[t].idx] = loc[t].gen
      BY <1>1, <2>1, <2>3 DEF ReadersHold, KeptOut, Fields
    <3>2. ObjectOf(HandleAt(t)) = loc[t].ptr /\ HandleAt(t) \in Handles
      BY <2>3, <3>1, HandleAtIs
    <3>3. loc[t].ptr # NULL
      BY <1>1, <2>1 DEF HazardPublished
    <3>4. /\ CallOf(t) = [state |-> "open", op |-> "get", arg |-> HandleAt(t)]
          /\ CallOf(t)' = [state |-> "done", op |-> "get", arg |-> loc[t].ptr]
      BY <1>1, <2>1, <2>3 DEF CallCases, GetPc
    <3>5. Map!GetObject(t)
      BY <1>2, <3>2, <3>3, <3>4, CallsNext DEF SameObjects, Map!GetObject, Map!Done
    <3> QED  BY <3>5 DEF Map!Next
  <2> QED  BY <2>2, <2>3
<1>9. CASE GetInc(t)
  <2>1. pc[t] = "get_inc" /\ pc'[t] = "get_done" /\ loc' = loc
    BY <1>1, <1>9 DEF GetInc, Goto, TypeOK
  <2>2. MapStutter(t)
    BY <1>1, <2>1 DEF CallCases, MapStutter
  <2> QED  BY <1>2, <2>2, Mapped
<1>10. CASE GetDone(t)
  <2>1. pc[t] = "get_done" /\ pc'[t] = "held"
    BY <1>1, <1>10 DEF GetDone, ReturnArc, TypeOK
  <2>2. MapReturns(t)
    BY <1>1, <2>1 DEF CallCases, Resting, MapReturns
  <2> QED  BY <1>2, <2>2, Mapped
<1> QED  BY <1>5, <1>6, <1>7, <1>8, <1>9, <1>10 DEF Get

LEMMA RemoveMaps ==
    ASSUME TypeInv, SlotsOwned, HandlesIssued, RemoversApart, NEW t \in Threads, Remove(t), CallsOfOthers(t)
    PROVE  [Map!Next]_(Map!vars)
<1>1. /\ TypeOK /\ Fields(t) /\ CallCases(t) /\ CallCases(t)' /\ InUse
      /\ loc[t] \in Locals /\ issued' = issued
  BY CallIs, LocalsFields, RemoveOwn DEF TypeInv, TypeOK
<1> DEFINE Unlinked == UnlinkedPc \cup DrainPc
<1>2. ASSUME pc[t] \in RemovePc, pc'[t] \in RemovePc, loc'[t].gen = loc[t].gen, loc'[t].idx = loc[t].idx
      PROVE  MapStutter(t)
  BY <1>1, <1>2 DEF CallCases, MapStutter, HandleAt
<1>3. ASSUME pc[t] \in RemovePc, pc'[t] = "idle", ObjectOf(HandleAt(t)) = NULL
      PROVE  MapFails(t)
  <2>1. CallOf(t) = [state |-> "open", op |-> "remove", arg |-> HandleAt(t)] /\ CallOf(t)' = NoCall
    BY <1>1, <1>3 DEF CallCases, Resting
  <2> QED  BY <1>3, <2>1, HandleAtIs DEF MapFails
<1>4. ASSUME pc[t] \in Unlinked, pc'[t] \in Unlinked, loc'[t].ptr = loc[t].ptr PROVE MapStutter(t)
  BY <1>1, <1>4 DEF CallCases, MapStutter
<1>5. ASSUME pc[t] \in Unlinked, pc'[t] = "held" PROVE MapReturns(t)
  BY <1>1, <1>5 DEF CallCases, Resting, MapReturns
<1>6. ASSUME UNCHANGED <<generation, value>> PROVE SameObjects
  BY <1>1, <1>6, SameCells
<1> HIDE DEF Unlinked
<1>7. CASE RemGen(t)
  <2>1. /\ \/ pc[t] = "rem_gen" /\ pc'[t] = "rem_val" /\ loc' = loc
           \/ pc[t] = "rem_gen" /\ pc'[t] = "idle" /\ generation[loc[t].idx] # loc[t].gen
        /\ UNCHANGED <<generation, value>>
    BY <1>1, <1>7 DEF RemGen, Goto, ReturnNothing, TypeOK, cells
  <2> QED  BY <1>2, <1>3, <1>6, <2>1, HandleAtIs, Mapped DEF RemovePc
<1>8. CASE RemVal(t)
  <2>1. /\ \/ /\ pc[t] = "rem_val" /\ pc'[t] = "rem_cas"
              /\ loc'[t].gen = loc[t].gen /\ loc'[t].idx = loc[t].idx
           \/ pc[t] = "rem_val" /\ pc'[t] = "idle" /\ value[loc[t].idx] = NULL
        /\ UNCHANGED <<generation, value>>
    BY <1>1, <1>8 DEF RemVal, Goto, ReturnNothing, TypeOK, Locals, cells
  <2> QED  BY <1>2, <1>3, <1>6, <2>1, HandleAtIs, Mapped DEF RemovePc
<1>9. CASE RemCas(t) /\ value[loc[t].idx] # loc[t].ptr
  <2>1. /\ pc[t] = "rem_cas" /\ pc'[t] = "rem_gen" /\ UNCHANGED <<generation, value>>
        /\ loc'[t].gen = loc[t].gen /\ loc'[t].idx = loc[t].idx
    BY <1>1, <1>9 DEF RemCas, Goto, TypeOK, Locals
  <2> QED  BY <1>2, <1>6, <2>1, Mapped DEF RemovePc
<1>10. CASE RemCas(t) /\ value[loc[t].idx] = loc[t].ptr
  <2> DEFINE h == HandleAt(t)
  <2>1. /\ pc[t] = "rem_cas" /\ pc'[t] = "rem_bump" /\ loc' = loc /\ generation' = generation
        /\ value' = [value EXCEPT ![loc[t].idx] = NULL]
    BY <1>1, <1>10 DEF RemCas, Goto, TypeOK
  <2>2. value'[loc[t].idx] = NULL /\ \A i \in Slots : i # loc[t].idx => value'[i] = value[i]
    BY <1>1, <2>1 DEF TypeOK, Fields
  <2>3. generation[loc[t].idx] = loc[t].gen /\ h \in issued /\ h \in Handles
    BY <2>1, HandleAtIs DEF RemoversApart, RemoverPc, RemovePc, HandlesIssued
  <2>4. ObjectOf(h) = loc[t].ptr /\ loc[t].ptr # NULL
    BY <1>1, <1>10, <2>1, <2>3, HandleAtIs, TableAssumption DEF InUse
  <2>5. h.idx = loc[t].idx /\ h.gen = loc[t].gen /\ h = HandleOf(loc[t].idx)
    BY <2>3 DEF HandleAt, HandleOf
  <2>6. /\ CallOf(t) = [state |-> "open", op |-> "remove", arg |-> h]
        /\ CallOf(t)' = [state |-> "done", op |-> "remove", arg |-> loc[t].ptr]
    BY <1>1, <2>1 DEF CallCases, RemovePc, UnlinkedPc
  <2> HIDE DEF h
  <2>7. \A k \in Handles : ObjectOf(k)' = IF k = h THEN NULL ELSE ObjectOf(k)
    <3> SUFFICES ASSUME NEW k \in Handles PROVE ObjectOf(k)' = IF k = h THEN NULL ELSE ObjectOf(k)
      OBVIOUS
    <3>1. CASE k = h
      BY <2>1, <2>2, <2>5, <3>1 DEF ObjectOf
    <3>2. CASE k # h
      <4>1. k = [gen |-> k.gen, idx |-> k.idx] /\ k.idx \in Slots
        BY DEF Handles
      <4>2. k.idx = loc[t].idx => generation[k.idx] # k.gen
        BY <2>5, <3>2, <4>1 DEF HandleOf
      <4> QED  BY <2>1, <2>2, <3>2, <4>1, <4>2 DEF ObjectOf
    <3> QED  BY <3>1, <3>2
  <2>8. UsedHandles' = UsedHandles
    <3>1. {i \in Slots : value[i] # NULL} = {i \in Slots : value'[i] # NULL} \cup {loc[t].idx}
      BY <1>1, <1>10, <2>2, <2>4 DEF Fields
    <3>2. \A i \in Slots : HandleOf(i)' = HandleOf(i)
      BY <2>1 DEF HandleOf
    <3>3. UsedHandles = issued \cup {HandleOf(i) : i \in {j \in Slots : value'[j] # NULL}}
      BY <1>1, <2>3, <2>5, <3>1 DEF UsedHandles
    <3> QED  BY <1>1, <3>2, <3>3 DEF UsedHandles
  <2>9. Map!RemoveObject(t)
    <3>1. [k \in Handles |-> ObjectOf(k)'] = [[k \in Handles |-> ObjectOf(k)] EXCEPT ![h] = NULL]
      BY <2>3, <2>7
    <3>2. [u \in Threads |-> CallOf(u)'] = [[u \in Threads |-> CallOf(u)] EXCEPT ![t] =
             [state |-> "done", op |-> "remove", arg |-> loc[t].ptr]]
      BY <2>6, CallsNext
    <3>3. /\ [u \in Threads |-> CallOf(u)][t].state = "open"
          /\ [u \in Threads |-> CallOf(u)][t].op = "remove"
          /\ [u \in Threads |-> CallOf(u)][t].arg = h
      BY <2>6
    <3>4. [k \in Handles |-> ObjectOf(k)][h] = loc[t].ptr
      BY <2>3, <2>4
    <3> QED  BY <2>4, <2>8, <3>1, <3>2, <3>3, <3>4 DEF Map!RemoveObject, Map!Done
  <2> QED  BY <2>9 DEF Map!Next
<1>11. CASE RemBump(t)
  <2>1. /\ pc[t] = "rem_bump" /\ pc'[t] \in {"push", "rem_inc"} /\ loc' = loc /\ value' = value
        /\ \A i \in Slots : i # loc[t].idx => generation'[i] = generation[i]
    BY <1>1, <1>11, BumpRaises DEF TypeOK
  <2>2. value[loc[t].idx] = NULL
    BY <2>1 DEF SlotsOwned, Owning
  <2>3. \A k \in Handles : ObjectOf(k)' = ObjectOf(k)
    <3> SUFFICES ASSUME NEW k \in Handles PROVE ObjectOf(k)' = ObjectOf(k)
      OBVIOUS
    <3>1. k.idx \in Slots
      BY DEF Handles
    <3> QED  BY <2>1, <2>2, <3>1 DEF ObjectOf
  <2>4. UsedHandles' = UsedHandles
    <3>1. \A i \in {j \in Slots : value[j] # NULL} : HandleOf(i)' = HandleOf(i)
      BY <2>1, <2>2 DEF HandleOf
    <3> QED  BY <1>1, <2>1, <3>1 DEF UsedHandles
  <2> QED  BY <1>4, <2>1, <2>3, <2>4, Mapped DEF SameObjects, Unlinked, UnlinkedPc
<1>12. CASE PushLoad(t) \/ PushNext(t) \/ PushCas(t)
  <2>1. pc[t] \in Unlinked /\ pc'[t] \in Unlinked /\ loc'[t].ptr = loc[t].ptr /\ UNCHANGED <<generation, value>>
    <3> USE DEF Goto, TypeOK, Locals, Unlinked, UnlinkedPc, cells
    <3>1. CASE PushLoad(t)
      BY <1>1, <3>1 DEF PushLoad
    <3>2. CASE PushNext(t)
      BY <1>1, <3>2 DEF PushNext
    <3>3. CASE PushCas(t)
      BY <1>1, <3>3 DEF PushCas
    <3> QED  BY <1>12, <3>1, <3>2, <3>3
  <2> QED  BY <1>4, <1>6, <2>1, Mapped
<1>13. CASE RemInc(t) \/ RemProtected(t) \/ RemScan(t) \/ RemDefer(t) \/ RemUnref(t)
  <2>1. pc[t] \in Unlinked /\ pc'[t] \in Unlinked /\ loc'[t].ptr = loc[t].ptr /\ UNCHANGED <<generation, value>>
    <3> USE DEF Goto, TypeOK, Locals, Unlinked, UnlinkedPc, DrainPc, cells
    <3>1. CASE RemInc(t)
      BY <1>1, <3>1 DEF RemInc
    <3>2. CASE RemProtected(t)
      BY <1>1, <3>2 DEF RemProtected
    <3>3. CASE RemScan(t)
      BY <1>1, <3>3 DEF RemScan
    <3>4. CASE RemDefer(t)
      BY <1>1, <3>4 DEF RemDefer
    <3>5. CASE RemUnref(t)
      BY <1>1, <3>5 DEF RemUnref
    <3> QED  BY <1>13, <3>1, <3>2, <3>3, <3>4, <3>5
  <2> QED  BY <1>4, <1>6, <2>1, Mapped
<1>14. CASE Drain(t) \/ DrainPick(t) \/ DrainScan(t)
  <2>1. /\ pc[t] \in Unlinked /\ UNCHANGED <<generation, value>>
        /\ pc'[t] = "held" \/ (pc'[t] \in Unlinked /\ loc'[t].ptr = loc[t].ptr)
    <3> USE DEF Goto, TypeOK, Locals, Unlinked, DrainPc, cells
    <3>1. CASE Drain(t)
      BY <1>1, <3>1 DEF Drain, ReturnArc
    <3>2. CASE DrainPick(t)
      <4>1. CASE loc[t].work = {}
        BY <1>1, <3>2, <4>1 DEF DrainPick, ReturnArc
      <4>2. CASE loc[t].work # {}
        <5>1. PICK e \in loc[t].work : loc' = [loc EXCEPT ![t] =
                [loc[t] EXCEPT !.work = @ \ {e}, !.entry = e, !.left = claimed]]
          BY <3>2, <4>2 DEF DrainPick
        <5>2. loc'[t].ptr = loc[t].ptr
          BY <1>1, <5>1
        <5>3. pc[t] \in Unlinked /\ pc'[t] \in Unlinked /\ UNCHANGED <<generation, value>>
          BY <1>1, <3>2, <4>2 DEF DrainPick
        <5> QED  BY <5>2, <5>3
      <4> QED  BY <4>1, <4>2
    <3>3. CASE DrainScan(t)
      <4>1. pc[t] = "drain_scan" /\ pc'[t] \in {"drain_scan", "drain_pick"}
            /\ UNCHANGED <<generation, value>>
        BY <1>1, <3>3 DEF DrainScan
      <4>2. loc'[t].ptr = loc[t].ptr
        <5>1. CASE loc' = [loc EXCEPT ![t].entry = NULL]
          BY <1>1, <5>1
        <5>2. ASSUME NEW u \in loc[t].left, loc' = [loc EXCEPT ![t].left = @ \ {u}]
              PROVE loc'[t].ptr = loc[t].ptr
          BY <1>1, <5>2
        <5>3. CASE loc' = [loc EXCEPT ![t] = [@ EXCEPT !.left = {}, !.entry = NULL]]
          BY <1>1, <5>3
        <5> QED  BY <3>3, <5>1, <5>2, <5>3 DEF DrainScan
      <4> QED  BY <4>1, <4>2
    <3> QED  BY <1>14, <3>1, <3>2, <3>3
  <2> QED  BY <1>4, <1>5, <1>6, <2>1, Mapped
<1> QED  BY <1>7, <1>8, <1>9, <1>10, <1>11, <1>12, <1>13, <1>14 DEF Remove

LEMMA DropMaps == ASSUME TypeInv, Publishers, DropTable PROVE Map!Next
<1>1. /\ \A t \in Threads : pc[t] \in Resting
      /\ UNCHANGED <<generation, pc, loc, issued>>
      /\ \A i \in Slots : value'[i] = NULL
  BY DEF DropTable
<1>2. \A t \in Threads : CallOf(t) = NoCall /\ CallOf(t)' = NoCall
  BY <1>1, CallIs DEF CallCases
<1>3. \A h \in Handles : ObjectOf(h)' = NULL
  BY <1>1 DEF ObjectOf, Handles
<1>4. UsedHandles' = UsedHandles
  <2>1. \A i \in Slots : value[i] # NULL => HandleOf(i) \in issued
    BY <1>1 DEF Publishers, Resting
  <2>2. UsedHandles = issued
    BY <2>1 DEF UsedHandles
  <2>3. UsedHandles' = issued
    BY <1>1 DEF UsedHandles
  <2> QED  BY <2>2, <2>3
<1>5. Map!Drop
  BY <1>2, <1>3, <1>4 DEF Map!Drop, Map!Idle, NoCall
<1> QED  BY <1>5 DEF Map!Next

\* The lock-free table implements the atomic map of HandleMap: every call takes
\* effect at one instant, a handle is never issued twice, and a stale one finds
\* nothing (the docs of insert, get and remove in table.rs, and of handle.rs), as
\* long as no handle is passed to remove twice and next_index does not wrap.
THEOREM TableIsAtomicMap ==
    ASSUME RemoveOnce = TRUE, MaxCalls < IndexMod PROVE Spec => LinearizableMap
<1>1. Init => Map!Init
  <2> SUFFICES ASSUME Init PROVE Map!Init
    OBVIOUS
  <2>1. \A h \in Handles : ObjectOf(h) = NULL
    BY DEF Init, ObjectOf, Handles
  <2>2. UsedHandles = {}
    BY DEF Init, UsedHandles
  <2>3. \A t \in Threads : CallOf(t) = NoCall
    BY CallIs DEF Init, CallCases, Resting
  <2> QED  BY <2>1, <2>2, <2>3 DEF Map!Init, Map!Idle, NoCall
<1>2. ASSUME IInv, SlotInv, MapInv, [Next]_vars PROVE [Map!Next]_(Map!vars)
  <2>1. /\ TypeInv /\ InsertOwns /\ HazardPublished /\ SlotsOwned /\ HandlesIssued /\ RemoversApart
        /\ HandlesFresh /\ Publishers /\ ReadersSee /\ ReadersHold
    BY <1>2 DEF IInv, MemoryInv, SlotInv, MapInv
  <2>2. CASE UNCHANGED vars
    <3>1. UNCHANGED <<generation, value, issued, pc, loc>>
      BY <2>2 DEF vars, cells, client
    <3>2. SameObjects
      BY <3>1, SameCells
    <3>3. \A t \in Threads : CallOf(t)' = CallOf(t)
      BY <3>1 DEF CallOf, HandleOf
    <3> QED  BY <3>2, <3>3 DEF SameObjects, Map!vars
  <2>3. CASE DropTable
    BY <2>1, <2>3, DropMaps
  <2>4. ASSUME NEW t \in Threads, Caller(t) \/ Step(t) PROVE [Map!Next]_(Map!vars)
    <3>1. CallsOfOthers(t)
      BY <2>1, <2>4, OtherCalls
    <3>2. CASE Caller(t)
      BY <2>1, <3>1, <3>2, CallerMaps
    <3>3. CASE Insert(t)
      BY <2>1, <3>1, <3>3, InsertMaps
    <3>4. CASE Get(t)
      BY <2>1, <3>1, <3>4, GetMaps
    <3>5. CASE Remove(t)
      BY <2>1, <3>1, <3>5, RemoveMaps
    <3> QED  BY <2>4, <3>2, <3>3, <3>4, <3>5 DEF Step
  <2> QED  BY <1>2, <2>2, <2>3, <2>4 DEF Next
<1>3. IInv /\ SlotInv /\ MapInv /\ [Next]_vars => [Map!Next]_(Map!vars)
  BY <1>2
<1>4. IInv /\ SlotInv /\ MapInv /\ [Next]_vars => MapInv'
  BY MapStep
<1> QED  BY <1>1, <1>3, <1>4, MapInit, SlotsInductive, PTL DEF Spec, LinearizableMap, Map!Spec

=============================================================================
