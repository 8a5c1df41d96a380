----------------------------- MODULE HandleTable -----------------------------
(***************************************************************************)
(* The lock-free, generational slot arena of crates/bffi/src/core/table.rs *)
(* with the hazard pointers of crates/bffi/src/core/hazard.rs.             *)
(*                                                                         *)
(* One step is one atomic access (a load, a store, a compare-exchange) of  *)
(* shared memory, or one critical section of a mutex.  Memory is           *)
(* sequentially consistent: the accesses the protocol relies on are SeqCst *)
(* in the code.  An Arc's strong count is the set of its owners: the table *)
(* and the threads that hold a clone.  An address whose owner set is empty *)
(* is freed memory, and the allocator may return it again.                 *)
(***************************************************************************)
EXTENDS Integers, FiniteSets

CONSTANTS
    Threads,        \* threads that call the table
    Registered,     \* those that own a hazard slot already, from another table
    Ptrs,           \* heap addresses an Arc<T> can live at
    NULL,           \* the null pointer
    TABLE,          \* the table, as an owner of a strong count
    Capacity,       \* slots of the table (with_capacity)
    MaxGeneration,  \* MAX_GENERATION, 2^24 - 1 in the code
    IndexMod,       \* width of next_index, 2^32 in the code
    MaxCalls,       \* bound: table calls made in one behaviour
    RemoveOnce      \* TRUE when a handle is passed to remove at most once

ASSUME TableAssumption ==
    /\ Registered \subseteq Threads
    /\ NULL \notin Ptrs
    /\ TABLE \notin Threads
    /\ Capacity \in Nat \ {0}
    /\ MaxGeneration \in Nat
    /\ IndexMod \in Nat /\ IndexMod > Capacity
    /\ MaxCalls \in Nat
    /\ RemoveOnce \in BOOLEAN

\* SLOTS is a Vec.
ASSUME RegisteredAssumption == IsFiniteSet(Registered)

Slots == 0 .. Capacity - 1
END == -1                                       \* FREE_END
Links == Slots \cup {END}
Handles == [gen : 0 .. MaxGeneration, idx : Slots]

VARIABLES
    generation, value, nextFree,    \* the SlotCells
    free,                           \* head word of the freelist: tag and top
    nextIndex, live, retired,
    hazard, claimed,                \* hazard slots, and the threads that own one
    owners,                         \* owners[p]: who holds a strong count on p
    pc, loc,                        \* where each thread is, and its locals
    issued, disposed,               \* handles returned by insert, passed to remove
    calls, phase                    \* bound on calls; the table's lifetime

cells == <<generation, value, nextFree>>
index == <<free, nextIndex, live>>
hazards == <<hazard, claimed>>
client == <<issued, disposed, calls, phase>>
vars == <<cells, index, retired, hazards, owners, pc, loc, client>>

NoLocals == [gen |-> 0, idx |-> 0, ptr |-> NULL, word |-> [tag |-> 0, top |-> END],
             next |-> END, left |-> {}, work |-> {}, entry |-> NULL]

InsertPc == {"pop", "pop_next", "pop_cas", "fresh", "store", "publish"}
GetPc == {"get_gen", "get_val", "get_pub", "get_gen2", "get_val2", "get_inc",
          "get_done", "get_retry"}
\* Before the unlinking compare-exchange of remove, and after it.
RemovePc == {"rem_gen", "rem_val", "rem_cas"}
UnlinkedPc == {"rem_bump", "push", "push_next", "push_cas", "rem_inc", "rem_prot",
               "rem_scan", "rem_defer", "rem_unref"}
DrainPc == {"drain", "drain_pick", "drain_scan"}
Resting == {"idle", "held"}
Pcs == InsertPc \cup GetPc \cup RemovePc \cup UnlinkedPc \cup DrainPc \cup Resting

Words == [tag : Nat, top : Links]
Locals == [gen : 0 .. MaxGeneration, idx : Slots, ptr : Ptrs \cup {NULL}, word : Words,
           next : Links, left : SUBSET Threads, work : SUBSET Ptrs, entry : Ptrs \cup {NULL}]

TypeOK ==
    /\ generation \in [Slots -> 0 .. MaxGeneration]
    /\ value \in [Slots -> Ptrs \cup {NULL}]
    /\ nextFree \in [Slots -> Links]
    /\ free \in Words
    /\ nextIndex \in Nat /\ live \in Int
    /\ retired \in SUBSET Ptrs
    /\ hazard \in [Threads -> Ptrs \cup {NULL}]
    /\ claimed \in SUBSET Threads
    /\ owners \in [Ptrs -> SUBSET (Threads \cup {TABLE})]
    /\ pc \in [Threads -> Pcs]
    /\ loc \in [Threads -> Locals]
    /\ issued \in SUBSET Handles /\ disposed \in SUBSET Handles
    /\ calls \in Nat /\ phase \in {"alive", "dropped"}

Init ==
    /\ generation = [i \in Slots |-> 0]
    /\ value = [i \in Slots |-> NULL]
    /\ nextFree = [i \in Slots |-> END]
    /\ free = [tag |-> 0, top |-> END]
    /\ nextIndex = 0 /\ live = 0 /\ retired = {}
    /\ hazard = [t \in Threads |-> NULL] /\ claimed = Registered
    /\ owners = [p \in Ptrs |-> {}]
    /\ pc = [t \in Threads |-> "idle"] /\ loc = [t \in Threads |-> NoLocals]
    /\ issued = {} /\ disposed = {} /\ calls = 0 /\ phase = "alive"

-----------------------------------------------------------------------------
Goto(t, from, to) == pc[t] = from /\ pc' = [pc EXCEPT ![t] = to]

\* A call starts: the table is borrowed, so it has not been dropped.
Start(t, to) ==
    /\ phase = "alive" /\ calls < MaxCalls
    /\ calls' = calls + 1
    /\ Goto(t, "idle", to)

\* A call returns without a value: its locals are gone.
ReturnNothing(t) ==
    /\ pc' = [pc EXCEPT ![t] = "idle"]
    /\ loc' = [loc EXCEPT ![t] = NoLocals]

\* A call returns an Arc, which the caller keeps until it drops it.
ReturnArc(t) ==
    /\ pc' = [pc EXCEPT ![t] = "held"]
    /\ loc' = [loc EXCEPT ![t] = [NoLocals EXCEPT !.ptr = loc[t].ptr]]

\* The caller's side: the value to insert is a fresh Arc at any free address.
CallInsert(t) ==
    /\ Start(t, "pop")
    /\ \E p \in Ptrs :
         /\ owners[p] = {}
         /\ owners' = [owners EXCEPT ![p] = {t}]
         /\ loc' = [loc EXCEPT ![t].ptr = p]
    /\ UNCHANGED <<cells, index, retired, hazards, issued, disposed, phase>>

CallWith(t, h, to) ==
    /\ Start(t, to)
    /\ loc' = [loc EXCEPT ![t] = [@ EXCEPT !.gen = h.gen, !.idx = h.idx]]
    /\ UNCHANGED <<cells, index, retired, hazards, owners, issued, phase>>

CallGet(t) == \E h \in issued : CallWith(t, h, "get_gen") /\ UNCHANGED disposed

CallRemove(t) ==
    \E h \in issued :
      /\ RemoveOnce => h \notin disposed
      /\ CallWith(t, h, "rem_gen")
      /\ disposed' = IF RemoveOnce THEN disposed \cup {h} ELSE disposed

\* The caller drops the Arc a call returned to it.
DropArc(t) ==
    /\ pc[t] = "held"
    /\ owners' = [owners EXCEPT ![loc[t].ptr] = @ \ {t}]
    /\ ReturnNothing(t)
    /\ UNCHANGED <<cells, index, retired, hazards, client>>

-----------------------------------------------------------------------------
(* insert, with pop_free inlined *)

PopLoad(t) ==
    /\ Goto(t, "pop", IF free.top = END THEN "fresh" ELSE "pop_next")
    /\ loc' = [loc EXCEPT ![t].word = free]
    /\ UNCHANGED <<cells, index, retired, hazards, owners, client>>

PopNext(t) ==
    /\ Goto(t, "pop_next", "pop_cas")
    /\ loc' = [loc EXCEPT ![t].next = nextFree[loc[t].word.top]]
    /\ UNCHANGED <<cells, index, retired, hazards, owners, client>>

\* Mutant: the head is stored without a comparison, as if nobody else popped.
PopCas_NoCompare(t) ==
    /\ Goto(t, "pop_cas", "store")
    /\ free' = [tag |-> free.tag + 1, top |-> loc[t].next]
    /\ loc' = [loc EXCEPT ![t].idx = loc[t].word.top]
    /\ UNCHANGED <<cells, nextIndex, live, retired, hazards, owners, client>>

PopCas(t) ==
    /\ IF free = loc[t].word
       THEN /\ Goto(t, "pop_cas", "store")
            /\ free' = [tag |-> free.tag + 1, top |-> loc[t].next]
            /\ loc' = [loc EXCEPT ![t].idx = loc[t].word.top]
       ELSE Goto(t, "pop_cas", "pop") /\ UNCHANGED <<free, loc>>
    /\ UNCHANGED <<cells, nextIndex, live, retired, hazards, owners, client>>

\* No free slot: claim the next index.  A failed insert has moved next_index
\* as well, and its value is dropped with the argument.
Fresh(t) ==
    /\ pc[t] = "fresh"
    /\ nextIndex' = (nextIndex + 1) % IndexMod
    /\ IF nextIndex < Capacity
       THEN /\ Goto(t, "fresh", "store")
            /\ loc' = [loc EXCEPT ![t].idx = nextIndex]
            /\ UNCHANGED owners
       ELSE /\ ReturnNothing(t)
            /\ owners' = [owners EXCEPT ![loc[t].ptr] = @ \ {t}]
    /\ UNCHANGED <<cells, free, live, retired, hazards, client>>

\* Arc::into_raw gives the caller's count to the table.
Store(t) ==
    /\ Goto(t, "store", "publish")
    /\ value' = [value EXCEPT ![loc[t].idx] = loc[t].ptr]
    /\ owners' = [owners EXCEPT ![loc[t].ptr] = {TABLE}]
    /\ UNCHANGED <<generation, nextFree, index, retired, hazards, loc, client>>

\* live is counted and the generation is read only after the value is visible.
Publish(t) ==
    /\ pc[t] = "publish"
    /\ live' = live + 1
    /\ issued' = issued \cup {[gen |-> generation[loc[t].idx], idx |-> loc[t].idx]}
    /\ ReturnNothing(t)
    /\ UNCHANGED <<cells, free, nextIndex, retired, hazards, owners, disposed, calls, phase>>

-----------------------------------------------------------------------------
(* get, with hazard::publish and hazard::clear *)

GetGen(t) ==
    /\ pc[t] = "get_gen"
    /\ IF generation[loc[t].idx] = loc[t].gen
       THEN Goto(t, "get_gen", "get_val") /\ UNCHANGED loc
       ELSE ReturnNothing(t)
    /\ UNCHANGED <<cells, index, retired, hazards, owners, client>>

GetVal(t) ==
    /\ pc[t] = "get_val"
    /\ IF value[loc[t].idx] = NULL
       THEN ReturnNothing(t)
       ELSE /\ Goto(t, "get_val", "get_pub")
            /\ loc' = [loc EXCEPT ![t].ptr = value[loc[t].idx]]
    /\ UNCHANGED <<cells, index, retired, hazards, owners, client>>

\* A thread's first publish registers its slot under the SLOTS mutex, which
\* a scan holds from its first slot to its last.  A slot that is registered and
\* not yet written is null to every scan: registering is one step with writing.
SlotsLocked == \E u \in Threads : pc[u] \in {"rem_scan", "drain_scan"}

GetPublish(t) ==
    /\ t \in claimed \/ ~SlotsLocked
    /\ Goto(t, "get_pub", "get_gen2")
    /\ hazard' = [hazard EXCEPT ![t] = loc[t].ptr]
    /\ claimed' = claimed \cup {t}
    /\ UNCHANGED <<cells, index, retired, owners, loc, client>>

GetGen2(t) ==
    /\ Goto(t, "get_gen2",
            IF generation[loc[t].idx] = loc[t].gen THEN "get_val2" ELSE "get_retry")
    /\ UNCHANGED <<cells, index, retired, hazards, owners, loc, client>>

GetVal2(t) ==
    /\ Goto(t, "get_val2",
            IF value[loc[t].idx] = loc[t].ptr THEN "get_inc" ELSE "get_retry")
    /\ UNCHANGED <<cells, index, retired, hazards, owners, loc, client>>

\* Arc::increment_strong_count: undefined behaviour on freed memory.
GetInc(t) ==
    /\ Goto(t, "get_inc", "get_done")
    /\ owners' = [owners EXCEPT ![loc[t].ptr] = @ \cup {t}]
    /\ UNCHANGED <<cells, index, retired, hazards, loc, client>>

GetDone(t) ==
    /\ pc[t] = "get_done"
    /\ hazard' = [hazard EXCEPT ![t] = NULL]
    /\ ReturnArc(t)
    /\ UNCHANGED <<cells, index, retired, claimed, owners, client>>

GetRetry(t) ==
    /\ Goto(t, "get_retry", "get_gen")
    /\ hazard' = [hazard EXCEPT ![t] = NULL]
    /\ loc' = [loc EXCEPT ![t].ptr = NULL]
    /\ UNCHANGED <<cells, index, retired, claimed, owners, client>>

-----------------------------------------------------------------------------
(* remove, with push_free, hazard::is_protected and drain_retired *)

RemGen(t) ==
    /\ pc[t] = "rem_gen"
    /\ IF generation[loc[t].idx] = loc[t].gen
       THEN Goto(t, "rem_gen", "rem_val") /\ UNCHANGED loc
       ELSE ReturnNothing(t)
    /\ UNCHANGED <<cells, index, retired, hazards, owners, client>>

RemVal(t) ==
    /\ pc[t] = "rem_val"
    /\ IF value[loc[t].idx] = NULL
       THEN ReturnNothing(t)
       ELSE /\ Goto(t, "rem_val", "rem_cas")
            /\ loc' = [loc EXCEPT ![t].ptr = value[loc[t].idx]]
    /\ UNCHANGED <<cells, index, retired, hazards, owners, client>>

RemCas(t) ==
    /\ IF value[loc[t].idx] = loc[t].ptr
       THEN /\ Goto(t, "rem_cas", "rem_bump")
            /\ value' = [value EXCEPT ![loc[t].idx] = NULL]
            /\ UNCHANGED loc
       ELSE /\ Goto(t, "rem_cas", "rem_gen")
            /\ loc' = [loc EXCEPT ![t].ptr = NULL]
            /\ UNCHANGED value
    /\ UNCHANGED <<generation, nextFree, index, retired, hazards, owners, client>>

\* Mutant: the exhausted generation is bumped once more.
RemBump_OneTooMany(t) ==
    /\ Goto(t, "rem_bump", "push")
    /\ generation' = [generation EXCEPT ![loc[t].idx] = loc[t].gen + 1]
    /\ UNCHANGED <<value, nextFree, index, retired, hazards, owners, loc, client>>

\* Mutant: the slot is pushed with the generation it had.
RemBump_NoBump(t) ==
    /\ Goto(t, "rem_bump", IF loc[t].gen < MaxGeneration THEN "push" ELSE "rem_inc")
    /\ UNCHANGED <<cells, index, retired, hazards, owners, loc, client>>

\* Mutant: the slot gets its next generation and is not pushed.
RemBump_NoPush(t) ==
    /\ Goto(t, "rem_bump", "rem_inc")
    /\ generation' = [generation EXCEPT ![loc[t].idx] =
                        IF loc[t].gen < MaxGeneration THEN loc[t].gen + 1 ELSE loc[t].gen]
    /\ UNCHANGED <<value, nextFree, index, retired, hazards, owners, loc, client>>

\* next_generation: a slot whose generation is exhausted is never reused.
RemBump(t) ==
    /\ IF loc[t].gen < MaxGeneration
       THEN /\ Goto(t, "rem_bump", "push")
            /\ generation' = [generation EXCEPT ![loc[t].idx] = loc[t].gen + 1]
       ELSE Goto(t, "rem_bump", "rem_inc") /\ UNCHANGED generation
    /\ UNCHANGED <<value, nextFree, index, retired, hazards, owners, loc, client>>

PushLoad(t) ==
    /\ Goto(t, "push", "push_next")
    /\ loc' = [loc EXCEPT ![t].word = free]
    /\ UNCHANGED <<cells, index, retired, hazards, owners, client>>

PushNext(t) ==
    /\ Goto(t, "push_next", "push_cas")
    /\ nextFree' = [nextFree EXCEPT ![loc[t].idx] = loc[t].word.top]
    /\ UNCHANGED <<generation, value, index, retired, hazards, owners, loc, client>>

\* Mutant: a failed exchange is retried with the head word read before.
PushCas_NoReload(t) ==
    /\ pc[t] = "push_cas"
    /\ IF free = loc[t].word
       THEN /\ Goto(t, "push_cas", "rem_inc")
            /\ free' = [tag |-> free.tag + 1, top |-> loc[t].idx]
       ELSE UNCHANGED <<pc, free>>
    /\ UNCHANGED <<cells, nextIndex, live, retired, hazards, owners, loc, client>>

PushCas(t) ==
    /\ IF free = loc[t].word
       THEN /\ Goto(t, "push_cas", "rem_inc")
            /\ free' = [tag |-> free.tag + 1, top |-> loc[t].idx]
       ELSE Goto(t, "push_cas", "push") /\ UNCHANGED free
    /\ UNCHANGED <<cells, nextIndex, live, retired, hazards, owners, loc, client>>

\* Mutant: live is not decremented.
RemInc_NoCount(t) ==
    /\ Goto(t, "rem_inc", "rem_prot")
    /\ owners' = [owners EXCEPT ![loc[t].ptr] = @ \cup {t}]
    /\ UNCHANGED <<cells, index, retired, hazards, loc, client>>

\* live is decremented and the caller gets a strong count of its own.
RemInc(t) ==
    /\ Goto(t, "rem_inc", "rem_prot")
    /\ live' = live - 1
    /\ owners' = [owners EXCEPT ![loc[t].ptr] = @ \cup {t}]
    /\ UNCHANGED <<cells, free, nextIndex, retired, hazards, loc, client>>

\* is_protected: lock SLOTS, then read one hazard slot after the other.
RemProtected(t) ==
    /\ ~SlotsLocked
    /\ Goto(t, "rem_prot", "rem_scan")
    /\ loc' = [loc EXCEPT ![t].left = claimed]
    /\ UNCHANGED <<cells, index, retired, hazards, owners, client>>

\* Mutant: the scan gives up after the first hazard slot.
RemScan_FirstOnly(t) ==
    /\ pc[t] = "rem_scan"
    /\ \/ loc[t].left = {} /\ Goto(t, "rem_scan", "rem_unref")
       \/ \E u \in loc[t].left :
            Goto(t, "rem_scan", IF hazard[u] = loc[t].ptr THEN "rem_defer" ELSE "rem_unref")
    /\ loc' = [loc EXCEPT ![t].left = {}]
    /\ UNCHANGED <<cells, index, retired, hazards, owners, client>>

RemScan(t) ==
    /\ \/ loc[t].left = {} /\ Goto(t, "rem_scan", "rem_unref") /\ UNCHANGED loc
       \/ \E u \in loc[t].left :
            IF hazard[u] = loc[t].ptr
            THEN Goto(t, "rem_scan", "rem_defer") /\ loc' = [loc EXCEPT ![t].left = {}]
            ELSE /\ pc[t] = "rem_scan" /\ UNCHANGED pc
                 /\ loc' = [loc EXCEPT ![t].left = @ \ {u}]
    /\ UNCHANGED <<cells, index, retired, hazards, owners, client>>

\* The retire-list mutex is held by the thread that drains it.
RetiredLocked == \E u \in Threads : pc[u] \in {"drain_pick", "drain_scan"}

\* Mutant: a protected value is forgotten instead of retired.
RemDefer_Forgets(t) ==
    /\ Goto(t, "rem_defer", "drain")
    /\ UNCHANGED <<cells, index, retired, hazards, owners, loc, client>>

RemDefer(t) ==
    /\ ~RetiredLocked
    /\ Goto(t, "rem_defer", "drain")
    /\ retired' = retired \cup {loc[t].ptr}
    /\ UNCHANGED <<cells, index, hazards, owners, loc, client>>

RemUnref(t) ==
    /\ Goto(t, "rem_unref", "drain")
    /\ owners' = [owners EXCEPT ![loc[t].ptr] = @ \ {TABLE}]
    /\ UNCHANGED <<cells, index, retired, hazards, loc, client>>

SlotCount == IF claimed = {} THEN 1 ELSE Cardinality(claimed)     \* hazard::count

\* Mutant: the retire list is never scanned.
Drain_Never(t) ==
    /\ pc[t] = "drain" /\ ~RetiredLocked
    /\ ReturnArc(t)
    /\ UNCHANGED <<cells, index, retired, hazards, owners, client>>

Drain(t) ==
    /\ pc[t] = "drain" /\ ~RetiredLocked
    /\ IF Cardinality(retired) < 2 * SlotCount
       THEN ReturnArc(t)
       ELSE /\ Goto(t, "drain", "drain_pick")
            /\ loc' = [loc EXCEPT ![t].work = retired]
    /\ UNCHANGED <<cells, index, retired, hazards, owners, client>>

\* scan_retired: each entry is scanned under its own hold of SLOTS.
DrainPick(t) ==
    /\ pc[t] = "drain_pick"
    /\ IF loc[t].work = {}
       THEN ReturnArc(t)
       ELSE /\ ~SlotsLocked
            /\ Goto(t, "drain_pick", "drain_scan")
            /\ \E e \in loc[t].work :
                 loc' = [loc EXCEPT ![t] =
                          [loc[t] EXCEPT !.work = @ \ {e}, !.entry = e, !.left = claimed]]
    /\ UNCHANGED <<cells, index, retired, hazards, owners, client>>

DrainScan(t) ==
    /\ \/ /\ loc[t].left = {}
          /\ Goto(t, "drain_scan", "drain_pick")
          /\ owners' = [owners EXCEPT ![loc[t].entry] = @ \ {TABLE}]
          /\ retired' = retired \ {loc[t].entry}
          /\ loc' = [loc EXCEPT ![t].entry = NULL]
       \/ \E u \in loc[t].left :
            /\ IF hazard[u] = loc[t].entry
               THEN /\ Goto(t, "drain_scan", "drain_pick")
                    /\ loc' = [loc EXCEPT ![t] = [@ EXCEPT !.left = {}, !.entry = NULL]]
               ELSE /\ pc[t] = "drain_scan" /\ UNCHANGED pc
                    /\ loc' = [loc EXCEPT ![t].left = @ \ {u}]
            /\ UNCHANGED <<owners, retired>>
    /\ UNCHANGED <<cells, index, hazards, client>>

\* Drop for HandleTable: exclusive access, so no call is in progress.
DropTable ==
    /\ phase = "alive" /\ \A t \in Threads : pc[t] \in Resting
    /\ phase' = "dropped"
    /\ owners' = [p \in Ptrs |->
         IF p \in retired \/ \E i \in Slots : value[i] = p
         THEN owners[p] \ {TABLE} ELSE owners[p]]
    /\ value' = [i \in Slots |-> NULL] /\ retired' = {}
    /\ UNCHANGED <<generation, nextFree, index, hazards, pc, loc, issued, disposed, calls>>

-----------------------------------------------------------------------------
Insert(t) == PopLoad(t) \/ PopNext(t) \/ PopCas(t) \/ Fresh(t) \/ Store(t) \/ Publish(t)
Get(t) == \/ GetGen(t) \/ GetVal(t) \/ GetPublish(t) \/ GetGen2(t) \/ GetVal2(t)
          \/ GetInc(t) \/ GetDone(t) \/ GetRetry(t)
Remove(t) == \/ RemGen(t) \/ RemVal(t) \/ RemCas(t) \/ RemBump(t)
             \/ PushLoad(t) \/ PushNext(t) \/ PushCas(t) \/ RemInc(t)
             \/ RemProtected(t) \/ RemScan(t) \/ RemDefer(t) \/ RemUnref(t)
             \/ Drain(t) \/ DrainPick(t) \/ DrainScan(t)
Caller(t) == CallInsert(t) \/ CallGet(t) \/ CallRemove(t) \/ DropArc(t)
Step(t) == Insert(t) \/ Get(t) \/ Remove(t)

Next == (\E t \in Threads : Caller(t) \/ Step(t)) \/ DropTable

\* A thread inside a call keeps running; nobody has to make a call.
Spec == Init /\ [][Next]_vars /\ \A t \in Threads : WF_vars(Step(t))
-----------------------------------------------------------------------------
(* Properties *)

\* Memory safety of get and remove: whenever a thread is about to raise a
\* strong count through a raw pointer (table.rs, "SAFETY" of both increments),
\* the table's own reference still keeps the pointee alive, whatever the other
\* threads remove, free and allocate again meanwhile.
NoUseAfterFree ==
    \A t \in Threads : pc[t] \in {"get_inc", "rem_inc"} => TABLE \in owners[loc[t].ptr]

\* The places that may hold the table's reference on p: a cell, a thread that
\* unlinked p and has not yet released or deferred it, the retire list.
PlacesOf(p) ==
    {<<"cell", i>> : i \in {j \in Slots : value[j] = p}}
    \cup {<<"thread", t>> : t \in {u \in Threads : pc[u] \in UnlinkedPc /\ loc[u].ptr = p}}
    \cup {<<"retired", p>> : q \in retired \cap {p}}

\* The table's reference on an object is in exactly one place as long as it is
\* counted and in none afterwards: remove, the retire list and Drop together
\* release it exactly once and never leak it.
ReferenceInOnePlace ==
    \A p \in Ptrs : Cardinality(PlacesOf(p)) = IF TABLE \in owners[p] THEN 1 ELSE 0

\* The freelist, followed from its head word for at most Capacity links.
FreeWalk[n \in 0 .. Capacity] ==
    IF n = 0 THEN free.top
    ELSE IF FreeWalk[n - 1] = END THEN END ELSE nextFree[FreeWalk[n - 1]]
FreeSlots == {FreeWalk[n] : n \in 0 .. Capacity} \ {END}

SlotOwners(i) ==
    {<<"free", i>> : j \in FreeSlots \cap {i}}
    \cup {<<"value", i>> : j \in {k \in {i} : value[k] # NULL}}
    \cup {<<"thread", t>> : t \in {u \in Threads :
             loc[u].idx = i /\ pc[u] \in {"store", "rem_bump", "push", "push_next", "push_cas"}}}

\* The Treiber stack under concurrent pushes and pops: it ends, and no index is
\* in two places, so that no two inserts are ever given the same slot.
SlotNeverShared ==
    /\ FreeWalk[Capacity] = END
    /\ \A i \in Slots : Cardinality(SlotOwners(i)) <= 1

\* No slot leaks: an index that was handed out and is in no place at all is one
\* whose last generation was removed (retired for ever, as remove documents).
\* For tables whose handles are removed once: disposed is kept only then.
SlotNeverLost ==
    \A i \in Slots : SlotOwners(i) = {} =>
        \/ i >= nextIndex
        \/ [gen |-> MaxGeneration, idx |-> i] \in disposed
        \/ phase = "dropped"

\* len() is exact up to the calls in progress: an insert counts after its value
\* is visible, a remove discounts after it unlinked.
LiveCountExact ==
    phase = "dropped" \/ live = Cardinality({i \in Slots : value[i] # NULL})
                      + Cardinality({t \in Threads : pc[t] \in
                            {"rem_bump", "push", "push_next", "push_cas", "rem_inc"}})
                      - Cardinality({t \in Threads : pc[t] = "publish"})

\* Deferred references do not pile up: outside of a drain fewer than twice the
\* hazard slots wait on the retire list (drain_retired's threshold).
RetiredBounded ==
    Cardinality(retired) <= 2 * SlotCount - 1 + Cardinality({t \in Threads : pc[t] \in DrainPc})

\* The ABA protection handle.rs and table.rs promise ("a handle issued before
\* the free can never resolve to a later occupant of the same slot"): when a
\* remove has unlinked a value, the slot was at the generation of its handle.
RemoveTakesOwnObject ==
    \A t \in Threads : pc[t] = "rem_bump" => generation[loc[t].idx] = loc[t].gen

\* Lock-freedom and the short critical sections of hazard scans: a call that
\* started returns, because a failed compare-exchange means another succeeded.
EveryCallReturns ==
    \A t \in Threads : pc[t] \notin Resting ~> pc[t] \in Resting
=============================================================================
