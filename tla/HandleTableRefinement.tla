------------------------ MODULE HandleTableRefinement ------------------------
(***************************************************************************)
(* HandleTable implements HandleMap when no handle is passed to remove     *)
(* twice.  The linearization points: an insert at the store of the value,  *)
(* a get at the re-validation of the value, a remove at the successful     *)
(* compare-exchange, a call that finds nothing at the load that shows it.  *)
(***************************************************************************)
EXTENDS HandleTable

HandleOf(i) == [gen |-> generation[i], idx |-> i]

ObjectOf(h) == IF generation[h.idx] = h.gen THEN value[h.idx] ELSE NULL
UsedHandles == issued \cup {HandleOf(i) : i \in {j \in Slots : value[j] # NULL}}

NoCall == [state |-> "idle", op |-> "none", arg |-> NULL]
CallOf(t) ==
    LET l == loc[t]
        Call(state, op, arg) == [state |-> state, op |-> op, arg |-> arg]
        handle == [gen |-> l.gen, idx |-> l.idx]
    IN  CASE pc[t] = "publish" -> Call("done", "insert", HandleOf(l.idx))
          [] pc[t] \in InsertPc \ {"publish"} -> Call("open", "insert", l.ptr)
          [] pc[t] \in {"get_inc", "get_done"} -> Call("done", "get", l.ptr)
          [] pc[t] \in GetPc \ {"get_inc", "get_done"} -> Call("open", "get", handle)
          [] pc[t] \in RemovePc -> Call("open", "remove", handle)
          [] pc[t] \in UnlinkedPc \cup DrainPc -> Call("done", "remove", l.ptr)
          [] OTHER -> NoCall

Map == INSTANCE HandleMap WITH
         Objects <- Ptrs, NONE <- NULL,
         object <- [h \in Handles |-> ObjectOf(h)],
         used <- UsedHandles,
         call <- [t \in Threads |-> CallOf(t)]

\* The lock-free table behaves like one atomic map from handles to objects:
\* a handle is never reissued, and a stale one never finds a later occupant of
\* its slot, under every interleaving of inserts, gets and removes.
LinearizableMap == Map!Spec
=============================================================================
