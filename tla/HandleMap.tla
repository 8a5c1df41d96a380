------------------------------ MODULE HandleMap ------------------------------
(***************************************************************************)
(* What a handle table promises its callers (core/table.rs, the docs of    *)
(* insert, get and remove; core/handle.rs, "ABA protection"): every call   *)
(* takes effect at one instant between its start and its return, insert    *)
(* returns a handle nobody was given before, and a handle resolves to the  *)
(* object it was issued for until that object is removed, then to nothing. *)
(***************************************************************************)
CONSTANTS
    Threads, Handles,
    Objects,
    NONE            \* not an object

VARIABLES
    object,     \* object[h]: what h resolves to, or NONE
    used,       \* the handles that resolve or have resolved to something
    call        \* the call each thread has in progress

vars == <<object, used, call>>

Idle == [state |-> "idle", op |-> "none", arg |-> NONE]
TypeOK ==
    /\ object \in [Handles -> Objects \cup {NONE}]
    /\ used \in SUBSET Handles
    /\ call \in [Threads -> [state : {"idle", "open", "done"},
                             op : {"none", "insert", "get", "remove"},
                             arg : Handles \cup Objects \cup {NONE}]]

Init == /\ object = [h \in Handles |-> NONE]
        /\ used = {}
        /\ call = [t \in Threads |-> Idle]

Open(t, op, arg) ==
    /\ call[t] = Idle
    /\ call' = [call EXCEPT ![t] = [state |-> "open", op |-> op, arg |-> arg]]
    /\ UNCHANGED <<object, used>>

\* The call takes effect: afterwards arg is what it is going to return.
Done(t, op, result) ==
    call' = [call EXCEPT ![t] = [state |-> "done", op |-> op, arg |-> result]]

InsertObject(t) ==
    /\ call[t].state = "open" /\ call[t].op = "insert"
    /\ \E h \in Handles \ used :
         /\ object' = [object EXCEPT ![h] = call[t].arg]
         /\ used' = used \cup {h}
         /\ Done(t, "insert", h)

GetObject(t) ==
    /\ call[t].state = "open" /\ call[t].op = "get"
    /\ object[call[t].arg] # NONE
    /\ Done(t, "get", object[call[t].arg])
    /\ UNCHANGED <<object, used>>

RemoveObject(t) ==
    /\ call[t].state = "open" /\ call[t].op = "remove"
    /\ object[call[t].arg] # NONE
    /\ Done(t, "remove", object[call[t].arg])
    /\ object' = [object EXCEPT ![call[t].arg] = NONE]
    /\ UNCHANGED used

\* A get or remove finds nothing and returns; an insert finds the table full.
Fail(t) ==
    /\ call[t].state = "open"
    /\ call[t].op \in {"get", "remove"} => object[call[t].arg] = NONE
    /\ call' = [call EXCEPT ![t] = Idle]
    /\ UNCHANGED <<object, used>>

Return(t) ==
    /\ call[t].state = "done"
    /\ call' = [call EXCEPT ![t] = Idle]
    /\ UNCHANGED <<object, used>>

\* The table is dropped between calls: nothing resolves any more.
Drop ==
    /\ \A t \in Threads : call[t] = Idle
    /\ object' = [h \in Handles |-> NONE]
    /\ UNCHANGED <<used, call>>

Next ==
    \/ \E t \in Threads :
         \/ \E o \in Objects : Open(t, "insert", o)
         \/ \E h \in used : Open(t, "get", h) \/ Open(t, "remove", h)
         \/ InsertObject(t) \/ GetObject(t) \/ RemoveObject(t) \/ Fail(t) \/ Return(t)
    \/ Drop

Spec == Init /\ [][Next]_vars
=============================================================================
