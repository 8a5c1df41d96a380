------------------------------ MODULE TaskLife ------------------------------
(***************************************************************************)
(* What the executor promises of a task (the docs of spawn, cancel and     *)
(* attach in async/mod.rs, of Outcome and TaskRecord in task.rs): it has   *)
(* one outcome, its future is let go once, by its own end or by a cancel,  *)
(* and never polled again; its promise settles once, after both the        *)
(* outcome and the attach, and resolves for a value only.                  *)
(***************************************************************************)
CONSTANTS Tasks

VARIABLES
    outcome,
    future,     \* none yet, held by its executor, ended with a result, gone
    promise     \* none attached, pending, resolved, rejected

vars == <<outcome, future, promise>>

TypeOK ==
    /\ outcome \in [Tasks -> {"new", "running", "done", "failed", "cancelled"}]
    /\ future \in [Tasks -> {"none", "held", "ended", "gone"}]
    /\ promise \in [Tasks -> {"none", "pending", "resolved", "rejected"}]

Init ==
    /\ outcome = [k \in Tasks |-> "new"]
    /\ future = [k \in Tasks |-> "none"] /\ promise = [k \in Tasks |-> "none"]

\* When tokio's runtime cannot be built, the future is gone at once.
Spawn(k) ==
    /\ outcome[k] = "new"
    /\ outcome' = [outcome EXCEPT ![k] = "running"]
    /\ \E f \in {"held", "gone"} : future' = [future EXCEPT ![k] = f]
    /\ UNCHANGED promise

Cancel(k) ==
    /\ outcome[k] = "running"
    /\ outcome' = [outcome EXCEPT ![k] = "cancelled"]
    /\ UNCHANGED <<future, promise>>

\* The last poll: the future has a result, or panicked.
End(k) ==
    /\ future[k] = "held"
    /\ future' = [future EXCEPT ![k] = "ended"]
    /\ UNCHANGED <<outcome, promise>>

\* Its result is the outcome, unless a cancel came first.
Complete(k) ==
    /\ future[k] = "ended"
    /\ future' = [future EXCEPT ![k] = "gone"]
    /\ \E r \in {"done", "failed"} :
         outcome' = [outcome EXCEPT ![k] = IF @ = "running" THEN r ELSE @]
    /\ UNCHANGED promise

\* Only a cancelled task loses its future before it ended.
Drop(k) ==
    /\ future[k] = "held" /\ outcome[k] = "cancelled"
    /\ future' = [future EXCEPT ![k] = "gone"]
    /\ UNCHANGED <<outcome, promise>>

Attach(k) ==
    /\ outcome[k] # "new" /\ promise[k] = "none"
    /\ promise' = [promise EXCEPT ![k] = "pending"]
    /\ UNCHANGED <<outcome, future>>

Settle(k, s) ==
    /\ promise[k] = "pending" /\ outcome[k] \in {"done", "failed", "cancelled"}
    /\ s = "resolved" => outcome[k] = "done"
    /\ promise' = [promise EXCEPT ![k] = s]
    /\ UNCHANGED <<outcome, future>>

Next == \E k \in Tasks :
    \/ Spawn(k) \/ Cancel(k) \/ End(k) \/ Complete(k) \/ Drop(k) \/ Attach(k)
    \/ \E s \in {"resolved", "rejected"} : Settle(k, s)

Spec == Init /\ [][Next]_vars
=============================================================================
