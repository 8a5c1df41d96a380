------------------------- MODULE ExecutorRefinement -------------------------
(***************************************************************************)
(* Executor implements TaskLife.  A future is held while it is parked, or  *)
(* polled by a worker, or by tokio; it has ended while whoever polled it   *)
(* is about to record the result.                                          *)
(***************************************************************************)
EXTENDS Executor

FutureOf(k) ==
    IF outcome[k] = "new" THEN "none"
    ELSE IF Alive(k) THEN "held"
    ELSE IF \E a \in Actors : pc[a] = "mark" /\ loc[a].task = k THEN "ended"
    ELSE "gone"

PromiseOf(k) ==
    IF settled[k] # <<>> THEN Head(settled[k]) ELSE IF attached[k] THEN "pending" ELSE "none"

Life == INSTANCE TaskLife WITH
          future <- [k \in Tasks |-> FutureOf(k)],
          promise <- [k \in Tasks |-> PromiseOf(k)]

\* However wakes, polls, cancels, aborts and attaches overlap, a task lives as
\* the docs of spawn, cancel and attach say: one outcome, one future that no poll
\* revives, a promise that settles once, for that outcome and not before it.
TaskContract == Life!Spec
=============================================================================
