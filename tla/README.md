# bffi-rs in TLA+

bffi-rs lets Bun call Rust and Rust call back into Bun. JavaScript sees opaque
64-bit handles; everything asynchronous reaches a JS isolate as a job it drains
from a queue, and every value crosses as C slots or as a tagged wire record.
This directory models the runtime (`crates/bffi/src`), the code its macros
generate (`crates/bffi-macros`) and the TypeScript half that calls it
(`packages/bffi/src`), model-checks them with TLC, and proves with TLAPS the
safety of every actor module for all values of its constants: among others the
memory safety of the lock-free handle table, that the table, the event loop and
the executor each implement the contract the rest of the runtime relies on, and
that the number conversions and the UTF-8 validator are exact.

## 1. Inventory

### The parts, their state and their operations

| part | state | operations | talks to |
|---|---|---|---|
| handle table (`core/table.rs`, `core/hazard.rs`, `core/handle.rs`) | slot cells (generation, value pointer, freelist link), tagged freelist head, `next_index`, `live`, retire list; one hazard pointer per thread | `insert`, `get`, `remove`, `contains`, `len`, drop | every table of the registry is one of these |
| type registry (`core/catalog.rs`) | a directory: type tag to table | `declare`, `insert`, `get_typed`, `remove` | tasks, streams, callbacks, buffers, wrapped objects |
| error boundary (`core/boundary.rs`, `core/error.rs`, `error/`) | a thread-local last error | `run_extern_body`, `set/take_last_error` | every exported function, every job |
| object wrapping (`object/`) | a memoized claim of a tag per class, handles to objects | `new`, `wrap`, `get`, `release` | registry |
| transient buffers, drained errors (`build/runtime.rs`) | two bounded tables | `store_bytes`, read, `free_buffer`; `take_error`, read, `free_error` | registry, the loader |
| generated shims (`bffi-macros`) | none | convert arguments, run the body, store the result | all of the above |
| event loop (`event_loop/mod.rs`) | `STOPPED`, `RUNNERS`, a global queue, a queue per registered JS thread, each with a condvar | `enqueue`, `enqueue_to`, `marshal`, `run`, `pump`, `stop`, registration | fed by tasks, streams, callbacks |
| JS threads (`callback/thread.rs`) | the set of registered threads, a guard per thread | `set_js_thread`, `unset_js_thread`, thread exit | creates and retires the slot queues |
| callbacks (`callback/`) | native bodies, JS pointers with their isolate, a wait depth per thread, a wait slot per call | `register`, `bind`, `invoke`, `invoke_wait`, `revoke` | event loop, registry |
| async tasks (`async/executor.rs`, `task.rs`, `mod.rs`) | ready queue, parked futures, live count, aborters; per task: outcome, cancel request, resolvers, delivered flag | `spawn`, `spawn_on_tokio`, `cancel`, `attach`, the worker loop, wakers | delivers through the event loop |
| timers (`async/timer.rs`) | deadline entries with their wakers, a fired and a detached flag each | register, update, drop, the timer thread | wakes tasks |
| streams (`stream/`) | a buffer of 256 items or an iterator, completion or error, parked producers, a wake trampoline and its thread | `push`, `complete`, `fail`, `next_chunk`, `drop_stream`, `set_wake` | event loop for wakes, transient buffers for chunks |
| JS wrappers (`packages/bffi/src/runtime`, `loader`) | per stream: chunk, budget, notifier, timers; per object: the finalizer; the bound `JSCallback`s | `next`, dispose, `release`, revoke, the call path | all exports |
| codecs (`types/`, `async/value.rs`, `runtime/wire.ts`, `loader/composite.ts`) | limits; the last composite header per thread | encode, decode, validate, convert | all FFI traffic |
| generators, command line (`dts/`, `build/`, `packages/*`) | none at run time | text generation, build tooling | |

### What is hard, and what makes each part correct

- **Handle table.** Lock-free reads race with removes that free memory and with
  an allocator that reuses addresses; slots are recycled through a Treiber
  stack. Correct: no count is raised on freed memory, each reference is released
  once, a slot has one owner, a stale handle resolves to nothing.
- **Event loop.** Producers, runners, pumps, `stop` and registration interleave
  across one flag, two counters and a mutex per queue. Correct: every job sent
  is in one place, a targeted job stays in its isolate, no runner sleeps through
  work or through `stop`.
- **Tasks and timers.** Wake, poll, cancel, abort, completion, attach and
  deadlines race, partly outside of any lock. Correct: one outcome, one
  delivery, one holder of a future, an exact count, and no deadline is missed by
  the timer.
- **Streams.** Backpressure, chunked pulls, wakes that may be lost and timers
  that outlive their wait. Correct: items once and in order, then the end;
  neither side waits for ever.
- **Callbacks.** A call travels to another thread while callbacks are revoked,
  trampolines closed and isolates retired. Correct: no call through a dead
  pointer, no answer to another call, and every call returns.
- **The boundary.** Calls nest through callbacks on one thread and share the
  last error; handles are released by finalizers, methods and other threads.
  Correct: objects outlive the methods that run on them, an error belongs to its
  call, tables do not fill up with what nobody owns.
- **Codecs and generated code.** Three descriptions of one signature and two
  implementations of one format, written apart. Correct: they agree, and a value
  arrives as what it was.

PROJECT.json lists the hazards one by one, at their lines.

## 2. Plan

| step | modules | status |
|---|---|---|
| 1 | `HandleTable`; contract `HandleMap`; `HandleTableRefinement`; `HandleTableProofs` (memory safety, slots, counters, the refinement) | done |
| 2 | `EventLoop`; contract `JobLoop`; `EventLoopRefinement`; `EventLoopProofs` | done |
| 3 | `Executor`, with tokio tasks and their aborters; contract `TaskLife`; `ExecutorRefinement`; `ExecutorProofs` | done |
| 4 | `Stream` with its JS wrapper; `StreamProofs` | done |
| 5 | `Callback`; `CallbackProofs` | done |
| 6 | `Timer`; `TimerProofs` | done |
| 7 | `Boundary`: registry, object wrapping, last error, transient tables, generated shims, the loader's call path; `BoundaryProofs` | done |
| 8 | `Numbers` and `Utf8`, checked by `Primitives`; `PrimitiveProofs` | done |
| 9 | `Wire`, `Types`, `Crossing`, `Shims`, checked by `Codecs` | done |

How they compose. `HandleTable` implements `HandleMap`; `Boundary`, `Callback`
and `Stream` take their tables by that contract (a handle names one object and
is never issued twice). `Executor`, `Stream` and `Callback` meet in the event
loop and take its contract rather than its queues: a targeted job is run once
by its isolate, an untargeted one by any thread that drains, and either may be
refused, or dropped with a retired queue. `JobLoop` is that contract, `EventLoop`
implements it, and its violated property says where a job is only run later.
`Executor` implements `TaskLife`, which is what the JS promise and the Rust
handle of a task see. `Executor` has the future
whose event a timer or socket is; `Timer` says that a deadline is such an event.
The codec modules extend each other in the order of the code:
`Numbers`, `Utf8` < `Wire` < `Types` < `Crossing` < `Shims` < `Codecs`, which also
extends `Primitives`, where one step draws a number or one more byte of a text.

Every safety property that a run checks of an actor module is now a theorem for
all values of the constants; what is left to TLC is named in section 5.

## 3. The models

### HandleTable

One step is one atomic access of shared memory or one critical section; `pc[t]`
names the access thread `t` makes next, `loc[t]` its locals. The actions carry
the order of the source:

| code | actions |
|---|---|
| `insert` | `PopLoad PopNext PopCas` (`pop_free`), `Fresh`, `Store`, `Publish` |
| `get` | `GetGen GetVal GetPublish GetGen2 GetVal2 GetInc GetDone`, `GetRetry` |
| `remove` | `RemGen RemVal RemCas RemBump`, `PushLoad PushNext PushCas` (`push_free`), `RemInc`, `RemProtected RemScan` (`is_protected`), `RemDefer` or `RemUnref`, `Drain DrainPick DrainScan` |
| `Drop` | `DropTable`, enabled between calls |

- An `Arc` count is the set of its owners, the table and the threads that hold
  a clone. An address without owners is free, and a later insert may be given
  it: this is how address reuse enters.
- Hazard slots belong to the process: `Registered` are the threads that claimed
  one through another table. A scan holds the `SLOTS` mutex from its first slot
  to its last, a drain holds the retire-list mutex.
- `live` is counted in the same step as the neighbouring access, since nothing
  in the table reads it to decide.
- Left out: memory orders weaker than SeqCst (in the code the hazard handshake,
  the unlink and the freelist are SeqCst, the stores of a value and of a
  generation are Release, the counters Relaxed), lazily allocated pages, the wrap of the 32-bit freelist tag,
  the constant type tag, `contains` and `len`. One object is inserted once.

`HandleMap` is the contract: calls take effect at one instant, insert returns a
handle nobody was given, a handle resolves to its object until it is removed.
`HandleTableRefinement` maps the cells, the issued handles and each thread's
`pc` to it; `HandleTableProofs` proves the refinement.

### EventLoop

Queues are sequences, a condition variable is the set of its sleepers, and a
mutex that is kept across steps is held by the threads whose `pc` says so
(`QueueFree`, `DirectoryFree`). `RunDrain .. RunSleep` is the loop of a
registered runner, `PlainPop .. PlainSleep` that of an unregistered one.
`CallMarshal` reads `RUNNERS` first. `Gone` retires a queue with the jobs in it;
a registration takes the next of `SlotIds`. A job runs and returns (its panic is
contained). Reads without effect (`pending`, `executed_total`, `is_running`) are
left out, and a thread registers and leaves only between calls.

`JobLoop` is what senders are promised: one FIFO mailbox per isolate and a global
one, with `Send`, `Take`, `Complete`, `Join`, `Leave`, and `SendLate` for a sender
whose target leaves between lookup and push. `EventLoopRefinement` maps a mailbox to the
slot queue its isolate is registered with; what is in a queue of a former
registration is lost, and stays lost when the isolate registers again.

### Executor

A future is Pending until its event has happened; a Pending poll arms its
waker, and `Fire` or `SpuriousWake` fires it. `PopReady .. Park` are the steps
of `worker_loop` and `poll_task`, with the future in nobody's map between
`Take` and `Park`. `Mark` is the one transition the record allows.
`TaskFinished DeliverPair DeliverOutcome DeliverSlot` are `task_finished` and
`try_deliver`, run by whoever won or attached. The ready queue's condvar is
tested and waited on under one mutex, so a pop simply waits for an element.
A task of `TokioTasks` is an actor of its own: tokio polls it once and after
each wake (`TokioPoll`), `RegisterAborter` follows the spawn, `Cancel` goes on to
`RunAborter`, and an aborted future is dropped as soon as it is not being
polled. `LaunchOnTokio` may find that the runtime cannot be built. `closed` is a
loop that refuses jobs, for as long as it lives. `NulMessages` are the tasks whose
error, if they fail, has a NUL inside: `reject_with` cannot make a C string of it
and returns without rejecting the promise (`Unspeakable`). `liveTasks` wraps at
`USIZE`, and does so when the `Orphans` of a runtime that did not come up are
cancelled: each was counted down when it was spawned. Left out: values, the other
texts, and a change of the executor kind under way.

`TaskLife` is a task as its owner sees it: an outcome that is set once; a future
that is held until it ends, whose result is the outcome unless a cancel came
first, or that is dropped after a cancel; a promise that is attached once and
settles once, after the outcome. `ExecutorRefinement` reads the future off the
parked set and the hands of workers and tokio tasks (`FutureOf`), and the promise
off the attach and what JS saw settle (`PromiseOf`).

### Timer

The timer thread holds the table's mutex from `Scan` to `Park`; `Fire` takes a
due entry out and `WakeTask` fires the waker that was in it. A future is in the
step of its poll (`CheckFired PollInner RegisterDeadline Signal UpdateWaker
Recheck`) or of its drop (`RemoveEntry`) that it makes next. A Sleep has no inner
future and no re-check after an update; a Timeout has both. Time is one bit per
future, set at any moment. `Park` returns at once while an entry is there, as the
code's constant condition makes it.

Futures are polled by tasks, and tasks by the built-in executor, which is part of
the model as far as a deadline can tell: `Take` pops a handle and takes the task,
`Poll` polls the futures it owns one after the other, `ParkTask` parks it when the
poll has returned, and `PopUnparked` is another worker that pops the handle
meanwhile, finds nothing parked and throws the wake away (`unheard`). `Wake` is
any other waker. `Discard` and `Cancel` drop futures, by their own task or with
it. `Movable` futures change their task between polls (`Move`): the entry keeps
the waker of the task they left until the next poll replaces it, and if it fires
before that the wrong task is woken (`misled`). A Timeout looks at its flag again
after the update and survives that; a Sleep does not. The instance moves both.

### Stream

Every operation on the entry holds its mutex from its first access to its last
and is one step; `SetWakePtr` and `SetWakeThread` are the two stores outside of
it. `PushItem PushPending PushRefused` are the outcomes of `Push::poll`. After
`PushPending` the waker is registered and the future is not parked yet: a wake that
comes before `ParkTask` is heard, or is thrown away by the executor as in
`Executor`, and then the producer is `lost` until something polls it for a reason
of its own (`PolledAgain`). `Ends` is `complete` or `fail`, `PullItems PullError
PullDone PullPending PullIterator` are the outcomes of `next_chunk` with the chunk's store, which may fail (`StoreFails`).
The wrapper is one JS thread between awaits: `js` says whether it is idle, about
to pull, or waiting; `notify` is the promise `wakeNotify` would resolve, `timers`
are the pending timeouts, also those of earlier waits. `RunWake` calls the
trampoline whatever became of it. `Dispose` and `Finalize` let go of the stream.
Left out: several streams (they share nothing), item values, and the generic
error the wrapper throws (in `Boundary`).

### Callback

A step is one access to a table, the set of JS threads, a queue or the wait
slot. `CallWait Find Check Route Enqueue Push WaitEnds` are `invoke_wait` on the
calling thread; `TakeJob Lookup Enter BodyReturns BodyPanics` the invocation,
there or in a job. Registration and retirement are two steps each.
`RevokeJs` is the JS side's revoke, which closes the `JSCallback` behind a live
entry. A deadline may pass whenever the slot is empty. A body runs to its end
before its thread does anything else, except that it may revoke; so nobody parks
inside a park and the wait-depth gate never closes.

### Boundary

A thread has a stack of calls; a call is in the step of its shim (`Convert
Claim Get Body Insert Release StoreBytes`) or of the loader (`Succeed ReadBuffer
LeaveError TakeError Throw`). A body may call back into JS, which calls again on
top. An object is named by the call that constructed it, its strong count is a
number, and the calls that hold a clone are known. `Fail` is `set_last_error`
and the status. `LeaveError` are the two paths on which JS never drains the
slot. `Claim` is the memoized `ObjectWrap::new`, of which the first class on a
tag wins. `Throw` frees the drained entry: an error payload that JS itself cannot
decode, on which the code throws before it frees, is left out. Sequential within a thread, interleaved between threads at the tables.

### Numbers, Utf8, Primitives, Wire, Types, Crossing, Shims, Codecs

Operators, not actions. `Numbers` has the conversions of `num.rs` on a grid of
halves with parametric widths. `Utf8` has the vector lanes, the boundary state
and the scalar DFA as a recursive function over the prefixes of a text.
`Primitives` has the reference definitions: the integer a number stands for, and
UTF-8 as a text that can be cut into shortest encodings of scalar values. `Wire` has the record readers and writers of Rust and of
`wire.ts`, the argument lists of callbacks and the depth rule with its
thread-local. `Types` classifies Rust types as the macros do and gives each its
TypeScript kind. `Crossing` has the derived codecs of records, enums and
sequences and the loader's composite conversions. `Shims` has the C signatures
and slots, both ways, and what promises and streams carry. A float is a finite
number of the grid, NaN or an infinity. `RetBody` opens one `Result`, as the code
does, and of a `Result` inside of it the shim writes nothing: `Untouched` is what
the loader then finds in the slot it had zeroed. A buffer is a
sequence of cells, one per tag and one per fixed-width payload. `Codecs` draws
one input per state, and its invariants compare what every function on the way
makes of it with a reference definition or with the value itself.

## 4. Runs

| run | instance | shows |
|---|---|---|
| `table_memory` | 3 threads, 3 addresses, 2 slots, generations 0..2, 6 calls, handles removed any number of times | types; `NoUseAfterFree`, `ReferenceInOnePlace`, `SlotNeverShared`, `LiveCountExact`, `RetiredBounded` |
| `table_map` | 2 threads, 2 addresses, 2 slots, generations 0..1, 6 calls, a handle removed once | `LinearizableMap` (the refinement of `HandleMap`), `SlotNeverLost`, `EveryCallReturns` |
| `table_aba` | 2 threads, 1 slot, 5 calls | violation of `RemoveTakesOwnObject` |
| `loop` | an isolate, a runner, a sender, 1 job, 2 registrations, 1 spurious wakeup | `JobInOnePlace`, `IsolateBoundary`; the wakeups `TargetedJobsRun`, `PrimaryServesGlobal`, `StopEndsPlainRun`; `LoopContract` (the refinement of `JobLoop`) |
| `loop_lost_wakeup` | an isolate, another thread, 1 job | violation of `RegisteredRunnerServesGlobal` |
| `executor` | 2 workers, 1 caller, a task of its own and one on tokio, whose runtime may not come up and whose error has a NUL | `LiveTasksExact`, `FutureInOnePlace`, `SettledOnce`, `AttachedPromiseSettles`, `CancelAborts`; `TaskContract` (the refinement of `TaskLife`) |
| `executor_lost_wake` | 2 workers, 1 task | violation of `WokenTaskEnds` |
| `stream` | 2 producers whose wakes may be lost while they are being parked, 3 items, a buffer of 2, budgets 1 and 2, 2 timers | `ItemsInOrder`, `NoProducerSleepsBesideRoom`, `ConsumerServed`, `ProducersEnd` |
| `callback` | 2 isolates, 1 handle, 2 calls of which one does not fit the signature | `AnswerTellsTheTruth`, `TrampolineSafe`, `EveryCallReturns` |
| `timer` | a Sleep, a Timeout, 2 tasks that take them over from each other | `NeverSleepsOverADeadline`, `DeadlineServed` |
| `boundary` | 2 JS threads, 3 classes on 2 tags, 3 calls, nested 2 deep, one slot per table | `MethodHoldsItsObject`, `NothingLeaks`, `CallerSeesOwnError` |
| `codecs` | see below | `NumbersExact`, `TextChecked`, `WireSidesAgree`, `DepthRespected`, `SignaturesAgree`, `ArgumentsArrive`, `ReturnsArrive` |

Bounds.

- Table: `MaxCalls` is 6 because the shortest way to a drain that frees
  something takes two inserts, two gets and two removes. Three threads are a
  reader, a remover and a third that recycles the slot and the address. Two
  slots make a freelist with a link.
- Loop: two slot ids let a sender hold the queue of a former registration; one
  spurious wakeup reaches each wait's re-check. With one job the run says nothing
  of the order in a mailbox; the theorem `LoopIsMailboxes` does.
- Executor: tasks share the ready queue and the count only, so one of each kind
  suffices for their races. `WokenTaskEnds` has a run of its own because with
  two workers the code loses wakes.
- Stream: a buffer of two with two producers reaches an empty, a part-filled and
  a full buffer with one and with both producers parked; budgets 1 and 2 take
  part of it and all of it, and let the budget grow. Two timers are the one of
  the current wait and one of an earlier one. `StoreFails` is bounded to once,
  on the first chunk.
- Callback: an isolate that has not registered stands for any other thread, so
  two of them are a caller and an owner in both roles; the handle is bound on
  either table, revoked and never issued again.
- Timer: futures share the timer thread and the task that polls them; two of them
  make a scan with an entry left over and a poll that goes on after one is Ready.
  Two tasks are a former and a present owner.
- Boundary: three calls are a constructor, a use and a release, or two failing
  calls and a nested one; one slot per table makes every table full as soon as
  it is used twice.
- Codecs: the numbers are every one of the grid's f64 from far below the smallest
  integer to far above the largest, with NaN and the infinities; the integer widths keep the order `i8 < i16 < f32 < i32 < f64 < i64`
  the code relies on; texts are up to 7 bytes over vectors of 4, so that a
  character straddles the boundary in every position; raw buffers are up to 5
  nested headers, one more than the depth limit, and three more cells over
  all tags and the lengths around the payload limit.

Deadlock is not checked: calls are optional and bounded, so every instance may
stop. Symmetry is used in `table_memory` and `table_aba` (addresses, threads
without a hazard slot) and in `boundary` (threads), never in a run with a
liveness property.

Fairness.

- Handle table: a thread inside a call keeps taking steps (weak fairness per
  thread); nobody has to start one. A failed compare-exchange means that another
  succeeded, and calls are finitely many, so calls return.
- Event loop: strong fairness of each thread inside a call. A thread that waits
  for a mutex which is free again and again gets it, as the operating system's
  mutexes give it in practice; sleepers need a notification all the same, for
  `WakeUp` is disabled without one.
- Executor: weak fairness of each worker, of each tokio task that is ready, of
  each call in progress, and of the JS side that drains the loop (the documented
  periodic pump). Events need not happen: `Fire` is not fair.
- Stream: the executor polls a producer whose wake it heard, and parks it; a
  consumer that iterates keeps calling `next`, and its timers fire. A wake that
  comes while the producer is being parked may be lost, so `ProducersEnd` says
  that every producer ends or is one whose wake was lost: that the stream woke
  all of them is what the code of the stream can promise. The drain of the loop is not fair: a wake
  may never be run, which is what the wrapper's timer is for.
- Callback: a thread inside a call goes on and deadlines pass. Nobody has to
  drain a queue.
- Timer: the timer thread runs, a worker takes a task that is ready and parked
  (weak fairness), and a poll in progress goes through the futures of its task,
  gets the mutex and returns (strong fairness, since the timer thread takes the
  mutex again and again, and a future that is moved away and back disables a
  step for a while). Nobody has to wake a task twice: `DeadlineServed` excepts a
  task whose last wake the executor threw away, and a moved Sleep.
- Boundary and Codecs state safety only.

### Disagreements with the documentation

The three violation runs are findings with quotes and lines in PROJECT.json: a
`remove` that unlinks a later occupant of its slot, an untargeted job a
registered runner does not notice, a wake lost during a poll. The others were
met while modelling and have no run of their own; where a property had to name
an exception for one (`AttachedPromiseSettles`, `DeadlineServed`, `ItemsInOrder`,
`ProducersEnd`, `ArgumentsArrive`, `ReturnsArrive`), its comment and the finding
say which:

- table: the wrap of `next_index`, a `Full` while a slot is free;
- loop: a registered runner that misses `stop`, the election of the waiting
  runner, jobs that run after `stop`;
- tasks and timers: a future parked after its cancel, the tokio start-up
  failure, a promise that stays pending for a message with a NUL, the timer thread
  that never waits for a deadline, a Sleep that changes its task and sleeps on, the
  doc of `Sleep`;
- streams: the wake job that outlives its trampoline, a chunk lost to a full
  buffer table;
- callbacks: the doc of `bffi_callback_set_thread`, whole numbers for an F64
  parameter;
- boundary and generated code: `unregister` without a token, an async buffer of
  no bytes read through a null pointer, an out pointer that is not checked, a
  `Result` inside a `Result` whose value and error are dropped, an error payload
  that cannot be decoded and stays in its table;
- values: NaN and the infinities refused for an optional float, a promised `u32`
  that arrives as a bigint, negative bigints inside of composites, the empty argument list, the meaning of the depth limit.

Behaviours worth knowing that no document contradicts: a C string argument ends
at its first NUL; an optional string or buffer that is empty arrives as `null`;
JS decodes invalid UTF-8 with replacement characters where Rust refuses it;
`try_into_i64` accepts 2^53, to which 2^53 + 1 rounds as well; stream entries
are never taken out of the registry, so their slots are not reused.

## 5. Proofs

Each theorem is about the specification its runs check, for every value of the
constants that the named assumptions of the module admit; the runs extend the
modules, so TLC evaluates the assumptions on every instance. In parentheses is
the property of a run that a theorem states.

| module | theorems | inductive invariant |
|---|---|---|
| `HandleTableProofs` | `TypeCorrect` (`TypeOK`), `MemorySafe` (`NoUseAfterFree`), `SingleCustody`, `RetireListBounded` (`RetiredBounded`), `SlotsUnshared` (`SlotNeverShared`), `ReferencesInOnePlace` (`ReferenceInOnePlace`), `LiveCountIsExact` (`LiveCountExact`), `SlotsNotLost` (`SlotNeverLost`), `RemovesOwnObject` (what `table_aba` violates without its hypothesis), `TableIsAtomicMap` (`LinearizableMap`) | `IInv`, `DrainInv`, `SlotInv`, `NoneLeaked`, `LiveCounted`, `NoneLost`, `MapInv` |
| `EventLoopProofs` | `TypeCorrect`, `OneJobOnePlace` (`JobInOnePlace`), `IsolatesKeepTheirJobs` (`IsolateBoundary`), `LoopIsMailboxes` (`LoopContract`) | `LInv`, `SlotSends` |
| `ExecutorProofs` | `TypeCorrect`, `OneFuture` (`FutureInOnePlace`), `SettlesOnce` (`SettledOnce`), `CountIsExact` (`LiveTasksExact`), `ExecutorKeepsContract` (`TaskContract`) | `EInv`, `LifeInv` |
| `StreamProofs` | `TypeCorrect`, `ParkedOnlyWhenFull` (`NoProducerSleepsBesideRoom`), `EveryItemOnceInOrder` (`ItemsInOrder`) | `SInv` |
| `CallbackProofs` | `TypeCorrect`, `AnswersAreTrue` (`AnswerTellsTheTruth`), `RefusedForGood`, `TrampolinesSafe` (`TrampolineSafe`) | `CInv`, `JInv` |
| `TimerProofs` | `TypeCorrect`, `LiveEntries`, `NeverSleeps` (`NeverSleepsOverADeadline`) | `TypeOK` with `DueInTable` |
| `BoundaryProofs` | `TypeCorrect`, `MethodsHoldObjects` (`MethodHoldsItsObject`), `TablesDrain` (`NothingLeaks`), `OwnErrorsOnly` (`CallerSeesOwnError`) | `BInv` |
| `PrimitiveProofs` | `ConversionsExact` (`NumbersExact`), `ValidatorIsUtf8`, `TextsAreChecked` (`TextChecked`) | `DrawnType` |

### The handle table

Memory. `NoUseAfterFree` is not inductive: a validated reader may be two steps
away from its increment while another thread scans. `IInv` says why that is
safe. `CellsOwn`, `InsertOwns`, `UnlinkedOwns` and `RetiredOwns` say who has the
table's reference and that nobody else has it. `HazardPublished` says that a
reader re-validates under its hazard. `ReaderProtected` is the core: while a
reader is validated, no thread has passed its scan of the reader's pointer, and a
thread in the middle of the scan still has the reader's hazard slot ahead of it.
It holds because a reader becomes validated only by seeing the value in its
cell, thus before the unlink, which precedes the scan; and by claiming a hazard
slot only when no scan is under way. `TableAssumption` is enough: distinct
owners and null pointer, a positive capacity. `RetireListBounded` adds that each
entry that a drain keeps is protected by a thread that protects no other one
(`KeptProtected`), and needs that finitely many threads registered before
(`RegisteredAssumption`).

Slots. `SlotInv` says that the freelist, from its head word along the links, is
a list of distinct slots that nobody holds and that hold nothing (`Freelist`),
that a slot off the list has one owner or a value (`SlotsOwned`), and why an
exchange of the head word is safe: the tag grows with each one, so a thread that
finds the word it read finds the list it read (`WordsTagged`). The list is the
one witness of `FreeSlots`, the walk of the model that a program cannot take
atomically; that two lists from one head are equal is shown with the least index
at which they differ, so no induction over the list is needed. `NoneLeaked`
(each reference that is counted has a place), `LiveCounted` (the count in
numbers of slots and threads) and `NoneLost` follow.

Refinement. `TableIsAtomicMap` is `Spec => LinearizableMap`: initial states map
to initial states, and every step to a step of `HandleMap` or a stutter. There
is one lemma for each operation (`CallerMaps`, `InsertMaps`, `GetMaps`,
`RemoveMaps`, `DropMaps`) with a case for each action, over `MapInv`:

- `HandlesFresh`: a slot between two values has a handle that nobody was given,
  so an insert takes a handle that was never used;
- `RemoversApart`: what a remove has validated stays valid until it bumps the
  generation, since no other call has the same handle; so a successful
  compare-exchange takes the object of that handle;
- `Publishers`: a value that is stored belongs to a handle that was returned, or
  to the insert that is about to return it;
- `ReadersSee` and `ReadersHold`: a reader that re-validates its value has seen
  the object of its handle. Either the generation is still its own, and then so
  is the value; or its hazard has kept the old object's address out of every
  cell, so the value it compares with cannot be back.

Two hypotheses appear in these theorems, and both are needed. `MaxCalls <
IndexMod` (all about slots but the retire list): `next_index` does not wrap, for
after 2^32 failed inserts a full table would issue its indices again
(table.rs:222, a hazard with no property). `RemoveOnce = TRUE` (`SlotsNotLost`,
`RemovesOwnObject`, `TableIsAtomicMap`): no handle is passed to `remove` twice,
without which `table_aba` finds the counterexample. Everything else holds
whatever the callers do. The instances of `table_map` satisfy both.

### The other components

- `EventLoop`. A job is in one place (`OnePlace`) because every queue and every
  thread's hand is counted, retired queues included; a slot queue is never given
  to a second thread (`SlotsOwned`), so what is in it, or about to be pushed to
  it, is meant for its thread (`Addressed`). `Counted` is `RUNNERS`.
  `LoopIsMailboxes` is the refinement, a case for each action. It needs one more
  fact, `SlotSends`: whoever is about to push to a slot queue, be it a retired one,
  has a job that was sent to an isolate. So a push to the queue of a former
  registration is a `SendLate`, and any other push a `Send`.
- `Executor`. `FutureHeld`: a future leaves the parked set with one worker, and
  only that worker returns it. `DeliveredOnce`: whoever takes the delivery slot
  is the only one to queue the job. `OneWinner` and `Counted`: a task is counted
  while it runs or the one winner of its transition has not counted it down. The
  count is stated for a runtime that did not come up as well, where it is too low
  by the number of orphans, and wraps when they outnumber the tasks.
  `CountAssumption` (fewer tasks than a `usize` counts) is used for the count
  only: each task is an allocation. `ExecutorKeepsContract` is the refinement:
  most steps only move a task between the executor's own structures and stutter.
  `LifeInv` adds what its cases need: a future is in one hand, also while its
  result is recorded (`OneHand`); a request to cancel is a cancel that won, and
  nothing is left of the future of a task that completed (`CancelWon`); a delivery
  on its way is for an attached promise of a task that ended (`Owed`).
- `Stream`. `Numbered` (no number is pushed twice), `Phases` (a wrapper that
  pulls holds no chunk, a stream without a push buffer no queue) and `Ordered`
  (what was taken is a subsequence of what was pushed, all of it while nothing
  was dropped, failed or refused).
- `Callback`. `OneRunner`: a call may run in one place at most, a thread or one
  queued job, and whatever answers it is written by the thread that leaves that
  place (`AnswersTell`). `RefusedForGood` is what makes it stick: after a refusal
  nothing that could run the body is left anywhere.
- `Timer`. `TypeOK` is the part that is not inductive: a fired entry hands out
  its waker, and nothing in the type says that it has one. `DueInTable` does.
- `Boundary`. `Stacked`: a call that runs is on one stack, and only the innermost
  call of a thread is outside of its body. So nothing comes between a failing
  shim and the loader that asks for its error (`OwnError`), nor between a table
  entry and the call that frees it (`Waiting`); `Holding` and `Counted` tie the
  strong count to the bodies that run.

- `Primitives`, numbers. The provers know little of powers, so the proof counts:
  2^n is the number of subsets of 1 .. n (`PowerCounts`), hence it grows and doubles
  (`PowersAre`). Rounding scales a number so that its mantissa fits; exactly one
  exponent does that (`OneExponent`), so integers within the mantissa are kept and
  everything else is divided by a power of two (`RoundExact`). What an accepted
  conversion, a clamped and a wrapped one give follows by cases over the types.
- `Primitives`, texts. A run of the DFA is a recursive function; that one exists
  is shown by extending a run over a prefix by one byte (`SomeRun`), with the
  least-number principle (`StepByStep`) instead of an induction rule.
  Its state after each byte is determined by the last three (`StateAt`,
  `LanesAreRun`): this is why a lane of the vector path that sees three bytes back
  decides as the DFA does, and why three bytes before the tail are enough to
  resume (`Window`, `BoundaryIs`), for every block of at least three bytes. So the
  two paths agree (`PathsAgree`). From one boundary of characters the DFA takes
  exactly one shortest encoding to reach the next (`CharacterTaken`,
  `CharacterFound`), where the arithmetic is that of the second byte's range
  (`ThreeBytes`, `FourBytes`: no overlong form, no surrogate, nothing above
  U+10FFFF); the places where nothing is due are the cuts of `WellFormed`.

The assumptions on constants (`CallbackAssumption`, `BoundaryAssumption`,
`LoopAssumption`, `StreamAssumption`, `ExecutorAssumption`) say that
names of different things differ and that bounds are natural numbers; nothing
in the code could violate them. `NumbersAssumption` and `DrawAssumption` type the
constants, `WidthAssumption` holds for Rust's types (i32 and u32 share a width, an
f64 mantissa is narrower than i64 and u64), `BlockAssumption` for 16-byte vectors.

### Only model-checked

- Liveness (`EveryCallReturns`, `TargetedJobsRun`, `PrimaryServesGlobal`,
  `StopEndsPlainRun`, `AttachedPromiseSettles`, `CancelAborts`,
  `ConsumerServed`, `ProducersEnd`, `DeadlineServed`): it rests on fairness, thus
  on ENABLED, which TLAPS cannot reason about.
- `WireSidesAgree`, `DepthRespected`, `SignaturesAgree`, `ArgumentsArrive`,
  `ReturnsArrive`: records, types and values nest, so their codecs are recursive
  operators, and what those compute for every input takes an induction over data
  the provers cannot do. The run draws finitely many types: the
  primitives, texts and bytes, four records and enums, sequences of all of these and
  an Option of each as parameters; as returns those that can be returned, alone, in
  a Result and in a Result of a Result; the plain ones as async parameters and items.
- The runs check that the theorems are not about an empty model: each property a
  theorem states is one that a run checks, on instances that satisfy its
  assumptions, and that a change of the code's steps makes TLC refute.

## 6. Not modelled

- The generators of `.d.ts` files and loaders, the command line and the build
  pipeline: text, files and processes, without state at run time. Of the
  descriptor they print, the types and ABI names are in `Types` and `Shims`.
- The parsing and the diagnostics of the macros, identifiers and their
  sanitising, the texts of errors.
- `utf16.rs`, which is the standard library's conversion, and the zero-copy
  views beyond the length and null checks a shim makes of them.
- Finding, opening and closing the native library, the interval that pumps the
  loop, and `disposeAll`.
- The example library, which only uses the framework.
