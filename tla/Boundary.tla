------------------------------ MODULE Boundary ------------------------------
(***************************************************************************)
(* Calls from JS threads into generated shims, and what comes back: the    *)
(* thread-local last error of crates/bffi/src/core/error.rs, the panic     *)
(* containment of core/boundary.rs, the typed tables of core/catalog.rs    *)
(* behind the ObjectWrap of object/wrap.rs, the shims that bffi-macros     *)
(* expands to, the transient buffers and drained errors of                 *)
(* build/runtime.rs, and the loader that reads them                        *)
(* (packages/bffi/src/loader/api.ts, runtime/error.ts, runtime/buffer.ts). *)
(*                                                                         *)
(* A call runs on its JS thread from its entry to the value or the error   *)
(* the loader hands on; a body may call back into JS, which calls again on *)
(* the same thread.  Threads share the tables only, each access to which   *)
(* is one step; a table is taken by its contract (HandleMap): a handle     *)
(* names one object and is never issued twice.  An object has the name of  *)
(* the call that constructed it.  Builds are release builds: a panic is    *)
(* caught.                                                                 *)
(***************************************************************************)
EXTENDS Naturals, Sequences, FiniteSets, SequencesExt

CONSTANTS
    Threads,        \* JS isolates
    Classes, Tags,
    TagOf,          \* the tag each class was annotated with
    MaxCalls,       \* bound: calls made
    MaxDepth,       \* bound: calls on one thread's stack
    ObjectSlots, BufferSlots, ErrorSlots,   \* table capacities, 2^24 in the code
    NONE, GENERIC   \* nothing; an error the loader makes up from the status

ASSUME BoundaryAssumption ==
    /\ TagOf \in [Classes -> Tags] /\ MaxCalls \in Nat /\ MaxDepth \in Nat \ {0}
    /\ {ObjectSlots, BufferSlots, ErrorSlots} \subseteq Nat
    /\ NONE \notin Classes \cup {"held", "released", "collected"} /\ {NONE, GENERIC} \cap (1 .. MaxCalls) = {}

Calls == 1 .. MaxCalls

VARIABLES
    stack,          \* per thread: its calls, the innermost last
    made,           \* how many calls were made
    call,           \* what each call is, where it is, the Arc it holds, its status
    claim,          \* per class: the memoized outcome of its ObjectWrap::new
    objects,        \* the live entries of the object tables
    strong,         \* per object: its strong count
    buffers, errors,        \* live entries of the two runtime tables
    lastError,      \* LAST_ERROR of each thread: the call that stored it
    wrapper,        \* per object: its JS wrapper
    raised          \* per call: whose error it threw

tables == <<objects, strong, buffers, errors>>
vars == <<stack, made, call, claim, tables, lastError, wrapper, raised>>

Ops == {"new", "method", "field", "release", "func", "next"}
Failures == {"NullPointer", "InvalidUtf8", "InvalidTag", "InvalidHandle", "TableFull",
             "DomainError", "Panic"}
NoCall == [op |-> "func", class |-> NONE, obj |-> NONE, step |-> "unused", arc |-> NONE,
           status |-> "Ok"]

TypeOK ==
    /\ stack \in [Threads -> Seq(Calls)] /\ \A t \in Threads : Len(stack[t]) <= MaxDepth
    /\ made \in 0 .. MaxCalls
    /\ call \in [Calls -> [op : Ops, class : Classes \cup {NONE}, obj : Calls \cup {NONE},
                           step : {"unused", "convert", "claim", "get", "body", "insert",
                                   "tail", "release", "return", "read", "throw", "done"},
                           arc : Calls \cup {NONE}, status : Failures \cup {"Ok"}]]
    /\ claim \in [Classes -> {"new", "owns", "tag_in_use"}]
    /\ objects \subseteq Calls /\ strong \in [Calls -> Nat]
    /\ buffers \subseteq Calls /\ Cardinality(buffers) <= BufferSlots
    /\ errors \subseteq Calls /\ Cardinality(errors) <= ErrorSlots
    /\ lastError \in [Threads -> Calls \cup {NONE}]
    /\ wrapper \in [Calls -> {NONE, "held", "released", "collected"}]
    /\ raised \in [Calls -> Calls \cup {NONE, GENERIC}]

Init ==
    /\ stack = [t \in Threads |-> <<>>] /\ made = 0
    /\ call = [c \in Calls |-> NoCall]
    /\ claim = [k \in Classes |-> "new"]
    /\ objects = {} /\ strong = [c \in Calls |-> 0] /\ buffers = {} /\ errors = {}
    /\ lastError = [t \in Threads |-> NONE]
    /\ wrapper = [c \in Calls |-> NONE] /\ raised = [c \in Calls |-> NONE]

\* Thread t is in step s of its innermost call.
Top(t) == Last(stack[t])
At(t, s) == stack[t] # <<>> /\ call[Top(t)].step = s
Goto(t, s) == call' = [call EXCEPT ![Top(t)].step = s]

\* The shim returns: its Arc is dropped with its locals.
Return(t, status) ==
    LET c == Top(t)
    IN  /\ call' = [call EXCEPT ![c].step = "return", ![c].status = status, ![c].arc = NONE]
        /\ strong' = IF call[c].arc = NONE THEN strong ELSE [strong EXCEPT ![call[c].arc] = @ - 1]

\* set_last_error, then the status: every failing path of a shim.
Fail(t, status) == Return(t, status) /\ lastError' = [lastError EXCEPT ![t] = Top(t)]

-----------------------------------------------------------------------------
(* A call starts: from JS, or from a callback inside the innermost body *)

JsRuns(t) == Len(stack[t]) < MaxDepth /\ (stack[t] = <<>> \/ At(t, "body"))

Enter(t, op, class, obj, step) ==
    /\ made < MaxCalls /\ made' = made + 1
    /\ stack' = [stack EXCEPT ![t] = Append(@, made')]
    /\ call' = [call EXCEPT ![made'] = [NoCall EXCEPT !.op = op, !.class = class, !.obj = obj,
                                                      !.step = step]]

CallNew(t, k) == /\ JsRuns(t) /\ Enter(t, "new", k, NONE, "convert")
                 /\ UNCHANGED <<claim, tables, lastError, wrapper, raised>>

\* A handle is a bare integer: any shim may be given any handle that was issued.
CallMember(t, k, o) ==
    /\ JsRuns(t) /\ wrapper[o] # NONE
    /\ Enter(t, "method", k, o, "convert") \/ Enter(t, "field", k, o, "claim")
    /\ UNCHANGED <<claim, tables, lastError, wrapper, raised>>

CallFunction(t) ==
    /\ JsRuns(t)
    /\ Enter(t, "func", NONE, NONE, "convert") \/ Enter(t, "next", NONE, NONE, "body")
    /\ UNCHANGED <<claim, tables, lastError, wrapper, raised>>

\* release() may be called again.  Its unregister names no token that was
\* registered: the finalizer stays.
CallRelease(t, o) ==
    /\ JsRuns(t) /\ wrapper[o] \in {"held", "released"}
    /\ wrapper' = [wrapper EXCEPT ![o] = "released"]
    /\ Enter(t, "release", call[o].class, o, "claim")
    /\ UNCHANGED <<claim, tables, lastError, raised>>

\* The finalizer of an unreachable wrapper is a job of its own.
Finalize(t, o) ==
    /\ stack[t] = <<>> /\ wrapper[o] \in {"held", "released"}
    /\ wrapper' = [wrapper EXCEPT ![o] = "collected"]
    /\ Enter(t, "release", call[o].class, o, "claim")
    /\ UNCHANGED <<claim, tables, lastError, raised>>

-----------------------------------------------------------------------------
(* The shim *)

\* Mutant: a refused argument returns its code and stores no error.
Convert_NotStored(t) ==
    /\ At(t, "convert")
    /\ \/ /\ Goto(t, IF call[Top(t)].op = "method" THEN "claim" ELSE "body")
          /\ UNCHANGED strong
       \/ \E f \in {"NullPointer", "InvalidUtf8", "InvalidTag"} : Return(t, f)
    /\ UNCHANGED <<stack, made, claim, objects, buffers, errors, lastError, wrapper, raised>>

\* param_conversions: null pointers, UTF-8, and the wire payload are checked
\* before anything runs.
Convert(t) ==
    /\ At(t, "convert")
    /\ \/ /\ Goto(t, IF call[Top(t)].op = "method" THEN "claim" ELSE "body")
          /\ UNCHANGED <<strong, lastError>>
       \/ \E f \in {"NullPointer", "InvalidUtf8", "InvalidTag"} : Fail(t, f)
    /\ UNCHANGED <<stack, made, claim, objects, buffers, errors, wrapper, raised>>

\* The wrap accessor: the first call of a class declares its tag in the registry,
\* once; the outcome is sticky.
Claim(t) ==
    LET c == Top(t)
        k == call[c].class
        taken == \E j \in Classes \ {k} : claim[j] = "owns" /\ TagOf[j] = TagOf[k]
        next == [new |-> "insert", release |-> "release", method |-> "get", field |-> "get"]
    IN  /\ At(t, "claim")
        /\ claim' = [claim EXCEPT ![k] = IF @ # "new" THEN @
                                         ELSE IF taken THEN "tag_in_use" ELSE "owns"]
        /\ IF claim'[k] = "owns" THEN Goto(t, next[call[c].op]) /\ UNCHANGED <<strong, lastError>>
           ELSE Fail(t, "InvalidTag")
        /\ UNCHANGED <<stack, made, objects, buffers, errors, wrapper, raised>>

\* Mutant: the table is not checked for the type of the requesting class.
Get_NoDowncast(t) ==
    LET c == Top(t)
        o == call[c].obj
    IN  /\ At(t, "get")
        /\ IF o \in objects
           THEN /\ strong' = [strong EXCEPT ![o] = @ + 1]
                /\ call' = [call EXCEPT ![c].arc = o, ![c].step = "body"]
                /\ UNCHANGED lastError
           ELSE Fail(t, "InvalidHandle")
        /\ UNCHANGED <<stack, made, claim, objects, buffers, errors, wrapper, raised>>

\* ObjectWrap::get: the table of the handle's own tag, if it stores the type of
\* the class that asks, clones the Arc.
Get(t) ==
    LET c == Top(t)
        o == call[c].obj
    IN  /\ At(t, "get")
        /\ IF o \in objects /\ call[o].class = call[c].class
           THEN /\ strong' = [strong EXCEPT ![o] = @ + 1]
                /\ call' = [call EXCEPT ![c].arc = o, ![c].step = "body"]
                /\ UNCHANGED lastError
           ELSE Fail(t, "InvalidHandle")
        /\ UNCHANGED <<stack, made, claim, objects, buffers, errors, wrapper, raised>>

\* The user's code returns, unless it is called back first (Enter) or panics.  A
\* constructor goes on to its accessor, a field getter only reads.
Body(t) ==
    LET op == call[Top(t)].op
    IN  /\ At(t, "body")
        /\ \/ op = "new" /\ Goto(t, "claim") /\ UNCHANGED <<strong, lastError>>
           \/ op # "new" /\ Return(t, "Ok") /\ UNCHANGED lastError
           \/ op \in {"method", "func", "next"} /\ Goto(t, "tail") /\ UNCHANGED <<strong, lastError>>
           \/ op \in {"method", "func"} /\ Fail(t, "DomainError")
           \/ op = "next" /\ Fail(t, "InvalidHandle")
           \/ op # "field" /\ Fail(t, "Panic")
        /\ UNCHANGED <<stack, made, claim, objects, buffers, errors, wrapper, raised>>

\* The constructed value moves into the table of its tag, or is dropped.
Insert(t) ==
    LET c == Top(t)
        used == {o \in objects : TagOf[call[o].class] = TagOf[call[c].class]}
    IN  /\ At(t, "insert")
        /\ IF Cardinality(used) < ObjectSlots
           THEN /\ objects' = objects \cup {c}
                /\ strong' = [strong EXCEPT ![c] = 1]
                /\ call' = [call EXCEPT ![c].step = "return", ![c].status = "Ok"]
                /\ UNCHANGED lastError
           ELSE Fail(t, "TableFull") /\ UNCHANGED objects
        /\ UNCHANGED <<stack, made, claim, buffers, errors, wrapper, raised>>

\* ObjectWrap::release: the table's Arc comes out and is dropped by the shim.
Release(t) ==
    LET c == Top(t)
        o == call[c].obj
    IN  /\ At(t, "release")
        /\ IF o \in objects /\ call[o].class = call[c].class
           THEN /\ objects' = objects \ {o}
                /\ strong' = [strong EXCEPT ![o] = @ - 1]
                /\ call' = [call EXCEPT ![c].step = "return", ![c].status = "Ok"]
                /\ UNCHANGED lastError
           ELSE Fail(t, "InvalidHandle") /\ UNCHANGED objects
        /\ UNCHANGED <<stack, made, claim, buffers, errors, wrapper, raised>>

\* value_tail: bytes and records are stored for the loader to read.
StoreBytes(t) ==
    /\ At(t, "tail")
    /\ IF Cardinality(buffers) < BufferSlots
       THEN Return(t, "Ok") /\ buffers' = buffers \cup {Top(t)} /\ UNCHANGED lastError
       ELSE Fail(t, "TableFull") /\ UNCHANGED buffers
    /\ UNCHANGED <<stack, made, claim, objects, errors, wrapper, raised>>

-----------------------------------------------------------------------------
(* The loader: call, makeTakeError, makeReadBuffer, makeRelease *)

\* The call is over for JS; who is raised to the caller.
Done(t, error) ==
    /\ stack' = [stack EXCEPT ![t] = Front(@)]
    /\ call' = [call EXCEPT ![Top(t)].step = "done"]
    /\ raised' = [raised EXCEPT ![Top(t)] = error]

Succeed(t) ==
    LET c == Top(t)
    IN  /\ At(t, "return") /\ call[c].status = "Ok"
        /\ IF c \in buffers THEN Goto(t, "read") /\ UNCHANGED <<stack, raised>> ELSE Done(t, NONE)
        /\ wrapper' = [wrapper EXCEPT ![c] = IF call[c].op = "new" THEN "held" ELSE @]
        /\ UNCHANGED <<made, claim, tables, lastError>>

\* Mutant: an empty payload, for which there is nothing to copy, is not freed.
ReadBuffer_KeepsEmpty(t) ==
    /\ At(t, "read") /\ Done(t, NONE)
    /\ \E empty \in BOOLEAN : buffers' = IF empty THEN buffers ELSE buffers \ {Top(t)}
    /\ UNCHANGED <<made, claim, objects, strong, errors, lastError, wrapper>>

\* Length, pointer, copy and free, all in one go on the JS thread.
ReadBuffer(t) ==
    /\ At(t, "read") /\ Done(t, NONE)
    /\ buffers' = buffers \ {Top(t)}
    /\ UNCHANGED <<made, claim, objects, strong, errors, lastError, wrapper>>

\* A second release is taken for a success, and a failed stream pull throws its
\* status: neither drains the last error.
LeaveError(t) ==
    LET c == Top(t)
    IN  /\ At(t, "return")
        /\ \/ call[c].op = "release" /\ call[c].status = "InvalidHandle" /\ Done(t, NONE)
           \/ call[c].op = "next" /\ call[c].status # "Ok" /\ Done(t, GENERIC)
        /\ UNCHANGED <<made, claim, tables, lastError, wrapper>>

\* bffi_error_take_last: the error moves into the error table; without a slot its
\* details are lost.
TakeError(t) ==
    LET c == Top(t)
        e == lastError[t]
    IN  /\ At(t, "return") /\ call[c].status # "Ok" /\ call[c].op # "next"
        /\ ~(call[c].op = "release" /\ call[c].status = "InvalidHandle")
        /\ lastError' = [lastError EXCEPT ![t] = NONE]
        /\ IF e # NONE /\ Cardinality(errors) < ErrorSlots
           THEN /\ errors' = errors \cup {e}
                /\ raised' = [raised EXCEPT ![c] = e]
                /\ Goto(t, "throw") /\ UNCHANGED stack
           ELSE Done(t, GENERIC) /\ UNCHANGED errors
        /\ UNCHANGED <<made, claim, objects, strong, buffers, wrapper>>

\* The fields are read, the entry freed, the error thrown.
Throw(t) ==
    /\ At(t, "throw") /\ Done(t, raised[Top(t)])
    /\ errors' = errors \ {raised[Top(t)]}
    /\ UNCHANGED <<made, claim, objects, strong, buffers, lastError, wrapper>>

-----------------------------------------------------------------------------
Next ==
    \E t \in Threads :
        \/ \E k \in Classes : CallNew(t, k)
        \/ \E k \in Classes, o \in Calls : CallMember(t, k, o)
        \/ \E o \in Calls : CallRelease(t, o) \/ Finalize(t, o)
        \/ CallFunction(t)
        \/ Convert(t) \/ Claim(t) \/ Get(t) \/ Body(t) \/ Insert(t) \/ Release(t) \/ StoreBytes(t)
        \/ Succeed(t) \/ ReadBuffer(t) \/ LeaveError(t) \/ TakeError(t) \/ Throw(t)

Spec == Init /\ [][Next]_vars

-----------------------------------------------------------------------------
(* Properties *)

\* A failed call throws its own error, never one an earlier call left in the
\* thread's slot or a nested call stored, and the details are lost only when the
\* error table is full or by the stream wrapper, which never asks for them.
CallerSeesOwnError ==
    [][\A c \in Calls : raised'[c] # raised[c] =>
          \/ raised'[c] = c
          \/ raised'[c] = GENERIC /\ (call[c].op = "next" \/ Cardinality(errors) = ErrorSlots)]_vars

\* A method runs on an object of its own class that stays alive until it returns,
\* also when a callback inside of it, the finalizer or another thread releases the
\* handle ("existing Arc holders keep the value alive"), or two classes were given
\* the same tag.
MethodHoldsItsObject ==
    \A o \in Calls :
        LET users == {c \in Calls : call[c].arc = o}
        IN  /\ strong[o] = Cardinality(users) + (IF o \in objects THEN 1 ELSE 0)
            /\ \A c \in users : call[c].class = call[o].class /\ claim[call[c].class] = "owns"

\* Nothing stays behind in a table: a buffer or a drained error waits for the call
\* that is about to read and free it, and an object in a table has a wrapper, or a
\* finished or starting release, that lets it go.
NothingLeaks ==
    LET running == UNION {ToSet(stack[t]) : t \in Threads}
    IN  /\ \A c \in buffers : c \in running /\ call[c].step \in {"return", "read"}
        /\ \A e \in errors : \E c \in running : call[c].step = "throw" /\ raised[c] = e
        /\ \A o \in objects :
              \/ wrapper[o] = "held"
              \/ o \in running /\ call[o].step = "return"
              \/ \E c \in running : call[c].op = "release" /\ call[c].obj = o
=============================================================================
