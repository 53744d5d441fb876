------------------------------- MODULE Launch -------------------------------
(***************************************************************************)
(* Calls of one compiled kernel, from Python to the device.  Threads share  *)
(* the kernel object (JitKernel_NPU.__call__ keeps the grid and the extra   *)
(* arguments of a call in its attributes) and the generated launcher        *)
(* (generate_npu_wrapper_src), which prepares a workspace and dispatches    *)
(* the launch in one of four ways: through torch_npu's task queue or        *)
(* inline, with or without waiting.                                         *)
(* What the compiler finds out about the symbolic variables of a kernel is  *)
(* in Symbolic; here it is a parameter.                                     *)
(*                                                                         *)
(* External: torch_npu's bounded task queue with its consumer thread, its   *)
(* caching allocator (a freed block is handed out again to the stream it    *)
(* belongs to) and the device (streams run their launches in order).        *)
(***************************************************************************)
EXTENDS Integers, Sequences, FiniteSets, Functions, AffineForms

CONSTANTS
    Threads, Streams, DefaultStream,
    Kernels,        \* the signatures looked at
    BadOutput, BadGrid, BadShape,   \* those of them whose calls raise there
    SymbolicOf,     \* per kernel: from which dimension each variable is read
    ShapesOf,       \* the dimensions of the arguments of a kernel and a meaning
    GridOf(_, _),   \* the grid of a kernel under an assignment
    Meanings,       \* what callers may mean by the symbolic variables
    QueueCap,       \* capacity of the task queue
    MaxCalls        \* calls made by each thread

VARIABLES
    kernel,     \* the signature of the kernel
    taskqueue,  \* TILELANG_ENABLE_TASKQUEUE when the launcher was generated
    a5,         \* compile_on_910_95
    stream,     \* per thread: torch's current stream
    attr,       \* the kernel object: attr.extra_args, attr.launch_grid
    gil,        \* the thread inside the launcher, which keeps the interpreter lock
    pc, calls,  \* per thread: next step; calls made
    env,        \* per thread: what the caller means by the symbolic variables
    extended,   \* per thread: the extra arguments its call has picked up
    block,      \* per thread: the workspace its call holds
    used,       \* workspaces handed out by the allocator
    queue,      \* the task queue
    issued,     \* per stream: launches issued and not yet started
    running,    \* per stream: the launch the device is executing
    \* History: what the device has finished, as <<kind, thread, call>>; per
    \* thread: another one was inside __call__ of the kernel during its call.
    finished, contended

setting == <<kernel, taskqueue, a5>>
python  == <<attr, gil, pc, calls, env, extended, block, used, stream>>
device  == <<queue, issued, running, finished>>
vars    == <<setting, python, device, contended>>

\* The allocator keeps a freed workspace for its stream and hands it out again;
\* as calls hold the interpreter lock while they have one, one per stream is
\* enough, and is named by the stream.
Blocks == Streams
NoBlock == "none"
Unset == <<>>
Idle == [kind |-> "none"]
Inside == {"extra", "grid", "output", "launch"}

ASSUME LaunchAssumption ==
    /\ QueueCap \in Nat \ {0} /\ MaxCalls \in Nat
    /\ DefaultStream \in Streams /\ "free" \notin Threads

\* What the compiler found out is true of the kernels: the dimension a variable
\* is read from is a * x + b with a # 0, and the grid needs no other variable.
ASSUME CompiledAssumption ==
    \A k \in Kernels \ BadOutput, v \in Meanings :
        /\ \A x \in DOMAIN SymbolicOf[k] :
              LET s == SymbolicOf[k][x]
              IN  /\ s.e[1] \in Int \ {0} /\ s.e[2] \in Int /\ v[x] \in Int
                  /\ ShapesOf[k, v][s.param][s.dim] = s.e[1] * v[x] + s.e[2]
        /\ k \notin BadGrid => GridOf(k, [x \in DOMAIN SymbolicOf[k] |-> v[x]]) = GridOf(k, v)

Init ==
    /\ kernel \in Kernels /\ taskqueue \in BOOLEAN /\ a5 \in BOOLEAN
    /\ stream = [t \in Threads |-> DefaultStream]
    /\ attr = [extra_args |-> Unset, launch_grid |-> 0]
    /\ gil = "free"
    /\ pc = [t \in Threads |-> "idle"] /\ calls = [t \in Threads |-> 0]
    /\ env = [t \in Threads |-> Unset] /\ extended = [t \in Threads |-> Unset]
    /\ block = [t \in Threads |-> NoBlock] /\ used = {}
    /\ queue = <<>> /\ issued = [s \in Streams |-> <<>>] /\ running = [s \in Streams |-> Idle]
    /\ finished = {} /\ contended = [t \in Threads |-> FALSE]

Goto(t, l) == pc' = [pc EXCEPT ![t] = l]

\* dynamic_val of t's call, from the dimensions of its arguments.
Dynamic(t) == Resolve(SymbolicOf[kernel], ShapesOf[kernel, env[t]])

-----------------------------------------------------------------------------
\* The caller computes the input with a torch operator on its current stream,
\* which goes through the task queue.
Produce(t) ==
    /\ pc[t] = "idle" /\ calls[t] < MaxCalls /\ gil = "free"
    /\ Len(queue) < QueueCap
    /\ \E v \in Meanings : env' = [env EXCEPT ![t] = v]
    /\ queue' = Append(queue, [kind |-> "input", thread |-> t, call |-> calls[t] + 1,
                                stream |-> stream[t]])
    /\ calls' = [calls EXCEPT ![t] = @ + 1]
    /\ contended' = [q \in Threads |-> IF q = t THEN \E r \in Threads \ {t} : pc[r] \in Inside
                                       ELSE contended[q] \/ pc[q] \in Inside]
    /\ Goto(t, "extra")
    /\ UNCHANGED <<attr, gil, extended, block, used, stream, issued, running, finished>>

Raise(t) ==
    /\ Goto(t, "idle")
    /\ env' = [env EXCEPT ![t] = Unset] /\ extended' = [extended EXCEPT ![t] = Unset]

KeptExtraArgs(t) ==    \* mutant: the object keeps those of its first call
    IF attr.extra_args = Unset THEN Dynamic(t) ELSE attr.extra_args

ExtraArgs(t) == Dynamic(t)

\* _calcu_grid: self.extra_args = ...
SetExtraArgs(t) ==
    /\ pc[t] = "extra" /\ gil = "free"
    /\ IF kernel \in BadOutput
       THEN Raise(t) /\ UNCHANGED attr
       ELSE /\ attr' = [attr EXCEPT !.extra_args = ExtraArgs(t)]
            /\ Goto(t, "grid")
            /\ UNCHANGED <<env, extended>>
    /\ UNCHANGED <<gil, calls, block, used, stream, device, contended>>

\* ... self.launch_grid = ...
SetLaunchGrid(t) ==
    /\ pc[t] = "grid" /\ gil = "free"
    /\ IF kernel \in BadGrid
       THEN Raise(t) /\ UNCHANGED attr
       ELSE /\ attr' = [attr EXCEPT !.launch_grid = GridOf(kernel, Dynamic(t))]
            /\ Goto(t, "output")
            /\ UNCHANGED <<env, extended>>
    /\ UNCHANGED <<gil, calls, block, used, stream, device, contended>>

\* Outputs are allocated, then full_args.extend(self.extra_args).
Extend(t) ==
    /\ pc[t] = "output" /\ gil = "free"
    /\ IF kernel \in BadShape
       THEN Raise(t)
       ELSE /\ extended' = [extended EXCEPT ![t] = attr.extra_args]
            /\ Goto(t, "launch")
            /\ UNCHANGED env
    /\ UNCHANGED <<attr, gil, calls, block, used, stream, device, contended>>

FirstStream(t) == DefaultStream    \* mutant: captured at build time

\* _get_current_raw_stream, asked at every call.
LaunchStream(t) == stream[t]

BuildPool(t) == DefaultStream      \* mutant: the pool of the stream of build time

\* at::empty takes from the pool of the current stream.
PoolOf(t) == stream[t]

\* launch_npu: the launcher takes its workspace from the allocator's pool of
\* the current stream.  The interpreter lock is held until it returns.
Launcher(t) ==
    /\ pc[t] = "launch" /\ gil = "free"
    /\ gil' = t
    /\ PoolOf(t) \in Blocks \ used
    /\ used' = used \cup {PoolOf(t)} /\ block' = [block EXCEPT ![t] = PoolOf(t)]
    /\ Goto(t, "dispatch")
    /\ UNCHANGED <<attr, calls, env, extended, stream, device, contended>>

Handler(t) ==
    [kind |-> "kernel", thread |-> t, call |-> calls[t],
     stream |-> LaunchStream(t), block |-> block[t],
     extra |-> extended[t], grid |-> attr.launch_grid]

\* The handler is enqueued, or runs here and now.
Dispatch(t) ==
    /\ pc[t] = "dispatch"
    /\ IF taskqueue
       THEN /\ Len(queue) < QueueCap
            /\ queue' = Append(queue, Handler(t))
            /\ UNCHANGED issued
       ELSE /\ issued' = [issued EXCEPT ![LaunchStream(t)] = Append(@, Handler(t))]
            /\ UNCHANGED queue
    /\ Goto(t, "wait")
    /\ UNCHANGED <<attr, gil, calls, env, extended, block, used, stream,
                   running, finished, contended>>

Drained(s) == queue = <<>> /\ issued[s] = <<>> /\ running[s] = Idle

NeverSynchronised(t) == TRUE    \* mutant: RunOpApi(..., false)

\* RunOpApi(..., sync = true) drains the queue and synchronises the stream; an
\* inline launch on a 910_95 synchronises; the other two return at once.
Synchronised(t) ==
    IF taskqueue THEN a5 \/ Drained(LaunchStream(t))
    ELSE a5 => issued[LaunchStream(t)] = <<>> /\ running[LaunchStream(t)] = Idle

\* The end of _launch: the workspace is released, the call returns.
Release(t) ==
    /\ pc[t] = "wait" /\ Synchronised(t)
    /\ used' = used \ {block[t]} /\ block' = [block EXCEPT ![t] = NoBlock]
    /\ gil' = "free"
    /\ env' = [env EXCEPT ![t] = Unset] /\ extended' = [extended EXCEPT ![t] = Unset]
    /\ Goto(t, "idle")
    /\ UNCHANGED <<attr, calls, stream, device, contended>>

\* Between calls a thread may enter another `with torch.npu.stream(s)`.
SwitchStream(t) ==
    /\ pc[t] = "idle" /\ calls[t] < MaxCalls /\ gil = "free"
    /\ \E s \in Streams \ {stream[t]} : stream' = [stream EXCEPT ![t] = s]
    /\ UNCHANGED <<attr, gil, pc, calls, env, extended, block, used, device, contended>>

-----------------------------------------------------------------------------
HandlerAllocates == Len(queue) < QueueCap   \* mutant: the handler enters the queue again

\* The handler touches no allocator: the consumer thread never waits.
HandlerFree == TRUE

\* The consumer thread issues the oldest entry to its stream.
Consume ==
    /\ queue # <<>> /\ HandlerFree
    /\ LET l == Head(queue)
       IN  issued' = [issued EXCEPT ![l.stream] = Append(@, l)]
    /\ queue' = Tail(queue)
    /\ UNCHANGED <<python, running, finished, contended>>

StartOn(s) ==
    /\ running[s] = Idle /\ issued[s] # <<>>
    /\ running' = [running EXCEPT ![s] = Head(issued[s])]
    /\ issued' = [issued EXCEPT ![s] = Tail(@)]
    /\ UNCHANGED <<python, queue, finished, contended>>

FinishOn(s) ==
    /\ running[s] # Idle
    /\ running' = [running EXCEPT ![s] = Idle]
    /\ LET l == running[s] IN finished' = finished \cup {<<l.kind, l.thread, l.call>>}
    /\ UNCHANGED <<python, queue, issued, contended>>

-----------------------------------------------------------------------------
Call(t) == SetExtraArgs(t) \/ SetLaunchGrid(t) \/ Extend(t) \/ Launcher(t)
           \/ Dispatch(t) \/ Release(t)
Device  == Consume \/ \E s \in Streams : StartOn(s) \/ FinishOn(s)

Next == /\ \/ \E t \in Threads : Produce(t) \/ SwitchStream(t) \/ Call(t)
           \/ Device
        /\ UNCHANGED setting

Spec == Init /\ [][Next]_vars

\* Threads inside a call, the consumer thread and the device keep running.
FairSpec ==
    /\ Spec
    /\ \A t \in Threads : WF_vars(Call(t) /\ UNCHANGED setting)
    /\ WF_vars(Consume /\ UNCHANGED setting)
    /\ \A s \in Streams : WF_vars((StartOn(s) \/ FinishOn(s)) /\ UNCHANGED setting)

-----------------------------------------------------------------------------
InFlight ==
    Range(queue) \cup (UNION {Range(issued[s]) : s \in Streams})
    \cup {running[s] : s \in Streams}

\* Whichever dimension the compiler bound a variable to, a call recovers the
\* value its caller meant (outputs are allocated from it), and with it the grid.
SymbolicExact ==
    \A t \in Threads :
        /\ pc[t] \in {"grid", "output", "launch", "dispatch"} =>
              \A x \in DOMAIN Dynamic(t) : Dynamic(t)[x] = env[t][x]
        /\ pc[t] \in {"output", "launch", "dispatch"} =>
              GridOf(kernel, Dynamic(t)) = GridOf(kernel, env[t])

\* Two threads may call the same kernel object: a call that had the object to
\* itself launches with its own grid and its own extra arguments.
OwnArguments ==
    \A t \in Threads : pc[t] = "dispatch" /\ ~contended[t] =>
        /\ extended[t] = Dynamic(t)
        /\ attr.launch_grid = GridOf(kernel, env[t])

\* Through the task queue a kernel never overtakes the operators enqueued
\* before it: its input has been computed when it runs.
InputsReady ==
    taskqueue => \A s \in Streams : running[s].kind = "kernel" =>
        <<"input", running[s].thread, running[s].call>> \in finished

\* Workspaces are released while launches that use them may still be pending;
\* even so two kernels that run at the same time never share one.
WorkspacesApart ==
    \A s, z \in Streams : s # z /\ running[s].kind = "kernel" /\ running[z].kind = "kernel"
        => running[s].block # running[z].block

\* The dispatch that waits (queued off the 910_95, inline on it) hands no
\* workspace back to the allocator that a launch could still read.
ReleasedAfterUse ==
    taskqueue # a5 => \A l \in InFlight : l.kind = "kernel" => l.block \in used

\* A call that has reached the launcher gets its kernel executed: the bounded
\* queue, the lock and the waiting never block each other.
LaunchesRun ==
    \A t \in Threads, c \in 1..MaxCalls :
        (pc[t] = "launch" /\ calls[t] = c) ~> <<"kernel", t, c>> \in finished
=============================================================================
