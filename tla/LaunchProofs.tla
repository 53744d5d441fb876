---------------------------- MODULE LaunchProofs ----------------------------
(***************************************************************************)
(* Theorems about the launches of a kernel (Launch), for any number of      *)
(* threads, streams, kernels, calls and any capacity of the task queue, and *)
(* about the arithmetic with which a call recovers a symbolic variable      *)
(* (AffineForms).                                                           *)
(***************************************************************************)
EXTENDS Launch, TLAPS

\* First-order leaves need no arithmetic; the others are left to the SMT solver.
USE ZenonT(2), SMT

Steps == Inside \cup {"idle", "dispatch", "wait"}
Held  == {"dispatch", "wait"}

\* A sequence, of whatever entries.
List(q) == \E T : q \in Seq(T)

LaunchType ==
    /\ taskqueue \in BOOLEAN /\ a5 \in BOOLEAN
    /\ stream \in [Threads -> Streams] /\ pc \in [Threads -> Steps]
    /\ calls \in [Threads -> Nat] /\ contended \in [Threads -> BOOLEAN]
    /\ gil \in Threads \cup {"free"}
    /\ DOMAIN attr = {"extra_args", "launch_grid"}
    /\ DOMAIN env = Threads /\ DOMAIN extended = Threads /\ DOMAIN block = Threads
    /\ DOMAIN issued = Streams /\ DOMAIN running = Streams
    /\ List(queue) /\ \A s \in Streams : List(issued[s])

\* The thread inside the launcher has the interpreter lock, and the workspace
\* of its stream.
LockInv ==
    \A t \in Threads :
        /\ pc[t] \in Held <=> gil = t
        /\ pc[t] \in Held => block[t] = stream[t] /\ stream[t] \in used

\* What every entry of the pipeline looks like: a kernel's workspace is the one
\* of its stream.
Entry(l) ==
    /\ l.kind \in {"input", "kernel"} /\ l.stream \in Streams
    /\ l.kind = "kernel" => l.block = l.stream

PlaceInv ==
    /\ \A i \in 1..Len(queue) : Entry(queue[i])
    /\ \A s \in Streams : \A i \in 1..Len(issued[s]) :
          Entry(issued[s][i]) /\ issued[s][i].stream = s
    /\ \A s \in Streams : running[s] = Idle \/ (Entry(running[s]) /\ running[s].stream = s)

\* The dispatch that waits: whoever launched a kernel still in flight waits for
\* it, with the lock.
Awaited(l) ==
    l.kind = "kernel" => gil \in Threads /\ pc[gil] = "wait" /\ l.stream = stream[gil]

WaitInv ==
    taskqueue # a5 =>
        /\ \A i \in 1..Len(queue) : Awaited(queue[i]) /\ (queue[i].kind = "kernel" => taskqueue)
        /\ \A s \in Streams : \A i \in 1..Len(issued[s]) : Awaited(issued[s][i])
        /\ \A s \in Streams : Awaited(running[s])

\* No kernel is in flight.
NoKernel ==
    /\ \A i \in 1..Len(queue) : queue[i].kind # "kernel"
    /\ \A s \in Streams : \A i \in 1..Len(issued[s]) : issued[s][i].kind # "kernel"
    /\ \A s \in Streams : running[s].kind # "kernel"

\* The input of call c of thread t, on stream s, is finished, or running, or
\* among the first n issued to the stream.
IsInput(l, t, c, s) == l.kind = "input" /\ l.thread = t /\ l.call = c /\ l.stream = s

Started(t, c, s, n) ==
    \/ <<"input", t, c>> \in finished
    \/ IsInput(running[s], t, c, s)
    \/ \E j \in 1..n : IsInput(issued[s][j], t, c, s)

\* ... or all that, or among the first n of the task queue.
Ordered(t, c, s, n) ==
    \/ Started(t, c, s, Len(issued[s]))
    \/ \E j \in 1..n : IsInput(queue[j], t, c, s)

\* A kernel has its input ahead of it, wherever it is.
InputInv ==
    taskqueue =>
        /\ \A t \in Threads : pc[t] # "idle" => Ordered(t, calls[t], stream[t], Len(queue))
        /\ \A i \in 1..Len(queue) : queue[i].kind = "kernel" =>
              Ordered(queue[i].thread, queue[i].call, queue[i].stream, i - 1)
        /\ \A s \in Streams : \A i \in 1..Len(issued[s]) : issued[s][i].kind = "kernel" =>
              Started(issued[s][i].thread, issued[s][i].call, s, i - 1)
        /\ InputsReady

\* The steps of a call before its launcher: they leave the device alone.
Prepares(t) ==
    /\ pc[t] \in Inside /\ gil = "free"
    /\ \E l \in Inside \cup {"idle"} : pc' = [pc EXCEPT ![t] = l]
    /\ UNCHANGED <<gil, calls, block, used, stream, device, contended>>

\* A call that has the kernel object to itself finds in it what it stored.
OwnInv ==
    \A t \in Threads : pc[t] \in Inside \cup {"dispatch"} /\ ~contended[t] =>
        /\ \A r \in Threads \ {t} : pc[r] \notin Inside
        /\ pc[t] # "extra" => attr.extra_args = Dynamic(t)
        /\ pc[t] \notin {"extra", "grid"} => attr.launch_grid = GridOf(kernel, Dynamic(t))
        /\ pc[t] \in {"launch", "dispatch"} => extended[t] = Dynamic(t)

\* The calls that come past the two points where the compiled form can raise.
MeantInv ==
    /\ kernel \in Kernels
    /\ \A t \in Threads :
          /\ pc[t] \in Inside \cup {"dispatch"} => env[t] \in Meanings
          /\ pc[t] \in {"grid", "output", "launch", "dispatch"} => kernel \notin BadOutput
          /\ pc[t] \in {"output", "launch", "dispatch"} => kernel \notin BadGrid

-----------------------------------------------------------------------------
\* The queues, by position.

\* A sequence's positions.
LEMMA ListIs ==
    ASSUME NEW q, List(q)
    PROVE  /\ Len(q) \in Nat /\ DOMAIN q = 1..Len(q)
           /\ Len(q) = 0 <=> q = <<>>
           /\ q # <<>> => 1 \in 1..Len(q)
BY DEF List

\* The empty sequence.
LEMMA ListEmpty == List(<<>>) /\ Len(<<>>) = 0
<1>1. <<>> \in Seq({}) /\ Len(<<>>) = 0
  OBVIOUS
<1> QED
  BY <1>1 DEF List

\* An entry goes behind the others.
LEMMA ListAppend ==
    ASSUME NEW q, List(q), NEW e
    PROVE  /\ List(Append(q, e))
           /\ Len(Append(q, e)) = Len(q) + 1 /\ Len(q) \in Nat
           /\ Append(q, e)[Len(q) + 1] = e
           /\ \A i \in 1..Len(q) : Append(q, e)[i] = q[i]
<1>1. PICK S : q \in Seq(S)
  BY DEF List
<1> DEFINE T == S \cup {e}
<1>2. q \in Seq(T) /\ e \in T
  BY <1>1
<1> HIDE DEF T
<1> QED
  BY <1>2 DEF List

\* The first entry leaves, the others move up.
LEMMA ListTail ==
    ASSUME NEW q, List(q), q # <<>>
    PROVE  /\ List(Tail(q)) /\ Head(q) = q[1]
           /\ Len(Tail(q)) = Len(q) - 1 /\ Len(q) \in Nat /\ Len(q) >= 1
           /\ \A i \in 1..Len(Tail(q)) : Tail(q)[i] = q[i + 1]
<1>1. PICK T : q \in Seq(T)
  BY DEF List
<1> QED
  BY <1>1 DEF List

\* A launch is issued to a stream: the other streams are as they were.
LEMMA IssuedTo ==
    ASSUME LaunchType, NEW s \in Streams, NEW e, issued' = [issued EXCEPT ![s] = Append(@, e)]
    PROVE  /\ DOMAIN issued' = Streams /\ \A z \in Streams : List(issued'[z])
           /\ \A z \in Streams : z # s => issued'[z] = issued[z]
           /\ Len(issued[s]) \in Nat /\ Len(issued'[s]) = Len(issued[s]) + 1
           /\ issued'[s][Len(issued[s]) + 1] = e
           /\ \A i \in 1..Len(issued[s]) : issued'[s][i] = issued[s][i]
           /\ \A z \in Streams : \A i \in 1..Len(issued'[z]) :
                 \/ z = s /\ i = Len(issued[s]) + 1 /\ issued'[z][i] = e
                 \/ i \in 1..Len(issued[z]) /\ issued'[z][i] = issued[z][i]
<1>1. /\ DOMAIN issued' = Streams /\ issued'[s] = Append(issued[s], e)
      /\ \A z \in Streams : z # s => issued'[z] = issued[z]
  BY DEF LaunchType
<1>2. \A z \in Streams : List(issued[z])
  BY DEF LaunchType
<1>3. /\ \A z \in Streams : List(issued'[z])
      /\ Len(issued[s]) \in Nat /\ Len(issued'[s]) = Len(issued[s]) + 1
      /\ issued'[s][Len(issued[s]) + 1] = e
      /\ \A i \in 1..Len(issued[s]) : issued'[s][i] = issued[s][i]
  BY <1>1, <1>2, ListAppend
<1>4. ASSUME NEW z \in Streams, NEW i \in 1..Len(issued'[z])
      PROVE  \/ z = s /\ i = Len(issued[s]) + 1 /\ issued'[z][i] = e
             \/ i \in 1..Len(issued[z]) /\ issued'[z][i] = issued[z][i]
  <2>1. CASE z = s
    <3>1. i \in 1..Len(issued[s]) \/ i = Len(issued[s]) + 1
      BY <1>3, <2>1
    <3> QED
      BY <1>3, <2>1, <3>1
  <2>2. CASE z # s
    BY <1>1, <2>2
  <2> QED
    BY <2>1, <2>2
<1> QED
  BY <1>1, <1>3, <1>4

\* The first launch of a stream leaves: the other streams are as they were.
LEMMA IssuedFrom ==
    ASSUME LaunchType, NEW s \in Streams, issued[s] # <<>>,
           issued' = [issued EXCEPT ![s] = Tail(@)]
    PROVE  /\ DOMAIN issued' = Streams /\ \A z \in Streams : List(issued'[z])
           /\ \A z \in Streams : z # s => issued'[z] = issued[z]
           /\ Len(issued[s]) \in Nat /\ Len(issued[s]) >= 1
           /\ Head(issued[s]) = issued[s][1] /\ Len(issued'[s]) = Len(issued[s]) - 1
           /\ \A i \in 1..Len(issued'[s]) :
                 i + 1 \in 1..Len(issued[s]) /\ issued'[s][i] = issued[s][i + 1]
<1>1. /\ DOMAIN issued' = Streams /\ issued'[s] = Tail(issued[s])
      /\ \A z \in Streams : z # s => issued'[z] = issued[z]
  BY DEF LaunchType
<1>2. \A z \in Streams : List(issued[z])
  BY DEF LaunchType
<1>3. /\ \A z \in Streams : List(issued'[z])
      /\ Len(issued[s]) \in Nat /\ Len(issued[s]) >= 1
      /\ Head(issued[s]) = issued[s][1] /\ Len(issued'[s]) = Len(issued[s]) - 1
      /\ \A i \in 1..Len(issued'[s]) : issued'[s][i] = issued[s][i + 1]
  BY <1>1, <1>2, ListTail
<1>4. \A i \in 1..Len(issued'[s]) : i + 1 \in 1..Len(issued[s])
  BY <1>3
<1> QED
  BY <1>1, <1>3, <1>4

-----------------------------------------------------------------------------
\* Types, and who has the lock.

\* The steps of __call__ before the launcher prepare.
LEMMA PrepareSteps ==
    ASSUME LaunchType, NEW t \in Threads, SetExtraArgs(t) \/ SetLaunchGrid(t) \/ Extend(t)
    PROVE  Prepares(t) /\ DOMAIN attr' = DOMAIN attr
           /\ DOMAIN env' = Threads /\ DOMAIN extended' = Threads
<1>1. CASE SetExtraArgs(t)
  BY <1>1 DEF SetExtraArgs, Raise, Goto, Prepares, LaunchType, Inside
<1>2. CASE SetLaunchGrid(t)
  BY <1>2 DEF SetLaunchGrid, Raise, Goto, Prepares, LaunchType, Inside
<1>3. CASE Extend(t)
  BY <1>3 DEF Extend, Raise, Goto, Prepares, LaunchType, Inside
<1> QED
  BY <1>1, <1>2, <1>3

\* The types hold at the start.
LEMMA InitType == Init => LaunchType
BY LaunchAssumption, ListEmpty DEF Init, LaunchType, Steps, Inside

\* A step keeps the types.
LEMMA NextType ==
    ASSUME LaunchType, [Next]_vars
    PROVE  LaunchType'
<1> USE DEF LaunchType, Steps, Inside
<1>0. CASE UNCHANGED vars
  BY <1>0 DEF vars, setting, python, device
<1>1. ASSUME UNCHANGED setting, NEW t \in Threads, Produce(t)
      PROVE  LaunchType'
  <2>1. List(queue')
    BY <1>1, ListAppend DEF Produce
  <2>2. contended' \in [Threads -> BOOLEAN]
    BY Zenon, <1>1 DEF Produce
  <2>3. /\ DOMAIN env' = Threads /\ pc' \in [Threads -> Steps]
        /\ calls' \in [Threads -> Nat]
    BY <1>1 DEF Produce, Goto
  <2>4. UNCHANGED <<taskqueue, a5, stream, gil, attr, extended, block, issued, running>>
    BY <1>1 DEF Produce, setting
  <2> QED
    BY <2>1, <2>2, <2>3, <2>4
<1>2. ASSUME UNCHANGED setting, NEW t \in Threads, SwitchStream(t)
      PROVE  LaunchType'
  BY <1>2 DEF SwitchStream, setting, device
<1>3. ASSUME UNCHANGED setting, NEW t \in Threads, SetExtraArgs(t) \/ SetLaunchGrid(t) \/ Extend(t)
      PROVE  LaunchType'
  <2>1. Prepares(t) /\ DOMAIN attr' = DOMAIN attr
        /\ DOMAIN env' = Threads /\ DOMAIN extended' = Threads
    BY <1>3, PrepareSteps
  <2> QED
    BY <1>3, <2>1 DEF Prepares, setting, device
<1>4. ASSUME UNCHANGED setting, NEW t \in Threads, Launcher(t)
      PROVE  LaunchType'
  BY <1>4 DEF Launcher, Goto, setting, device
<1>5. ASSUME UNCHANGED setting, NEW t \in Threads, Dispatch(t)
      PROVE  LaunchType'
  <2>1. DOMAIN issued' = Streams /\ List(queue') /\ \A s \in Streams : List(issued'[s])
    <3>1. stream[t] \in Streams
      BY <1>5
    <3>2. CASE taskqueue
      <4>1. issued' = issued /\ queue' = Append(queue, Handler(t))
        BY <1>5, <3>2 DEF Dispatch
      <4>2. List(queue')
        BY <4>1, ListAppend
      <4> QED
        BY <4>1, <4>2
    <3>3. CASE ~taskqueue
      <4>1. queue' = queue /\ issued' = [issued EXCEPT ![stream[t]] = Append(@, Handler(t))]
        BY <1>5, <3>3 DEF Dispatch, LaunchStream
      <4> QED
        BY Zenon, <3>1, <4>1, IssuedTo
    <3> QED
      BY <3>2, <3>3
  <2>2. pc' \in [Threads -> Steps]
    BY <1>5 DEF Dispatch, Goto
  <2>3. UNCHANGED <<taskqueue, a5, stream, gil, attr, calls, contended, env, extended, block,
                    running>>
    BY <1>5 DEF Dispatch, setting
  <2> QED
    BY <2>1, <2>2, <2>3
<1>6. ASSUME UNCHANGED setting, NEW t \in Threads, Release(t)
      PROVE  LaunchType'
  BY <1>6 DEF Release, Goto, setting, device
<1>7. ASSUME UNCHANGED setting, Consume
      PROVE  LaunchType'
  <2>1. DOMAIN issued' = Streams /\ List(queue') /\ \A s \in Streams : List(issued'[s])
    <3>1. queue # <<>> /\ queue' = Tail(queue)
          /\ issued' = [issued EXCEPT ![Head(queue).stream] = Append(@, Head(queue))]
      BY <1>7 DEF Consume
    <3>2. \A z \in Streams : issued'[z] \in {issued[z], Append(issued[z], Head(queue))}
      BY <3>1
    <3> QED
      BY <3>1, <3>2, ListAppend, ListTail
  <2> QED
    BY <1>7, <2>1 DEF Consume, setting, python
<1>8. ASSUME UNCHANGED setting, NEW s \in Streams, StartOn(s)
      PROVE  LaunchType'
  <2>1. DOMAIN issued' = Streams /\ \A z \in Streams : List(issued'[z])
    BY Zenon, <1>8, IssuedFrom DEF StartOn
  <2> QED
    BY <1>8, <2>1 DEF StartOn, setting, python
<1>9. ASSUME UNCHANGED setting, NEW s \in Streams, FinishOn(s)
      PROVE  LaunchType'
  BY <1>9 DEF FinishOn, setting, python
<1> QED
  BY <1>0, <1>1, <1>2, <1>3, <1>4, <1>5, <1>6, <1>7, <1>8, <1>9 DEF Next, Call, Device

\* A step keeps the lock with the thread inside the launcher.
LEMMA NextLock ==
    ASSUME LaunchType, LockInv, [Next]_vars
    PROVE  LockInv'
<1> USE LaunchAssumption DEF LaunchType, LockInv, Held
<1>0. CASE UNCHANGED vars
  BY <1>0 DEF vars, python
<1>1. ASSUME NEW t \in Threads, Produce(t)
      PROVE  LockInv'
  BY <1>1 DEF Produce, Goto
<1>2. ASSUME NEW t \in Threads, SwitchStream(t)
      PROVE  LockInv'
  BY <1>2 DEF SwitchStream
<1>3. ASSUME NEW t \in Threads, SetExtraArgs(t) \/ SetLaunchGrid(t) \/ Extend(t)
      PROVE  LockInv'
  BY <1>3, PrepareSteps DEF Prepares, Inside
<1>4. ASSUME NEW t \in Threads, Launcher(t)
      PROVE  LockInv'
  BY <1>4 DEF Launcher, Goto, PoolOf
<1>5. ASSUME NEW t \in Threads, Dispatch(t)
      PROVE  LockInv'
  BY <1>5 DEF Dispatch, Goto
<1>6. ASSUME NEW t \in Threads, Release(t)
      PROVE  LockInv'
  BY <1>6 DEF Release, Goto
<1>7. CASE Device
  BY <1>7 DEF Device, Consume, StartOn, FinishOn, python
<1> QED
  BY <1>0, <1>1, <1>2, <1>3, <1>4, <1>5, <1>6, <1>7 DEF Next, Call

\* Where Handler's fields come from: the current stream and its workspace.
LEMMA HandlerIs ==
    ASSUME LaunchType, LockInv, NEW t \in Threads, Dispatch(t)
    PROVE  /\ Entry(Handler(t)) /\ Handler(t).kind = "kernel"
           /\ Handler(t).stream = stream[t] /\ stream[t] \in Streams
           /\ Handler(t).thread = t /\ Handler(t).call = calls[t]
           /\ gil = t
           /\ \/ taskqueue /\ queue' = Append(queue, Handler(t)) /\ issued' = issued
              \/ ~taskqueue /\ queue' = queue
                 /\ issued' = [issued EXCEPT ![stream[t]] = Append(@, Handler(t))]
<1>1. block[t] = stream[t] /\ stream[t] \in Streams /\ gil = t
  BY DEF LaunchType, LockInv, Held, Dispatch
<1>2. /\ Handler(t).kind = "kernel" /\ Handler(t).stream = stream[t]
      /\ Handler(t).block = block[t] /\ Handler(t).thread = t /\ Handler(t).call = calls[t]
  BY DEF Handler, LaunchStream
<1>3. \/ taskqueue /\ queue' = Append(queue, Handler(t)) /\ issued' = issued
      \/ ~taskqueue /\ queue' = queue
         /\ issued' = [issued EXCEPT ![stream[t]] = Append(@, Handler(t))]
  BY DEF Dispatch, LaunchStream
<1> QED
  BY <1>1, <1>2, <1>3 DEF Entry

\* What the consumer thread does to the queue and to the stream of its head.
LEMMA ConsumeIs ==
    ASSUME LaunchType, PlaceInv, Consume
    PROVE  /\ 1 \in 1..Len(queue) /\ Len(queue) \in Nat /\ queue[1].stream \in Streams
           /\ Len(queue') = Len(queue) - 1
           /\ \A i \in 1..Len(queue') : queue'[i] = queue[i + 1] /\ i + 1 \in 1..Len(queue)
           /\ issued' = [issued EXCEPT ![queue[1].stream] = Append(@, queue[1])]
<1>1. queue # <<>> /\ queue' = Tail(queue) /\ List(queue)
      /\ issued' = [issued EXCEPT ![Head(queue).stream] = Append(@, Head(queue))]
  BY DEF Consume, LaunchType
<1>2. /\ Head(queue) = queue[1] /\ Len(queue') = Len(queue) - 1
      /\ Len(queue) \in Nat /\ Len(queue) >= 1
      /\ \A i \in 1..Len(queue') : queue'[i] = queue[i + 1]
  BY <1>1, ListTail
<1>3. 1 \in 1..Len(queue) /\ \A i \in 1..Len(queue') : i + 1 \in 1..Len(queue)
  BY <1>2
<1>4. queue[1].stream \in Streams
  BY <1>3 DEF PlaceInv, Entry
<1> QED
  BY <1>1, <1>2, <1>3, <1>4

\* A step keeps every entry with its stream and that stream's workspace.
LEMMA NextPlace ==
    ASSUME LaunchType, LockInv, PlaceInv, [Next]_vars
    PROVE  PlaceInv'
<1>0. ASSUME UNCHANGED device
      PROVE  PlaceInv'
  BY <1>0 DEF device, PlaceInv, Entry
<1>1. ASSUME NEW t \in Threads, Produce(t)
      PROVE  PlaceInv'
  <2> DEFINE e == [kind |-> "input", thread |-> t, call |-> calls[t] + 1, stream |-> stream[t]]
  <2>1. queue' = Append(queue, e) /\ issued' = issued /\ running' = running /\ List(queue)
    BY <1>1 DEF Produce, LaunchType
  <2>2. Entry(e)
    BY DEF Entry, LaunchType
  <2> HIDE DEF e
  <2>3. \A i \in 1..Len(queue') : queue'[i] = e \/ (i \in 1..Len(queue) /\ queue'[i] = queue[i])
    BY <2>1, ListAppend
  <2> QED
    BY <2>1, <2>2, <2>3 DEF PlaceInv, Entry
<1>2. ASSUME NEW t \in Threads, Dispatch(t)
      PROVE  PlaceInv'
  <2> DEFINE e == Handler(t)
  <2>1. Entry(e) /\ e.stream = stream[t] /\ stream[t] \in Streams /\ running' = running
    BY <1>2, HandlerIs DEF Dispatch
  <2>2. CASE taskqueue
    <3>1. queue' = Append(queue, e) /\ issued' = issued /\ List(queue)
      BY <1>2, <2>2, HandlerIs DEF LaunchType
    <3> HIDE DEF e
    <3>2. \A i \in 1..Len(queue') : queue'[i] = e \/ (i \in 1..Len(queue) /\ queue'[i] = queue[i])
      BY SMTT(20), <3>1, ListAppend
    <3> QED
      BY <2>1, <3>1, <3>2 DEF PlaceInv, Entry
  <2>3. CASE ~taskqueue
    <3>1. queue' = queue /\ issued' = [issued EXCEPT ![stream[t]] = Append(@, e)]
      BY <1>2, <2>3, HandlerIs
    <3> HIDE DEF e
    <3>2. \A z \in Streams : \A i \in 1..Len(issued'[z]) :
             \/ z = stream[t] /\ issued'[z][i] = e
             \/ i \in 1..Len(issued[z]) /\ issued'[z][i] = issued[z][i]
      BY <2>1, <3>1, IssuedTo
    <3> QED
      BY SMTT(20), <2>1, <3>1, <3>2 DEF PlaceInv, Entry
  <2> QED
    BY <2>2, <2>3
<1>3. ASSUME Consume
      PROVE  PlaceInv'
  <2>1. \A i \in 1..Len(queue') : Entry(queue'[i])
    BY <1>3, ConsumeIs DEF PlaceInv
  <2>2. \A z \in Streams : \A i \in 1..Len(issued'[z]) :
             \/ z = queue[1].stream /\ issued'[z][i] = queue[1]
             \/ i \in 1..Len(issued[z]) /\ issued'[z][i] = issued[z][i]
    <3>1. queue[1].stream \in Streams
          /\ issued' = [issued EXCEPT ![queue[1].stream] = Append(@, queue[1])]
      BY <1>3, ConsumeIs
    <3> QED
      BY SMTT(20), <3>1, IssuedTo
  <2>3. Entry(queue[1]) /\ running' = running
    BY <1>3, ConsumeIs DEF PlaceInv, Consume
  <2> QED
    BY <2>1, <2>2, <2>3 DEF PlaceInv
<1>4. ASSUME NEW s \in Streams, StartOn(s)
      PROVE  PlaceInv'
  <2>1. issued[s] # <<>> /\ issued' = [issued EXCEPT ![s] = Tail(@)] /\ queue' = queue
        /\ running' = [running EXCEPT ![s] = Head(issued[s])] /\ DOMAIN running = Streams
    BY <1>4 DEF StartOn, LaunchType
  <2>2. \A z \in Streams : \A i \in 1..Len(issued'[z]) :
           \E j \in 1..Len(issued[z]) : issued'[z][i] = issued[z][j]
    <3> TAKE z \in Streams
    <3> TAKE i \in 1..Len(issued'[z])
    <3>1. CASE z = s
      BY <2>1, <3>1, IssuedFrom
    <3>2. CASE z # s
      BY <2>1, <3>2, IssuedFrom
    <3> QED
      BY <3>1, <3>2
  <2>3. Head(issued[s]) = issued[s][1] /\ 1 \in 1..Len(issued[s])
    BY <2>1, IssuedFrom
  <2>4. Entry(issued[s][1]) /\ issued[s][1].stream = s
    BY <2>3 DEF PlaceInv
  <2>5. \A z \in Streams : running'[z] = Idle \/ (Entry(running'[z]) /\ running'[z].stream = z)
    BY <2>1, <2>3, <2>4 DEF PlaceInv
  <2>6. \A z \in Streams : \A i \in 1..Len(issued'[z]) :
           Entry(issued'[z][i]) /\ issued'[z][i].stream = z
    BY <2>2 DEF PlaceInv
  <2>7. \A i \in 1..Len(queue') : Entry(queue'[i])
    BY <2>1 DEF PlaceInv
  <2> QED
    BY <2>5, <2>6, <2>7 DEF PlaceInv
<1>5. ASSUME NEW s \in Streams, FinishOn(s)
      PROVE  PlaceInv'
  BY <1>5 DEF FinishOn, PlaceInv, Entry, LaunchType
<1> QED
  <2>1. CASE UNCHANGED vars
    BY <1>0, <2>1 DEF vars
  <2>2. ASSUME NEW t \in Threads, SetExtraArgs(t) \/ SetLaunchGrid(t) \/ Extend(t)
        PROVE  PlaceInv'
    BY <1>0, <2>2, PrepareSteps DEF Prepares
  <2>3. ASSUME NEW t \in Threads, SwitchStream(t) \/ Launcher(t) \/ Release(t)
        PROVE  PlaceInv'
    BY <1>0, <2>3 DEF SwitchStream, Launcher, Release
  <2> QED
    BY <1>1, <1>2, <1>3, <1>4, <1>5, <2>1, <2>2, <2>3 DEF Next, Call, Device

-----------------------------------------------------------------------------
\* The dispatch that waits.

\* Nobody waits in the launcher: no kernel is in flight.
LEMMA NobodyWaits ==
    ASSUME WaitInv, taskqueue # a5, ~(gil \in Threads /\ pc[gil] = "wait")
    PROVE  NoKernel
BY DEF WaitInv, Awaited, NoKernel

\* While no kernel is in flight, every one is awaited.
LEMMA NothingAwaited == NoKernel => WaitInv
BY DEF WaitInv, Awaited, NoKernel

\* A step keeps every kernel in flight awaited.
LEMMA NextWait ==
    ASSUME LaunchType, LockInv, PlaceInv, WaitInv, [Next]_vars
    PROVE  WaitInv'
<1> SUFFICES ASSUME UNCHANGED setting, taskqueue # a5
             PROVE  WaitInv'
  BY DEF Next, vars, setting, WaitInv
<1>0. CASE UNCHANGED vars
  BY <1>0 DEF vars, setting, python, device, WaitInv, Awaited
<1>1. ASSUME NEW t \in Threads, Produce(t)
      PROVE  WaitInv'
  <2> DEFINE e == [kind |-> "input", thread |-> t, call |-> calls[t] + 1, stream |-> stream[t]]
  <2>1. queue' = Append(queue, e) /\ issued' = issued /\ running' = running /\ List(queue)
    BY <1>1 DEF Produce, LaunchType
  <2>2. NoKernel /\ e.kind # "kernel"
    BY <1>1, NobodyWaits, LaunchAssumption DEF Produce
  <2> HIDE DEF e
  <2>3. \A i \in 1..Len(queue') : queue'[i] = e \/ (i \in 1..Len(queue) /\ queue'[i] = queue[i])
    BY <2>1, ListAppend
  <2>4. NoKernel'
    BY <2>1, <2>2, <2>3 DEF NoKernel
  <2> QED
    BY <2>4, NothingAwaited, PTL
<1>2. ASSUME UNCHANGED device, gil = "free"
      PROVE  WaitInv'
  <2>1. NoKernel
    BY <1>2, NobodyWaits, LaunchAssumption
  <2>2. NoKernel'
    BY <1>2, <2>1 DEF device, NoKernel
  <2> QED
    BY <2>2, NothingAwaited, PTL
<1>3. ASSUME NEW t \in Threads, Dispatch(t)
      PROVE  WaitInv'
  <2> DEFINE e == Handler(t)
  <2>1. /\ gil' = t /\ gil = t /\ pc[t] = "dispatch" /\ pc'[t] = "wait"
        /\ stream' = stream /\ e.stream = stream[t] /\ stream[t] \in Streams
        /\ running' = running /\ e.kind = "kernel"
    BY Zenon, <1>3, HandlerIs DEF Dispatch, Goto, LaunchType
  <2>2. NoKernel
    BY <2>1, NobodyWaits
  <2>3. CASE taskqueue
    <3>1. queue' = Append(queue, e) /\ issued' = issued /\ List(queue)
      BY <1>3, <2>3, HandlerIs DEF LaunchType
    <3> HIDE DEF e
    <3>2. \A i \in 1..Len(queue') : queue'[i] = e \/ (i \in 1..Len(queue) /\ queue'[i] = queue[i])
      BY <3>1, ListAppend
    <3> QED
      BY <2>1, <2>2, <2>3, <3>1, <3>2 DEF WaitInv, Awaited, NoKernel, setting
  <2>4. CASE ~taskqueue
    <3>1. queue' = queue /\ issued' = [issued EXCEPT ![stream[t]] = Append(@, e)]
      BY <1>3, <2>4, HandlerIs
    <3> HIDE DEF e
    <3>2. \A z \in Streams : \A i \in 1..Len(issued'[z]) :
             \/ issued'[z][i] = e
             \/ i \in 1..Len(issued[z]) /\ issued'[z][i] = issued[z][i]
      BY SMTT(20), <2>1, <3>1, IssuedTo
    <3> QED
      BY <2>1, <2>2, <3>1, <3>2 DEF WaitInv, Awaited, NoKernel
  <2> QED
    BY <2>3, <2>4
<1>4. ASSUME NEW t \in Threads, Release(t)
      PROVE  WaitInv'
  <2>1. gil = t /\ pc[t] = "wait" /\ stream[t] \in Streams /\ UNCHANGED device
    BY <1>4 DEF Release, LockInv, Held, LaunchType
  <2>2. issued[stream[t]] = <<>> /\ running[stream[t]] = Idle /\ (taskqueue => queue = <<>>)
    BY <1>4 DEF Release, Synchronised, Drained, LaunchStream, LaunchType
  <2>3. Len(<<>>) = 0
    BY ListEmpty
  <2>4. \A i \in 1..Len(queue) : queue[i].kind # "kernel"
    BY <2>2, <2>3 DEF WaitInv
  <2>5. ASSUME NEW s \in Streams, NEW i \in 1..Len(issued[s])
        PROVE  issued[s][i].kind # "kernel"
    BY <2>1, <2>2, <2>3 DEF WaitInv, Awaited, PlaceInv
  <2>6. ASSUME NEW s \in Streams
        PROVE  running[s].kind # "kernel"
    BY <2>1, <2>2 DEF WaitInv, Awaited, PlaceInv, Idle
  <2>7. NoKernel
    BY <2>4, <2>5, <2>6 DEF NoKernel
  <2>8. NoKernel'
    BY <2>1, <2>7 DEF device, NoKernel
  <2> QED
    BY <2>8, NothingAwaited, PTL
<1>5. ASSUME Consume
      PROVE  WaitInv'
  <2>1. UNCHANGED <<gil, pc, stream, running>>
    BY <1>5 DEF Consume, python
  <2>2. /\ 1 \in 1..Len(queue) /\ queue[1].stream \in Streams
        /\ issued' = [issued EXCEPT ![queue[1].stream] = Append(@, queue[1])]
        /\ \A i \in 1..Len(queue') : queue'[i] = queue[i + 1] /\ i + 1 \in 1..Len(queue)
    BY <1>5, ConsumeIs
  <2>3. \A z \in Streams : \A i \in 1..Len(issued'[z]) :
           \/ z = queue[1].stream /\ issued'[z][i] = queue[1]
           \/ i \in 1..Len(issued[z]) /\ issued'[z][i] = issued[z][i]
    <3>1. queue[1].stream \in Streams
          /\ issued' = [issued EXCEPT ![queue[1].stream] = Append(@, queue[1])]
      BY <2>2
    <3> QED
      BY SMTT(20), <3>1, IssuedTo
  <2>4. Awaited(queue[1])
    BY <2>2 DEF WaitInv
  <2>5. \A i \in 1..Len(queue') :
           Awaited(queue[i + 1]) /\ (queue[i + 1].kind = "kernel" => taskqueue)
    BY <2>2 DEF WaitInv
  <2>6. \A i \in 1..Len(queue') :
           Awaited(queue[i])' /\ (queue'[i].kind = "kernel" => taskqueue)
    BY <2>1, <2>2, <2>5 DEF Awaited
  <2>7. \A z \in Streams : \A i \in 1..Len(issued'[z]) : Awaited(issued[z][i])'
    BY <2>1, <2>3, <2>4 DEF WaitInv, Awaited
  <2>8. \A z \in Streams : Awaited(running[z])'
    BY <2>1 DEF WaitInv, Awaited
  <2> QED
    BY <2>6, <2>7, <2>8 DEF WaitInv, setting
<1>6. ASSUME NEW s \in Streams, StartOn(s)
      PROVE  WaitInv'
  <2>1. /\ issued[s] # <<>> /\ issued' = [issued EXCEPT ![s] = Tail(@)]
        /\ running' = [running EXCEPT ![s] = Head(issued[s])] /\ DOMAIN running = Streams
        /\ UNCHANGED <<gil, pc, stream, queue>>
    BY <1>6 DEF StartOn, LaunchType, python
  <2>2. Head(issued[s]) = issued[s][1] /\ 1 \in 1..Len(issued[s])
    BY <2>1, IssuedFrom
  <2>3. \A z \in Streams : \A i \in 1..Len(issued'[z]) :
           \/ z = s /\ i + 1 \in 1..Len(issued[z]) /\ issued'[z][i] = issued[z][i + 1]
           \/ i \in 1..Len(issued[z]) /\ issued'[z][i] = issued[z][i]
    BY <2>1, IssuedFrom
  <2> QED
    BY <2>1, <2>2, <2>3 DEF WaitInv, Awaited, setting
<1>7. ASSUME NEW s \in Streams, FinishOn(s)
      PROVE  WaitInv'
  BY <1>7 DEF FinishOn, WaitInv, Awaited, LaunchType, Idle, setting, python
<1> QED
  <2>1. ASSUME NEW t \in Threads, SetExtraArgs(t) \/ SetLaunchGrid(t) \/ Extend(t)
        PROVE  WaitInv'
    BY <1>2, <2>1, PrepareSteps DEF Prepares
  <2>2. ASSUME NEW t \in Threads, SwitchStream(t) \/ Launcher(t)
        PROVE  WaitInv'
    BY <1>2, <2>2 DEF SwitchStream, Launcher
  <2> QED
    BY <1>0, <1>1, <1>3, <1>4, <1>5, <1>6, <1>7, <2>1, <2>2 DEF Next, Call, Device

-----------------------------------------------------------------------------
\* Inputs ahead of their kernels.

\* An entry behind all others in the queue: whatever was ordered is, whatever
\* was started is.
LEMMA OrderedQueued ==
    ASSUME LaunchType, NEW e, queue' = Append(queue, e), UNCHANGED <<issued, running, finished>>,
           NEW t, NEW c, NEW s
    PROVE  /\ \A n \in 0..Len(queue) : Ordered(t, c, s, n) => Ordered(t, c, s, n)'
           /\ \A n : Started(t, c, s, n) => Started(t, c, s, n)'
<1>1. \A j \in 1..Len(queue) : queue'[j] = queue[j]
  BY ListAppend DEF LaunchType
<1>2. Len(queue) \in Nat
  BY ListIs DEF LaunchType
<1>3. \A n : Started(t, c, s, n) => Started(t, c, s, n)'
  BY DEF Started, IsInput
<1>4. Started(t, c, s, Len(issued[s])) => Started(t, c, s, Len(issued[s]))'
  BY DEF Started, IsInput
<1>5. ASSUME NEW n \in 0..Len(queue), NEW j \in 1..n, IsInput(queue[j], t, c, s)
      PROVE  IsInput(queue[j], t, c, s)'
  <2>1. j \in 1..Len(queue)
    BY <1>2
  <2> QED
    BY <1>1, <1>5, <2>1 DEF IsInput
<1> QED
  BY <1>3, <1>4, <1>5 DEF Ordered

\* The consumer thread takes the head: what was among the first n of the queue
\* is issued, or among the first n - 1.
LEMMA OrderedConsumed ==
    ASSUME LaunchType, PlaceInv, Consume, NEW t, NEW c, NEW s \in Streams,
           NEW n \in 0..Len(queue), Ordered(t, c, s, n)
    PROVE  Ordered(t, c, s, n - 1)'
<1> DEFINE z == queue[1].stream
           h == queue[1]
<1>1. /\ 1 \in 1..Len(queue) /\ Len(queue) \in Nat /\ z \in Streams
      /\ Len(queue') = Len(queue) - 1
      /\ \A i \in 1..Len(queue') : queue'[i] = queue[i + 1]
      /\ issued' = [issued EXCEPT ![z] = Append(@, h)]
      /\ running' = running /\ finished' = finished
  BY ConsumeIs DEF Consume
<1>2. /\ Len(issued[s]) \in Nat /\ Len(issued'[s]) \in Nat
      /\ \A j \in 1..Len(issued[s]) : j \in 1..Len(issued'[s]) /\ issued'[s][j] = issued[s][j]
      /\ s = z => /\ Len(issued[s]) + 1 \in 1..Len(issued'[s])
                  /\ issued'[s][Len(issued[s]) + 1] = h
  <2>1. List(issued[s]) /\ Len(issued[s]) \in Nat
    BY ListIs DEF LaunchType
  <2> HIDE DEF z, h
  <2>2. CASE s = z
    <3>1. /\ Len(issued'[s]) = Len(issued[s]) + 1 /\ issued'[s][Len(issued[s]) + 1] = h
          /\ \A j \in 1..Len(issued[s]) : issued'[s][j] = issued[s][j]
      BY Zenon, <1>1, <2>2, IssuedTo
    <3> QED
      BY <2>1, <3>1
  <2>3. CASE s # z
    <3>1. issued'[s] = issued[s]
      BY <1>1, <2>3, IssuedTo
    <3> QED
      BY <2>1, <2>3, <3>1
  <2> QED
    BY <2>2, <2>3
<1>3. CASE Started(t, c, s, Len(issued[s]))
  <2>1. Started(t, c, s, Len(issued[s]))'
    BY <1>1, <1>2, <1>3 DEF Started, IsInput
  <2> QED
    BY <2>1 DEF Ordered
<1>4. ASSUME NEW j \in 1..n, IsInput(queue[j], t, c, s)
      PROVE  Ordered(t, c, s, n - 1)'
  <2>1. CASE j = 1
    <3>1. h.stream = s /\ IsInput(h, t, c, s)
      BY <1>4, <2>1 DEF IsInput
    <3>2. IsInput(issued'[s][Len(issued[s]) + 1], t, c, s) /\ Len(issued[s]) + 1 \in 1..Len(issued'[s])
      BY <1>2, <3>1
    <3>3. Started(t, c, s, Len(issued[s]))'
      BY <3>2 DEF Started, IsInput
    <3> QED
      BY <3>3 DEF Ordered
  <2>2. CASE j # 1
    <3>1. j - 1 \in 1..(n - 1) /\ j - 1 \in 1..Len(queue') /\ (j - 1) + 1 = j
      BY <1>1, <2>2
    <3>2. queue'[j - 1] = queue[j]
      BY <1>1, <3>1
    <3>3. IsInput(queue'[j - 1], t, c, s)
      BY <1>4, <3>2
    <3> QED
      BY <3>1, <3>3 DEF Ordered, IsInput
  <2> QED
    BY <2>1, <2>2
<1> QED
  BY <1>3, <1>4 DEF Ordered

\* A launch starts: what was among the first n of its stream is running, or
\* among the first n - 1.
LEMMA StartedStarts ==
    ASSUME LaunchType, NEW s \in Streams, StartOn(s), NEW t, NEW c,
           NEW n \in 0..Len(issued[s]), Started(t, c, s, n)
    PROVE  Started(t, c, s, n - 1)'
<1>1. /\ issued[s] # <<>> /\ issued' = [issued EXCEPT ![s] = Tail(@)]
      /\ running' = [running EXCEPT ![s] = Head(issued[s])] /\ DOMAIN running = Streams
      /\ running[s] = Idle /\ finished' = finished
  BY DEF StartOn, LaunchType
<1>2. /\ Len(issued[s]) \in Nat /\ Len(issued'[s]) = Len(issued[s]) - 1
      /\ running'[s] = issued[s][1]
      /\ \A i \in 1..Len(issued'[s]) : issued'[s][i] = issued[s][i + 1]
  BY Zenon, <1>1, IssuedFrom
<1>3. ~IsInput(running[s], t, c, s)
  BY <1>1 DEF IsInput, Idle
<1>4. CASE <<"input", t, c>> \in finished
  BY <1>1, <1>4 DEF Started
<1>5. ASSUME NEW j \in 1..n, IsInput(issued[s][j], t, c, s)
      PROVE  Started(t, c, s, n - 1)'
  <2>1. CASE j = 1
    BY <1>2, <1>5, <2>1 DEF Started, IsInput
  <2>2. CASE j # 1
    <3>1. j - 1 \in 1..(n - 1) /\ j - 1 \in 1..Len(issued'[s]) /\ (j - 1) + 1 = j
      BY <1>2, <2>2
    <3>2. issued'[s][j - 1] = issued[s][j]
      BY <1>2, <3>1
    <3>3. IsInput(issued'[s][j - 1], t, c, s)
      BY <1>5, <3>2
    <3> QED
      BY <3>1, <3>3 DEF Started, IsInput
  <2> QED
    BY <2>1, <2>2
<1> QED
  BY <1>3, <1>4, <1>5 DEF Started

\* A launch starts on z: what was ordered is.
LEMMA OrderedStarts ==
    ASSUME LaunchType, NEW z \in Streams, StartOn(z), NEW t, NEW c, NEW s \in Streams, NEW n
    PROVE  /\ Ordered(t, c, s, n) => Ordered(t, c, s, n)'
           /\ s # z => (Started(t, c, s, n) => Started(t, c, s, n)')
<1>1. /\ issued[z] # <<>> /\ issued' = [issued EXCEPT ![z] = Tail(@)] /\ queue' = queue
      /\ running' = [running EXCEPT ![z] = Head(issued[z])] /\ DOMAIN running = Streams
      /\ finished' = finished
  BY DEF StartOn, LaunchType
<1>2. s # z => issued'[s] = issued[s] /\ running'[s] = running[s]
  BY <1>1, IssuedFrom
<1>3. \A m : s # z => (Started(t, c, s, m) => Started(t, c, s, m)')
  BY <1>1, <1>2 DEF Started, IsInput
<1>4. ASSUME Started(t, c, s, Len(issued[s]))
      PROVE  Started(t, c, s, Len(issued[s]))'
  <2>1. CASE s # z
    <3>1. Started(t, c, s, Len(issued'[s]))
      BY <1>2, <1>4, <2>1
    <3> QED
      BY <1>1, <1>2, <2>1, <3>1 DEF Started, IsInput
  <2>2. CASE s = z
    <3>1. Len(issued[s]) \in 0..Len(issued[s]) /\ Len(issued'[s]) = Len(issued[s]) - 1
      <4>1. Len(issued[s]) \in Nat /\ Len(issued'[s]) = Len(issued[s]) - 1
        BY Zenon, <1>1, <2>2, IssuedFrom
      <4> QED
        BY <4>1
    <3> DEFINE n0 == Len(issued[s])
    <3>2. ASSUME NEW k, k = n0 - 1
          PROVE  Started(t, c, s, k)'
      BY <1>4, <2>2, <3>1, <3>2, StartedStarts
    <3>3. \A k : k = Len(issued'[s]) => Started(t, c, s, k)'
      BY <3>1, <3>2
    <3> QED
      BY Zenon, <3>3 DEF Started
  <2> QED
    BY <2>1, <2>2
<1>5. ASSUME NEW j \in 1..n, IsInput(queue[j], t, c, s)
      PROVE  IsInput(queue[j], t, c, s)'
  BY <1>1, <1>5 DEF IsInput
<1> QED
  BY <1>3, <1>4, <1>5 DEF Ordered

\* A launch finishes on z: what was started is, what was ordered is.
LEMMA OrderedFinishes ==
    ASSUME LaunchType, NEW z \in Streams, FinishOn(z), NEW t, NEW c, NEW s \in Streams, NEW n
    PROVE  /\ Ordered(t, c, s, n) => Ordered(t, c, s, n)'
           /\ Started(t, c, s, n) => Started(t, c, s, n)'
<1>1. /\ issued' = issued /\ queue' = queue /\ DOMAIN running = Streams
      /\ running' = [running EXCEPT ![z] = Idle]
      /\ finished' = finished \cup {<<running[z].kind, running[z].thread, running[z].call>>}
  BY DEF FinishOn, LaunchType
<1>2. IsInput(running[s], t, c, s) => <<"input", t, c>> \in finished' \/ IsInput(running'[s], t, c, s)
  BY <1>1 DEF IsInput
<1>3. \A m : Started(t, c, s, m) => Started(t, c, s, m)'
  BY <1>1, <1>2 DEF Started, IsInput
<1>4. Started(t, c, s, Len(issued[s])) => Started(t, c, s, Len(issued[s]))'
  BY <1>1, <1>2 DEF Started, IsInput
<1> QED
  BY <1>1, <1>3, <1>4 DEF Ordered, IsInput

\* A step keeps every input ahead of its kernel.
LEMMA NextInput ==
    ASSUME LaunchType, LockInv, PlaceInv, InputInv, [Next]_vars
    PROVE  InputInv'
<1> SUFFICES ASSUME UNCHANGED setting, taskqueue
             PROVE  InputInv'
  BY Zenon DEF Next, vars, setting, InputInv
<1>0. ASSUME UNCHANGED <<device, calls>>,
             \A r \in Threads : pc'[r] # "idle" => pc[r] # "idle" /\ stream'[r] = stream[r]
      PROVE  InputInv'
  <2>1. UNCHANGED <<queue, issued, running, finished, calls, taskqueue>>
    BY <1>0 DEF device, setting
  <2>2. \A r, c, s, n : Started(r, c, s, n)' <=> Started(r, c, s, n)
    BY <2>1 DEF Started, IsInput
  <2>3. \A r, c, s, n : Ordered(r, c, s, n)' <=> Ordered(r, c, s, n)
    BY <2>1 DEF Ordered, Started, IsInput
  <2>4. ASSUME NEW r \in Threads, pc'[r] # "idle"
        PROVE  Ordered(r, calls[r], stream[r], Len(queue))'
    <3>1. Ordered(r, calls[r], stream[r], Len(queue)) /\ stream'[r] = stream[r]
      BY <1>0, <2>4 DEF InputInv
    <3>2. \A c, s, n : c = calls[r] /\ s = stream[r] /\ n = Len(queue) => Ordered(r, c, s, n)'
      BY <2>3, <3>1
    <3> QED
      BY <2>1, <3>1, <3>2
  <2>5. ASSUME NEW i \in 1..Len(queue'), queue'[i].kind = "kernel"
        PROVE  Ordered(queue[i].thread, queue[i].call, queue[i].stream, i - 1)'
    <3>1. \A r, c, s : r = queue[i].thread /\ c = queue[i].call /\ s = queue[i].stream
             => Ordered(r, c, s, i - 1)'
      BY <2>1, <2>3, <2>5 DEF InputInv
    <3> QED
      BY <2>1, <3>1
  <2>6. ASSUME NEW s \in Streams, NEW i \in 1..Len(issued'[s]), issued'[s][i].kind = "kernel"
        PROVE  Started(issued[s][i].thread, issued[s][i].call, s, i - 1)'
    <3>1. \A r, c : r = issued[s][i].thread /\ c = issued[s][i].call => Started(r, c, s, i - 1)'
      BY <2>1, <2>2, <2>6 DEF InputInv
    <3> QED
      BY <2>1, <3>1
  <2>7. InputsReady'
    BY <2>1 DEF InputInv, InputsReady
  <2> QED
    BY <2>4, <2>5, <2>6, <2>7 DEF InputInv
<1>1. ASSUME NEW t \in Threads, NEW e, queue' = Append(queue, e),
             UNCHANGED <<issued, running, finished, stream>>,
             e.kind = "kernel" => Ordered(e.thread, e.call, e.stream, Len(queue)),
             \A r \in Threads : pc'[r] # "idle" =>
                 \/ pc[r] # "idle" /\ calls'[r] = calls[r]
                 \/ IsInput(e, r, calls'[r], stream[r])
      PROVE  InputInv'
  <2>1. /\ Len(queue) \in Nat /\ Len(queue') = Len(queue) + 1 /\ queue'[Len(queue) + 1] = e
        /\ \A i \in 1..Len(queue) : queue'[i] = queue[i]
    BY <1>1, ListAppend DEF LaunchType
  <2>2. \A r, c, s : /\ \A n \in 0..Len(queue) : Ordered(r, c, s, n) => Ordered(r, c, s, n)'
                     /\ \A n : Started(r, c, s, n) => Started(r, c, s, n)'
    BY <1>1, OrderedQueued
  <2>3. \A r, c, s : Ordered(r, c, s, Len(queue)) => Ordered(r, c, s, Len(queue))'
    <3> TAKE r, c, s
    <3>1. HAVE Ordered(r, c, s, Len(queue))
    <3>2. \A n : n = Len(queue) => Ordered(r, c, s, n)'
      BY <2>1, <2>2, <3>1
    <3>3. \A n : n = Len(queue) => 1..n \subseteq 1..Len(queue')
      BY <2>1
    <3> QED
      BY Zenon, <3>2, <3>3 DEF Ordered
  <2>4. ASSUME NEW r \in Threads, pc'[r] # "idle"
        PROVE  Ordered(r, calls[r], stream[r], Len(queue))'
    <3>1. CASE pc[r] # "idle" /\ calls'[r] = calls[r]
      <4>1. Ordered(r, calls[r], stream[r], Len(queue))
        BY <3>1 DEF InputInv
      <4>2. \A c, s : c = calls[r] /\ s = stream[r] => Ordered(r, c, s, Len(queue))'
        BY <2>3, <4>1
      <4> QED
        BY <1>1, <3>1, <4>2
    <3>2. CASE IsInput(e, r, calls'[r], stream[r])
      <4>1. Len(queue) + 1 \in 1..Len(queue') /\ IsInput(queue'[Len(queue) + 1], r, calls'[r], stream'[r])
        BY <1>1, <2>1, <3>2
      <4> QED
        BY <4>1 DEF Ordered, IsInput
    <3> QED
      BY <1>1, <2>4, <3>1, <3>2
  <2>5. ASSUME NEW i \in 1..Len(queue'), queue'[i].kind = "kernel"
        PROVE  Ordered(queue[i].thread, queue[i].call, queue[i].stream, i - 1)'
    <3>1. CASE i \in 1..Len(queue)
      <4>1. queue'[i] = queue[i] /\ i - 1 \in 0..Len(queue)
        BY <2>1, <3>1
      <4>2. Ordered(queue[i].thread, queue[i].call, queue[i].stream, i - 1)
        BY <2>5, <3>1, <4>1 DEF InputInv
      <4>3. \A r, c, s : r = queue[i].thread /\ c = queue[i].call /\ s = queue[i].stream
                => Ordered(r, c, s, i - 1)'
        BY Zenon, <2>2, <4>1, <4>2
      <4> QED
        BY <4>1, <4>3
    <3>2. CASE i = Len(queue) + 1
      <4>1. queue'[i] = e /\ i - 1 = Len(queue) /\ Len(queue) \in 0..Len(queue)
        BY <2>1, <3>2
      <4>2. Ordered(e.thread, e.call, e.stream, i - 1) /\ i - 1 \in 0..Len(queue)
        BY <1>1, <2>5, <4>1
      <4>3. Ordered(e.thread, e.call, e.stream, i - 1)'
        BY <2>2, <4>2
      <4> QED
        BY <4>1, <4>3
    <3> QED
      BY <2>1, <3>1, <3>2
  <2>6. \A s \in Streams : \A i \in 1..Len(issued'[s]) : issued'[s][i].kind = "kernel" =>
              Started(issued[s][i].thread, issued[s][i].call, s, i - 1)'
    <3> TAKE s \in Streams
    <3> TAKE i \in 1..Len(issued'[s])
    <3>1. HAVE issued'[s][i].kind = "kernel"
    <3>2. Started(issued[s][i].thread, issued[s][i].call, s, i - 1)
      BY <1>1, <3>1 DEF InputInv
    <3>3. \A r, c : r = issued[s][i].thread /\ c = issued[s][i].call => Started(r, c, s, i - 1)'
      BY <2>2, <3>2
    <3> QED
      BY <1>1, <3>3
  <2>7. InputsReady'
    BY <1>1 DEF InputInv, InputsReady, setting
  <2> QED
    BY <2>4, <2>5, <2>6, <2>7 DEF InputInv
<1>2. ASSUME NEW t \in Threads, Produce(t)
      PROVE  InputInv'
  <2> DEFINE e == [kind |-> "input", thread |-> t, call |-> calls[t] + 1, stream |-> stream[t]]
  <2>1. queue' = Append(queue, e) /\ UNCHANGED <<issued, running, finished, stream>>
    BY <1>2 DEF Produce
  <2>2. e.kind # "kernel"
    OBVIOUS
  <2>3. \A r \in Threads : pc'[r] # "idle" =>
                 \/ pc[r] # "idle" /\ calls'[r] = calls[r]
                 \/ IsInput(e, r, calls'[r], stream[r])
    BY <1>2 DEF Produce, Goto, LaunchType, IsInput
  <2> HIDE DEF e
  <2> QED
    BY <1>1, <2>1, <2>2, <2>3
<1>3. ASSUME NEW t \in Threads, Dispatch(t)
      PROVE  InputInv'
  <2>1. queue' = Append(queue, Handler(t)) /\ UNCHANGED <<issued, running, finished, stream>>
    BY <1>3, HandlerIs DEF Dispatch
  <2>2. pc[t] # "idle" /\ Ordered(t, calls[t], stream[t], Len(queue))
    BY <1>3 DEF Dispatch, InputInv
  <2>3. Ordered(Handler(t).thread, Handler(t).call, Handler(t).stream, Len(queue))
    BY <1>3, <2>2, HandlerIs
  <2>4. \A r \in Threads : pc'[r] # "idle" => pc[r] # "idle" /\ calls'[r] = calls[r]
    BY <1>3 DEF Dispatch, Goto, LaunchType
  <2> QED
    BY <1>1, <2>1, <2>3, <2>4
<1>4. ASSUME Consume
      PROVE  InputInv'
  <2>1. /\ 1 \in 1..Len(queue) /\ Len(queue) \in Nat /\ queue[1].stream \in Streams
        /\ Len(queue') = Len(queue) - 1
        /\ \A i \in 1..Len(queue') : queue'[i] = queue[i + 1] /\ i + 1 \in 1..Len(queue)
        /\ issued' = [issued EXCEPT ![queue[1].stream] = Append(@, queue[1])]
        /\ UNCHANGED <<running, finished, pc, calls, stream>>
    BY <1>4, ConsumeIs DEF Consume, python
  <2>2. ASSUME NEW r \in Threads, pc'[r] # "idle"
        PROVE  Ordered(r, calls[r], stream[r], Len(queue))'
    <3>1. Ordered(r, calls[r], stream[r], Len(queue)) /\ stream[r] \in Streams
          /\ Len(queue) \in 0..Len(queue)
      BY <2>1, <2>2 DEF InputInv, LaunchType
    <3>2. \A c, s, n : c = calls[r] /\ s = stream[r] /\ n = Len(queue) => Ordered(r, c, s, n - 1)'
      BY <1>4, <3>1, OrderedConsumed
    <3>3. \A c, s, m : c = calls'[r] /\ s = stream'[r] /\ m = Len(queue') => Ordered(r, c, s, m)'
      BY <2>1, <3>2
    <3> QED
      BY <3>3 DEF Ordered
  <2>3. ASSUME NEW i \in 1..Len(queue'), queue'[i].kind = "kernel"
        PROVE  Ordered(queue[i].thread, queue[i].call, queue[i].stream, i - 1)'
    <3>1. queue'[i] = queue[i + 1] /\ i + 1 \in 1..Len(queue) /\ i \in 0..Len(queue) /\ (i + 1) - 1 = i
      BY <2>1
    <3>2. Ordered(queue[i + 1].thread, queue[i + 1].call, queue[i + 1].stream, (i + 1) - 1)
          /\ queue[i + 1].stream \in Streams
      BY <2>3, <3>1 DEF InputInv, PlaceInv, Entry
    <3>3. \A r, c, s : r = queue[i + 1].thread /\ c = queue[i + 1].call /\ s = queue[i + 1].stream
             => Ordered(r, c, s, i - 1)'
      BY <1>4, <3>1, <3>2, OrderedConsumed
    <3> QED
      BY <3>1, <3>3
  <2>4. ASSUME NEW s \in Streams, NEW i \in 1..Len(issued'[s]), issued'[s][i].kind = "kernel"
        PROVE  Started(issued[s][i].thread, issued[s][i].call, s, i - 1)'
    <3> DEFINE z == queue[1].stream
               h == queue[1]
    <3>1. z \in Streams /\ issued' = [issued EXCEPT ![z] = Append(@, h)]
      BY <2>1
    <3>2. Ordered(h.thread, h.call, z, 1 - 1) \/ h.kind # "kernel"
      BY <2>1 DEF InputInv
    <3> HIDE DEF z, h
    <3>3. /\ Len(issued[s]) \in Nat
          /\ \A j \in 1..Len(issued[s]) : issued'[s][j] = issued[s][j]
          /\ \/ i \in 1..Len(issued[s])
             \/ s = z /\ i = Len(issued[s]) + 1 /\ issued'[s][i] = h
      <4>1. Len(issued[s]) \in Nat
        BY ListIs DEF LaunchType
      <4>2. \A j \in 1..Len(issued[s]) : issued'[s][j] = issued[s][j]
        BY <3>1, IssuedTo
      <4> QED
        BY <3>1, <4>1, <4>2, IssuedTo
    <3>4. ASSUME NEW r, NEW c, Started(r, c, s, i - 1)
          PROVE  Started(r, c, s, i - 1)'
      <4>1. \A j \in 1..(i - 1) : j \in 1..Len(issued[s])
        BY <3>3
      <4> QED
        BY Zenon, <2>1, <3>3, <3>4, <4>1 DEF Started, IsInput
    <3>5. CASE i \in 1..Len(issued[s])
      <4>1. Started(issued[s][i].thread, issued[s][i].call, s, i - 1) /\ issued'[s][i] = issued[s][i]
        BY <2>4, <3>3, <3>5 DEF InputInv
      <4> QED
        BY <3>4, <4>1
    <3>6. CASE s = z /\ i = Len(issued[s]) + 1 /\ issued'[s][i] = h
      <4>1. i - 1 = Len(issued[s]) /\ 1..(1 - 1) = {}
        BY <3>3, <3>6
      <4>2. Started(h.thread, h.call, s, i - 1)
        BY <2>4, <3>2, <3>6, <4>1 DEF Ordered
      <4>3. \A r, c : r = h.thread /\ c = h.call => Started(r, c, s, i - 1)'
        BY <3>4, <4>2
      <4> QED
        BY <3>6, <4>3
    <3> QED
      BY <3>3, <3>5, <3>6
  <2>5. InputsReady'
    BY <2>1 DEF InputInv, InputsReady, setting
  <2> QED
    BY <2>2, <2>3, <2>4, <2>5 DEF InputInv
<1>5. ASSUME NEW z \in Streams, StartOn(z)
      PROVE  InputInv'
  <2>1. /\ issued[z] # <<>> /\ issued' = [issued EXCEPT ![z] = Tail(@)] /\ queue' = queue
        /\ running' = [running EXCEPT ![z] = Head(issued[z])] /\ DOMAIN running = Streams
        /\ UNCHANGED <<finished, pc, calls, stream>> /\ running[z] = Idle
    BY <1>5 DEF StartOn, LaunchType, python
  <2>2. /\ Len(issued[z]) \in Nat /\ Len(issued[z]) >= 1
        /\ Head(issued[z]) = issued[z][1] /\ Len(issued'[z]) = Len(issued[z]) - 1
        /\ \A i \in 1..Len(issued'[z]) :
              i + 1 \in 1..Len(issued[z]) /\ issued'[z][i] = issued[z][i + 1]
        /\ \A s \in Streams : s # z => issued'[s] = issued[s]
    BY Zenon, <2>1, IssuedFrom
  <2>3. ASSUME NEW r \in Threads, pc'[r] # "idle"
        PROVE  Ordered(r, calls[r], stream[r], Len(queue))'
    <3>1. Ordered(r, calls[r], stream[r], Len(queue)) /\ stream[r] \in Streams
      BY <2>1, <2>3 DEF InputInv, LaunchType
    <3>2. \A c, s, n : c = calls[r] /\ s = stream[r] /\ n = Len(queue) => Ordered(r, c, s, n)'
      BY <1>5, <3>1, OrderedStarts
    <3> QED
      BY <2>1, <3>2
  <2>4. ASSUME NEW i \in 1..Len(queue'), queue'[i].kind = "kernel"
        PROVE  Ordered(queue[i].thread, queue[i].call, queue[i].stream, i - 1)'
    <3>1. Ordered(queue[i].thread, queue[i].call, queue[i].stream, i - 1)
          /\ queue[i].stream \in Streams
      BY <2>1, <2>4 DEF InputInv, PlaceInv, Entry
    <3>2. \A r, c, s : r = queue[i].thread /\ c = queue[i].call /\ s = queue[i].stream
             => Ordered(r, c, s, i - 1)'
      BY <1>5, <3>1, OrderedStarts
    <3> QED
      BY <2>1, <3>2
  <2>5. ASSUME NEW s \in Streams, NEW i \in 1..Len(issued'[s]), issued'[s][i].kind = "kernel"
        PROVE  Started(issued[s][i].thread, issued[s][i].call, s, i - 1)'
    <3>1. CASE s # z
      <4>1. Started(issued[s][i].thread, issued[s][i].call, s, i - 1) /\ issued'[s] = issued[s]
        BY <2>2, <2>5, <3>1 DEF InputInv
      <4>2. \A r, c : r = issued[s][i].thread /\ c = issued[s][i].call => Started(r, c, s, i - 1)'
        BY <1>5, <3>1, <4>1, OrderedStarts
      <4> QED
        BY <4>1, <4>2
    <3>2. CASE s = z
      <4>1. i + 1 \in 1..Len(issued[s]) /\ issued'[s][i] = issued[s][i + 1]
            /\ i \in 0..Len(issued[s]) /\ (i + 1) - 1 = i
        BY SMTT(20), <2>2, <3>2
      <4>2. Started(issued[s][i + 1].thread, issued[s][i + 1].call, s, i)
        BY Zenon, <2>5, <4>1 DEF InputInv
      <4>3. \A r, c : r = issued[s][i + 1].thread /\ c = issued[s][i + 1].call
               => Started(r, c, s, i - 1)'
        BY <1>5, <3>2, <4>1, <4>2, StartedStarts
      <4> QED
        BY <4>1, <4>3
    <3> QED
      BY <3>1, <3>2
  <2>6. InputsReady'
    <3> SUFFICES ASSUME NEW s \in Streams, running'[s].kind = "kernel"
                 PROVE  <<"input", running'[s].thread, running'[s].call>> \in finished'
      BY DEF InputsReady
    <3>1. CASE s # z
      BY <2>1, <3>1 DEF InputInv, InputsReady
    <3>2. CASE s = z
      <4>1. running'[s] = issued[s][1] /\ 1 \in 1..Len(issued[s]) /\ 1..(1 - 1) = {}
        BY <2>1, <2>2, <3>2
      <4>2. Started(running'[s].thread, running'[s].call, s, 1 - 1)
        BY <4>1 DEF InputInv
      <4> QED
        BY <2>1, <3>2, <4>1, <4>2 DEF Started, IsInput, Idle
    <3> QED
      BY <3>1, <3>2
  <2> QED
    BY <2>3, <2>4, <2>5, <2>6 DEF InputInv
<1>6. ASSUME NEW z \in Streams, FinishOn(z)
      PROVE  InputInv'
  <2>1. /\ UNCHANGED <<issued, queue, pc, calls, stream>> /\ DOMAIN running = Streams
        /\ running' = [running EXCEPT ![z] = Idle] /\ finished \subseteq finished'
    BY <1>6 DEF FinishOn, LaunchType, python
  <2>2. ASSUME NEW r \in Threads, pc'[r] # "idle"
        PROVE  Ordered(r, calls[r], stream[r], Len(queue))'
    <3>1. Ordered(r, calls[r], stream[r], Len(queue)) /\ stream[r] \in Streams
      BY <2>1, <2>2 DEF InputInv, LaunchType
    <3>2. \A c, s, n : c = calls[r] /\ s = stream[r] /\ n = Len(queue) => Ordered(r, c, s, n)'
      BY <1>6, <3>1, OrderedFinishes
    <3> QED
      BY <2>1, <3>2
  <2>3. ASSUME NEW i \in 1..Len(queue'), queue'[i].kind = "kernel"
        PROVE  Ordered(queue[i].thread, queue[i].call, queue[i].stream, i - 1)'
    <3>1. Ordered(queue[i].thread, queue[i].call, queue[i].stream, i - 1)
          /\ queue[i].stream \in Streams
      BY <2>1, <2>3 DEF InputInv, PlaceInv, Entry
    <3>2. \A r, c, s : r = queue[i].thread /\ c = queue[i].call /\ s = queue[i].stream
             => Ordered(r, c, s, i - 1)'
      BY <1>6, <3>1, OrderedFinishes
    <3> QED
      BY <2>1, <3>2
  <2>4. ASSUME NEW s \in Streams, NEW i \in 1..Len(issued'[s]), issued'[s][i].kind = "kernel"
        PROVE  Started(issued[s][i].thread, issued[s][i].call, s, i - 1)'
    <3>1. Started(issued[s][i].thread, issued[s][i].call, s, i - 1)
      BY <2>1, <2>4 DEF InputInv
    <3>2. \A r, c : r = issued[s][i].thread /\ c = issued[s][i].call => Started(r, c, s, i - 1)'
      BY <1>6, <3>1, OrderedFinishes
    <3> QED
      BY <2>1, <3>2
  <2>5. InputsReady'
    BY <2>1 DEF InputInv, InputsReady, Idle
  <2> QED
    BY <2>2, <2>3, <2>4, <2>5 DEF InputInv
<1> QED
  <2>1. CASE UNCHANGED vars
    BY <1>0, <2>1 DEF vars, python
  <2>2. ASSUME NEW t \in Threads, SetExtraArgs(t) \/ SetLaunchGrid(t) \/ Extend(t)
        PROVE  InputInv'
    <3>1. Prepares(t)
      BY <2>2, PrepareSteps
    <3> QED
      BY <1>0, <3>1 DEF Prepares, Inside, LaunchType
  <2>3. ASSUME NEW t \in Threads, SwitchStream(t)
        PROVE  InputInv'
    BY <1>0, <2>3 DEF SwitchStream, LaunchType
  <2>4. ASSUME NEW t \in Threads, Launcher(t) \/ Release(t)
        PROVE  InputInv'
    BY <1>0, <2>4 DEF Launcher, Release, Goto, LaunchType
  <2> QED
    BY <1>2, <1>3, <1>4, <1>5, <1>6, <2>1, <2>2, <2>3, <2>4 DEF Next, Call, Device

-----------------------------------------------------------------------------
\* The kernel object, shared by its callers.

\* A thread that is inside __call__ denies the object to every other call: an
\* uncontended one is then at most the thread itself.
LEMMA Intruder ==
    ASSUME OwnInv, NEW t \in Threads, pc[t] \in Inside
    PROVE  \A r \in Threads \ {t} : pc[r] \in Inside \cup {"dispatch"} => contended[r]
BY DEF OwnInv

\* A step keeps what an uncontended call stored in the kernel object.
LEMMA NextOwn ==
    ASSUME LaunchType, LockInv, OwnInv, [Next]_vars
    PROVE  OwnInv'
<1>0. ASSUME UNCHANGED <<kernel, attr, env, extended, contended>>,
             \A r \in Threads : pc'[r] = pc[r] \/ pc'[r] \notin Inside \cup {"dispatch"}
      PROVE  OwnInv'
  BY <1>0 DEF OwnInv, Dynamic
<1>1. ASSUME UNCHANGED setting, NEW t \in Threads, Produce(t)
      PROVE  OwnInv'
  <2>1. /\ \A r \in Threads \ {t} : pc'[r] = pc[r] /\ contended'[r] = (contended[r] \/ pc[r] \in Inside)
        /\ pc'[t] = "extra" /\ contended'[t] = (\E r \in Threads \ {t} : pc[r] \in Inside)
    BY <1>1 DEF Produce, Goto, LaunchType
  <2>2. \A r \in Threads : pc[r] # "dispatch"
    BY <1>1, LaunchAssumption DEF Produce, LockInv, Held
  <2> QED
    BY Zenon, <2>1, <2>2 DEF OwnInv
<1>2. ASSUME NEW t \in Threads, pc[t] \in Inside, UNCHANGED contended,
             \A r \in Threads \ {t} : pc'[r] = pc[r],
             pc'[t] \in Inside \cup {"dispatch"} /\ ~contended[t] =>
                 /\ pc'[t] # "extra" => attr'.extra_args = Dynamic(t)'
                 /\ pc'[t] \notin {"extra", "grid"} => attr'.launch_grid = GridOf(kernel, Dynamic(t))'
                 /\ pc'[t] \in {"launch", "dispatch"} => extended'[t] = Dynamic(t)'
      PROVE  OwnInv'
  <2>1. \A r \in Threads \ {t} : pc[r] \in Inside \cup {"dispatch"} => contended[r]
    BY <1>2, Intruder
  <2>2. ~contended[t] => \A r \in Threads \ {t} : pc[r] \notin Inside
    BY <1>2 DEF OwnInv
  <2> QED
    BY <1>2, <2>1, <2>2 DEF OwnInv
<1>3. ASSUME UNCHANGED setting, NEW t \in Threads, SetExtraArgs(t)
      PROVE  OwnInv'
  <2>1. pc[t] \in Inside /\ contended' = contended /\ \A r \in Threads \ {t} : pc'[r] = pc[r]
    BY <1>3 DEF SetExtraArgs, Goto, Raise, LaunchType, Inside
  <2>2. \/ pc'[t] = "idle"
        \/ pc'[t] = "grid" /\ env' = env /\ attr'.extra_args = Dynamic(t)
    BY <1>3 DEF SetExtraArgs, Goto, Raise, LaunchType, ExtraArgs
  <2>3. pc'[t] = "grid" => attr'.extra_args = Dynamic(t)'
    BY <1>3, <2>2 DEF Dynamic, setting
  <2> QED
    BY <1>2, <2>1, <2>2, <2>3 DEF Inside
<1>4. ASSUME UNCHANGED setting, NEW t \in Threads, SetLaunchGrid(t)
      PROVE  OwnInv'
  <2>1. /\ pc[t] = "grid" /\ pc[t] \in Inside /\ contended' = contended
        /\ \A r \in Threads \ {t} : pc'[r] = pc[r]
    BY <1>4 DEF SetLaunchGrid, Goto, Raise, LaunchType, Inside
  <2>2. \/ pc'[t] = "idle"
        \/ /\ pc'[t] = "output" /\ env' = env /\ attr'.extra_args = attr.extra_args
           /\ attr'.launch_grid = GridOf(kernel, Dynamic(t))
    BY <1>4 DEF SetLaunchGrid, Goto, Raise, LaunchType
  <2>3. ~contended[t] => attr.extra_args = Dynamic(t)
    BY <2>1 DEF OwnInv
  <2>4. pc'[t] = "output" /\ ~contended[t] =>
           attr'.extra_args = Dynamic(t)' /\ attr'.launch_grid = GridOf(kernel, Dynamic(t))'
    BY <1>4, <2>2, <2>3 DEF Dynamic, setting
  <2> QED
    BY <1>2, <2>1, <2>2, <2>4 DEF Inside
<1>5. ASSUME UNCHANGED setting, NEW t \in Threads, Extend(t)
      PROVE  OwnInv'
  <2>1. /\ pc[t] = "output" /\ pc[t] \in Inside /\ contended' = contended /\ attr' = attr
        /\ \A r \in Threads \ {t} : pc'[r] = pc[r]
    BY <1>5 DEF Extend, Goto, Raise, LaunchType, Inside
  <2>2. \/ pc'[t] = "idle"
        \/ pc'[t] = "launch" /\ env' = env /\ extended'[t] = attr.extra_args
    BY <1>5 DEF Extend, Goto, Raise, LaunchType
  <2>3. ~contended[t] => attr.extra_args = Dynamic(t) /\ attr.launch_grid = GridOf(kernel, Dynamic(t))
    BY <2>1 DEF OwnInv
  <2>4. pc'[t] = "launch" /\ ~contended[t] =>
           /\ attr'.extra_args = Dynamic(t)' /\ attr'.launch_grid = GridOf(kernel, Dynamic(t))'
           /\ extended'[t] = Dynamic(t)'
    BY <1>5, <2>1, <2>2, <2>3 DEF Dynamic, setting
  <2> QED
    BY <1>2, <2>1, <2>2, <2>4 DEF Inside
<1>6. ASSUME UNCHANGED setting, NEW t \in Threads, Launcher(t)
      PROVE  OwnInv'
  <2>1. /\ pc[t] = "launch" /\ pc[t] \in Inside /\ pc'[t] = "dispatch"
        /\ UNCHANGED <<kernel, contended, attr, env, extended>>
        /\ \A r \in Threads \ {t} : pc'[r] = pc[r]
    BY <1>6 DEF Launcher, Goto, LaunchType, Inside, setting
  <2>2. ~contended[t] => /\ attr.extra_args = Dynamic(t) /\ extended[t] = Dynamic(t)
                         /\ attr.launch_grid = GridOf(kernel, Dynamic(t))
    BY <2>1 DEF OwnInv
  <2>3. Dynamic(t)' = Dynamic(t)
    BY <2>1 DEF Dynamic
  <2> QED
    BY <1>2, <2>1, <2>2, <2>3
<1>7. ASSUME UNCHANGED setting, NEW t \in Threads, Dispatch(t)
      PROVE  OwnInv'
  <2>1. \A r \in Threads : pc'[r] = pc[r] \/ pc'[r] = "wait"
    BY <1>7 DEF Dispatch, Goto, LaunchType
  <2> QED
    BY <1>0, <1>7, <2>1 DEF Dispatch, Inside, setting
<1>8. ASSUME UNCHANGED setting, NEW t \in Threads, Release(t)
      PROVE  OwnInv'
  <2>1. /\ pc'[t] = "idle" /\ UNCHANGED <<kernel, attr, contended>>
        /\ \A r \in Threads \ {t} : /\ pc'[r] = pc[r] /\ env'[r] = env[r]
                                     /\ extended'[r] = extended[r]
    BY <1>8 DEF Release, Goto, LaunchType, setting
  <2> QED
    BY Zenon, <2>1 DEF OwnInv, Dynamic, Inside
<1> QED
  <2>1. CASE UNCHANGED vars
    BY <1>0, <2>1 DEF vars, setting, python
  <2>2. ASSUME UNCHANGED setting, NEW t \in Threads, SwitchStream(t)
        PROVE  OwnInv'
    BY <1>0, <2>2 DEF SwitchStream, setting
  <2>3. ASSUME UNCHANGED setting, Device
        PROVE  OwnInv'
    BY <1>0, <2>3 DEF Device, Consume, StartOn, FinishOn, setting, python
  <2> QED
    BY <1>1, <1>3, <1>4, <1>5, <1>6, <1>7, <1>8, <2>1, <2>2, <2>3 DEF Next, Call

-----------------------------------------------------------------------------
\* The types, the lock and the places of the entries hold throughout: the
\* thread inside launch_npu has the interpreter lock and the workspace of its
\* current stream, and whatever waits or runs on a stream was meant for it.
THEOREM LaunchInductive == Spec => [](LaunchType /\ LockInv /\ PlaceInv)
<1>1. Init => LaunchType /\ LockInv /\ PlaceInv
  <2> SUFFICES ASSUME Init PROVE LaunchType /\ LockInv /\ PlaceInv
    OBVIOUS
  <2>1. LockInv
    BY LaunchAssumption DEF Init, LockInv, Held
  <2>2. PlaceInv
    BY ListEmpty DEF Init, PlaceInv
  <2> QED
    BY <2>1, <2>2, InitType
<1>2. (LaunchType /\ LockInv /\ PlaceInv) /\ [Next]_vars => (LaunchType /\ LockInv /\ PlaceInv)'
  BY NextType, NextLock, NextPlace
<1> QED
  BY <1>1, <1>2, PTL DEF Spec

\* Two kernels that run at the same time never share a workspace, although the
\* two dispatches that do not wait release theirs while it is still in use.
THEOREM WorkspacesKeptApart == Spec => []WorkspacesApart
<1>1. PlaceInv => WorkspacesApart
  BY DEF PlaceInv, Entry, WorkspacesApart, Idle
<1> QED
  BY <1>1, LaunchInductive, PTL

\* In the dispatch that waits, whoever launched a kernel in flight is still in
\* the launcher, with the lock.
THEOREM WaitInductive == Spec => []WaitInv
<1>1. Init => WaitInv
  <2>1. Init => NoKernel
    BY ListEmpty DEF Init, NoKernel, Idle
  <2> QED
    BY <2>1, NothingAwaited
<1>2. (LaunchType /\ LockInv /\ PlaceInv) /\ WaitInv /\ [Next]_vars => WaitInv'
  BY NextWait
<1> QED
  BY <1>1, <1>2, LaunchInductive, PTL DEF Spec

\* The launcher that synchronises hands no workspace back to the allocator that
\* a launch could still read.
THEOREM ReleasedOnlyAfterUse == Spec => []ReleasedAfterUse
<1>1. LaunchType /\ LockInv /\ PlaceInv /\ WaitInv => ReleasedAfterUse
  <2> SUFFICES ASSUME LaunchType, LockInv, PlaceInv, WaitInv, taskqueue # a5,
                      NEW l \in InFlight, l.kind = "kernel"
               PROVE  l.block \in used
    BY DEF ReleasedAfterUse
  <2>1. ASSUME Awaited(l), Entry(l)
        PROVE  l.block \in used
    BY <2>1 DEF Awaited, Entry, LockInv, Held
  <2>2. CASE l \in Range(queue)
    <3>1. PICK i \in 1..Len(queue) : l = queue[i]
      BY <2>2, ListIs DEF Range, LaunchType
    <3> QED
      BY <2>1, <3>1 DEF WaitInv, PlaceInv
  <2>3. ASSUME NEW s \in Streams, l \in Range(issued[s])
        PROVE  l.block \in used
    <3>1. PICK i \in 1..Len(issued[s]) : l = issued[s][i]
      BY <2>3, ListIs DEF Range, LaunchType
    <3> QED
      BY <2>1, <3>1 DEF WaitInv, PlaceInv
  <2>4. ASSUME NEW s \in Streams, l = running[s]
        PROVE  l.block \in used
    BY <2>1, <2>4 DEF WaitInv, PlaceInv, Idle
  <2>5. \/ l \in Range(queue) \/ (\E s \in Streams : l \in Range(issued[s]))
        \/ (\E s \in Streams : l = running[s])
    BY DEF InFlight
  <2> QED
    BY <2>2, <2>3, <2>4, <2>5
<1> QED
  BY <1>1, LaunchInductive, WaitInductive, PTL

\* Through the task queue every kernel has its input ahead of it: finished, or
\* earlier on the way to the same stream.
THEOREM InputInductive == Spec => []InputInv
<1>1. Init => InputInv
  BY ListEmpty DEF Init, InputInv, InputsReady, Idle
<1>2. (LaunchType /\ LockInv /\ PlaceInv) /\ InputInv /\ [Next]_vars => InputInv'
  BY NextInput
<1> QED
  BY <1>1, <1>2, LaunchInductive, PTL DEF Spec

\* Through the task queue a kernel runs after the operator that computes its
\* input.
THEOREM InputsAlwaysReady == Spec => []InputsReady
<1>1. InputInv => InputsReady
  BY DEF InputInv, InputsReady
<1> QED
  BY <1>1, InputInductive, PTL

\* A call that has the kernel object to itself finds in self.extra_args and
\* self.launch_grid, until it dispatches, what it has stored there.
THEOREM OwnInductive == Spec => []OwnInv
<1>1. Init => OwnInv
  BY DEF Init, OwnInv, Inside
<1>2. (LaunchType /\ LockInv /\ PlaceInv) /\ OwnInv /\ [Next]_vars => OwnInv'
  BY NextOwn
<1> QED
  BY <1>1, <1>2, LaunchInductive, PTL DEF Spec

\* A step keeps what is known of the calls inside.
LEMMA NextMeant ==
    ASSUME LaunchType, MeantInv, [Next]_vars
    PROVE  MeantInv'
<1> USE DEF MeantInv, Inside
<1>0. ASSUME UNCHANGED <<kernel, env>>,
             \A r \in Threads : pc'[r] = pc[r] \/ pc'[r] \in {"idle", "wait"}
      PROVE  MeantInv'
  BY <1>0
<1>1. ASSUME UNCHANGED setting, NEW t \in Threads, Produce(t)
      PROVE  MeantInv'
  BY <1>1 DEF Produce, Goto, LaunchType, setting
<1>2. ASSUME UNCHANGED setting, NEW t \in Threads, SetExtraArgs(t)
      PROVE  MeantInv'
  BY <1>2 DEF SetExtraArgs, Raise, Goto, LaunchType, setting
<1>3. ASSUME UNCHANGED setting, NEW t \in Threads, SetLaunchGrid(t)
      PROVE  MeantInv'
  BY <1>3 DEF SetLaunchGrid, Raise, Goto, LaunchType, setting
<1>4. ASSUME UNCHANGED setting, NEW t \in Threads, Extend(t)
      PROVE  MeantInv'
  BY <1>4 DEF Extend, Raise, Goto, LaunchType, setting
<1>5. ASSUME UNCHANGED setting, NEW t \in Threads, Launcher(t)
      PROVE  MeantInv'
  BY <1>5 DEF Launcher, Goto, LaunchType, setting
<1>6. ASSUME UNCHANGED setting, NEW t \in Threads, Dispatch(t)
      PROVE  MeantInv'
  BY <1>0, <1>6 DEF Dispatch, Goto, LaunchType, setting
<1>7. ASSUME UNCHANGED setting, NEW t \in Threads, Release(t)
      PROVE  MeantInv'
  BY <1>7 DEF Release, Goto, LaunchType, setting
<1>8. ASSUME UNCHANGED setting, NEW t \in Threads, SwitchStream(t)
      PROVE  MeantInv'
  BY <1>0, <1>8 DEF SwitchStream, setting
<1>9. ASSUME UNCHANGED setting, Device
      PROVE  MeantInv'
  BY <1>0, <1>9 DEF Device, Consume, StartOn, FinishOn, setting, python
<1>10. CASE UNCHANGED vars
  BY <1>0, <1>10 DEF vars, setting, python
<1> QED
  BY <1>1, <1>2, <1>3, <1>4, <1>5, <1>6, <1>7, <1>8, <1>9, <1>10 DEF Next, Call

-----------------------------------------------------------------------------
\* Affine forms.

\* The value of a form at x.
At(ab, x) == ab[1] * x + ab[2]

\* Python's // of a multiple by its divisor, of either sign.
LEMMA DividesOut ==
    ASSUME NEW a \in Int, a # 0, NEW x \in Int
    PROVE  FloorDiv(a * x, a) = x
<1>1. ASSUME NEW d \in Int, d > 0
      PROVE  (d * x) \div d = x
  BY <1>1
<1>2. CASE a > 0
  BY <1>1, <1>2 DEF FloorDiv
<1>3. CASE a < 0
  <2>1. -a \in Int /\ -a > 0 /\ -(a * x) = (-a) * x
    BY <1>3
  <2> QED
    BY <1>1, <1>3, <2>1 DEF FloorDiv
<1> QED
  BY <1>2, <1>3

\* From the dimension that a form stands for, _calcu_grid recovers the value of
\* the variable: (actual - b) // a inverts a * x + b whatever the signs.
THEOREM SolvedExactly ==
    ASSUME NEW a \in Int, a # 0, NEW b \in Int, NEW x \in Int
    PROVE  SolveFor(At(<<a, b>>, x), <<a, b>>) = x
<1>1. a * x \in Int /\ At(<<a, b>>, x) - b = a * x
  BY DEF At
<1> QED
  BY <1>1, DividesOut DEF SolveFor

\* The form that _detect_affine gives a sum, a difference or a product has at
\* every x the value of the expression, where it gives one.
THEOREM CombinedExactly ==
    ASSUME NEW l \in Int \X Int, NEW r \in Int \X Int, NEW x \in Int
    PROVE  /\ At(Combined("add", l, r), x) = At(l, x) + At(r, x)
           /\ At(Combined("sub", l, r), x) = At(l, x) - At(r, x)
           /\ Combined("mul", l, r) # None =>
                 At(Combined("mul", l, r), x) = At(l, x) * At(r, x)
<1>1. l[1] \in Int /\ l[2] \in Int /\ r[1] \in Int /\ r[2] \in Int
  OBVIOUS
<1>2. /\ Combined("add", l, r) = <<l[1] + r[1], l[2] + r[2]>>
      /\ Combined("sub", l, r) = <<l[1] - r[1], l[2] - r[2]>>
  BY DEF Combined
<1>3. ASSUME NEW p \in Int, NEW q \in Int, NEW u \in Int, NEW v \in Int
      PROVE  /\ (p + q) * x + (u + v) = (p * x + u) + (q * x + v)
             /\ (p - q) * x + (u - v) = (p * x + u) - (q * x + v)
             /\ (p * u) * x + v * u = (p * x + v) * u
             /\ (p * u) * x + v * u = u * (p * x + v)
  OBVIOUS
<1>4. ASSUME Combined("mul", l, r) # None
      PROVE  At(Combined("mul", l, r), x) = At(l, x) * At(r, x)
  <2>1. CASE l[1] = 0
    <3>1. Combined("mul", l, r) = <<r[1] * l[2], r[2] * l[2]>>
      BY <2>1 DEF Combined
    <3>2. At(l, x) = l[2]
      BY <1>1, <2>1 DEF At
    <3> QED
      BY <1>1, <1>3, <3>1, <3>2 DEF At
  <2>2. CASE l[1] # 0 /\ r[1] = 0
    <3>1. Combined("mul", l, r) = <<l[1] * r[2], l[2] * r[2]>>
      BY <2>2 DEF Combined
    <3>2. At(r, x) = r[2]
      BY <1>1, <2>2 DEF At
    <3> QED
      BY <1>1, <1>3, <3>1, <3>2 DEF At
  <2>3. CASE l[1] # 0 /\ r[1] # 0
    BY <1>4, <2>3 DEF Combined
  <2> QED
    BY <2>1, <2>2, <2>3
<1> QED
  BY <1>1, <1>2, <1>3, <1>4 DEF At

\* The form that _detect_affine gives a floor division has at every x the value
\* of the division, where it gives one.
THEOREM DividedExactly ==
    ASSUME NEW l \in Int \X Int, NEW d \in Int, d # 0, NEW x \in Int, Divided(l, d) # None
    PROVE  At(Divided(l, d), x) = FloorDiv(At(l, x), d)
<1>1. l[1] = 0 /\ Divided(l, d) = <<0, FloorDiv(l[2], d)>>
  BY DEF Divided
<1>2. At(l, x) = l[2] /\ l[2] \in Int
  BY <1>1 DEF At
<1>3. FloorDiv(l[2], d) \in Int
  BY <1>2 DEF FloorDiv
<1> QED
  BY <1>1, <1>2, <1>3 DEF At

-----------------------------------------------------------------------------
\* Calls and what their callers mean.

\* A call of a kernel that does not raise solves the dimension each variable is
\* read from, and gets the value that was meant; hence the grid.
LEMMA RecoveredMeaning ==
    ASSUME NEW c \in Kernels \ BadOutput, NEW v \in Meanings
    PROVE  LET d == Resolve(SymbolicOf[c], ShapesOf[c, v])
           IN  /\ d = [x \in DOMAIN SymbolicOf[c] |-> v[x]]
               /\ c \notin BadGrid => GridOf(c, d) = GridOf(c, v)
<1>1. ASSUME NEW x \in DOMAIN SymbolicOf[c]
      PROVE  SolveFor(ShapesOf[c, v][SymbolicOf[c][x].param][SymbolicOf[c][x].dim],
                      SymbolicOf[c][x].e) = v[x]
  <2> DEFINE e == SymbolicOf[c][x].e
             dim == ShapesOf[c, v][SymbolicOf[c][x].param][SymbolicOf[c][x].dim]
  <2>1. e[1] \in Int /\ e[1] # 0 /\ e[2] \in Int /\ v[x] \in Int /\ dim = e[1] * v[x] + e[2]
    BY <1>1, CompiledAssumption
  <2> HIDE DEF e, dim
  <2>2. e[1] * v[x] \in Int /\ dim - e[2] = e[1] * v[x]
    BY <2>1
  <2>3. SolveFor(dim, e) = v[x]
    BY <2>1, <2>2, DividesOut DEF SolveFor
  <2> QED
    BY <2>3 DEF e, dim
<1>2. Resolve(SymbolicOf[c], ShapesOf[c, v]) = [x \in DOMAIN SymbolicOf[c] |-> v[x]]
  BY <1>1 DEF Resolve
<1>3. c \notin BadGrid => GridOf(c, [x \in DOMAIN SymbolicOf[c] |-> v[x]]) = GridOf(c, v)
  BY CompiledAssumption
<1> QED
  BY Zenon, <1>2, <1>3

\* The values and the grid a call computes are those its caller meant, in every
\* interleaving: (actual - b) // a undoes a * x + b for every a # 0 and b, and
\* no other thread changes what a call computes from.
THEOREM CallsRecoverExactly == Spec => []SymbolicExact
<1>1. Init => MeantInv
  BY DEF Init, MeantInv, Inside
<1>2. LaunchType /\ MeantInv /\ [Next]_vars => MeantInv'
  BY NextMeant
<1>3. ASSUME MeantInv
      PROVE  SymbolicExact
  <2> SUFFICES ASSUME NEW t \in Threads, pc[t] \in {"grid", "output", "launch", "dispatch"}
               PROVE  /\ \A x \in DOMAIN Dynamic(t) : Dynamic(t)[x] = env[t][x]
                      /\ pc[t] \in {"output", "launch", "dispatch"} =>
                            GridOf(kernel, Dynamic(t)) = GridOf(kernel, env[t])
    BY DEF SymbolicExact
  <2>1. /\ kernel \in Kernels \ BadOutput /\ env[t] \in Meanings
        /\ pc[t] \in {"output", "launch", "dispatch"} => kernel \notin BadGrid
    BY <1>3 DEF MeantInv, Inside
  <2>2. /\ Dynamic(t) = [x \in DOMAIN SymbolicOf[kernel] |-> env[t][x]]
        /\ kernel \notin BadGrid => GridOf(kernel, Dynamic(t)) = GridOf(kernel, env[t])
    BY Zenon, <2>1, RecoveredMeaning DEF Dynamic
  <2> QED
    BY <2>1, <2>2
<1> QED
  BY <1>1, <1>2, <1>3, LaunchInductive, PTL DEF Spec

\* A call that has the kernel object to itself launches with its own extra
\* arguments and with the grid its caller meant.
THEOREM CallsKeepTheirArguments == Spec => []OwnArguments
<1>1. OwnInv /\ SymbolicExact => OwnArguments
  BY DEF OwnInv, SymbolicExact, OwnArguments
<1> QED
  BY <1>1, OwnInductive, CallsRecoverExactly, PTL
=============================================================================
