----------------------- MODULE RefreshSchedulerProofs -----------------------
(* What TLAPS proves of RefreshScheduler for any number of threads and of   *)
(* submissions.                                                             *)
EXTENDS RefreshScheduler, TLAPS

USE NoThreadAssumption, MaxSubmitsAssumption, FlagsAssumption

-----------------------------------------------------------------------------
(* Types, and the wakeup                                                   *)

\* The queue's ends.
LEMMA QueueParts ==
    ASSUME NEW M, NEW q \in Seq(M), q # <<>>
    PROVE  Head(q) \in M /\ Tail(q) \in Seq(M)
  OBVIOUS

SafeInv == TypeOK /\ NoLostWakeup

LEMMA SafeInit == Init => SafeInv
  <1> SUFFICES ASSUME Init PROVE SafeInv
    OBVIOUS
  <1>1. queue = <<>> /\ queue \in Seq(1..MaxSubmits)
    BY DEF Init
  <1>2. ASSUME NEW w \in Threads PROVE task[w] # 0 <=> pc[w] = "run"
    <2>1. task[w] = 0 /\ pc[w] = "unborn"
      BY DEF Init
    <2> QED
      BY <2>1
  <1>3. /\ pc \in [Threads -> {"unborn", "check", "wait", "drain", "run",
                              "exited", "dead"}]
        /\ task \in [Threads -> 0..MaxSubmits]
        /\ submits \in 0..MaxSubmits
    BY DEF Init
  <1>4. /\ event \in BOOLEAN /\ stopped \in BOOLEAN /\ stopping \in BOOLEAN
        /\ thread \in Threads \cup {NoThread} /\ orderly \in BOOLEAN
    BY DEF Init
  <1> QED
    BY <1>1, <1>2, <1>3, <1>4 DEF SafeInv, TypeOK, NoLostWakeup

LEMMA SafeWorker ==
    ASSUME SafeInv, NEW w \in Threads, Worker(w)
    PROVE  SafeInv'
  <1> USE DEF SafeInv, TypeOK, NoLostWakeup
  <1>1. ASSUME Check(w) PROVE SafeInv'
    BY <1>1 DEF Check
  <1>2. ASSUME Wake(w) PROVE SafeInv'
    BY <1>2 DEF Wake
  <1>3. ASSUME Take(w) PROVE SafeInv'
    <2>1. Head(queue) \in 1..MaxSubmits /\ queue' \in Seq(1..MaxSubmits)
      BY <1>3, QueueParts DEF Take
    <2>2. event
      BY <1>3 DEF Take
    <2> QED
      BY <1>3, <2>1, <2>2 DEF Take
  <1>4. ASSUME Drained(w) PROVE SafeInv'
    BY <1>4 DEF Drained
  <1>5. ASSUME HandlerReturns(w) PROVE SafeInv'
    BY <1>5 DEF HandlerReturns
  <1>6. ASSUME HandlerRaises(w) PROVE SafeInv'
    BY <1>6 DEF HandlerRaises
  <1> QED
    BY <1>1, <1>2, <1>3, <1>4, <1>5, <1>6 DEF Worker

LEMMA SafeStep == SafeInv /\ [Next]_vars => SafeInv'
  <1> SUFFICES ASSUME SafeInv, [Next]_vars PROVE SafeInv'
    OBVIOUS
  <1> USE DEF SafeInv, TypeOK, NoLostWakeup
  <1>1. ASSUME Submit PROVE SafeInv'
    <2>1. submits + 1 \in 1..MaxSubmits
      BY <1>1 DEF Submit
    <2>2. queue' \in Seq(1..MaxSubmits)
      BY <1>1, <2>1 DEF Submit
    <2> QED
      BY <1>1, <2>1, <2>2 DEF Submit, workerVars
  <1>2. ASSUME Stop PROVE SafeInv'
    BY <1>2 DEF Stop, workerVars
  <1>3. ASSUME StopWakes PROVE SafeInv'
    BY <1>3 DEF StopWakes, workerVars
  <1>4. ASSUME NEW w \in Threads, Start(w) PROVE SafeInv'
    BY <1>4 DEF Start
  <1>5. ASSUME UNCHANGED vars PROVE SafeInv'
    BY <1>5 DEF vars, workerVars
  <1> QED
    BY <1>1, <1>2, <1>3, <1>4, <1>5, SafeWorker DEF Next

LEMMA SafeInvariant == Spec => []SafeInv
  BY SafeInit, SafeStep, PTL DEF Spec

\* The scheduler's state keeps its types, and a thread holds a task exactly
\* while it runs a handler.
THEOREM TypeCorrect == Spec => []TypeOK
  <1>1. SafeInv => TypeOK
    BY DEF SafeInv
  <1> QED
    BY <1>1, SafeInvariant, PTL

\* No lost wakeups, whatever threads run, stop, restart or die.
THEOREM NoLostWakeupTheorem == Spec => []NoLostWakeup
  <1>1. SafeInv => NoLostWakeup
    BY DEF SafeInv
  <1> QED
    BY <1>1, SafeInvariant, PTL

-----------------------------------------------------------------------------
(* No task runs twice.  Inductive form: the numbers in hand are below every *)
(* number that waits, and numbers wait in increasing order.                 *)

InHandFirst ==
    /\ \A i, j \in 1..Len(queue) : i < j => queue[i] < queue[j]
    /\ \A i \in 1..Len(queue) : queue[i] <= submits
    /\ \A w \in Threads : task[w] # 0 =>
         /\ task[w] <= submits
         /\ \A i \in 1..Len(queue) : task[w] < queue[i]
         /\ \A v \in Threads : task[v] = task[w] => v = w

LEMMA InHandFirstStep ==
    ASSUME SafeInv, InHandFirst, SafeInv', [Next]_vars
    PROVE  InHandFirst'
  <1> USE DEF SafeInv, TypeOK
  <1>0. /\ Len(queue) \in Nat
        /\ \A i \in 1..Len(queue) : queue[i] \in Nat
        /\ \A w \in Threads : task[w] \in Nat
        /\ submits \in Nat
    OBVIOUS
  <1>1. ASSUME Submit PROVE InHandFirst'
    <2>1. /\ Len(queue') = Len(queue) + 1
          /\ queue'[Len(queue) + 1] = submits + 1
          /\ \A i \in 1..Len(queue) : queue'[i] = queue[i]
      BY <1>1 DEF Submit
    <2>2. UNCHANGED task /\ submits' = submits + 1
      BY <1>1 DEF Submit, workerVars
    <2>3. \A i \in 1..Len(queue') :
            i \in 1..Len(queue) \/ i = Len(queue) + 1
      BY <1>0, <2>1
    <2>4. \A i, j \in 1..Len(queue') : i < j => queue'[i] < queue'[j]
      <3> SUFFICES ASSUME NEW i \in 1..Len(queue'), NEW j \in 1..Len(queue'),
                          i < j
                   PROVE  queue'[i] < queue'[j]
        OBVIOUS
      <3>1. i \in 1..Len(queue)
        BY <1>0, <2>1
      <3>2. CASE j \in 1..Len(queue)
        BY <2>1, <3>1, <3>2 DEF InHandFirst
      <3>3. CASE j = Len(queue) + 1
        <4>1. queue[i] <= submits /\ queue[i] \in Nat
          BY <1>0, <3>1 DEF InHandFirst
        <4> QED
          BY <1>0, <2>1, <3>1, <3>3, <4>1
      <3> QED
        BY <2>3, <3>2, <3>3
    <2>5. ASSUME NEW i \in 1..Len(queue') PROVE queue'[i] <= submits'
      <3>1. CASE i \in 1..Len(queue)
        <4>1. queue[i] <= submits /\ queue[i] \in Nat
          BY <1>0, <3>1 DEF InHandFirst
        <4> QED
          BY <1>0, <2>1, <2>2, <3>1, <4>1
      <3>2. CASE i = Len(queue) + 1
        BY <1>0, <2>1, <2>2, <3>2
      <3> QED
        BY <2>3, <3>1, <3>2
    <2>6. ASSUME NEW w \in Threads, task'[w] # 0
          PROVE  /\ task'[w] <= submits'
                 /\ \A i \in 1..Len(queue') : task'[w] < queue'[i]
                 /\ \A v \in Threads : task'[v] = task'[w] => v = w
      <3>1. task[w] <= submits /\ \A i \in 1..Len(queue) : task[w] < queue[i]
        BY <2>2, <2>6 DEF InHandFirst
      <3>2. \A i \in 1..Len(queue') : task[w] < queue'[i]
        <4> TAKE i \in 1..Len(queue')
        <4>1. CASE i \in 1..Len(queue)
          BY <2>1, <3>1, <4>1
        <4>2. CASE i = Len(queue) + 1
          BY <1>0, <2>1, <3>1, <4>2
        <4> QED
          BY <2>3, <4>1, <4>2
      <3> QED
        BY <1>0, <2>2, <2>6, <3>1, <3>2 DEF InHandFirst
    <2> QED
      BY <2>4, <2>5, <2>6 DEF InHandFirst
  <1>2. ASSUME NEW w \in Threads, Take(w) PROVE InHandFirst'
    <2>1. /\ Len(queue') = Len(queue) - 1
          /\ \A i \in 1..Len(queue') :
                queue'[i] = queue[i + 1] /\ i + 1 \in 1..Len(queue)
          /\ 1 \in 1..Len(queue)
      BY <1>2 DEF Take
    <2>2. /\ submits' = submits
          /\ task' = [task EXCEPT ![w] = queue[1]]
      BY <1>2 DEF Take
    <2>3. \A i, j \in 1..Len(queue') : i < j => queue'[i] < queue'[j]
      <3> SUFFICES ASSUME NEW i \in 1..Len(queue'), NEW j \in 1..Len(queue'),
                          i < j
                   PROVE  queue'[i] < queue'[j]
        OBVIOUS
      <3>1. i + 1 < j + 1
        BY <1>0, <2>1
      <3>2. /\ i + 1 \in 1..Len(queue) /\ queue'[i] = queue[i + 1]
            /\ j + 1 \in 1..Len(queue) /\ queue'[j] = queue[j + 1]
        BY <2>1
      <3> QED
        BY <3>1, <3>2 DEF InHandFirst
    <2>4. \A i \in 1..Len(queue') : queue'[i] <= submits'
      BY <2>1, <2>2 DEF InHandFirst
    <2>5. \A i \in 1..Len(queue') : queue[1] < queue'[i]
      <3> SUFFICES ASSUME NEW i \in 1..Len(queue')
                   PROVE  queue[1] < queue'[i]
        OBVIOUS
      <3>1. 1 < i + 1
        BY <1>0, <2>1
      <3> QED
        BY <2>1, <3>1 DEF InHandFirst
    <2>6. ASSUME NEW v \in Threads, task'[v] # 0
          PROVE  /\ task'[v] <= submits'
                 /\ \A i \in 1..Len(queue') : task'[v] < queue'[i]
                 /\ \A u \in Threads : task'[u] = task'[v] => u = v
      <3>1. \A u \in Threads : u # w /\ task[u] # 0 => task[u] < queue[1]
        BY <2>1 DEF InHandFirst
      <3>2. \A u \in Threads : task'[u] = IF u = w THEN queue[1] ELSE task[u]
        BY <2>2
      <3>3. queue[1] \in Nat /\ queue[1] # 0
        BY <1>0, <2>1
      <3>4. CASE v = w
        BY <1>0, <2>1, <2>2, <2>5, <2>6, <3>1, <3>2, <3>3, <3>4 DEF InHandFirst
      <3>5. CASE v # w
        <4>1. task'[v] = task[v] /\ task[v] # 0
          BY <2>6, <3>2, <3>5
        <4>2. \A i \in 1..Len(queue') : task[v] < queue'[i]
          BY <2>1, <4>1 DEF InHandFirst
        <4>3. \A u \in Threads : task'[u] = task[v] => u = v
          BY <1>0, <3>1, <3>2, <3>3, <3>5, <4>1 DEF InHandFirst
        <4> QED
          BY <2>2, <4>1, <4>2, <4>3 DEF InHandFirst
      <3> QED
        BY <3>4, <3>5
    <2> QED
      BY <2>3, <2>4, <2>6 DEF InHandFirst
  <1>3. ASSUME NEW w \in Threads,
               \/ Start(w) \/ Check(w) \/ Wake(w) \/ Drained(w)
               \/ HandlerReturns(w) \/ HandlerRaises(w)
        PROVE  InHandFirst'
    <2>1. UNCHANGED <<queue, submits>>
      BY <1>3 DEF Start, Check, Wake, Drained, HandlerReturns, HandlerRaises
    <2>2. \A v \in Threads : task'[v] \in {task[v], 0}
      BY <1>3 DEF Start, Check, Wake, Drained, HandlerReturns, HandlerRaises
    <2> QED
      BY <2>1, <2>2 DEF InHandFirst
  <1>4. ASSUME Stop \/ StopWakes \/ UNCHANGED vars PROVE InHandFirst'
    BY <1>4 DEF Stop, StopWakes, vars, workerVars, InHandFirst
  <1> QED
    BY <1>1, <1>2, <1>3, <1>4 DEF Next, Worker

LEMMA InHandInvariant == Spec => []InHandFirst
  <1>1. Init => InHandFirst
    BY DEF Init, InHandFirst
  <1>2. SafeInv /\ SafeInv' /\ InHandFirst /\ [Next]_vars => InHandFirst'
    BY InHandFirstStep
  <1> QED
    BY <1>1, <1>2, SafeInvariant, PTL DEF Spec

\* However many workers unjoined restarts leave on the queue, and whatever
\* handlers raise: no two have the same task in hand.
THEOREM NoDoubleRunTheorem == Spec => []NoDoubleRun
  <1>1. SafeInv /\ InHandFirst => NoDoubleRun
    BY DEF SafeInv, TypeOK, InHandFirst, NoDoubleRun
  <1> QED
    BY <1>1, InHandInvariant, SafeInvariant, PTL

-----------------------------------------------------------------------------
(* One worker at a time while every restart is joined: a live thread is    *)
(* the one start() last made.                                              *)

LastAlive == orderly => \A w \in Threads : Alive(w) => w = thread

LEMMA LastAliveStep == TypeOK /\ LastAlive /\ [Next]_vars => LastAlive'
  <1> SUFFICES ASSUME TypeOK, LastAlive, [Next]_vars PROVE LastAlive'
    OBVIOUS
  <1> USE DEF LastAlive, Alive, TypeOK
  <1>1. ASSUME NEW w \in Threads, Start(w) PROVE LastAlive'
    <2> SUFFICES ASSUME orderly' PROVE \A v \in Threads : Alive(v)' => v = w
      BY <1>1 DEF Start
    <2>1. \A v \in Threads : ~Alive(v)
      BY <1>1, NoThreadAssumption DEF Start, Joined
    <2> QED
      BY <1>1, <2>1 DEF Start
  <1>2. ASSUME NEW w \in Threads, Worker(w) PROVE LastAlive'
    BY <1>2 DEF Worker, Check, Wake, Take, Drained, HandlerReturns,
                HandlerRaises
  <1>3. ASSUME Submit \/ Stop \/ StopWakes \/ UNCHANGED vars PROVE LastAlive'
    BY <1>3 DEF Submit, Stop, StopWakes, vars, workerVars
  <1> QED
    BY <1>1, <1>2, <1>3 DEF Next

LEMMA LastAliveInvariant == Spec => []LastAlive
  <1>1. Init => LastAlive
    BY DEF Init, LastAlive, Alive
  <1>2. SafeInv /\ LastAlive /\ [Next]_vars => LastAlive'
    BY LastAliveStep DEF SafeInv
  <1> QED
    BY <1>1, <1>2, SafeInvariant, PTL DEF Spec

-----------------------------------------------------------------------------
(* Refinement of the serial executor                                       *)

Running == {task[w] : w \in Threads} \ {0}

LEMMA ExecutorStep ==
    ASSUME SafeInv, InHandFirst, LastAlive, SafeInv', [Next]_vars
    PROVE  [Executor!Next]_(Executor!vars)
  <1> USE DEF SafeInv, TypeOK
  <1> DEFINE Goal == [Executor!Next]_(Executor!vars)
  <1>1. ASSUME Submit PROVE Goal
    BY <1>1 DEF Submit, workerVars, Executor!Next, Executor!Add
  <1>2. ASSUME NEW w \in Threads, Take(w) PROVE Goal
    <2>1. task[w] = 0 /\ Head(queue) \in 1..MaxSubmits /\ Head(queue) # 0
      BY <1>2, QueueParts DEF Take
    <2>2. task' = [task EXCEPT ![w] = Head(queue)]
      BY <1>2 DEF Take
    <2>3. Running' = Running \cup {Head(queue)}
      BY <2>1, <2>2 DEF Running
    <2>4. ASSUME orderly PROVE Running = {}
      <3>1. \A v \in Threads : pc[v] = "run" => v = w
        BY <1>2, <2>4 DEF LastAlive, Alive, Take
      <3>2. \A v \in Threads : task[v] = 0
        BY <1>2, <3>1 DEF Take
      <3> QED
        BY <3>2 DEF Running
    <2>5. Executor!Begin
      BY <1>2, <2>3, <2>4 DEF Take, Executor!Begin, Running
    <2> QED
      BY <2>5 DEF Executor!Next
  <1>3. ASSUME NEW w \in Threads, HandlerReturns(w) \/ HandlerRaises(w)
        PROVE  Goal
    <2>1. task[w] # 0 /\ task' = [task EXCEPT ![w] = 0]
      BY <1>3 DEF HandlerReturns, HandlerRaises
    <2>2. \A v \in Threads : task[v] = task[w] => v = w
      BY <2>1 DEF InHandFirst
    <2>3. Running' = Running \ {task[w]} /\ task[w] \in Running
      BY <2>1, <2>2 DEF Running
    <2>4. Executor!End
      BY <1>3, <2>3 DEF HandlerReturns, HandlerRaises, Executor!End, Running
    <2> QED
      BY <2>4 DEF Executor!Next
  <1>4. ASSUME NEW w \in Threads, Start(w) PROVE Goal
    <2>1. UNCHANGED <<task, queue, submits>> /\ orderly' \in {orderly, FALSE}
      BY <1>4 DEF Start
    <2>2. CASE orderly' = orderly
      BY <2>1, <2>2 DEF Executor!vars
    <2>3. CASE orderly' = FALSE
      BY <2>1, <2>3 DEF Executor!Next, Executor!StartBeside
    <2> QED
      BY <2>1, <2>2, <2>3
  <1>5. ASSUME \/ Stop \/ StopWakes \/ UNCHANGED vars
               \/ \E w \in Threads : Check(w) \/ Wake(w) \/ Drained(w)
        PROVE  Goal
    <2>1. UNCHANGED <<queue, submits, task, orderly>>
      BY <1>5 DEF Stop, StopWakes, vars, workerVars, Check, Wake, Drained
    <2> QED
      BY <2>1 DEF Executor!vars
  <1> QED
    BY <1>1, <1>2, <1>3, <1>4, <1>5 DEF Next, Worker

\* In whatever order it is started and stopped, joined or not, the scheduler
\* is the executor of SerialExecutor: tasks are taken in submission order and
\* once, and one at a time while every restart was joined.
THEOREM SerialTheorem == Spec => SerialInOrder
  <1>1. Init => Executor!Init
    BY DEF Init, Executor!Init
  <1>2. SafeInv /\ InHandFirst /\ LastAlive /\ SafeInv' /\ [Next]_vars
            => [Executor!Next]_(Executor!vars)
    BY ExecutorStep
  <1> QED
    BY <1>1, <1>2, SafeInvariant, InHandInvariant, LastAliveInvariant, PTL
    DEF Spec, SerialInOrder, Executor!Spec

=============================================================================
