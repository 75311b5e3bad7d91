-------------------------- MODULE RefreshScheduler --------------------------
(***************************************************************************)
(* The background refresh worker (pygt1000/refresh_scheduler.py).          *)
(*                                                                         *)
(* Any thread submits tasks; the application starts and stops the worker   *)
(* thread whenever it likes.  A section under _lock is one action.  stop() *)
(* takes no lock: it raises the flag and wakes the worker in two steps.    *)
(* Every start() makes a thread of its own (a member of Threads), and does *)
(* not wait for the thread of an earlier start() to end: until that thread *)
(* sees a flag raised again, both drain the one queue.                     *)
(***************************************************************************)
EXTENDS Integers, Sequences

CONSTANTS
    Threads,            \* worker threads, one per start()
    NoThread,           \* _thread is None
    MaxSubmits,         \* bound: tasks submitted
    HandlerMayRaise     \* whether a handler can raise

ASSUME NoThreadAssumption == NoThread \notin Threads
ASSUME MaxSubmitsAssumption == MaxSubmits \in Nat
ASSUME FlagsAssumption == HandlerMayRaise \in BOOLEAN

VARIABLES
    queue,      \* _queue: the numbers of the waiting tasks
    event,      \* _event
    stopped,    \* _stopped
    thread,     \* _thread: the thread of the last start()
    stopping,   \* stop() has raised the flag and not yet set the event
    pc,         \* where each worker thread is
    task,       \* the task a worker runs, 0 for none
    submits,    \* tasks submitted so far
    orderly     \* history: join() would have returned at every start() so far

workerVars == <<pc, task>>
vars == <<queue, event, stopped, thread, stopping, workerVars, submits,
          orderly>>

Alive(w) == pc[w] \in {"check", "wait", "drain", "run"}

-----------------------------------------------------------------------------
(* Slips this code could have had.  Nothing uses them: each shows that a    *)
(* property notices the slip.                                              *)

SubmitQuietly ==
    /\ submits < MaxSubmits
    /\ submits' = submits + 1
    /\ queue' = Append(queue, submits + 1)
    /\ UNCHANGED <<event, stopped, thread, stopping, workerVars, orderly>>
CheckForever(w) ==
    /\ pc[w] = "check"
    /\ pc' = [pc EXCEPT ![w] = "wait"]
    /\ UNCHANGED <<queue, event, stopped, thread, stopping, task, submits,
                   orderly>>
TakeClearing(w) ==
    /\ pc[w] = "drain"
    /\ queue # <<>>
    /\ task' = [task EXCEPT ![w] = Head(queue)]
    /\ queue' = Tail(queue)
    /\ event' = FALSE
    /\ pc' = [pc EXCEPT ![w] = "run"]
    /\ UNCHANGED <<stopped, thread, stopping, submits, orderly>>
TakeNewest(w) ==
    /\ pc[w] = "drain"
    /\ queue # <<>>
    /\ task' = [task EXCEPT ![w] = queue[Len(queue)]]
    /\ queue' = SubSeq(queue, 1, Len(queue) - 1)
    /\ pc' = [pc EXCEPT ![w] = "run"]
    /\ UNCHANGED <<event, stopped, thread, stopping, submits, orderly>>
TakePeeking(w) ==
    /\ pc[w] = "drain"
    /\ queue # <<>>
    /\ task' = [task EXCEPT ![w] = Head(queue)]
    /\ pc' = [pc EXCEPT ![w] = "run"]
    /\ UNCHANGED <<queue, event, stopped, thread, stopping, submits, orderly>>
HandlerReturnsKeeping(w) ==
    /\ pc[w] = "run"
    /\ pc' = [pc EXCEPT ![w] = "drain"]
    /\ UNCHANGED <<queue, event, stopped, thread, stopping, task, submits,
                   orderly>>

-----------------------------------------------------------------------------
Init ==
    /\ queue = <<>>
    /\ event = FALSE
    /\ stopped = FALSE
    /\ thread = NoThread
    /\ stopping = FALSE
    /\ pc = [w \in Threads |-> "unborn"]
    /\ task = [w \in Threads |-> 0]
    /\ submits = 0
    /\ orderly = TRUE

-----------------------------------------------------------------------------
(* The application and the inbound callback                                *)

Submit ==
    /\ submits < MaxSubmits
    /\ submits' = submits + 1
    /\ queue' = Append(queue, submits + 1)
    /\ event' = TRUE
    /\ UNCHANGED <<stopped, thread, stopping, workerVars, orderly>>

\* join() would return True.
Joined == thread # NoThread => ~Alive(thread)

\* start() asks nothing: a thread that has not run yet is spawned.
Start(w) ==
    /\ pc[w] = "unborn"
    /\ stopped' = FALSE
    /\ thread' = w
    /\ pc' = [pc EXCEPT ![w] = "check"]
    /\ orderly' = (orderly /\ Joined)
    /\ UNCHANGED <<queue, event, stopping, task, submits>>

\* One call of stop() at a time; it may find no worker, or one stopped before.
Stop ==
    /\ ~stopping
    /\ stopped' = TRUE
    /\ stopping' = TRUE
    /\ UNCHANGED <<queue, event, thread, workerVars, submits, orderly>>

StopWakes ==
    /\ stopping
    /\ stopping' = FALSE
    /\ event' = TRUE
    /\ UNCHANGED <<queue, stopped, thread, workerVars, submits, orderly>>

-----------------------------------------------------------------------------
(* A worker thread: _run and drain                                         *)

Check(w) ==
    /\ pc[w] = "check"
    /\ pc' = [pc EXCEPT ![w] = IF stopped THEN "exited" ELSE "wait"]
    /\ UNCHANGED <<queue, event, stopped, thread, stopping, task, submits,
                   orderly>>

\* _event.wait returns: woken, or timed out.
Wake(w) ==
    /\ pc[w] = "wait"
    /\ pc' = [pc EXCEPT ![w] = IF event THEN "drain" ELSE "check"]
    /\ UNCHANGED <<queue, event, stopped, thread, stopping, task, submits,
                   orderly>>

\* drain pops one task under the lock, and dispatches it outside.
Take(w) ==
    /\ pc[w] = "drain"
    /\ queue # <<>>
    /\ task' = [task EXCEPT ![w] = Head(queue)]
    /\ queue' = Tail(queue)
    /\ pc' = [pc EXCEPT ![w] = "run"]
    /\ UNCHANGED <<event, stopped, thread, stopping, submits, orderly>>

\* drain sees the queue empty and clears the event in one locked section.
Drained(w) ==
    /\ pc[w] = "drain"
    /\ queue = <<>>
    /\ event' = FALSE
    /\ pc' = [pc EXCEPT ![w] = "check"]
    /\ UNCHANGED <<queue, stopped, thread, stopping, task, submits, orderly>>

HandlerReturns(w) ==
    /\ pc[w] = "run"
    /\ pc' = [pc EXCEPT ![w] = "drain"]
    /\ task' = [task EXCEPT ![w] = 0]
    /\ UNCHANGED <<queue, event, stopped, thread, stopping, submits, orderly>>

\* Nothing catches the exception: the thread dies.
HandlerRaises(w) ==
    /\ HandlerMayRaise
    /\ pc[w] = "run"
    /\ pc' = [pc EXCEPT ![w] = "dead"]
    /\ task' = [task EXCEPT ![w] = 0]
    /\ UNCHANGED <<queue, event, stopped, thread, stopping, submits, orderly>>

-----------------------------------------------------------------------------
Worker(w) ==
    \/ Check(w)
    \/ Wake(w)
    \/ Take(w)
    \/ Drained(w)
    \/ HandlerReturns(w)
    \/ HandlerRaises(w)

Next ==
    \/ Submit
    \/ Stop
    \/ StopWakes
    \/ \E w \in Threads : Start(w) \/ Worker(w)

Spec == Init /\ [][Next]_vars

\* Worker threads are scheduled and handlers end (they read the unit with
\* bounded retries).  The application owes nothing, not even the second half
\* of stop().
FairSpec == Spec /\ \A w \in Threads : WF_vars(Worker(w))

-----------------------------------------------------------------------------
(* Properties                                                              *)

TypeOK ==
    /\ queue \in Seq(1..MaxSubmits)
    /\ event \in BOOLEAN
    /\ stopped \in BOOLEAN
    /\ thread \in Threads \cup {NoThread}
    /\ stopping \in BOOLEAN
    /\ pc \in [Threads ->
                {"unborn", "check", "wait", "drain", "run", "exited", "dead"}]
    /\ task \in [Threads -> 0..MaxSubmits]
    /\ \A w \in Threads : task[w] # 0 <=> pc[w] = "run"
    /\ submits \in 0..MaxSubmits
    /\ orderly \in BOOLEAN

\* A waiting task always has its wakeup set: a submit racing the drain is
\* either drained or wakes the next loop.
NoLostWakeup == queue # <<>> => event

\* No task runs twice, nor runs while it still waits, even when an unjoined
\* restart leaves several workers draining one queue.
NoDoubleRun ==
    \A w \in Threads : task[w] # 0 =>
        /\ \A v \in Threads : task[v] = task[w] => v = w
        /\ \A i \in 1..Len(queue) : queue[i] # task[w]

\* A submitted task is taken unless the worker is stopped or a handler has
\* killed it: none is stranded behind another.
Served ==
    \A t \in 1..MaxSubmits :
        (\E i \in 1..Len(queue) : queue[i] = t) /\ thread # NoThread
        ~> \/ stopped
           \/ \E w \in Threads : w = thread /\ pc[w] = "dead"
           \/ ~\E i \in 1..Len(queue) : queue[i] = t

\* stop() ends every worker, those of unjoined restarts too, unless a start()
\* lowers the flag first.
StopEnds == stopped ~> (\A w \in Threads : ~Alive(w)) \/ ~stopped

Executor == INSTANCE SerialExecutor WITH
    added <- submits,
    waiting <- queue,
    running <- {task[w] : w \in Threads} \ {0},
    joined <- orderly

\* However it is started and stopped, the scheduler takes tasks in the order
\* they came and each once; one at a time while every restart was joined.
SerialInOrder == Executor!Spec

=============================================================================
