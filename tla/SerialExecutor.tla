--------------------------- MODULE SerialExecutor ---------------------------
(***************************************************************************)
(* What refresh_scheduler.py promises its users: tasks are begun in the    *)
(* order they were submitted, each once, and none is dropped; and they run *)
(* one at a time, until a worker is started beside one that still runs.    *)
(***************************************************************************)
EXTENDS Integers, Sequences

VARIABLES
    added,      \* tasks submitted: they are numbered in that order
    waiting,    \* those that wait
    running,    \* those that run
    joined      \* no worker was ever started beside another

vars == <<added, waiting, running, joined>>

Init == added = 0 /\ waiting = <<>> /\ running = {} /\ joined = TRUE

Add ==
    /\ added' = added + 1
    /\ waiting' = Append(waiting, added + 1)
    /\ UNCHANGED <<running, joined>>

Begin ==
    /\ joined => running = {}
    /\ waiting # <<>>
    /\ running' = running \cup {Head(waiting)}
    /\ waiting' = Tail(waiting)
    /\ UNCHANGED <<added, joined>>

End ==
    /\ \E t \in running : running' = running \ {t}
    /\ UNCHANGED <<added, waiting, joined>>

StartBeside ==
    /\ joined' = FALSE
    /\ UNCHANGED <<added, waiting, running>>

Next == Add \/ Begin \/ End \/ StartBeside

Spec == Init /\ [][Next]_vars

=============================================================================
