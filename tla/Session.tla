------------------------------- MODULE Session -------------------------------
(***************************************************************************)
(* Bringing the unit up and keeping it up: RtMidiTransport's ports,        *)
(* EditorSession's open/close/reopen, KeepAlive's worker, and the          *)
(* application that drives them through the facade.                        *)
(*                                                                         *)
(* The application thread and every keeper thread (one per start()) run    *)
(* the same open sequence over the same transport and link.  An exchange   *)
(* of the link is two steps, send and outcome, over the shared dictionary  *)
(* of slots (module DeviceLink has its details).  The unit is external: it *)
(* is "up" (answers within a sleep), "slow" (may lose or miss anything) or *)
(* "gone" (unplugged: open ports go stale, its editor mode is lost).       *)
(***************************************************************************)
EXTENDS Integers

CONSTANTS
    App,            \* the application thread
    Keepers,        \* keep-alive threads, one per start(); a name is used
                    \* again once its thread has ended
    NoThread,
    RetryCount,     \* identity requests per open
    Chunks,         \* sleep chunks per interval
    UnitPort,       \* "default" if the unit's port has the default name
    UserPort,       \* the port name the application passes to open_ports
    MaxChanges      \* bound: changes of the unit

ASSUME CountAssumption ==
    RetryCount \in Nat \ {0} /\ Chunks \in Nat /\ MaxChanges \in Nat
ASSUME PortAssumption ==
    UnitPort \in {"default", "custom"} /\ UserPort \in {"default", "custom"}
ASSUME ThreadAssumption ==
    App \notin Keepers /\ NoThread \notin Keepers \cup {App}

Threads == Keepers \cup {App}
Ports == {"none", "open", "closed", "stale"}
Addresses == {"set2", "fetch3"}

VARIABLES
    unit,       \* "up", "slow" or "gone" (external)
    editor,     \* the unit is in editor mode (external)
    changes,    \* changes of the unit so far
    midiOut,    \* RtMidiTransport.midi_out
    midiIn,     \* RtMidiTransport.midi_in
    negotiated, \* device_id # DEVICE_ID_BCAST
    idAsked,    \* an identity request is with the unit
    pending,    \* the link's open slots
    delivered,  \* the thread's request reached the unit
    pc,         \* where each thread is
    n,          \* loop counter: identity attempts or sleep chunks
    result,     \* what the application's last open did
    orderly,    \* history: it has started keepers on an open session only,
                \* and joined the last one before it went on
    thread,     \* KeepAlive._thread
    stopped,    \* KeepAlive._stopped
    reopened    \* history: how often each keeper has opened the ports since
                \* the flag was raised

unitVars == <<unit, editor, changes>>
portVars == <<midiOut, midiIn>>
linkVars == <<negotiated, idAsked, pending, delivered>>
appVars == <<result, orderly>>
keepVars == <<thread, stopped, reopened>>
vars == <<unitVars, portVars, linkVars, pc, n, appVars, keepVars>>

Alive(w) == pc[w] \notin {"unborn", "exited", "broken", "dead"}

Goto(t, l) == pc' = [pc EXCEPT ![t] = l]

-----------------------------------------------------------------------------
(* Slips this code could have had.  Nothing uses them: each shows that a    *)
(* property notices the slip.                                              *)

\* The ritual goes on whatever the editor-mode set answers.
SetAckedAlways(ok) == TRUE
\* The keeper takes a missing reply for a live unit.
PollAliveAlways(ok) == TRUE
\* reopen tries again until it succeeds.
OpenedRetrying(t, ok) ==
    /\ Goto(t, IF t = App THEN "idle" ELSE IF ok THEN "check" ELSE "closeout")
    /\ result' = IF t # App THEN result ELSE IF ok THEN "up" ELSE "failed"
\* One identity attempt too many, or attempts that are not counted.
LastAttemptLate(t) == n[t] + 1 > RetryCount
AttemptUncounted(t) == n
\* close() forgets the port objects.
ClosedForgetful(port) == "none"

-----------------------------------------------------------------------------
\* open() returns to its caller: the application, or the keeper's loop.
Opened(t, ok) ==
    /\ Goto(t, IF t = App THEN "idle" ELSE "check")
    /\ result' = IF t # App THEN result ELSE IF ok THEN "up" ELSE "failed"

\* An exception reaches the application, or kills the keeper: "broken" if a
\* port could not be opened, else "dead".
RaiseAs(t, end) ==
    /\ Goto(t, IF t = App THEN "idle" ELSE end)
    /\ result' = IF t = App THEN "raised" ELSE result

Raise(t) == RaiseAs(t, "dead")

-----------------------------------------------------------------------------
Init ==
    /\ unit \in {"up", "slow", "gone"}
    /\ editor = FALSE
    /\ changes = 0
    /\ midiOut = "none"
    /\ midiIn = "none"
    /\ negotiated = FALSE
    /\ idAsked = FALSE
    /\ pending = {}
    /\ delivered = [t \in Threads |-> FALSE]
    /\ pc = [t \in Threads |-> IF t = App THEN "idle" ELSE "unborn"]
    /\ n = [t \in Threads |-> 0]
    /\ result = "none"
    /\ orderly = TRUE
    /\ thread = NoThread
    /\ stopped = FALSE
    /\ reopened = [w \in Keepers |-> 0]

-----------------------------------------------------------------------------
(* The application                                                         *)

\* KeepAlive.join would return True.
Joined == thread # NoThread => ~Alive(thread)

OpenPorts ==
    /\ pc[App] = "idle"
    /\ Goto(App, "names")
    /\ result' = "none"
    /\ orderly' = (orderly /\ Joined)
    /\ UNCHANGED <<unitVars, portVars, linkVars, n, keepVars>>

ClosePorts ==
    /\ pc[App] = "idle"
    /\ Goto(App, "closeout")
    /\ result' = "none"
    /\ orderly' = (orderly /\ Joined)
    /\ UNCHANGED <<unitVars, portVars, linkVars, n, keepVars>>

StartKeeper(w) ==
    /\ pc[App] = "idle"
    /\ ~Alive(w)
    /\ thread' = w
    /\ stopped' = FALSE
    /\ Goto(w, "check")
    /\ orderly' = (orderly /\ Joined /\ result = "up")
    /\ UNCHANGED <<unitVars, portVars, linkVars, n, result, reopened>>

\* A second stop() changes nothing.
StopKeeper ==
    /\ pc[App] = "idle"
    /\ ~stopped
    /\ stopped' = TRUE
    /\ reopened' = [w \in Keepers |-> 0]
    /\ UNCHANGED <<unitVars, portVars, linkVars, pc, n, appVars, thread>>

-----------------------------------------------------------------------------
(* RtMidiTransport.close: both ports, or an AttributeError on None.        *)

AfterClose(port) == "closed"

CloseOut(t) ==
    /\ pc[t] = "closeout"
    /\ IF midiOut = "none"
       THEN Raise(t) /\ UNCHANGED midiOut
       ELSE /\ midiOut' = AfterClose(midiOut)
            /\ Goto(t, "closein")
            /\ UNCHANGED result
    /\ UNCHANGED <<unitVars, midiIn, linkVars, n, orderly, keepVars>>

CloseIn(t) ==
    /\ pc[t] = "closein"
    /\ IF midiIn = "none"
       THEN Raise(t) /\ UNCHANGED midiIn
       ELSE /\ midiIn' = AfterClose(midiIn)
            /\ Goto(t, IF t = App THEN "idle" ELSE "names")
            /\ UNCHANGED result
    /\ UNCHANGED <<unitVars, midiOut, linkVars, n, orderly, keepVars>>

-----------------------------------------------------------------------------
(* RtMidiTransport.open                                                    *)

\* reopen passes no name, so the keeper opens the default port.
PortName(t) == IF t = App THEN UserPort ELSE "default"

ResolveNames(t) ==
    /\ pc[t] = "names"
    /\ IF unit # "gone" /\ PortName(t) = UnitPort
       THEN Goto(t, "out") /\ UNCHANGED result
       ELSE Opened(t, FALSE)
    /\ UNCHANGED <<unitVars, portVars, linkVars, n, orderly, keepVars>>

\* A port that is gone since its name was found: open_midioutput or
\* open_midiinput raises EOFError, which open turns into False, or another
\* error, which nothing catches.
OpenFails(t) == Opened(t, FALSE) \/ RaiseAs(t, "broken")

OpenOut(t) ==
    /\ pc[t] = "out"
    /\ IF unit # "gone"
       THEN /\ midiOut' = "open"
            /\ reopened' = [w \in Keepers |->
                              reopened[w] + IF w = t /\ stopped THEN 1 ELSE 0]
            /\ Goto(t, "in")
            /\ UNCHANGED result
       ELSE OpenFails(t) /\ UNCHANGED <<midiOut, reopened>>
    /\ UNCHANGED <<unitVars, midiIn, linkVars, n, orderly, thread, stopped>>

OpenIn(t) ==
    /\ pc[t] = "in"
    /\ IF unit # "gone"
       THEN /\ midiIn' = "open"
            /\ n' = [n EXCEPT ![t] = 0]
            /\ Goto(t, "idsend")
            /\ UNCHANGED result
       ELSE OpenFails(t) /\ UNCHANGED <<midiIn, n>>
    /\ UNCHANGED <<unitVars, midiOut, linkVars, orderly, keepVars>>

-----------------------------------------------------------------------------
(* EditorSession.request_identity                                          *)

\* Whether a message sent now reaches the unit.
Reached == IF midiOut # "open" THEN {FALSE}
           ELSE IF unit = "up" THEN {TRUE}
           ELSE IF unit = "slow" THEN BOOLEAN ELSE {FALSE}

SendIdentityRequest(t) ==
    /\ pc[t] = "idsend"
    /\ \E r \in Reached : idAsked' = (idAsked \/ r)
    /\ Goto(t, "idcheck")
    /\ UNCHANGED <<unitVars, portVars, negotiated, pending, delivered, n,
                   appVars, keepVars>>

LastAttempt(t) == n[t] + 1 = RetryCount

NextAttempt(t) == [n EXCEPT ![t] = @ + 1]

\* After the sleep; a unit that is up has answered by then.
CheckIdentity(t) ==
    /\ pc[t] = "idcheck"
    /\ unit = "up" /\ midiIn = "open" => negotiated \/ ~idAsked
    /\ n' = NextAttempt(t)
    /\ \/ /\ negotiated
          /\ Goto(t, "set2")
          /\ UNCHANGED result
       \/ /\ ~negotiated
          /\ ~LastAttempt(t)
          /\ Goto(t, "idsend")
          /\ UNCHANGED result
       \/ /\ ~negotiated
          /\ LastAttempt(t)
          /\ Opened(t, FALSE)
    /\ UNCHANGED <<unitVars, portVars, linkVars, orderly, keepVars>>

\* The identity reply reaches DeviceLink._on_receive.
IdentityArrives ==
    /\ idAsked
    /\ midiIn = "open"
    /\ idAsked' = FALSE
    /\ negotiated' = TRUE
    /\ UNCHANGED <<unitVars, portVars, pending, delivered, pc, n, appVars,
                   keepVars>>

-----------------------------------------------------------------------------
(* One exchange of the link: slot and send, then its outcome.              *)

Ask(t, at, next, address) ==
    /\ pc[t] = at
    /\ pending' = pending \cup {address}
    /\ IF midiOut = "none"
       THEN Raise(t) /\ UNCHANGED <<delivered, editor>>
       ELSE /\ \E r \in Reached :
                 /\ delivered' = [delivered EXCEPT ![t] = r]
                 /\ editor' = (editor \/ (r /\ address = "set2"))
            /\ Goto(t, next)
            /\ UNCHANGED result
    /\ UNCHANGED <<unit, changes, portVars, negotiated, idAsked, n,
                   orderly, keepVars>>

\* Whether the expected reply is there before the polls run out.
Answers(t) ==
    IF delivered[t] /\ negotiated /\ midiIn = "open"
    THEN IF unit = "up" THEN {TRUE} ELSE BOOLEAN
    ELSE {FALSE}

\* The slot is dropped and ok tells whether the expected reply was in it; a
\* slot that another thread dropped is a KeyError, unless the polls were over.
Outcome(t, address, ok) ==
    /\ address \in pending \/ ~ok
    /\ ok \in Answers(t) \/ address \notin pending
    /\ pending' = pending \ {address}
    /\ delivered' = [delivered EXCEPT ![t] = FALSE]
    /\ UNCHANGED <<unitVars, portVars, negotiated, idAsked, n,
                   orderly, keepVars>>

LostSlot(t, at, address) ==
    /\ pc[t] = at
    /\ address \notin pending
    /\ Raise(t)
    /\ delivered' = [delivered EXCEPT ![t] = FALSE]
    /\ UNCHANGED <<unitVars, portVars, negotiated, idAsked, pending, n,
                   orderly, keepVars>>

\* EditorSession._open_editor_mode after identity.
SetAcked(ok) == ok

\* Slip: reopen takes the unit to be in editor mode still.
AskSetOnce(t) ==
    IF t = App THEN Ask(t, "set2", "set2wait", "set2")
    ELSE /\ pc[t] = "set2"
         /\ Goto(t, "fetch3")
         /\ UNCHANGED <<unitVars, portVars, linkVars, n, appVars, keepVars>>

AskSet(t) == Ask(t, "set2", "set2wait", "set2")

SetOutcome(t) ==
    /\ pc[t] = "set2wait"
    /\ \E ok \in BOOLEAN :
         /\ Outcome(t, "set2", ok)
         /\ IF SetAcked(ok) THEN Goto(t, "fetch3") /\ UNCHANGED result
            ELSE Opened(t, FALSE)

AskFetch(t) == Ask(t, "fetch3", "fetch3wait", "fetch3")

FetchOutcome(t) ==
    /\ pc[t] = "fetch3wait"
    /\ \E ok \in BOOLEAN : Outcome(t, "fetch3", ok) /\ Opened(t, ok)

-----------------------------------------------------------------------------
(* KeepAlive._run and check                                                *)

KeeperLoop(w) ==
    /\ pc[w] = "check"
    /\ Goto(w, IF stopped THEN "exited" ELSE "sleep")
    /\ n' = [n EXCEPT ![w] = 0]
    /\ UNCHANGED <<unitVars, portVars, linkVars, appVars, keepVars>>

\* One chunk of the interval, or its end.
KeeperSleep(w) ==
    /\ pc[w] = "sleep"
    /\ Goto(w, IF stopped THEN "exited" ELSE IF n[w] < Chunks THEN "sleep"
               ELSE "poll")
    /\ n' = [n EXCEPT ![w] = IF n[w] < Chunks THEN @ + 1 ELSE @]
    /\ UNCHANGED <<unitVars, portVars, linkVars, appVars, keepVars>>

KeeperPoll(w) == Ask(w, "poll", "pollwait", "fetch3")

PollAlive(ok) == ok

\* Anything but the expected reply: reopen, which closes first.
PollOutcome(w) ==
    /\ pc[w] = "pollwait"
    /\ \E ok \in BOOLEAN :
         /\ Outcome(w, "fetch3", ok)
         /\ Goto(w, IF PollAlive(ok) THEN "check" ELSE "closeout")
    /\ UNCHANGED result

-----------------------------------------------------------------------------
(* The unit (external)                                                     *)

UnitChanges ==
    /\ changes < MaxChanges
    /\ changes' = changes + 1
    /\ unit' \in {"up", "slow", "gone"} \ {unit}
    /\ IF unit' = "gone"
       THEN /\ editor' = FALSE
            /\ idAsked' = FALSE
            /\ delivered' = [t \in Threads |-> FALSE]
            /\ midiOut' = IF midiOut = "open" THEN "stale" ELSE midiOut
            /\ midiIn' = IF midiIn = "open" THEN "stale" ELSE midiIn
       ELSE UNCHANGED <<editor, idAsked, delivered, portVars>>
    /\ UNCHANGED <<negotiated, pending, pc, n, appVars, keepVars>>

-----------------------------------------------------------------------------
Sequence(t) ==
    \/ CloseOut(t)
    \/ CloseIn(t)
    \/ ResolveNames(t)
    \/ OpenOut(t)
    \/ OpenIn(t)
    \/ SendIdentityRequest(t)
    \/ CheckIdentity(t)
    \/ AskSet(t)
    \/ SetOutcome(t)
    \/ LostSlot(t, "set2wait", "set2")
    \/ AskFetch(t)
    \/ FetchOutcome(t)
    \/ LostSlot(t, "fetch3wait", "fetch3")

Keeper(w) ==
    \/ Sequence(w)
    \/ KeeperLoop(w)
    \/ KeeperSleep(w)
    \/ KeeperPoll(w)
    \/ PollOutcome(w)
    \/ LostSlot(w, "pollwait", "fetch3")

Next ==
    \/ OpenPorts
    \/ ClosePorts
    \/ StopKeeper
    \/ Sequence(App)
    \/ \E w \in Keepers : StartKeeper(w) \/ Keeper(w)
    \/ IdentityArrives
    \/ UnitChanges

Spec == Init /\ [][Next]_vars

\* Keeper threads and the inbound thread are scheduled; the application and
\* the unit owe nothing.
FairSpec ==
    /\ Spec
    /\ \A w \in Keepers : WF_vars(Keeper(w))
    /\ WF_vars(IdentityArrives)

-----------------------------------------------------------------------------
(* Properties                                                              *)

Labels == {"idle", "unborn", "exited", "broken", "dead", "closeout",
           "closein", "names", "out", "in", "idsend", "idcheck", "set2", "set2wait",
           "fetch3", "fetch3wait", "check", "sleep", "poll", "pollwait"}

TypeOK ==
    /\ unit \in {"up", "slow", "gone"}
    /\ editor \in BOOLEAN
    /\ changes \in 0..MaxChanges
    /\ midiOut \in Ports
    /\ midiIn \in Ports
    /\ negotiated \in BOOLEAN
    /\ idAsked \in BOOLEAN
    /\ pending \subseteq Addresses
    /\ delivered \in [Threads -> BOOLEAN]
    /\ pc \in [Threads -> Labels]
    /\ n \in [Threads -> Nat]
    /\ \A t \in Threads : pc[t] = "idcheck" => n[t] < RetryCount
    /\ result \in {"none", "up", "failed", "raised"}
    /\ orderly \in BOOLEAN
    /\ thread \in Keepers \cup {NoThread}
    /\ stopped \in BOOLEAN
    /\ reopened \in [Keepers -> Nat]

\* open_ports returns True only when the unit is in editor mode behind a
\* negotiated link: the transport opened and the handshake was acknowledged
\* (unless a keeper nobody joined reopens the ports behind its back).
OpenMeansUp ==
    [][orderly /\ result # "up" /\ result' = "up" => editor /\ negotiated]_vars

\* The keeper of an orderly application ends by no exception but that of a
\* port it could not open: it finds the port objects, and its slots.
OnlyOpeningKills == orderly => \A w \in Keepers : pc[w] # "dead"

\* A stopped keeper may be inside reopen, and open ports that the application
\* has closed meanwhile; but it does so only once before it ends.
ReopensOnce == stopped => \A w \in Keepers : reopened[w] <= 1

\* Stopped keepers end, even in the middle of reopening the ports of a unit
\* that never answers, and whatever the application does meanwhile.
KeeperStops == \A w \in Keepers : stopped ~> ~Alive(w) \/ ~stopped

\* KeepAlive has a thread, and was not told to stop it.
Watching == thread # NoThread /\ ~stopped

\* While the keeper of an orderly application lives and watches a unit that is
\* back for good, the ports end up open for good.
KeeperReopens ==
    <>[](orderly /\ Watching /\ Alive(thread) /\ unit = "up")
        => <>[](midiOut = "open" /\ midiIn = "open")

\* And the unit ends up in editor mode, which the session is to keep it in,
\* provided it was never slow to answer: a keeper whose handshake went
\* unanswered is content with an answered poll.
EditorModeKept ==
    <>[](orderly /\ Watching /\ Alive(thread) /\ unit = "up")
        /\ [](unit # "slow") => <>[]editor

\* What the session says of itself, to bring the unit up and keep it up, is
\* more: ports the application opened and left open come back with the unit,
\* with no word of a keeper that still lives.
PortsRecover ==
    <>[](orderly /\ Watching /\ result = "up" /\ unit = "up")
        => <>[](midiOut = "open" /\ midiIn = "open")

=============================================================================
