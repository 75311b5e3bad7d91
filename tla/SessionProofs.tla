---------------------------- MODULE SessionProofs ----------------------------
(* What TLAPS proves of Session for any number of keepers, of retries and   *)
(* of changes of the unit.                                                  *)
EXTENDS Session, TLAPS

USE CountAssumption, PortAssumption, ThreadAssumption

-----------------------------------------------------------------------------
(* Type correctness.  Inductive form: an identity request is sent only      *)
(* while attempts are left.                                                 *)

TypeInv == TypeOK /\ \A t \in Threads : pc[t] = "idsend" => n[t] < RetryCount

LEMMA TypeInit == Init => TypeInv
  <1> SUFFICES ASSUME Init PROVE TypeInv
    OBVIOUS
  <1>1. /\ unit \in {"up", "slow", "gone"} /\ changes \in 0..MaxChanges
        /\ midiOut \in Ports /\ midiIn \in Ports
        /\ pending \subseteq Addresses
    BY DEF Init, Ports
  <1>2. /\ editor \in BOOLEAN /\ negotiated \in BOOLEAN /\ idAsked \in BOOLEAN
        /\ orderly \in BOOLEAN /\ stopped \in BOOLEAN
        /\ reopened \in [Keepers -> Nat]
    BY DEF Init
  <1>3. delivered \in [Threads -> BOOLEAN]
    BY DEF Init
  <1>4. pc \in [Threads -> Labels] /\ n \in [Threads -> Nat]
    BY DEF Init, Labels
  <1>5. \A t \in Threads : pc[t] \notin {"idcheck", "idsend"}
    BY DEF Init
  <1>6. /\ result \in {"none", "up", "failed", "raised"}
        /\ thread \in Keepers \cup {NoThread}
    BY DEF Init
  <1> QED
    BY <1>1, <1>2, <1>3, <1>4, <1>5, <1>6 DEF TypeInv, TypeOK

\* The application's operations.
LEMMA TypeApp ==
    ASSUME TypeInv,
           \/ OpenPorts \/ ClosePorts \/ StopKeeper
           \/ \E w \in Keepers : StartKeeper(w)
    PROVE  TypeInv'
  <1> USE DEF TypeInv, TypeOK, Threads, Labels, Goto, unitVars, portVars,
              linkVars, keepVars, appVars
  <1>1. ASSUME OpenPorts PROVE TypeInv'
    BY <1>1 DEF OpenPorts
  <1>2. ASSUME ClosePorts PROVE TypeInv'
    BY <1>2 DEF ClosePorts
  <1>3. ASSUME StopKeeper PROVE TypeInv'
    BY <1>3 DEF StopKeeper
  <1>4. ASSUME NEW w \in Keepers, StartKeeper(w) PROVE TypeInv'
    BY <1>4 DEF StartKeeper
  <1> QED
    BY <1>1, <1>2, <1>3, <1>4

\* The steps on the ports.
LEMMA TypePorts ==
    ASSUME TypeInv, NEW t \in Threads,
           \/ CloseOut(t) \/ CloseIn(t) \/ ResolveNames(t) \/ OpenOut(t)
           \/ OpenIn(t)
    PROVE  TypeInv'
  <1> USE DEF TypeInv, TypeOK, Labels, Ports, Goto, Raise, RaiseAs, Opened,
              AfterClose, unitVars, portVars, linkVars, keepVars, appVars
  <1>1. ASSUME CloseOut(t) PROVE TypeInv'
    BY <1>1 DEF CloseOut
  <1>2. ASSUME CloseIn(t) PROVE TypeInv'
    <2>1. /\ midiIn' \in Ports
          /\ result' \in {"none", "up", "failed", "raised"}
      BY <1>2 DEF CloseIn
    <2>2. /\ pc' \in [Threads -> Labels]
          /\ \A v \in Threads : pc'[v] = pc[v] \/ pc'[v] \notin {"idcheck", "idsend"}
      BY <1>2 DEF CloseIn
    <2>3. UNCHANGED <<unit, editor, changes, midiOut, negotiated, idAsked,
                      pending, delivered, n, orderly, thread, stopped, reopened>>
      BY <1>2 DEF CloseIn
    <2> QED
      BY <2>1, <2>2, <2>3
  <1>3. ASSUME ResolveNames(t) PROVE TypeInv'
    BY <1>3 DEF ResolveNames
  <1>4. ASSUME OpenOut(t) PROVE TypeInv'
    <2>1. reopened' \in [Keepers -> Nat]
      BY <1>4 DEF OpenOut
    <2>2. /\ midiOut' \in Ports
          /\ result' \in {"none", "up", "failed", "raised"}
      BY <1>4 DEF OpenOut, OpenFails
    <2>3. /\ pc' \in [Threads -> Labels]
          /\ \A v \in Threads : pc'[v] = pc[v] \/ pc'[v] \notin {"idcheck", "idsend"}
      BY <1>4 DEF OpenOut, OpenFails
    <2>4. UNCHANGED <<unit, editor, changes, midiIn, negotiated, idAsked,
                      pending, delivered, n, orderly, thread, stopped>>
      BY <1>4 DEF OpenOut
    <2> QED
      BY <2>1, <2>2, <2>3, <2>4
  <1>5. ASSUME OpenIn(t) PROVE TypeInv'
    BY <1>5 DEF OpenIn, OpenFails
  <1> QED
    BY <1>1, <1>2, <1>3, <1>4, <1>5

\* The identity attempts.
LEMMA TypeIdentity ==
    ASSUME TypeInv, NEW t \in Threads,
           SendIdentityRequest(t) \/ CheckIdentity(t)
    PROVE  TypeInv'
  <1> USE DEF TypeInv, TypeOK, Labels, Goto, Opened, unitVars, portVars,
              linkVars, keepVars, appVars
  <1>1. ASSUME SendIdentityRequest(t) PROVE TypeInv'
    BY <1>1 DEF SendIdentityRequest, Reached
  <1>2. ASSUME CheckIdentity(t) PROVE TypeInv'
    BY <1>2 DEF CheckIdentity, NextAttempt, LastAttempt
  <1> QED
    BY <1>1, <1>2

\* One exchange of the link.
LEMMA TypeAsk ==
    ASSUME TypeInv, NEW t \in Threads,
           NEW at \in Labels, NEW next \in Labels \ {"idcheck", "idsend"},
           NEW address \in Addresses, Ask(t, at, next, address)
    PROVE  TypeInv'
  <1> USE DEF TypeInv, TypeOK, Ask
  <1>1. Reached \subseteq BOOLEAN
    BY DEF Reached
  <1>2. editor' \in BOOLEAN /\ delivered' \in [Threads -> BOOLEAN]
    BY <1>1
  <1>3. pending' \subseteq Addresses
    OBVIOUS
  <1>4. /\ pc' \in [Threads -> Labels]
        /\ \A v \in Threads : pc'[v] = pc[v] \/ pc'[v] \notin {"idcheck", "idsend"}
        /\ result' \in {"none", "up", "failed", "raised"}
    BY DEF Goto, Raise, RaiseAs, Labels
  <1>5. UNCHANGED <<unit, changes, midiOut, midiIn, negotiated, idAsked, n,
                    orderly, thread, stopped, reopened>>
    BY DEF portVars, keepVars
  <1> QED
    BY <1>2, <1>3, <1>4, <1>5

LEMMA TypeOutcome ==
    ASSUME TypeInv, NEW t \in Threads, NEW address, NEW ok \in BOOLEAN,
           Outcome(t, address, ok),
           NEW next \in Labels \ {"idcheck", "idsend"}, Goto(t, next),
           result' \in {"none", "up", "failed", "raised"}
    PROVE  TypeInv'
  BY DEF TypeInv, TypeOK, Labels, Goto, Outcome, unitVars, portVars, keepVars

LEMMA TypeLostSlot ==
    ASSUME TypeInv, NEW t \in Threads, NEW at, NEW address,
           LostSlot(t, at, address)
    PROVE  TypeInv'
  BY DEF TypeInv, TypeOK, Labels, Goto, Raise, RaiseAs, LostSlot, unitVars,
         portVars, keepVars

LEMMA TypeExchange ==
    ASSUME TypeInv, NEW t \in Threads,
           \/ AskSet(t) \/ SetOutcome(t) \/ AskFetch(t) \/ FetchOutcome(t)
           \/ LostSlot(t, "set2wait", "set2")
           \/ LostSlot(t, "fetch3wait", "fetch3")
    PROVE  TypeInv'
  <1>1. ASSUME AskSet(t) \/ AskFetch(t) PROVE TypeInv'
    BY <1>1, TypeAsk DEF AskSet, AskFetch, Labels, Addresses
  <1>2. ASSUME SetOutcome(t) PROVE TypeInv'
    BY <1>2, TypeOutcome DEF SetOutcome, Opened, Goto, Labels, TypeInv, TypeOK
  <1>3. ASSUME FetchOutcome(t) PROVE TypeInv'
    <2>1. PICK ok \in BOOLEAN : Outcome(t, "fetch3", ok) /\ Opened(t, ok)
      BY <1>3 DEF FetchOutcome
    <2>2. /\ Goto(t, IF t = App THEN "idle" ELSE "check")
          /\ result' \in {"none", "up", "failed", "raised"}
      BY <2>1 DEF Opened, TypeInv, TypeOK
    <2> QED
      BY <2>1, <2>2, TypeOutcome DEF Labels
  <1> QED
    BY <1>1, <1>2, <1>3, TypeLostSlot

\* The keeper's own steps.
LEMMA TypeKeeper ==
    ASSUME TypeInv, NEW w \in Keepers,
           \/ KeeperLoop(w) \/ KeeperSleep(w) \/ KeeperPoll(w)
           \/ PollOutcome(w) \/ LostSlot(w, "pollwait", "fetch3")
    PROVE  TypeInv'
  <1>w. w \in Threads
    BY DEF Threads
  <1>1. ASSUME KeeperLoop(w) \/ KeeperSleep(w) PROVE TypeInv'
    BY <1>1, <1>w DEF KeeperLoop, KeeperSleep, TypeInv, TypeOK, Labels, Goto,
       unitVars, portVars, linkVars, keepVars, appVars
  <1>2. ASSUME KeeperPoll(w) PROVE TypeInv'
    BY <1>2, <1>w, TypeAsk DEF KeeperPoll, Labels, Addresses
  <1>3. ASSUME PollOutcome(w) PROVE TypeInv'
    BY <1>3, <1>w, TypeOutcome DEF PollOutcome, Labels, TypeInv, TypeOK
  <1> QED
    BY <1>1, <1>2, <1>3, <1>w, TypeLostSlot

\* The inbound thread and the unit.
LEMMA TypeUnit ==
    ASSUME TypeInv, IdentityArrives \/ UnitChanges
    PROVE  TypeInv'
  <1> USE DEF TypeInv, TypeOK, Ports, unitVars, portVars, keepVars, appVars
  <1>1. ASSUME IdentityArrives PROVE TypeInv'
    BY <1>1 DEF IdentityArrives
  <1>2. ASSUME UnitChanges PROVE TypeInv'
    <2>1. /\ editor' \in BOOLEAN /\ idAsked' \in BOOLEAN
          /\ delivered' \in [Threads -> BOOLEAN]
      BY <1>2 DEF UnitChanges
    <2>2. /\ unit' \in {"up", "slow", "gone"} /\ changes' \in 0..MaxChanges
          /\ midiOut' \in Ports /\ midiIn' \in Ports
      BY <1>2 DEF UnitChanges
    <2>3. UNCHANGED <<negotiated, pending, pc, n, result, orderly, thread,
                      stopped, reopened>>
      BY <1>2 DEF UnitChanges
    <2> QED
      BY <2>1, <2>2, <2>3
  <1> QED
    BY <1>1, <1>2

LEMMA TypeStep == TypeInv /\ [Next]_vars => TypeInv'
  <1> SUFFICES ASSUME TypeInv, [Next]_vars PROVE TypeInv'
    OBVIOUS
  <1>1. ASSUME NEW t \in Threads, Sequence(t) PROVE TypeInv'
    BY <1>1, TypePorts, TypeIdentity, TypeExchange DEF Sequence
  <1>2. ASSUME NEW w \in Keepers, Keeper(w) PROVE TypeInv'
    <2>1. w \in Threads
      BY DEF Threads
    <2> QED
      BY <1>1, <1>2, <2>1, TypeKeeper DEF Keeper
  <1>3. ASSUME UNCHANGED vars PROVE TypeInv'
    BY <1>3 DEF TypeInv, TypeOK, vars, unitVars, portVars, linkVars, appVars,
                keepVars
  <1>4. App \in Threads
    BY DEF Threads
  <1> QED
    BY <1>1, <1>2, <1>3, <1>4, TypeApp, TypeUnit DEF Next

LEMMA TypeInvariant == Spec => []TypeInv
  BY TypeInit, TypeStep, PTL DEF Spec

\* The types of the session's state, and that the attempts are bounded.
THEOREM TypeCorrect == Spec => []TypeOK
  <1>1. TypeInv => TypeOK
    BY DEF TypeInv
  <1> QED
    BY <1>1, TypeInvariant, PTL

-----------------------------------------------------------------------------
(* The port objects, once there, stay: whoever is past the opening of a     *)
(* port finds its object.                                                   *)

Handshake == {"idsend", "idcheck", "set2", "set2wait", "fetch3", "fetch3wait"}

BothThere == midiOut # "none" /\ midiIn # "none"

PortsThere ==
    /\ \A t \in Threads : pc[t] \in {"closein", "in"} => midiOut # "none"
    /\ \A t \in Threads : pc[t] \in Handshake => BothThere
    /\ result = "up" => BothThere

\* No step takes a port object away.
LEMMA PortsStay ==
    ASSUME [Next]_vars
    PROVE  /\ midiOut # "none" => midiOut' # "none"
           /\ midiIn # "none" => midiIn' # "none"
  <1> USE DEF unitVars, portVars, linkVars, appVars, keepVars
  <1>1. ASSUME NEW t \in Threads, Sequence(t)
        PROVE  /\ midiOut # "none" => midiOut' # "none"
               /\ midiIn # "none" => midiIn' # "none"
    <2>1. CASE CloseOut(t) \/ CloseIn(t) \/ OpenOut(t) \/ OpenIn(t)
      BY <2>1 DEF CloseOut, CloseIn, OpenOut, OpenIn, AfterClose
    <2>2. CASE ~(CloseOut(t) \/ CloseIn(t) \/ OpenOut(t) \/ OpenIn(t))
      BY <1>1, <2>2 DEF Sequence, ResolveNames, SendIdentityRequest,
         CheckIdentity, AskSet, SetOutcome, AskFetch, FetchOutcome, LostSlot,
         Ask, Outcome
    <2> QED
      BY <2>1, <2>2
  <1>2. ASSUME NEW w \in Keepers, Keeper(w)
        PROVE  /\ midiOut # "none" => midiOut' # "none"
               /\ midiIn # "none" => midiIn' # "none"
    <2>1. CASE Sequence(w)
      BY <1>1, <2>1 DEF Threads
    <2>2. CASE ~Sequence(w)
      BY <1>2, <2>2 DEF Keeper, KeeperLoop, KeeperSleep, KeeperPoll,
         PollOutcome, LostSlot, Ask, Outcome
    <2> QED
      BY <2>1, <2>2
  <1>3. CASE UnitChanges
    BY <1>3 DEF UnitChanges
  <1>4. CASE \/ OpenPorts \/ ClosePorts \/ StopKeeper \/ IdentityArrives
             \/ UNCHANGED vars \/ \E w \in Keepers : StartKeeper(w)
    BY <1>4 DEF OpenPorts, ClosePorts, StopKeeper, IdentityArrives, vars,
       StartKeeper
  <1> QED
    BY <1>1, <1>2, <1>3, <1>4 DEF Next, Threads

\* Only the thread that takes a step moves, and it finds what it needs.
LEMMA PortsStep ==
    ASSUME TypeInv, PortsThere, [Next]_vars
    PROVE  PortsThere'
  <1> USE PortsStay DEF TypeInv, TypeOK, PortsThere, BothThere, Handshake
  <1>1. ASSUME NEW t \in Threads, Sequence(t) PROVE PortsThere'
    <2> USE DEF Goto, Raise, RaiseAs, Opened
    <2>1. CASE CloseOut(t) \/ CloseIn(t)
      BY <2>1 DEF CloseOut, CloseIn, AfterClose
    <2>2. CASE ResolveNames(t) \/ OpenOut(t)
      BY <2>2 DEF ResolveNames, OpenOut, OpenFails
    <2>3. CASE OpenIn(t)
      BY <2>3 DEF OpenIn, OpenFails
    <2>4. CASE SendIdentityRequest(t) \/ CheckIdentity(t)
      BY <2>4 DEF SendIdentityRequest, CheckIdentity
    <2>5. CASE AskSet(t) \/ AskFetch(t)
      BY <2>5 DEF AskSet, AskFetch, Ask
    <2>6. CASE SetOutcome(t) \/ FetchOutcome(t)
      BY <2>6 DEF SetOutcome, FetchOutcome, Outcome
    <2>7. CASE \/ LostSlot(t, "set2wait", "set2")
               \/ LostSlot(t, "fetch3wait", "fetch3")
      BY <2>7 DEF LostSlot
    <2> QED
      BY <1>1, <2>1, <2>2, <2>3, <2>4, <2>5, <2>6, <2>7 DEF Sequence
  <1>2. ASSUME NEW w \in Keepers, Keeper(w) PROVE PortsThere'
    <2>w. w \in Threads
      BY DEF Threads
    <2>1. CASE Sequence(w)
      BY <1>1, <2>1, <2>w
    <2>2. CASE KeeperLoop(w) \/ KeeperSleep(w)
      BY <2>2, <2>w DEF KeeperLoop, KeeperSleep, Goto, appVars
    <2>3. CASE KeeperPoll(w)
      BY <2>3, <2>w DEF KeeperPoll, Ask, Goto, Raise, RaiseAs
    <2>4. CASE PollOutcome(w) \/ LostSlot(w, "pollwait", "fetch3")
      BY <2>4, <2>w DEF PollOutcome, LostSlot, Outcome, Goto, Raise,
                       RaiseAs
    <2> QED
      BY <1>2, <2>1, <2>2, <2>3, <2>4 DEF Keeper
  <1>3. CASE OpenPorts \/ ClosePorts
    BY <1>3 DEF OpenPorts, ClosePorts, Goto
  <1>4. ASSUME NEW w \in Keepers, StartKeeper(w) PROVE PortsThere'
    BY <1>4 DEF StartKeeper, Goto, Threads
  <1>5. CASE StopKeeper \/ IdentityArrives \/ UnitChanges \/ UNCHANGED vars
    BY <1>5 DEF StopKeeper, IdentityArrives, UnitChanges, vars, unitVars,
       portVars, linkVars, appVars, keepVars
  <1> QED
    BY <1>1, <1>2, <1>3, <1>4, <1>5 DEF Next, Threads

-----------------------------------------------------------------------------
(* The orderly application.  Inductive form: a live keeper is the one last  *)
(* started, runs while the application is idle on ports that were opened,   *)
(* and finds the slot it polls.                                             *)

OneAtATime ==
    \A w \in Keepers : Alive(w) => w = thread /\ pc[App] = "idle" /\ BothThere

SlotsHeld ==
    \A w \in Keepers :
        /\ pc[w] = "set2wait" => "set2" \in pending
        /\ pc[w] \in {"fetch3wait", "pollwait"} => "fetch3" \in pending

NoneDead == \A w \in Keepers : pc[w] # "dead"

OrderInv == orderly => OneAtATime /\ SlotsHeld /\ NoneDead

\* While the application is busy no keeper lives, and when it joins the last
\* one, none does.
LEMMA NoKeeper ==
    ASSUME TypeInv, OrderInv, orderly, pc[App] # "idle" \/ Joined
    PROVE  \A w \in Keepers : ~Alive(w)
  BY DEF TypeInv, TypeOK, OrderInv, OneAtATime, Joined

\* A thread in open, close or reopen moves alone.
LEMMA SequenceMoves ==
    ASSUME TypeInv, NEW t \in Threads, Sequence(t)
    PROVE  /\ pc[t] \in Handshake \cup {"closeout", "closein", "names", "out", "in"}
           /\ \A v \in Threads \ {t} : pc'[v] = pc[v]
           /\ UNCHANGED <<orderly, thread, stopped>>
           /\ t # App => UNCHANGED result
  <1> USE DEF TypeInv, TypeOK, Handshake, keepVars, Goto, Raise, RaiseAs,
              Opened
  <1>1. CASE CloseOut(t)
    BY <1>1 DEF CloseOut
  <1>2. CASE CloseIn(t)
    BY <1>2 DEF CloseIn
  <1>3. CASE ResolveNames(t)
    BY <1>3 DEF ResolveNames
  <1>4. CASE OpenOut(t)
    BY <1>4 DEF OpenOut, OpenFails
  <1>5. CASE OpenIn(t)
    BY <1>5 DEF OpenIn, OpenFails
  <1>6. CASE SendIdentityRequest(t)
    BY <1>6 DEF SendIdentityRequest, appVars
  <1>7. CASE CheckIdentity(t)
    BY <1>7 DEF CheckIdentity
  <1>8. CASE AskSet(t) \/ AskFetch(t)
    BY <1>8 DEF AskSet, AskFetch, Ask
  <1>9. CASE SetOutcome(t)
    BY <1>9 DEF SetOutcome, Outcome
  <1>10. CASE FetchOutcome(t)
    BY <1>10 DEF FetchOutcome, Outcome
  <1>11. CASE \/ LostSlot(t, "set2wait", "set2")
              \/ LostSlot(t, "fetch3wait", "fetch3")
    BY <1>11 DEF LostSlot
  <1> QED
    BY <1>1, <1>2, <1>3, <1>4, <1>5, <1>6, <1>7, <1>8, <1>9, <1>10, <1>11
    DEF Sequence

\* So does a live keeper, whatever it does.
LEMMA KeeperMoves ==
    ASSUME TypeInv, NEW w \in Keepers, Keeper(w)
    PROVE  /\ Alive(w)
           /\ \A v \in Threads \ {w} : pc'[v] = pc[v]
           /\ UNCHANGED <<orderly, thread, stopped, result>>
  <1>w. w \in Threads /\ w # App
    BY DEF Threads
  <1> USE DEF TypeInv, TypeOK, Alive, keepVars, Goto, Raise, RaiseAs
  <1>1. CASE Sequence(w)
    BY <1>1, <1>w, SequenceMoves DEF Handshake
  <1>2. CASE KeeperLoop(w) \/ KeeperSleep(w)
    BY <1>2, <1>w DEF KeeperLoop, KeeperSleep, appVars
  <1>3. CASE KeeperPoll(w)
    BY <1>3, <1>w DEF KeeperPoll, Ask
  <1>4. CASE PollOutcome(w)
    BY <1>4, <1>w DEF PollOutcome, Outcome
  <1>5. CASE LostSlot(w, "pollwait", "fetch3")
    BY <1>5, <1>w DEF LostSlot
  <1> QED
    BY <1>1, <1>2, <1>3, <1>4, <1>5 DEF Keeper

\* A step of the application inside open or close.
LEMMA OrderApp ==
    ASSUME TypeInv, OrderInv, Sequence(App)
    PROVE  OrderInv'
  <1> SUFFICES ASSUME orderly' PROVE OrderInv'
    BY DEF OrderInv
  <1>1. App \in Threads /\ App \notin Keepers
    BY DEF Threads
  <1>2. orderly /\ pc[App] # "idle"
    BY <1>1, SequenceMoves DEF Handshake
  <1>3. \A w \in Keepers : ~Alive(w) /\ pc[w] # "dead"
    BY <1>2, NoKeeper DEF OrderInv, NoneDead
  <1>4. \A w \in Keepers : pc'[w] = pc[w]
    BY <1>1, SequenceMoves DEF Threads
  <1>5. OneAtATime' /\ SlotsHeld' /\ NoneDead'
    BY <1>3, <1>4 DEF OneAtATime, SlotsHeld, NoneDead, Alive
  <1> QED
    BY <1>5 DEF OrderInv

\* A step of a keeper.
LEMMA OrderKeeper ==
    ASSUME TypeInv, PortsThere, OrderInv, [Next]_vars,
           NEW w \in Keepers, Keeper(w)
    PROVE  OrderInv'
  <1> SUFFICES ASSUME orderly' PROVE OrderInv'
    BY DEF OrderInv
  <1> USE DEF unitVars, portVars, linkVars, appVars, keepVars, Goto, Raise,
              RaiseAs, Opened
  <1>1. w \in Threads /\ w # App /\ App \in Threads
    BY DEF Threads
  <1>2. orderly /\ Alive(w)
    BY KeeperMoves
  <1>3. /\ w = thread /\ pc[App] = "idle" /\ BothThere
        /\ \A v \in Keepers \ {w} : ~Alive(v) /\ pc[v] # "dead"
    BY <1>2 DEF OrderInv, OneAtATime, NoneDead
  <1>4. BothThere'
    BY <1>3, PortsStay DEF BothThere
  <1>5. /\ \A v \in Threads \ {w} : pc'[v] = pc[v]
        /\ thread' = thread
    BY <1>3, KeeperMoves
  <1>6. OneAtATime'
    BY <1>1, <1>3, <1>4, <1>5 DEF OneAtATime, Alive, Threads
  <1>7. /\ pc'[w] # "dead"
        /\ pc'[w] = "set2wait" => "set2" \in pending'
        /\ pc'[w] \in {"fetch3wait", "pollwait"} => "fetch3" \in pending'
    <2> USE <1>1, <1>2, <1>3 DEF TypeInv, TypeOK, OrderInv, SlotsHeld, BothThere
    <2>1. CASE CloseOut(w) \/ CloseIn(w) \/ ResolveNames(w)
      BY <2>1 DEF CloseOut, CloseIn, ResolveNames
    <2>2. CASE OpenOut(w) \/ OpenIn(w)
      BY <2>2 DEF OpenOut, OpenIn, OpenFails
    <2>3. CASE SendIdentityRequest(w) \/ CheckIdentity(w)
      BY <2>3 DEF SendIdentityRequest, CheckIdentity
    <2>4. CASE AskSet(w) \/ AskFetch(w) \/ KeeperPoll(w)
      BY <2>4 DEF AskSet, AskFetch, KeeperPoll, Ask
    <2>5. CASE SetOutcome(w) \/ FetchOutcome(w) \/ PollOutcome(w)
      BY <2>5 DEF SetOutcome, FetchOutcome, PollOutcome, Outcome
    <2>6. CASE \/ LostSlot(w, "set2wait", "set2")
               \/ LostSlot(w, "fetch3wait", "fetch3")
               \/ LostSlot(w, "pollwait", "fetch3")
      BY <2>6 DEF LostSlot
    <2>7. CASE KeeperLoop(w) \/ KeeperSleep(w)
      BY <2>7 DEF KeeperLoop, KeeperSleep
    <2> QED
      BY <2>1, <2>2, <2>3, <2>4, <2>5, <2>6, <2>7 DEF Keeper, Sequence
  <1>8. SlotsHeld' /\ NoneDead'
    BY <1>1, <1>3, <1>5, <1>7 DEF SlotsHeld, NoneDead, Alive, Threads
  <1> QED
    BY <1>6, <1>8 DEF OrderInv

\* The application's operations.
LEMMA OrderOperation ==
    ASSUME TypeInv, PortsThere, OrderInv,
           \/ OpenPorts \/ ClosePorts \/ StopKeeper
           \/ \E w \in Keepers : StartKeeper(w)
    PROVE  OrderInv'
  <1> SUFFICES ASSUME orderly' PROVE OrderInv'
    BY DEF OrderInv
  <1> USE DEF TypeInv, TypeOK, Threads, Goto, unitVars, portVars, linkVars,
              appVars, keepVars
  <1>1. CASE OpenPorts \/ ClosePorts
    <2>1. orderly /\ \A w \in Keepers : ~Alive(w) /\ pc[w] # "dead"
      BY <1>1, NoKeeper DEF OpenPorts, ClosePorts, OrderInv, NoneDead
    <2>2. \A w \in Keepers : pc'[w] = pc[w]
      BY <1>1 DEF OpenPorts, ClosePorts
    <2> QED
      BY <2>1, <2>2 DEF OrderInv, OneAtATime, SlotsHeld, NoneDead, Alive
  <1>2. CASE StopKeeper
    BY <1>2 DEF StopKeeper, OrderInv, OneAtATime, SlotsHeld, NoneDead, Alive,
                BothThere
  <1>3. ASSUME NEW w \in Keepers, StartKeeper(w) PROVE OrderInv'
    <2>1. /\ orderly /\ pc[App] = "idle" /\ result = "up"
          /\ \A v \in Keepers : ~Alive(v) /\ pc[v] # "dead"
      BY <1>3, NoKeeper DEF StartKeeper, OrderInv, NoneDead
    <2>2. BothThere
      BY <2>1 DEF PortsThere
    <2>3. /\ \A v \in Threads \ {w} : pc'[v] = pc[v]
          /\ pc'[w] = "check" /\ thread' = w
          /\ UNCHANGED <<midiOut, midiIn>>
      BY <1>3 DEF StartKeeper
    <2>4. OneAtATime'
      BY <2>1, <2>2, <2>3 DEF OneAtATime, Alive, BothThere
    <2>5. SlotsHeld' /\ NoneDead'
      BY <2>1, <2>3 DEF SlotsHeld, NoneDead, Alive
    <2> QED
      BY <2>4, <2>5 DEF OrderInv
  <1> QED
    BY <1>1, <1>2, <1>3

LEMMA OrderStep ==
    TypeInv /\ PortsThere /\ OrderInv /\ [Next]_vars => OrderInv'
  <1> SUFFICES ASSUME TypeInv, PortsThere, OrderInv, [Next]_vars
               PROVE  OrderInv'
    OBVIOUS
  <1>1. CASE \/ OpenPorts \/ ClosePorts \/ StopKeeper
             \/ \E w \in Keepers : StartKeeper(w)
    BY <1>1, OrderOperation
  <1>2. CASE Sequence(App)
    BY <1>2, OrderApp
  <1>3. ASSUME NEW w \in Keepers, Keeper(w) PROVE OrderInv'
    BY <1>3, OrderKeeper
  <1>4. CASE IdentityArrives \/ UnitChanges \/ UNCHANGED vars
    <2>1. UNCHANGED <<pc, pending, thread, orderly>>
      BY <1>4 DEF IdentityArrives, UnitChanges, vars, unitVars, portVars,
         linkVars, appVars, keepVars
    <2>2. BothThere => BothThere'
      BY PortsStay DEF BothThere
    <2> QED
      BY <2>1, <2>2 DEF OrderInv, OneAtATime, SlotsHeld, NoneDead, Alive
  <1> QED
    BY <1>1, <1>2, <1>3, <1>4 DEF Next

LEMMA OrderInvariant == Spec => [](TypeInv /\ PortsThere /\ OrderInv)
  <1>1. Init => PortsThere
    BY DEF Init, PortsThere, Handshake, Threads
  <1>2. Init => OrderInv
    BY DEF Init, OrderInv, OneAtATime, SlotsHeld, NoneDead, Alive,
       Threads
  <1>3. TypeInv /\ PortsThere /\ [Next]_vars => PortsThere'
    BY PortsStep
  <1> QED
    BY <1>1, <1>2, <1>3, OrderStep, TypeInvariant, PTL DEF Spec

\* The keeper of an orderly application finds the port objects and its slot,
\* whatever the unit does: only a port that cannot be opened ends it with an
\* exception.
THEOREM OnlyOpeningKillsTheorem == Spec => []OnlyOpeningKills
  <1>1. OrderInv => OnlyOpeningKills
    BY DEF OrderInv, NoneDead, OnlyOpeningKills
  <1> QED
    BY <1>1, OrderInvariant, PTL

-----------------------------------------------------------------------------
(* Keepers that are stopped.  Inductive form: one that has yet to open the  *)
(* ports, or might poll again, has not opened them since the flag was       *)
(* raised.                                                                  *)

Ahead == {"sleep", "poll", "pollwait", "closeout", "closein", "names", "out"}

StoppedOnce ==
    \A w \in Keepers : /\ reopened[w] <= 1
                       /\ pc[w] \in Ahead => reopened[w] = 0

StoppedInv == stopped => StoppedOnce

\* A step of the open sequence.
LEMMA StoppedSequence ==
    ASSUME TypeInv, StoppedInv, NEW t \in Threads, Sequence(t)
    PROVE  StoppedInv'
  <1>1. /\ \A w \in Keepers \ {t} : pc'[w] = pc[w]
        /\ stopped' = stopped
    BY SequenceMoves DEF Threads
  <1>2. \A w \in Keepers : reopened[w] \in Nat
    BY DEF TypeInv, TypeOK
  <1> SUFFICES ASSUME stopped PROVE StoppedOnce'
    BY <1>1 DEF StoppedInv
  <1> USE DEF Goto, Raise, RaiseAs, Opened, OpenFails, keepVars
  <1>3. CASE OpenOut(t)
    <2>1. \A w \in Keepers \ {t} : reopened'[w] = reopened[w]
      BY <1>2, <1>3 DEF OpenOut
    <2>2. ASSUME t \in Keepers
          PROVE  reopened'[t] <= 1 /\ pc'[t] \notin Ahead
      <3>1. reopened[t] = 0
        BY <1>3, <2>2 DEF OpenOut, StoppedInv, StoppedOnce, Ahead
      <3>2. reopened'[t] \in {0, 1}
        BY <1>3, <2>2, <3>1 DEF OpenOut
      <3>3. pc'[t] \in {"in", "check", "idle", "broken"}
        BY <1>3 DEF OpenOut, TypeInv, TypeOK
      <3> QED
        BY <3>2, <3>3 DEF Ahead
    <2> QED
      BY <1>1, <2>1, <2>2 DEF StoppedInv, StoppedOnce
  <1>4. CASE ~OpenOut(t)
    <2>1. reopened' = reopened
      BY <1>4 DEF Sequence, CloseOut, CloseIn, ResolveNames, OpenIn,
         SendIdentityRequest, CheckIdentity, AskSet, SetOutcome, AskFetch,
         FetchOutcome, LostSlot, Ask, Outcome
    <2>2. t \in Keepers => (pc'[t] \in Ahead => pc[t] \in Ahead)
      <3>1. CASE CloseOut(t) \/ CloseIn(t) \/ ResolveNames(t) \/ OpenIn(t)
        BY <3>1 DEF CloseOut, CloseIn, ResolveNames, OpenIn, Ahead, TypeInv,
           TypeOK
      <3>2. CASE SendIdentityRequest(t) \/ CheckIdentity(t)
        BY <3>2 DEF SendIdentityRequest, CheckIdentity, Ahead, TypeInv, TypeOK
      <3>3. CASE AskSet(t) \/ AskFetch(t)
        BY <3>3 DEF AskSet, AskFetch, Ask, Ahead, TypeInv, TypeOK
      <3>4. CASE SetOutcome(t) \/ FetchOutcome(t)
        BY <3>4 DEF SetOutcome, FetchOutcome, Outcome, Ahead, TypeInv, TypeOK
      <3>5. CASE \/ LostSlot(t, "set2wait", "set2")
                 \/ LostSlot(t, "fetch3wait", "fetch3")
        BY <3>5 DEF LostSlot, Ahead, TypeInv, TypeOK
      <3> QED
        BY <1>4, <3>1, <3>2, <3>3, <3>4, <3>5 DEF Sequence
    <2> QED
      BY <1>1, <2>1, <2>2 DEF StoppedInv, StoppedOnce
  <1> QED
    BY <1>3, <1>4

\* A step of the keeper's loop: a raised flag ends it.
LEMMA StoppedLoop ==
    ASSUME TypeInv, StoppedInv, NEW w \in Keepers, Keeper(w), ~Sequence(w)
    PROVE  StoppedInv'
  <1>w. w \in Threads
    BY DEF Threads
  <1>1. /\ \A v \in Keepers \ {w} : pc'[v] = pc[v]
        /\ stopped' = stopped
    BY <1>w, KeeperMoves DEF Threads
  <1> SUFFICES ASSUME stopped PROVE StoppedOnce'
    BY <1>1 DEF StoppedInv
  <1> USE DEF Goto, Raise, RaiseAs, keepVars
  <1>2. reopened' = reopened
    BY DEF Keeper, KeeperLoop, KeeperSleep, KeeperPoll, PollOutcome, LostSlot,
       Ask, Outcome
  <1>3. pc'[w] \in Ahead => pc[w] \in Ahead
    <2>1. CASE KeeperLoop(w) \/ KeeperSleep(w)
      BY <1>w, <2>1 DEF KeeperLoop, KeeperSleep, Ahead, TypeInv, TypeOK
    <2>2. CASE KeeperPoll(w)
      BY <1>w, <2>2 DEF KeeperPoll, Ahead, Ask, TypeInv, TypeOK
    <2>3. CASE PollOutcome(w) \/ LostSlot(w, "pollwait", "fetch3")
      BY <1>w, <2>3 DEF PollOutcome, LostSlot, Outcome, Ahead, TypeInv, TypeOK
    <2> QED
      BY <2>1, <2>2, <2>3 DEF Keeper
  <1> QED
    BY <1>1, <1>2, <1>3 DEF StoppedInv, StoppedOnce

LEMMA StoppedStep == TypeInv /\ StoppedInv /\ [Next]_vars => StoppedInv'
  <1> SUFFICES ASSUME TypeInv, StoppedInv, [Next]_vars PROVE StoppedInv'
    OBVIOUS
  <1>1. CASE Sequence(App)
    BY <1>1, StoppedSequence DEF Threads
  <1>2. ASSUME NEW w \in Keepers, Keeper(w) PROVE StoppedInv'
    BY <1>2, StoppedSequence, StoppedLoop DEF Threads
  <1>3. CASE StopKeeper
    BY <1>3 DEF StopKeeper, StoppedInv, StoppedOnce
  <1>4. CASE \E w \in Keepers : StartKeeper(w)
    BY <1>4 DEF StartKeeper, StoppedInv
  <1>5. CASE OpenPorts \/ ClosePorts
    <2>1. /\ \A w \in Keepers : pc'[w] = pc[w]
          /\ UNCHANGED <<stopped, reopened>>
      BY <1>5 DEF OpenPorts, ClosePorts, Goto, keepVars, TypeInv, TypeOK,
         Threads
    <2> QED
      BY <2>1 DEF StoppedInv, StoppedOnce
  <1>6. CASE IdentityArrives \/ UnitChanges \/ UNCHANGED vars
    BY <1>6 DEF IdentityArrives, UnitChanges, vars, keepVars, StoppedInv,
       StoppedOnce
  <1> QED
    BY <1>1, <1>2, <1>3, <1>4, <1>5, <1>6 DEF Next

\* Whatever the application does while a stopped keeper is still running, and
\* however many it has left running, each opens the ports at most once more.
THEOREM ReopensOnceTheorem == Spec => []ReopensOnce
  <1>1. Init => StoppedInv
    BY DEF Init, StoppedInv
  <1>2. StoppedInv => ReopensOnce
    BY DEF StoppedInv, StoppedOnce, ReopensOnce
  <1> QED
    BY <1>1, <1>2, StoppedStep, TypeInvariant, PTL DEF Spec

-----------------------------------------------------------------------------
(* What a successful open means.  Inductive form: the application gets past *)
(* the identity attempts only on a negotiated link, and past an exchange    *)
(* that reached the unit only with the unit in editor mode.                 *)

Acknowledged ==
    /\ pc[App] \in {"set2", "set2wait", "fetch3", "fetch3wait"} => negotiated
    /\ pc[App] \in {"set2wait", "fetch3wait"} /\ delivered[App] => editor
    /\ pc[App] = "fetch3" /\ midiOut = "open" => editor

AckInv == orderly => Acknowledged

\* An outcome is good only when the request reached the unit.
LEMMA GoodOutcome ==
    ASSUME NEW t \in Threads, NEW address, Outcome(t, address, TRUE)
    PROVE  delivered[t]
  BY DEF Outcome, Answers

LEMMA AckApp ==
    ASSUME TypeInv, Acknowledged, Sequence(App)
    PROVE  Acknowledged'
  <1> USE DEF TypeInv, TypeOK, Acknowledged, unitVars, portVars, linkVars,
              keepVars, appVars, Goto, Raise, RaiseAs, Opened
  <1>0. App \in Threads
    BY DEF Threads
  <1>1. CASE CloseOut(App) \/ CloseIn(App)
    BY <1>0, <1>1 DEF CloseOut, CloseIn
  <1>2. CASE ResolveNames(App)
    BY <1>0, <1>2 DEF ResolveNames
  <1>3. CASE OpenOut(App) \/ OpenIn(App)
    BY <1>0, <1>3 DEF OpenOut, OpenIn, OpenFails
  <1>4. CASE SendIdentityRequest(App)
    BY <1>0, <1>4 DEF SendIdentityRequest
  <1>5. CASE CheckIdentity(App)
    BY <1>0, <1>5 DEF CheckIdentity
  <1>6. CASE AskSet(App)
    BY <1>0, <1>6 DEF AskSet, Ask
  <1>7. CASE AskFetch(App)
    BY <1>0, <1>7 DEF AskFetch, Ask, Reached
  <1>8. CASE SetOutcome(App)
    <2>1. PICK ok \in BOOLEAN :
            /\ Outcome(App, "set2", ok)
            /\ IF SetAcked(ok) THEN Goto(App, "fetch3") /\ UNCHANGED result
               ELSE Opened(App, FALSE)
      BY <1>8 DEF SetOutcome
    <2>2. /\ pc[App] = "set2wait"
          /\ UNCHANGED <<editor, negotiated, midiOut>>
      BY <1>8, <2>1 DEF SetOutcome, Outcome
    <2>3. CASE ok = TRUE
      <3>1. editor /\ negotiated
        BY <1>0, <2>1, <2>2, <2>3, GoodOutcome
      <3> QED
        BY <2>2, <3>1
    <2>4. CASE ok = FALSE
      <3>1. pc'[App] = "idle"
        BY <1>0, <2>1, <2>4 DEF SetAcked
      <3> QED
        BY <3>1
    <2> QED
      BY <2>3, <2>4
  <1>9. CASE FetchOutcome(App)
    BY <1>0, <1>9 DEF FetchOutcome
  <1>10. CASE \/ LostSlot(App, "set2wait", "set2")
              \/ LostSlot(App, "fetch3wait", "fetch3")
    BY <1>0, <1>10 DEF LostSlot
  <1> QED
    BY <1>1, <1>2, <1>3, <1>4, <1>5, <1>6, <1>7, <1>8, <1>9, <1>10
    DEF Sequence

LEMMA AckStep ==
    TypeInv /\ OrderInv /\ AckInv /\ [Next]_vars => AckInv'
  <1> SUFFICES ASSUME TypeInv, OrderInv, AckInv, [Next]_vars, orderly'
               PROVE  Acknowledged'
    BY DEF AckInv
  <1>0. App \in Threads
    BY DEF Threads
  <1>1. CASE Sequence(App)
    BY <1>0, <1>1, AckApp, SequenceMoves DEF AckInv
  <1>2. ASSUME NEW w \in Keepers, Keeper(w) PROVE Acknowledged'
    <2>1. orderly /\ Alive(w)
      BY <1>2, KeeperMoves
    <2>2. pc[App] = "idle"
      BY <2>1 DEF OrderInv, OneAtATime
    <2>3. pc'[App] = "idle"
      BY <1>0, <1>2, <2>2, KeeperMoves
    <2> QED
      BY <2>3 DEF Acknowledged
  <1>3. CASE OpenPorts \/ ClosePorts \/ StopKeeper
    <2>1. pc'[App] \in {"idle", "names", "closeout"}
      BY <1>0, <1>3 DEF OpenPorts, ClosePorts, StopKeeper, Goto, TypeInv, TypeOK
    <2> QED
      BY <2>1 DEF Acknowledged
  <1>4. ASSUME NEW w \in Keepers, StartKeeper(w) PROVE Acknowledged'
    <2>1. pc'[App] = "idle"
      BY <1>0, <1>4 DEF StartKeeper, Goto, TypeInv, TypeOK
    <2> QED
      BY <2>1 DEF Acknowledged
  <1>5. CASE IdentityArrives \/ UNCHANGED vars
    BY <1>5 DEF IdentityArrives, AckInv, Acknowledged, vars, unitVars,
       portVars, linkVars, appVars, keepVars
  <1>6. CASE UnitChanges
    <2>1. UNCHANGED <<negotiated, pc, orderly>>
      BY <1>6 DEF UnitChanges, appVars
    <2>2. CASE unit' = "gone"
      <3>1. midiOut' # "open" /\ ~delivered'[App]
        BY <1>0, <1>6, <2>2 DEF UnitChanges
      <3> QED
        BY <2>1, <3>1 DEF AckInv, Acknowledged
    <2>3. CASE unit' # "gone"
      BY <1>6, <2>1, <2>3 DEF UnitChanges, AckInv, Acknowledged, portVars
    <2> QED
      BY <2>2, <2>3
  <1> QED
    BY <1>1, <1>2, <1>3, <1>4, <1>5, <1>6 DEF Next

\* The step that makes the result good is the last of the handshake.
LEMMA OpenStep ==
    ASSUME TypeInv, AckInv, [Next]_vars, orderly, result # "up", result' = "up"
    PROVE  editor /\ negotiated
  <1>0. App \in Threads
    BY DEF Threads
  <1>1. ASSUME Sequence(App) PROVE editor /\ negotiated
    <2> USE DEF Raise, RaiseAs, Opened, OpenFails, appVars
    <2>1. FetchOutcome(App)
      <3>1. ~CloseOut(App) /\ ~CloseIn(App) /\ ~ResolveNames(App)
        BY DEF CloseOut, CloseIn, ResolveNames
      <3>2. ~OpenOut(App) /\ ~OpenIn(App) /\ ~SendIdentityRequest(App)
        BY DEF OpenOut, OpenIn, SendIdentityRequest
      <3>3. ~CheckIdentity(App) /\ ~AskSet(App) /\ ~AskFetch(App)
        BY DEF CheckIdentity, AskSet, AskFetch, Ask
      <3>4. ~SetOutcome(App)
        BY DEF SetOutcome
      <3>5. /\ ~LostSlot(App, "set2wait", "set2")
            /\ ~LostSlot(App, "fetch3wait", "fetch3")
        BY DEF LostSlot
      <3> QED
        BY <1>1, <3>1, <3>2, <3>3, <3>4, <3>5 DEF Sequence
    <2>2. PICK ok \in BOOLEAN : Outcome(App, "fetch3", ok) /\ Opened(App, ok)
      BY <2>1 DEF FetchOutcome
    <2>3. ok = TRUE
      BY <2>2
    <2>4. delivered[App]
      BY <1>0, <2>2, <2>3, GoodOutcome
    <2> QED
      BY <2>1, <2>4 DEF FetchOutcome, AckInv, Acknowledged
  <1>2. ASSUME NEW w \in Keepers PROVE ~Keeper(w)
    BY KeeperMoves
  <1>3. ~OpenPorts /\ ~ClosePorts /\ ~StopKeeper
    BY DEF OpenPorts, ClosePorts, StopKeeper, appVars
  <1>4. ASSUME NEW w \in Keepers PROVE ~StartKeeper(w)
    BY DEF StartKeeper
  <1>5. ~IdentityArrives /\ ~UnitChanges /\ vars' # vars
    BY DEF IdentityArrives, UnitChanges, vars, appVars
  <1> QED
    BY <1>1, <1>2, <1>3, <1>4, <1>5 DEF Next

\* open_ports returns True to an orderly application only with the unit in
\* editor mode behind a negotiated link, for any number of keepers.
THEOREM OpenMeansUpTheorem == Spec => OpenMeansUp
  <1>1. Init => AckInv
    BY DEF Init, AckInv, Acknowledged, Threads
  <1>2. TypeInv /\ AckInv /\ [Next]_vars =>
          [orderly /\ result # "up" /\ result' = "up" => editor /\ negotiated]_vars
    BY OpenStep
  <1> QED
    BY <1>1, <1>2, AckStep, OrderInvariant, PTL DEF Spec, OpenMeansUp

=============================================================================
