-------------------------- MODULE DeviceLinkProofs --------------------------
(* What TLAPS proves of DeviceLink for every set of clients, addresses and  *)
(* units, every retry count and every bound.                                *)
EXTENDS DeviceLink, TLAPS

USE RetryCountAssumption, BcastAssumption, AsksAssumption,
    BoundsAssumption, SendAssumption, SentinelAssumption

-----------------------------------------------------------------------------
(* Lemmas on the wires and on the unit's memory.                           *)

\* A wire that carries a message is still a wire.
LEMMA CarriedType ==
    ASSUME NEW M, NEW wire \in Seq(M), NEW m \in M
    PROVE  Carried(wire, m) \subseteq Seq(M)
  BY DEF Carried

\* A non-empty wire has a head and a tail.
LEMMA WireParts ==
    ASSUME NEW M, NEW wire \in Seq(M), wire # <<>>
    PROVE  Head(wire) \in M /\ Tail(wire) \in Seq(M)
  OBVIOUS

\* A change of the unit's memory keeps it within its versions.
LEMMA BumpedType ==
    ASSUME TypeOK, NEW u \in Units, NEW k \in Keys
    PROVE  Bumped(u, k) \in [Units -> [Keys -> Versions]]
  BY DEF TypeOK, Bumped, Versions

-----------------------------------------------------------------------------
(* Type correctness                                                        *)

LEMMA TypeInit == Init => TypeOK
  BY DEF Init, TypeOK, SlotValue, DeviceIds, Versions, Commands, Frames

LEMMA TypeClient ==
    ASSUME TypeOK, NEW c \in Clients, Client(c)
    PROVE  TypeOK'
  <1> USE DEF TypeOK, SlotValue
  <1>1. ASSUME NEW k \in Asks[c], Register(c, k) PROVE TypeOK'
    <2>1. k \in Keys
      OBVIOUS
    <2> QED
      BY <1>1, <2>1 DEF Register, Opened, unitVars
  <1>2. ASSUME NEW k \in Asks[c], Set(c, k) PROVE TypeOK'
    <2>1. [kind |-> "dt1", to |-> device_id, key |-> k] \in Commands
      BY DEF Commands
    <2>2. outbound' \in Seq(Commands)
      BY <1>2, <2>1, CarriedType DEF Set
    <2> QED
      BY <1>2, <2>2 DEF Set, callVars
  <1>3. ASSUME AskIdentity(c) PROVE TypeOK'
    <2>1. [kind |-> "idreq", to |-> Bcast, key |-> key[c]] \in Commands
      BY DEF Commands, DeviceIds
    <2>2. outbound' \in Seq(Commands)
      BY <1>3, <2>1, CarriedType DEF AskIdentity
    <2> QED
      BY <1>3, <2>2 DEF AskIdentity, callVars
  <1>4. ASSUME Transmit(c) PROVE TypeOK'
    <2>1. PICK kind \in {"rq1", "dt1"} :
            outbound' \in Carried(outbound,
                            [kind |-> kind, to |-> to[c], key |-> key[c]])
      BY <1>4 DEF Transmit
    <2>2. [kind |-> kind, to |-> to[c], key |-> key[c]] \in Commands
      BY DEF Commands
    <2>3. outbound' \in Seq(Commands)
      BY <2>1, <2>2, CarriedType
    <2> QED
      BY <1>4, <2>3 DEF Transmit
  <1>5. ASSUME TransmitRaises(c) PROVE TypeOK'
    BY <1>5 DEF TransmitRaises, unitVars
  <1>6. ASSUME PollHit(c) PROVE TypeOK'
    BY <1>6 DEF PollHit, unitVars
  <1>7. ASSUME PollMiss(c) PROVE TypeOK'
    BY <1>7 DEF PollMiss, NextTry, Exhausted, unitVars
  <1>8. ASSUME PollKeyError(c) PROVE TypeOK'
    BY <1>8 DEF PollKeyError, unitVars
  <1>9. ASSUME GiveUp(c) PROVE TypeOK'
    BY <1>9 DEF GiveUp, unitVars
  <1>10. ASSUME Return(c) PROVE TypeOK'
    <2>1. returned' \in [Keys -> Versions]
      BY <1>10 DEF Return, Frames
    <2> QED
      BY <1>10, <2>1 DEF Return, LocalsGone, Closed, unitVars, DeviceIds,
                         Versions
  <1>11. ASSUME Recover(c) PROVE TypeOK'
    BY <1>11 DEF Recover, LocalsGone, unitVars, DeviceIds, Versions
  <1> QED
    BY <1>1, <1>2, <1>3, <1>4, <1>5, <1>6, <1>7, <1>8, <1>9, <1>10, <1>11
    DEF Client, Exchange

LEMMA TypeReceive ==
    ASSUME TypeOK, Receive
    PROVE  TypeOK'
  <1> USE DEF TypeOK
  <1> DEFINE f == Head(inbound)
  <1>1. Arriving => f \in Frames /\ Tail(inbound) \in Seq(Frames)
    BY WireParts DEF Arriving
  <1>2. f \in Frames => f.unit \in Units /\ f.key \in Keys
    BY DEF Frames
  <1>3. ASSUME Negotiate PROVE TypeOK'
    BY <1>1, <1>2, <1>3 DEF Negotiate, DeviceIds, callVars
  <1>4. ASSUME Ignore PROVE TypeOK'
    BY <1>1, <1>4 DEF Ignore, callVars
  <1>5. ASSUME Correlate PROVE TypeOK'
    BY <1>1, <1>2, <1>5 DEF Correlate, Filled, SlotValue, callVars
  <1>6. ASSUME Emit PROVE TypeOK'
    BY <1>1, <1>6 DEF Emit, callVars
  <1>7. ASSUME EmitDone PROVE TypeOK'
    BY <1>7 DEF EmitDone, callVars, unitVars
  <1> QED
    BY <1>3, <1>4, <1>5, <1>6, <1>7 DEF Receive

LEMMA TypeUnit ==
    ASSUME TypeOK, Drop \/ \E u \in Units : Unit(u)
    PROVE  TypeOK'
  <1> USE DEF TypeOK
  <1>1. ASSUME Drop PROVE TypeOK'
    BY <1>1, WireParts DEF Drop, callVars
  <1>2. ASSUME NEW u \in Units, NEW k \in Keys, PanelEdit(u, k) PROVE TypeOK'
    <2>1. mem' \in [Units -> [Keys -> Versions]]
      BY <1>2, BumpedType DEF PanelEdit
    <2>2. DataFrame(u, k, mem'[u][k]) \in Frames
      BY <2>1 DEF DataFrame, Frames
    <2>3. inbound' \in Seq(Frames)
      BY <1>2, <2>2, CarriedType DEF PanelEdit
    <2> QED
      BY <1>2, <2>1, <2>3 DEF PanelEdit, callVars
  <1>3. ASSUME NEW u \in Units, Answer(u) PROVE TypeOK'
    <2> DEFINE k == Head(outbound).key
    <2>1. /\ Head(outbound) \in Commands
          /\ Tail(outbound) \in Seq(Commands)
      BY <1>3, WireParts DEF Answer, Addressed
    <2>2. k \in Keys
      BY <2>1 DEF Commands
    <2>3. mem' \in [Units -> [Keys -> Versions]]
      BY <1>3, <2>2, BumpedType DEF Answer
    <2>4. /\ DataFrame(u, k, mem[u][k]) \in Frames
          /\ DataFrame(u, k, mem'[u][k]) \in Frames
          /\ IdFrame(u, k) \in Frames
      BY <2>2, <2>3 DEF DataFrame, IdFrame, Frames, Versions
    <2>5. inbound' \in Seq(Frames)
      BY <1>3, <2>4, CarriedType DEF Answer
    <2>6. outbound' \in Seq(Commands)
      BY <1>3, <2>1 DEF Answer
    <2> QED
      BY <1>3, <2>3, <2>5, <2>6 DEF Answer, callVars
  <1> QED
    BY <1>1, <1>2, <1>3 DEF Unit

\* The state of the link always has its type: in particular _wait never polls
\* more than retry_count times.
THEOREM TypeCorrect == Spec => []TypeOK
  <1>1. ASSUME TypeOK, UNCHANGED vars PROVE TypeOK'
    BY <1>1 DEF TypeOK, vars, callVars, unitVars
  <1>2. TypeOK /\ [Next]_vars => TypeOK'
    BY <1>1, TypeClient, TypeReceive, TypeUnit DEF Next
  <1> QED
    BY <1>2, TypeInit, PTL DEF Spec

-----------------------------------------------------------------------------
(* A call's slot exists for as long as the call: this is what keeps _wait   *)
(* from indexing a missing slot.  It is inductive only because a call stays *)
(* on the addresses of its own client.                                      *)

OwnSlot ==
    \A c \in Clients : pc[c] \in {"send", "poll", "pop"} =>
        key[c] \in Asks[c] /\ pending[key[c]] # NoSlot

SlotInv == TypeOK /\ OwnSlot /\ NoKeyError

\* Two clients under way are at different addresses.
LEMMA KeysApart ==
    ASSUME DisjointAsks, OwnSlot, NEW c \in Clients, NEW d \in Clients,
           c # d, pc[d] \in {"send", "poll", "pop"}, NEW k \in Asks[c]
    PROVE  k # key[d]
  BY DEF DisjointAsks, OwnSlot

LEMMA SlotStep ==
    ASSUME DisjointAsks, SlotInv, [Next]_vars
    PROVE  OwnSlot' /\ NoKeyError'
  <1> USE DEF SlotInv, NoKeyError
  <1>t. TypeOK
    OBVIOUS
  <1>1. ASSUME NEW c \in Clients, NEW k \in Asks[c], Register(c, k)
        PROVE  OwnSlot' /\ NoKeyError'
    <2>1. k \in Keys
      OBVIOUS
    <2>2. ASSUME NEW d \in Clients, pc'[d] \in {"send", "poll", "pop"}
          PROVE  key'[d] \in Asks[d] /\ pending'[key'[d]] # NoSlot
      <3>1. CASE d = c
        BY <1>1, <2>1, <3>1 DEF Register, Opened, TypeOK
      <3>2. CASE d # c
        BY <1>1, <2>1, <2>2, <3>2 DEF Register, Opened, TypeOK, OwnSlot
      <3> QED
        BY <3>1, <3>2
    <2> QED
      BY <1>1, <2>2 DEF OwnSlot, Register, TypeOK
  <1>2. ASSUME NEW c \in Clients, Return(c)
        PROVE  OwnSlot' /\ NoKeyError'
    <2>1. key[c] \in Asks[c] /\ pc[c] = "pop"
      BY <1>2 DEF Return, OwnSlot
    <2>2. ASSUME NEW d \in Clients, pc'[d] \in {"send", "poll", "pop"}
          PROVE  key'[d] \in Asks[d] /\ pending'[key'[d]] # NoSlot
      <3>1. d # c /\ pc[d] = pc'[d] /\ key'[d] = key[d]
        BY <1>2, <2>2 DEF Return, LocalsGone, TypeOK
      <3>2. key[d] # key[c]
        BY <2>1, <2>2, <3>1, KeysApart
      <3> QED
        BY <1>2, <2>2, <3>1, <3>2 DEF Return, Closed, TypeOK, OwnSlot
    <2> QED
      BY <1>2, <2>2 DEF OwnSlot, Return, TypeOK
  <1>3. ASSUME NEW c \in Clients,
               \/ Transmit(c) \/ TransmitRaises(c) \/ PollHit(c)
               \/ PollMiss(c) \/ GiveUp(c) \/ Recover(c)
        PROVE  OwnSlot' /\ NoKeyError'
    BY <1>3 DEF Transmit, TransmitRaises, PollHit, PollMiss, GiveUp, Recover,
                LocalsGone, OwnSlot, TypeOK
  <1>4. ASSUME NEW c \in Clients, PollKeyError(c) PROVE FALSE
    BY <1>4 DEF PollKeyError, OwnSlot
  <1>5. ASSUME NEW c \in Clients,
               AskIdentity(c) \/ \E k \in Asks[c] : Set(c, k)
        PROVE  OwnSlot' /\ NoKeyError'
    BY <1>5 DEF AskIdentity, Set, callVars, OwnSlot
  <1>6. ASSUME Correlate PROVE OwnSlot' /\ NoKeyError'
    <2>1. Head(inbound) \in Frames
      BY <1>6, WireParts DEF Correlate, Arriving, TypeOK
    <2>2. \A k \in Keys : pending[k] # NoSlot => pending'[k] # NoSlot
      BY <1>6, <2>1 DEF Correlate, Filled, TypeOK, Frames
    <2> QED
      BY <1>6, <2>2 DEF Correlate, callVars, OwnSlot, TypeOK
  <1>7. ASSUME Negotiate \/ Ignore \/ Emit \/ EmitDone \/ Drop
               \/ \E u \in Units : Unit(u)
        PROVE  OwnSlot' /\ NoKeyError'
    BY <1>7 DEF Negotiate, Ignore, Emit, EmitDone, Drop, Unit, Answer,
                PanelEdit, callVars, OwnSlot
  <1>8. ASSUME UNCHANGED vars PROVE OwnSlot' /\ NoKeyError'
    BY <1>8 DEF vars, callVars, OwnSlot
  <1> QED
    BY <1>1, <1>2, <1>3, <1>4, <1>5, <1>6, <1>7, <1>8
    DEF Next, Client, Exchange, Receive

LEMMA SlotInvariant == ASSUME DisjointAsks PROVE Spec => []SlotInv
  <1>1. Init => OwnSlot /\ NoKeyError
    BY DEF Init, OwnSlot, NoKeyError
  <1>2. TypeOK /\ [Next]_vars => TypeOK'
    <2>1. ASSUME TypeOK, UNCHANGED vars PROVE TypeOK'
      BY <2>1 DEF TypeOK, vars, callVars, unitVars
    <2> QED
      BY <2>1, TypeClient, TypeReceive, TypeUnit DEF Next
  <1>3. SlotInv /\ [Next]_vars => SlotInv'
    BY <1>2, SlotStep DEF SlotInv
  <1>4. Init => SlotInv
    BY <1>1, TypeInit DEF SlotInv
  <1> QED
    BY <1>3, <1>4, PTL DEF Spec

\* When no two threads exchange on one address, a call never meets a slot
\* that another thread dropped.
THEOREM NoKeyErrorTheorem ==
    ASSUME DisjointAsks PROVE Spec => []NoKeyError
  <1>1. SlotInv => NoKeyError
    BY DEF SlotInv
  <1> QED
    BY <1>1, SlotInvariant, PTL

-----------------------------------------------------------------------------
(* No slot outlives its call, but that of a send that raised.              *)

LEMMA InFlightStep ==
    ASSUME TypeOK, PendingInFlight, [Next]_vars
    PROVE  PendingInFlight'
  <1> DEFINE Under(c, k) == key[c] = k /\ pc[c] \in {"send", "poll", "pop"}
  <1>1. ASSUME NEW c \in Clients, NEW k \in Asks[c], Register(c, k)
        PROVE  PendingInFlight'
    <2>1. k \in Keys
      OBVIOUS
    <2>2. ASSUME NEW j \in Keys, pending'[j] # NoSlot, j \notin left'
          PROVE  \E d \in Clients : Under(d, j)'
      <3>1. CASE j = k
        BY <1>1, <3>1 DEF Register, TypeOK
      <3>2. CASE j # k
        <4>1. pending[j] # NoSlot
          BY <1>1, <2>1, <2>2, <3>2 DEF Register, Opened, TypeOK
        <4>2. PICK d \in Clients : Under(d, j)
          BY <1>1, <2>2, <4>1 DEF PendingInFlight, Register
        <4>3. d # c
          BY <1>1, <4>2 DEF Register
        <4> QED
          BY <1>1, <4>2, <4>3 DEF Register, TypeOK
      <3> QED
        BY <3>1, <3>2
    <2> QED
      BY <2>2 DEF PendingInFlight
  <1>2. ASSUME NEW c \in Clients, Return(c) PROVE PendingInFlight'
    <2>1. ASSUME NEW j \in Keys, pending'[j] # NoSlot, j \notin left'
          PROVE  \E d \in Clients : Under(d, j)'
      <3>1. j # key[c] /\ pending[j] # NoSlot /\ j \notin left
        BY <1>2, <2>1 DEF Return, Closed, TypeOK
      <3>2. PICK d \in Clients : Under(d, j)
        BY <3>1 DEF PendingInFlight
      <3>3. d # c
        BY <3>1, <3>2
      <3> QED
        BY <1>2, <3>2, <3>3 DEF Return, LocalsGone, TypeOK
    <2> QED
      BY <2>1 DEF PendingInFlight
  <1>3. ASSUME NEW c \in Clients,
               Transmit(c) \/ PollHit(c) \/ PollMiss(c) \/ GiveUp(c)
        PROVE  PendingInFlight'
    <2>1. \A d \in Clients, j \in Keys : Under(d, j) => Under(d, j)'
      BY <1>3 DEF Transmit, PollHit, PollMiss, GiveUp, TypeOK
    <2>2. pending' = pending /\ left' = left
      BY <1>3 DEF Transmit, PollHit, PollMiss, GiveUp
    <2> QED
      BY <2>1, <2>2 DEF PendingInFlight
  <1>4. ASSUME NEW c \in Clients, TransmitRaises(c) PROVE PendingInFlight'
    <2>1. \A d \in Clients, j \in Keys :
            Under(d, j) => j \in left' \/ Under(d, j)'
      BY <1>4 DEF TransmitRaises, TypeOK
    <2>2. pending' = pending /\ left \subseteq left'
      BY <1>4 DEF TransmitRaises
    <2> QED
      BY <2>1, <2>2 DEF PendingInFlight
  <1>5. ASSUME NEW c \in Clients, PollKeyError(c) \/ Recover(c)
        PROVE  PendingInFlight'
    <2>1. \A d \in Clients, j \in Keys :
            Under(d, j) /\ pending[j] # NoSlot => Under(d, j)'
      BY <1>5 DEF PollKeyError, Recover, LocalsGone, TypeOK
    <2>2. pending' = pending /\ left' = left
      BY <1>5 DEF PollKeyError, Recover
    <2> QED
      BY <2>1, <2>2 DEF PendingInFlight
  <1>6. ASSUME NEW c \in Clients,
               AskIdentity(c) \/ \E k \in Asks[c] : Set(c, k)
        PROVE  PendingInFlight'
    BY <1>6 DEF AskIdentity, Set, callVars, PendingInFlight
  <1>7. ASSUME Correlate PROVE PendingInFlight'
    <2>1. Head(inbound) \in Frames
      BY <1>7, WireParts DEF Correlate, Arriving, TypeOK
    <2>2. \A j \in Keys : pending'[j] # NoSlot => pending[j] # NoSlot
      BY <1>7, <2>1 DEF Correlate, Filled, Awaited, TypeOK, Frames
    <2> QED
      BY <1>7, <2>2 DEF Correlate, callVars, PendingInFlight
  <1>8. ASSUME Negotiate \/ Ignore \/ Emit \/ EmitDone \/ Drop
               \/ \E u \in Units : Unit(u)
        PROVE  PendingInFlight'
    BY <1>8 DEF Negotiate, Ignore, Emit, EmitDone, Drop, Unit, Answer,
                PanelEdit, callVars, PendingInFlight
  <1>9. ASSUME UNCHANGED vars PROVE PendingInFlight'
    BY <1>9 DEF vars, callVars, PendingInFlight
  <1> QED
    BY <1>1, <1>2, <1>3, <1>4, <1>5, <1>6, <1>7, <1>8, <1>9
    DEF Next, Client, Exchange, Receive

\* Whoever shares an address and whatever raises, a slot without a call under
\* way is that of a send that raised: no other call leaves one behind.
THEOREM PendingInFlightTheorem == Spec => []PendingInFlight
  <1>1. Init => PendingInFlight
    BY DEF Init, PendingInFlight
  <1>2. TypeOK /\ PendingInFlight /\ [Next]_vars => PendingInFlight'
    BY InFlightStep
  <1> QED
    BY <1>1, <1>2, TypeCorrect, PTL DEF Spec

-----------------------------------------------------------------------------
(* Every frame the link holds came from the negotiated unit and sits where  *)
(* its own address says.  Before negotiation the link holds none, which is  *)
(* why the change of device_id is harmless.                                 *)

Accepted(f, k) == f.kind = "data" /\ f.key = k /\ f.unit = device_id

SlotFrames ==
    \A k \in Keys : pending[k] \in Frames => Accepted(pending[k], k)

CallFrames ==
    \A c \in Clients : data[c] \in Frames =>
        pc[c] = "pop" /\ Accepted(data[c], key[c])

FrameInv == TypeOK /\ SlotFrames /\ CallFrames /\ EmittedFromUnit

LEMMA FrameStep ==
    ASSUME FrameInv, [Next]_vars
    PROVE  SlotFrames' /\ CallFrames' /\ EmittedFromUnit'
  <1> USE DEF FrameInv, Accepted
  <1> DEFINE Goal == SlotFrames' /\ CallFrames' /\ EmittedFromUnit'
  <1> DEFINE f == Head(inbound)
  <1>0. Arriving => f \in Frames /\ f.unit \in Units /\ f.key \in Keys
    BY WireParts DEF Arriving, TypeOK, Frames
  <1>1. ASSUME NEW c \in Clients, NEW k \in Asks[c], Register(c, k) PROVE Goal
    <2>1. SlotFrames'
      BY <1>1 DEF Register, Opened, SlotFrames, TypeOK
    <2>2. CallFrames'
      BY <1>1 DEF Register, CallFrames, TypeOK
    <2> QED
      BY <1>1, <2>1, <2>2 DEF Register, EmittedFromUnit
  <1>2. ASSUME NEW c \in Clients, Return(c) \/ Recover(c) PROVE Goal
    <2>1. SlotFrames'
      BY <1>2 DEF Return, Recover, Closed, SlotFrames, TypeOK
    <2>2. CallFrames'
      BY <1>2 DEF Return, Recover, LocalsGone, CallFrames, TypeOK
    <2> QED
      BY <1>2, <2>1, <2>2 DEF Return, Recover, EmittedFromUnit
  <1>3. ASSUME NEW c \in Clients, PollHit(c) PROVE Goal
    <2>1. pending[key[c]] \in Frames => Accepted(pending[key[c]], key[c])
      BY DEF SlotFrames, TypeOK
    <2>2. CallFrames'
      BY <1>3, <2>1 DEF PollHit, CallFrames, TypeOK
    <2> QED
      BY <1>3, <2>2 DEF PollHit, SlotFrames, EmittedFromUnit
  <1>4. ASSUME NEW c \in Clients,
               \/ Transmit(c) \/ TransmitRaises(c) \/ PollMiss(c)
               \/ PollKeyError(c) \/ GiveUp(c)
        PROVE  Goal
    BY <1>4 DEF Transmit, TransmitRaises, PollMiss, PollKeyError, GiveUp,
                SlotFrames, CallFrames, EmittedFromUnit, TypeOK
  <1>5. ASSUME Negotiate PROVE Goal
    <2>1. \A g \in Frames : g.unit # device_id
      BY <1>5 DEF Negotiate, CanNegotiate, Frames
    <2> QED
      BY <1>5, <2>1 DEF Negotiate, callVars, SlotFrames, CallFrames,
                        EmittedFromUnit, TypeOK
  <1>6. ASSUME Correlate PROVE Goal
    <2>1. SlotFrames'
      BY <1>0, <1>6 DEF Correlate, ForUs, Filled, SlotFrames, TypeOK
    <2> QED
      BY <1>6, <2>1 DEF Correlate, callVars, CallFrames, EmittedFromUnit
  <1>7. ASSUME Emit PROVE Goal
    BY <1>7 DEF Emit, ForUs, callVars, SlotFrames, CallFrames, EmittedFromUnit
  <1>8. ASSUME \/ Ignore \/ EmitDone \/ Drop
               \/ \E u \in Units : Unit(u)
               \/ \E c \in Clients : AskIdentity(c)
               \/ \E c \in Clients : \E k \in Asks[c] : Set(c, k)
        PROVE  Goal
    <2>1. /\ UNCHANGED <<pending, device_id, callVars>>
          /\ handling' \in {handling, None}
      BY <1>8 DEF Ignore, EmitDone, Drop, Unit, Answer, PanelEdit,
                  AskIdentity, Set
    <2> QED
      BY <2>1 DEF callVars, SlotFrames, CallFrames, EmittedFromUnit
  <1>9. ASSUME UNCHANGED vars PROVE Goal
    BY <1>9 DEF vars, callVars, SlotFrames, CallFrames, EmittedFromUnit
  <1> QED
    BY <1>1, <1>2, <1>3, <1>4, <1>5, <1>6, <1>7, <1>8, <1>9
    DEF Next, Client, Exchange, Receive

LEMMA FrameInvariant == Spec => []FrameInv
  <1>1. Init => FrameInv
    BY TypeInit DEF Init, FrameInv, SlotFrames, CallFrames, EmittedFromUnit
  <1>2. TypeOK' /\ FrameInv /\ [Next]_vars => FrameInv'
    BY FrameStep DEF FrameInv
  <1> QED
    BY <1>1, <1>2, TypeCorrect, PTL DEF Spec

\* A result belongs to the address asked and to the negotiated unit,
\* whatever the threads, the units and the wire do.
THEOREM CorrelatedTheorem == Spec => []Correlated
  <1>1. FrameInv => Correlated
    BY DEF FrameInv, CallFrames, Accepted, Correlated, TypeOK
  <1> QED
    BY <1>1, FrameInvariant, PTL

\* The unsolicited callback only ever sees frames of the negotiated unit.
THEOREM EmittedFromUnitTheorem == Spec => []EmittedFromUnit
  <1>1. FrameInv => EmittedFromUnit
    BY DEF FrameInv
  <1> QED
    BY <1>1, FrameInvariant, PTL

\* The first identity reply settles the device id for good.
THEOREM NegotiatedOnceTheorem == Spec => NegotiatedOnce
  <1>1. [Next]_vars => (device_id # Bcast => device_id' = device_id)
    BY DEF Next, Client, Exchange, Receive, Unit, Register, Set, AskIdentity,
           Transmit, TransmitRaises, PollHit, PollMiss, PollKeyError, GiveUp,
           Return, Recover, Negotiate, CanNegotiate, Ignore, Correlate, Emit,
           EmitDone, Drop, Answer, PanelEdit, vars
  <1> QED
    BY <1>1, PTL DEF Spec, NegotiatedOnce

-----------------------------------------------------------------------------
(* Reads of one address never go back in time.  Versions are ordered along  *)
(* the path of a frame: what a call returned is no newer than its result in *)
(* hand, than the slot, than any frame still on the wire, than the unit's   *)
(* memory.                                                                  *)

\* Frames on the wire are in the order the unit's memory took its versions.
WireOrder ==
    /\ \A i, j \in 1..Len(inbound) :
         /\ i < j
         /\ inbound[i].kind = "data"
         /\ inbound[j].kind = "data"
         /\ inbound[i].unit = inbound[j].unit
         /\ inbound[i].key = inbound[j].key
         => inbound[i].val <= inbound[j].val
    /\ \A i \in 1..Len(inbound) : inbound[i].kind = "data" =>
         inbound[i].val <= mem[inbound[i].unit][inbound[i].key]

\* Version v of address k is no newer than anything still to arrive.
Behind(k, v) ==
    /\ \A i \in 1..Len(inbound) :
         /\ inbound[i].kind = "data"
         /\ inbound[i].unit = device_id
         /\ inbound[i].key = k
         => v <= inbound[i].val
    /\ device_id \in Units => v <= mem[device_id][k]

SlotOrder ==
    \A k \in Keys :
        /\ Behind(k, returned[k])
        /\ device_id = Bcast => returned[k] = 0
        /\ pending[k] \in Frames =>
             Behind(k, pending[k].val) /\ returned[k] <= pending[k].val

ResultOrder ==
    \A c \in Clients : data[c] \in Frames =>
        /\ Behind(key[c], data[c].val)
        /\ returned[key[c]] <= data[c].val
        /\ pending[key[c]] \in Frames => data[c].val <= pending[key[c]].val

OrderInv == SlotInv /\ FrameInv /\ WireOrder /\ SlotOrder /\ ResultOrder

\* Taking a frame off the wire keeps its order, and everything behind it.
LEMMA TailOrder ==
    ASSUME TypeOK, WireOrder, inbound # <<>>, inbound' = Tail(inbound),
           UNCHANGED mem
    PROVE  /\ WireOrder'
           /\ \A k \in Keys, v \in Versions :
                 device_id' = device_id /\ Behind(k, v) => Behind(k, v)'
  <1>1. /\ Len(inbound') = Len(inbound) - 1
        /\ \A i \in 1..Len(inbound') :
              inbound'[i] = inbound[i + 1] /\ i + 1 \in 1..Len(inbound)
    BY DEF TypeOK
  <1>2. Len(inbound) \in Nat
    BY DEF TypeOK
  <1>3. WireOrder'
    <2>1. ASSUME NEW i \in 1..Len(inbound'), NEW j \in 1..Len(inbound'), i < j
          PROVE  i + 1 < j + 1
      BY <1>1, <1>2, <2>1
    <2> QED
      BY <1>1, <1>2, <2>1 DEF WireOrder
  <1> QED
    BY <1>1, <1>2, <1>3 DEF Behind

\* So does a unit putting the current version of an address on the wire,
\* after a change of its memory or not.
LEMMA AppendOrder ==
    ASSUME TypeOK, WireOrder, NEW u \in Units, NEW k \in Keys,
           mem' \in {mem, Bumped(u, k)},
           \/ inbound' \in Carried(inbound, DataFrame(u, k, mem'[u][k]))
           \/ inbound' \in Carried(inbound, IdFrame(u, k))
    PROVE  /\ WireOrder'
           /\ \A j \in Keys, v \in Versions :
                 device_id' = device_id /\ Behind(j, v) => Behind(j, v)'
  <1>1. /\ mem' \in [Units -> [Keys -> Versions]]
        /\ \A w \in Units, j \in Keys : mem[w][j] <= mem'[w][j]
    <2>1. mem' \in [Units -> [Keys -> Versions]]
      BY BumpedType DEF TypeOK
    <2>2. ASSUME NEW w \in Units, NEW j \in Keys PROVE mem[w][j] <= mem'[w][j]
      <3>1. mem[w][j] \in Nat
        BY DEF TypeOK, Versions
      <3>2. Bumped(u, k)[w][j] \in {mem[w][j], mem[w][j] + 1}
        BY DEF TypeOK, Bumped
      <3> QED
        BY <3>1, <3>2
    <2> QED
      BY <2>1, <2>2
  <1>2. PICK g \in {DataFrame(u, k, mem'[u][k]), IdFrame(u, k)} :
          inbound' = inbound \/ inbound' = Append(inbound, g)
    BY DEF Carried
  <1>3. g \in Frames /\ (g.kind = "data" => g.unit = u /\ g.key = k
                                               /\ g.val = mem'[u][k])
    BY <1>1, <1>2 DEF DataFrame, IdFrame, Frames, Versions
  <1>4. \A i \in 1..Len(inbound) : inbound[i] \in Frames
    BY DEF TypeOK
  <1>5. \A h \in Frames : h.unit \in Units /\ h.key \in Keys /\ h.val \in Int
    BY DEF Frames, Versions
  <1>6. Len(inbound) \in Nat
    BY DEF TypeOK
  <1>7. /\ Len(inbound') >= Len(inbound)
        /\ \A i \in 1..Len(inbound) : inbound'[i] = inbound[i]
        /\ \A i \in 1..Len(inbound') :
              i \notin 1..Len(inbound) => i = Len(inbound) + 1 /\ inbound'[i] = g
    <2>1. CASE inbound' = inbound
      BY <1>6, <2>1
    <2>2. CASE inbound' = Append(inbound, g)
      <3>1. /\ Len(inbound') = Len(inbound) + 1
            /\ inbound'[Len(inbound) + 1] = g
            /\ \A i \in 1..Len(inbound) : inbound'[i] = inbound[i]
        BY <1>3, <2>2 DEF TypeOK
      <3> QED
        BY <1>6, <3>1
    <2> QED
      BY <1>2, <2>1, <2>2
  <1>8. \A w \in Units, j \in Keys : mem[w][j] \in Int /\ mem'[w][j] \in Int
    BY <1>1 DEF TypeOK, Versions
  <1>9. \A i \in 1..Len(inbound') : inbound'[i].kind = "data" =>
          inbound'[i].val <= mem'[inbound'[i].unit][inbound'[i].key]
    <2>1. ASSUME NEW i \in 1..Len(inbound), inbound[i].kind = "data"
          PROVE  inbound[i].val <= mem'[inbound[i].unit][inbound[i].key]
      BY <1>1, <1>4, <1>5, <1>8, <2>1 DEF WireOrder
    <2> QED
      BY <1>3, <1>7, <1>8, <2>1
  <1>10. \A i, j \in 1..Len(inbound') :
           /\ i < j
           /\ inbound'[i].kind = "data"
           /\ inbound'[j].kind = "data"
           /\ inbound'[i].unit = inbound'[j].unit
           /\ inbound'[i].key = inbound'[j].key
           => inbound'[i].val <= inbound'[j].val
    <2> SUFFICES ASSUME NEW i \in 1..Len(inbound'), NEW j \in 1..Len(inbound'),
                        i < j,
                        inbound'[i].kind = "data",
                        inbound'[j].kind = "data",
                        inbound'[i].unit = inbound'[j].unit,
                        inbound'[i].key = inbound'[j].key
                 PROVE  inbound'[i].val <= inbound'[j].val
      OBVIOUS
    <2>1. CASE j \in 1..Len(inbound)
      <3>1. i \in 1..Len(inbound)
        BY <1>6, <2>1
      <3> QED
        BY <1>7, <2>1, <3>1 DEF WireOrder
    <2>2. CASE j \notin 1..Len(inbound)
      <3>1. i \in 1..Len(inbound) /\ inbound'[j] = g
        BY <1>6, <1>7, <2>2
      <3>2. g.val = mem'[inbound[i].unit][inbound[i].key]
        BY <1>3, <1>7, <3>1
      <3>3. inbound'[i].val <= mem'[inbound'[i].unit][inbound'[i].key]
        BY <1>9
      <3> QED
        BY <1>7, <3>1, <3>2, <3>3
    <2> QED
      BY <2>1, <2>2
  <1>11. ASSUME NEW j \in Keys, NEW v \in Versions, device_id' = device_id,
                Behind(j, v)
         PROVE  Behind(j, v)'
    <2>1. v \in Int
      BY DEF Versions
    <2>2. device_id \in Units => v <= mem'[device_id][j]
      BY <1>1, <1>8, <1>11, <2>1 DEF Behind
    <2>3. ASSUME NEW i \in 1..Len(inbound'),
                 inbound'[i].kind = "data",
                 inbound'[i].unit = device_id,
                 inbound'[i].key = j
          PROVE  v <= inbound'[i].val
      BY <1>3, <1>7, <1>11, <2>2, <2>3 DEF Behind
    <2> QED
      BY <1>11, <2>2, <2>3 DEF Behind
  <1> QED
    BY <1>9, <1>10, <1>11 DEF WireOrder

\* A step of the wire or of a unit disturbs nothing the link holds.
LEMMA OrderKept ==
    ASSUME OrderInv, UNCHANGED <<pending, device_id, data, key, returned>>,
           \A k \in Keys, v \in Versions : Behind(k, v) => Behind(k, v)'
    PROVE  SlotOrder' /\ ResultOrder'
  <1> USE DEF OrderInv, SlotInv, Behind
  <1>1. \A g \in Frames : g.val \in Versions
    BY DEF Frames
  <1>2. SlotOrder'
    BY <1>1 DEF SlotOrder, TypeOK
  <1>3. ResultOrder'
    BY <1>1 DEF ResultOrder, TypeOK
  <1> QED
    BY <1>2, <1>3

LEMMA OrderStep ==
    ASSUME DisjointAsks, OrderInv, [Next]_vars
    PROVE  WireOrder' /\ SlotOrder' /\ ResultOrder'
  <1> USE DEF OrderInv, SlotInv
  <1> DEFINE Goal == WireOrder' /\ SlotOrder' /\ ResultOrder'
  <1>a. ASSUME UNCHANGED <<inbound, device_id, mem>>
        PROVE  /\ WireOrder'
               /\ \A k \in Keys, v \in Versions : Behind(k, v) <=> Behind(k, v)'
    BY <1>a DEF WireOrder, Behind
  <1>b. \A g \in Frames : g.val \in Versions /\ g.unit \in Units /\ g.key \in Keys
    BY DEF Frames
  <1>1. ASSUME NEW c \in Clients, NEW k \in Asks[c], Register(c, k) PROVE Goal
    <2>1. UNCHANGED <<inbound, device_id, mem, data, returned>>
      BY <1>1 DEF Register, unitVars
    <2>2. SlotOrder'
      BY <1>1, <2>1, <1>b DEF Register, Opened, SlotOrder, TypeOK, Behind
    <2>3. data[c] \notin Frames
      BY <1>1 DEF Register, FrameInv, CallFrames
    <2>4. ResultOrder'
      BY <1>1, <2>1, <2>3, <1>b
      DEF Register, Opened, ResultOrder, TypeOK, Behind
    <2> QED
      BY <1>a, <2>1, <2>2, <2>4
  <1>2. ASSUME NEW c \in Clients, Return(c) PROVE Goal
    <2>1. UNCHANGED <<inbound, device_id, mem, key>>
      BY <1>2 DEF Return, LocalsGone, unitVars
    <2>2. key[c] \in Keys /\ key[c] \in Asks[c]
      BY <1>2 DEF Return, OwnSlot, TypeOK
    <2>3. data[c] \in Frames =>
            /\ returned' = [returned EXCEPT ![key[c]] = data[c].val]
            /\ device_id # Bcast
      BY <1>2, <1>b DEF Return, FrameInv, CallFrames, Accepted
    <2>4. data[c] \notin Frames => returned' = returned
      BY <1>2 DEF Return, TypeOK
    <2>5. SlotOrder'
      <3>1. ASSUME NEW k \in Keys, k # key[c]
            PROVE  pending'[k] = pending[k] /\ returned'[k] = returned[k]
        BY <1>2, <2>2, <2>3, <2>4, <3>1 DEF Return, Closed, TypeOK
      <3>2. pending'[key[c]] \notin Frames
        BY <1>2, <2>2 DEF Return, Closed, TypeOK
      <3>3. ASSUME NEW k \in Keys, k = key[c]
            PROVE  /\ Behind(k, returned[k])'
                   /\ device_id' = Bcast => returned'[k] = 0
        <4>1. CASE data[c] \in Frames
          <5>1. /\ returned'[k] = data[c].val /\ device_id # Bcast
                /\ Behind(k, data[c].val)
            BY <2>2, <2>3, <3>3, <4>1 DEF ResultOrder, TypeOK
          <5> QED
            BY <2>1, <5>1 DEF Behind
        <4>2. CASE data[c] \notin Frames
          BY <2>1, <2>2, <2>4, <4>2 DEF SlotOrder, Behind
        <4> QED
          BY <4>1, <4>2
      <3>4. ASSUME NEW k \in Keys, k # key[c]
            PROVE  /\ Behind(k, returned[k])'
                   /\ device_id' = Bcast => returned'[k] = 0
                   /\ pending'[k] \in Frames =>
                        /\ Behind(k, pending[k].val)'
                        /\ returned'[k] <= pending'[k].val
        <4>1. pending'[k] = pending[k] /\ returned'[k] = returned[k]
          BY <3>1, <3>4
        <4>2. /\ Behind(k, returned[k])
              /\ device_id = Bcast => returned[k] = 0
              /\ pending[k] \in Frames =>
                   Behind(k, pending[k].val) /\ returned[k] <= pending[k].val
          BY DEF SlotOrder
        <4> QED
          BY <2>1, <4>1, <4>2 DEF Behind
      <3> QED
        BY <3>2, <3>3, <3>4 DEF SlotOrder
    <2>6. ASSUME NEW d \in Clients, data'[d] \in Frames
          PROVE  /\ d # c /\ data'[d] = data[d] /\ key'[d] = key[d]
                 /\ key[d] # key[c] /\ key[d] \in Keys
      <3>1. d # c /\ data'[d] = data[d] /\ key'[d] = key[d] /\ key[d] \in Keys
        BY <1>2, <2>6 DEF Return, LocalsGone, TypeOK
      <3>2. pc[d] = "pop"
        BY <2>6, <3>1 DEF FrameInv, CallFrames
      <3> QED
        BY <2>2, <3>1, <3>2, KeysApart
    <2>7. ResultOrder'
      <3>1. ASSUME NEW k \in Keys, k # key[c]
            PROVE  pending'[k] = pending[k] /\ returned'[k] = returned[k]
        BY <1>2, <2>2, <2>3, <2>4, <3>1 DEF Return, Closed, TypeOK
      <3> QED
        BY <2>1, <2>6, <3>1 DEF ResultOrder, Behind
    <2> QED
      BY <1>a, <2>1, <2>5, <2>7
  <1>3. ASSUME NEW c \in Clients, PollHit(c) PROVE Goal
    <2>1. UNCHANGED <<inbound, device_id, mem, pending, returned, key>>
      BY <1>3 DEF PollHit, unitVars
    <2>2. SlotOrder'
      BY <2>1 DEF SlotOrder, Behind
    <2>3. key[c] \in Keys /\ pending[key[c]] \in Frames
      BY <1>3 DEF PollHit, TypeOK, SlotValue
    <2>4. ResultOrder'
      BY <1>3, <1>b, <2>1, <2>3
      DEF PollHit, ResultOrder, SlotOrder, Behind, TypeOK, Versions
    <2> QED
      BY <1>a, <2>1, <2>2, <2>4
  <1>4. ASSUME NEW c \in Clients,
               \/ Transmit(c) \/ TransmitRaises(c) \/ PollMiss(c)
               \/ PollKeyError(c) \/ GiveUp(c) \/ Recover(c)
               \/ AskIdentity(c) \/ \E k \in Asks[c] : Set(c, k)
        PROVE  Goal
    <2>1. /\ UNCHANGED <<inbound, device_id, mem, pending, returned, key>>
          /\ \A d \in Clients : data'[d] \in Frames => data'[d] = data[d]
      BY <1>4 DEF Transmit, TransmitRaises, PollMiss, PollKeyError, GiveUp,
                  Recover, AskIdentity, Set, LocalsGone, callVars, unitVars,
                  TypeOK
    <2>2. SlotOrder' /\ ResultOrder'
      BY <2>1 DEF SlotOrder, ResultOrder, Behind
    <2> QED
      BY <1>a, <2>1, <2>2
  <1>5. ASSUME Negotiate PROVE Goal
    <2>1. /\ inbound # <<>> /\ inbound' = Tail(inbound) /\ device_id = Bcast
          /\ UNCHANGED <<pending, data, key, returned, mem>>
      BY <1>5 DEF Negotiate, Arriving, CanNegotiate, callVars
    <2>2. WireOrder'
      BY <2>1, TailOrder
    <2>3. /\ \A k \in Keys : pending[k] \notin Frames
          /\ \A c \in Clients : data[c] \notin Frames
      BY <1>b, <2>1 DEF FrameInv, SlotFrames, CallFrames, Accepted
    <2>4. ASSUME NEW k \in Keys PROVE Behind(k, 0)'
      <3>1. /\ \A i \in 1..Len(inbound') : inbound'[i].val >= 0
            /\ \A u \in Units : mem'[u][k] >= 0
        <4>1. inbound' \in Seq(Frames)
          BY <2>1, WireParts DEF TypeOK
        <4>2. \A i \in 1..Len(inbound') : inbound'[i] \in Frames
          BY <4>1
        <4> QED
          BY <1>b, <2>1, <4>2 DEF TypeOK, Versions
      <3> QED
        BY <3>1 DEF Behind
    <2>5. SlotOrder'
      BY <1>5, <2>1, <2>3, <2>4 DEF Negotiate, SlotOrder, Behind
    <2>6. ResultOrder'
      BY <2>1, <2>3 DEF ResultOrder
    <2> QED
      BY <2>2, <2>5, <2>6
  <1>6. ASSUME Correlate PROVE Goal
    <2> DEFINE f == Head(inbound)
    <2>1. /\ inbound # <<>> /\ inbound' = Tail(inbound)
          /\ UNCHANGED <<device_id, data, key, returned, mem>>
          /\ f.kind = "data" /\ f.unit = device_id
          /\ pending' = [pending EXCEPT ![f.key] = f]
      BY <1>6 DEF Correlate, Arriving, ForUs, Filled, callVars
    <2>2. /\ WireOrder'
          /\ \A k \in Keys, v \in Versions : Behind(k, v) => Behind(k, v)'
      BY <2>1, TailOrder
    <2>3. /\ f = inbound[1] /\ f \in Frames /\ 1 \in 1..Len(inbound)
          /\ f.val \in Versions /\ f.key \in Keys
      BY <1>b, <2>1, WireParts DEF TypeOK
    <2>4. Behind(f.key, f.val)
      <3>1. \A i \in 1..Len(inbound) :
              /\ inbound[i].kind = "data"
              /\ inbound[i].unit = device_id
              /\ inbound[i].key = f.key
              => f.val <= inbound[i].val
        <4> SUFFICES ASSUME NEW i \in 1..Len(inbound),
                            inbound[i].kind = "data",
                            inbound[i].unit = device_id,
                            inbound[i].key = f.key
                     PROVE  f.val <= inbound[i].val
          OBVIOUS
        <4>1. CASE i = 1
          BY <2>3, <4>1 DEF Versions
        <4>2. CASE i # 1
          <5>1. 1 < i
            BY <2>3, <4>2 DEF TypeOK
          <5> QED
            BY <2>1, <2>3, <5>1 DEF WireOrder
        <4> QED
          BY <4>1, <4>2
      <3>2. f.val <= mem[device_id][f.key]
        BY <2>1, <2>3 DEF WireOrder
      <3> QED
        BY <3>1, <3>2 DEF Behind
    <2>5. \A v \in Versions : Behind(f.key, v) => v <= f.val
      BY <2>1, <2>3 DEF Behind
    <2>6. SlotOrder'
      <3>1. ASSUME NEW k \in Keys, k # f.key
            PROVE  pending'[k] = pending[k]
        BY <2>1, <2>3, <3>1 DEF TypeOK
      <3>2. pending'[f.key] = f
        BY <2>1, <2>3 DEF TypeOK
      <3>3. \A k \in Keys : returned[k] \in Versions
        BY DEF TypeOK
      <3>4. \A k \in Keys : Behind(k, returned[k])'
        BY <2>1, <2>2, <3>3 DEF SlotOrder, Behind
      <3>5. ASSUME NEW k \in Keys, pending'[k] \in Frames
            PROVE  Behind(k, pending[k].val)' /\ returned'[k] <= pending'[k].val
        <4>1. CASE k = f.key
          BY <2>1, <2>2, <2>3, <2>4, <2>5, <3>2, <3>3, <4>1 DEF SlotOrder, Behind
        <4>2. CASE k # f.key
          BY <1>b, <2>1, <2>2, <3>1, <3>5, <4>2 DEF SlotOrder, Behind
        <4> QED
          BY <4>1, <4>2
      <3> QED
        BY <2>1, <3>4, <3>5 DEF SlotOrder
    <2>7. ResultOrder'
      <3> SUFFICES ASSUME NEW c \in Clients, data[c] \in Frames
                   PROVE  /\ Behind(key[c], data[c].val)'
                          /\ returned[key[c]] <= data[c].val
                          /\ pending'[key[c]] \in Frames =>
                                data[c].val <= pending'[key[c]].val
        BY <2>1 DEF ResultOrder
      <3>1. key[c] \in Keys /\ data[c].val \in Versions
        BY <1>b DEF TypeOK
      <3>2. /\ Behind(key[c], data[c].val)
            /\ returned[key[c]] <= data[c].val
        BY DEF ResultOrder
      <3>3. Behind(key[c], data[c].val)'
        BY <2>1, <2>2, <3>1, <3>2 DEF Behind
      <3>4. CASE key[c] = f.key
        BY <2>1, <2>3, <2>5, <3>1, <3>2, <3>3, <3>4 DEF TypeOK
      <3>5. CASE key[c] # f.key
        BY <2>1, <3>1, <3>2, <3>3, <3>5 DEF ResultOrder, TypeOK
      <3> QED
        BY <3>4, <3>5
    <2> QED
      BY <2>2, <2>6, <2>7
  <1>7. ASSUME Ignore \/ Emit PROVE Goal
    <2>1. /\ inbound # <<>> /\ inbound' = Tail(inbound)
          /\ UNCHANGED <<pending, device_id, data, key, returned, mem>>
      BY <1>7 DEF Ignore, Emit, Arriving, callVars
    <2> QED
      BY <2>1, TailOrder, OrderKept
  <1>8. ASSUME NEW u \in Units, Unit(u) PROVE Goal
    <2>1. /\ UNCHANGED <<pending, device_id, data, key, returned>>
          /\ \E k \in Keys :
               /\ mem' \in {mem, Bumped(u, k)}
               /\ \/ inbound' \in Carried(inbound, DataFrame(u, k, mem'[u][k]))
                  \/ inbound' \in Carried(inbound, IdFrame(u, k))
      <3>1. ASSUME NEW k \in Keys, PanelEdit(u, k) PROVE <2>1
        BY <3>1 DEF PanelEdit, callVars
      <3>2. ASSUME Answer(u) PROVE <2>1
        <4>0. Head(outbound) \in Commands
          BY <3>2, WireParts DEF Answer, Addressed, TypeOK
        <4>1. Head(outbound).key \in Keys
          BY <4>0 DEF Commands
        <4> DEFINE k == Head(outbound).key
        <4>2. UNCHANGED <<pending, device_id, data, key, returned>>
          BY <3>2 DEF Answer, callVars
        <4>3. /\ mem' \in {mem, Bumped(u, k)}
              /\ \/ inbound' \in Carried(inbound, DataFrame(u, k, mem'[u][k]))
                 \/ inbound' \in Carried(inbound, IdFrame(u, k))
          BY <3>2 DEF Answer
        <4> QED
          BY <4>1, <4>2, <4>3
      <3> QED
        BY <1>8, <3>1, <3>2 DEF Unit
    <2> QED
      BY <2>1, AppendOrder, OrderKept
  <1>9. ASSUME EmitDone \/ Drop \/ UNCHANGED vars PROVE Goal
    <2>1. UNCHANGED <<pending, device_id, data, key, returned, inbound, mem>>
      BY <1>9 DEF EmitDone, Drop, vars, callVars, unitVars
    <2> QED
      BY <1>a, <2>1, OrderKept
  <1> QED
    BY <1>1, <1>2, <1>3, <1>4, <1>5, <1>6, <1>7, <1>8, <1>9
    DEF Next, Client, Exchange, Receive

\* With one caller per address, what successive calls return at an address
\* is ordered in time, however late the replies.
THEOREM MonotoneReadsTheorem ==
    ASSUME DisjointAsks PROVE Spec => MonotoneReads
  <1>1. Init => WireOrder /\ SlotOrder /\ ResultOrder
    BY DEF Init, WireOrder, SlotOrder, ResultOrder, Behind
  <1>2. OrderInv /\ SlotInv' /\ FrameInv' /\ [Next]_vars => OrderInv'
    BY OrderStep DEF OrderInv
  <1>3. Init /\ SlotInv /\ FrameInv => OrderInv
    BY <1>1 DEF OrderInv
  <1>4. OrderInv /\ [Next]_vars => \A k \in Keys : returned'[k] >= returned[k]
    <2> SUFFICES ASSUME OrderInv, [Next]_vars
                 PROVE  \A k \in Keys : returned'[k] >= returned[k]
      OBVIOUS
    <2>1. \A k \in Keys : returned[k] \in Int
      BY DEF OrderInv, SlotInv, TypeOK, Versions
    <2>2. ASSUME NEW c \in Clients, Return(c)
          PROVE  \A k \in Keys : returned'[k] >= returned[k]
      <3>1. key[c] \in Keys /\ data[c] \in {None} \cup Frames
        BY DEF OrderInv, SlotInv, TypeOK
      <3>2. data[c] \in Frames => returned[key[c]] <= data[c].val
        BY DEF OrderInv, ResultOrder
      <3>3. \A g \in Frames : g.val \in Int
        BY DEF Frames, Versions
      <3> QED
        BY <2>1, <2>2, <3>1, <3>2, <3>3 DEF Return, OrderInv, SlotInv, TypeOK
    <2>3. \/ returned' = returned
          \/ \E c \in Clients : Return(c)
      BY DEF Next, Client, Exchange, Receive, Unit, Register, Set, AskIdentity,
             Transmit, TransmitRaises, PollHit, PollMiss, PollKeyError, GiveUp,
             Recover, Negotiate, Ignore, Correlate, Emit, EmitDone, Drop,
             Answer, PanelEdit, vars
    <2> QED
      BY <2>1, <2>2, <2>3
  <1> QED
    BY <1>2, <1>3, <1>4, SlotInvariant, FrameInvariant, PTL
    DEF Spec, MonotoneReads

-----------------------------------------------------------------------------
(* Refinement: the shared dictionary gives each call a mailbox of its own.  *)
(* A step of client c changes no other client's slot, and a frame changes   *)
(* the slot of the one client under way at its address, if there is one.    *)

RefInv == SlotInv /\ CallFrames

phases == [c \in Clients |-> Phase(c)]
boxes == [c \in Clients |-> Box(c)]

\* Clients other than c see nothing of a step that leaves their slot, their
\* place and their key alone.
LEMMA OthersUntouched ==
    ASSUME NEW c \in Clients, NEW ph, NEW bx,
           Phase(c)' = ph, Box(c)' = bx,
           \A d \in Clients : d # c =>
              Phase(d)' = Phase(d) /\ Box(d)' = Box(d)
    PROVE  /\ phases' = [phases EXCEPT ![c] = ph]
           /\ boxes' = [boxes EXCEPT ![c] = bx]
  BY DEF phases, boxes

LEMMA MailboxStep ==
    ASSUME DisjointAsks, RefInv, TypeOK', [Next]_vars
    PROVE  [Calls!Next]_(Calls!vars)
  <1> USE DEF RefInv, SlotInv
  <1> DEFINE Goal == [Calls!Next]_(Calls!vars)
  <1>s. ASSUME UNCHANGED <<pc, key, data>>,
               \A c \in Clients : pc[c] \in {"send", "poll"} =>
                  pending'[key[c]] = pending[key[c]]
        PROVE  Goal
    BY <1>s DEF Calls!vars, Phase, Box
  <1>1. ASSUME NEW c \in Clients, NEW k \in Asks[c], Register(c, k) PROVE Goal
    <2>1. Phase(c) = "idle" /\ Phase(c)' = "waiting"
      BY <1>1 DEF Register, Phase, TypeOK
    <2>2. Box(c) = None /\ Box(c)' = None
      BY <1>1 DEF Register, Opened, Box, TypeOK
    <2>3. ASSUME NEW d \in Clients, d # c
          PROVE  Phase(d)' = Phase(d) /\ Box(d)' = Box(d)
      <3>1. pc'[d] = pc[d] /\ key'[d] = key[d]
        BY <1>1, <2>3 DEF Register, TypeOK
      <3>2. pc[d] \in {"send", "poll"} => pending'[key[d]] = pending[key[d]]
        BY <1>1, <2>3, KeysApart DEF Register, Opened, TypeOK
      <3> QED
        BY <3>1, <3>2 DEF Phase, Box
    <2>4. /\ phases' = [phases EXCEPT ![c] = "waiting"]
          /\ boxes' = [boxes EXCEPT ![c] = None]
      BY <2>1, <2>2, <2>3, OthersUntouched
    <2>5. boxes' = boxes
      BY <2>2, <2>4 DEF boxes
    <2>6. Calls!Start(c)
      BY <1>1, <2>1, <2>4, <2>5 DEF Calls!Start, Register, phases, boxes
    <2> QED
      BY <2>6 DEF Calls!Next
  <1>2. ASSUME NEW c \in Clients, Transmit(c) \/ PollMiss(c) PROVE Goal
    <2>1. /\ UNCHANGED <<pending, key, data>>
          /\ \A d \in Clients : Phase(d)' = Phase(d) /\ Box(d)' = Box(d)
      BY <1>2 DEF Transmit, PollMiss, Phase, Box, TypeOK
    <2> QED
      BY <2>1 DEF Calls!vars
  <1>3. ASSUME NEW c \in Clients,
               \/ TransmitRaises(c) \/ PollHit(c) \/ GiveUp(c)
        PROVE  Goal
    <2>1. UNCHANGED <<pending, key>>
      BY <1>3 DEF TransmitRaises, PollHit, GiveUp
    <2>2. \A d \in Clients : d # c => Phase(d)' = Phase(d) /\ Box(d)' = Box(d)
      BY <1>3, <2>1 DEF TransmitRaises, PollHit, GiveUp, Phase, Box, TypeOK
    <2>3. Phase(c) = "waiting" /\ Box(c)' = None
      BY <1>3 DEF TransmitRaises, PollHit, GiveUp, Phase, Box, TypeOK
    <2>4. CASE TransmitRaises(c)
      <3>1. Phase(c)' = "idle"
        BY <2>4 DEF TransmitRaises, Phase, TypeOK
      <3>2. Calls!Fail(c)
        BY <2>2, <2>3, <2>4, <3>1, OthersUntouched
        DEF Calls!Fail, TransmitRaises, phases, boxes
      <3> QED
        BY <3>2 DEF Calls!Next
    <2>5. CASE PollHit(c)
      <3>1. Phase(c)' = "returning" /\ Box(c) = pending[key[c]]
        BY <2>5 DEF PollHit, Phase, Box, TypeOK
      <3>2. Calls!Take(c)
        BY <2>2, <2>3, <2>5, <3>1, OthersUntouched
        DEF Calls!Take, PollHit, phases, boxes
      <3> QED
        BY <3>2 DEF Calls!Next
    <2>6. CASE GiveUp(c)
      <3>1. Phase(c)' = "returning"
        BY <2>6 DEF GiveUp, Phase, TypeOK
      <3>2. Calls!TimeOut(c)
        BY <2>2, <2>3, <2>6, <3>1, OthersUntouched
        DEF Calls!TimeOut, GiveUp, phases, boxes
      <3> QED
        BY <3>2 DEF Calls!Next
    <2> QED
      BY <1>3, <2>4, <2>5, <2>6
  <1>4. ASSUME NEW c \in Clients, PollKeyError(c) PROVE FALSE
    BY <1>4 DEF PollKeyError, OwnSlot
  <1>5. ASSUME NEW c \in Clients, Return(c) PROVE Goal
    <2>1. /\ Phase(c) = "returning" /\ Phase(c)' = "idle"
          /\ Box(c) = None /\ Box(c)' = None
      BY <1>5 DEF Return, Phase, Box, TypeOK
    <2>2. key[c] \in Asks[c] /\ key[c] \in Keys
      BY <1>5 DEF Return, OwnSlot, TypeOK
    <2>3. ASSUME NEW d \in Clients, d # c
          PROVE  Phase(d)' = Phase(d) /\ Box(d)' = Box(d)
      <3>1. pc'[d] = pc[d] /\ key'[d] = key[d]
        BY <1>5, <2>3 DEF Return, LocalsGone, TypeOK
      <3>2. pc[d] \in {"send", "poll"} => pending'[key[d]] = pending[key[d]]
        BY <1>5, <2>2, <2>3, KeysApart DEF Return, Closed, TypeOK
      <3> QED
        BY <3>1, <3>2 DEF Phase, Box
    <2>4. /\ phases' = [phases EXCEPT ![c] = "idle"]
          /\ boxes' = [boxes EXCEPT ![c] = None]
      BY <2>1, <2>3, OthersUntouched
    <2>5. boxes' = boxes
      BY <2>1, <2>4 DEF boxes
    <2>6. Calls!Finish(c)
      BY <1>5, <2>1, <2>4, <2>5
      DEF Calls!Finish, Return, LocalsGone, phases, boxes
    <2> QED
      BY <2>6 DEF Calls!Next
  <1>6. ASSUME NEW c \in Clients, Recover(c) PROVE Goal
    <2>1. data[c] = None
      BY <1>6 DEF Recover, CallFrames, TypeOK
    <2>2. UNCHANGED <<pending, key, data>>
      BY <1>6, <2>1 DEF Recover, LocalsGone, TypeOK
    <2>3. \A d \in Clients : Phase(d)' = Phase(d) /\ Box(d)' = Box(d)
      BY <1>6, <2>2 DEF Recover, Phase, Box, TypeOK
    <2> QED
      BY <2>2, <2>3 DEF Calls!vars
  <1>7. ASSUME Correlate PROVE Goal
    <2> DEFINE f == Head(inbound)
    <2>1. /\ UNCHANGED <<pc, key, data>>
          /\ pending' = [pending EXCEPT ![f.key] = f]
      BY <1>7 DEF Correlate, Filled, callVars
    <2>2. f \in Frames /\ f.key \in Keys
      BY <1>7, WireParts DEF Correlate, Arriving, TypeOK, Frames
    <2>3. CASE \E c \in Clients : pc[c] \in {"send", "poll"} /\ key[c] = f.key
      <3>1. PICK c \in Clients : pc[c] \in {"send", "poll"} /\ key[c] = f.key
        BY <2>3
      <3>2. /\ Phase(c) = "waiting" /\ Phase(c)' = "waiting"
            /\ Box(c)' = f
        BY <2>1, <2>2, <3>1 DEF Phase, Box, TypeOK
      <3>3. ASSUME NEW d \in Clients, d # c
            PROVE  Phase(d)' = Phase(d) /\ Box(d)' = Box(d)
        <4>1. pc[d] \in {"send", "poll"} => key[d] # f.key
          BY <3>1, <3>3, KeysApart DEF OwnSlot
        <4>2. pc[d] \in {"send", "poll"} => pending'[key[d]] = pending[key[d]]
          BY <2>1, <4>1 DEF TypeOK
        <4> QED
          BY <2>1, <4>2 DEF Phase, Box
      <3>4. /\ phases' = [phases EXCEPT ![c] = "waiting"]
            /\ boxes' = [boxes EXCEPT ![c] = f]
        BY <3>2, <3>3, OthersUntouched
      <3>5. phases' = phases
        BY <3>2, <3>4 DEF phases
      <3>6. Calls!Arrive(c)
        BY <2>1, <2>2, <3>2, <3>4, <3>5 DEF Calls!Arrive, phases, boxes
      <3> QED
        BY <3>6 DEF Calls!Next
    <2>4. CASE ~\E c \in Clients : pc[c] \in {"send", "poll"} /\ key[c] = f.key
      BY <1>s, <2>1, <2>4 DEF TypeOK
    <2> QED
      BY <2>3, <2>4
  <1>8. ASSUME \/ Negotiate \/ Ignore \/ Emit \/ EmitDone \/ Drop
               \/ \E u \in Units : Unit(u)
               \/ \E c \in Clients : AskIdentity(c)
               \/ \E c \in Clients : \E k \in Asks[c] : Set(c, k)
               \/ UNCHANGED vars
        PROVE  Goal
    <2>1. UNCHANGED <<pending, pc, key, data>>
      BY <1>8 DEF Negotiate, Ignore, Emit, EmitDone, Drop, Unit, Answer,
                  PanelEdit, AskIdentity, Set, vars, callVars
    <2> QED
      BY <1>s, <2>1
  <1> QED
    BY <1>1, <1>2, <1>3, <1>4, <1>5, <1>6, <1>7, <1>8
    DEF Next, Client, Exchange, Receive

\* Blocking calls on disjoint addresses never interfere: the link implements
\* one private mailbox per call.
THEOREM MailboxTheorem == ASSUME DisjointAsks PROVE Spec => MailboxPerCall
  <1>1. Init => Calls!Init
    BY DEF Init, Calls!Init, Phase, Box
  <1>2. FrameInv => CallFrames
    BY DEF FrameInv
  <1>3. SlotInv /\ CallFrames /\ SlotInv' /\ [Next]_vars
            => [Calls!Next]_(Calls!vars)
    BY MailboxStep DEF RefInv, SlotInv
  <1> QED
    BY <1>1, <1>2, <1>3, SlotInvariant, FrameInvariant, PTL
    DEF Spec, MailboxPerCall, Calls!Spec

=============================================================================
