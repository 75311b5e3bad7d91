----------------------------- MODULE DeviceLink -----------------------------
(***************************************************************************)
(* Request/reply correlation with the unit (pygt1000/device_link.py).      *)
(*                                                                         *)
(* Threads (Clients) call request, set_and_await, set and send; the        *)
(* transport's inbound thread runs _on_receive on every arriving frame.    *)
(* They share the dictionary _pending, one slot per address, under a lock. *)
(* A section under the lock is one action; everything between two sections *)
(* interleaves.  The unit and the two wires are external: a message is     *)
(* lost or delivered in order, a unit answers requests, echoes some        *)
(* writes, and emits frames of its own when its panel is used.             *)
(*                                                                         *)
(* The contents of an address are abstracted to a version: every change of *)
(* the unit's memory, by its panel or by a write, makes the next version.  *)
(***************************************************************************)
EXTENDS Integers, Sequences

CONSTANTS
    Clients,        \* threads that use the link
    Keys,           \* addresses (the correlation keys)
    Asks,           \* Asks[c]: the addresses client c exchanges on
    Units,          \* device ids of the units on the wire
    Bcast,          \* DEVICE_ID_BCAST
    RetryCount,     \* polls of _wait
    SendMayRaise,   \* whether Transport.send can raise
    MaxVersion,     \* bound: versions of one address
    MaxWire,        \* bound: messages on one wire
    NoSlot,         \* no entry in _pending
    None            \* the value None

ASSUME RetryCountAssumption == RetryCount \in Nat
ASSUME BcastAssumption == Bcast \notin Units
ASSUME AsksAssumption == Asks \in [Clients -> SUBSET Keys]
ASSUME BoundsAssumption == MaxVersion \in Nat /\ MaxWire \in Nat
ASSUME SendAssumption == SendMayRaise \in BOOLEAN

Versions  == 0..MaxVersion
DeviceIds == Units \cup {Bcast}
Commands  == [kind : {"rq1", "dt1", "idreq"}, to : DeviceIds, key : Keys]
Frames    == [kind : {"data", "identity"}, unit : Units,
              key : Keys, val : Versions]

\* The sentinels are neither frames nor each other.
ASSUME SentinelAssumption ==
    /\ NoSlot \notin Frames
    /\ None \notin Frames
    /\ NoSlot # None

VARIABLES
    pending,    \* _pending: NoSlot, None while in flight, or the reply
    device_id,  \* device_id: Bcast until negotiated
    pc,         \* where each client is in _exchange
    to,         \* the device id its message was framed with
    key,        \* the key of its call
    tries,      \* polls _wait has spent
    data,       \* what _wait returned, the result of the call at "pop"
    outbound,   \* wire to the units (external)
    inbound,    \* wire from the units (external)
    handling,   \* the frame the unsolicited callback is running on, or None
    mem,        \* each unit's memory (external)
    returned,   \* history: the last version a call returned for each key
    left        \* history: the keys where a send raised, and no call at the
                \* key has returned since

callVars == <<pc, to, key, tries, data>>
unitVars == <<mem, outbound, inbound>>
vars == <<pending, device_id, callVars, unitVars, handling, returned, left>>

-----------------------------------------------------------------------------
(* Slips this code could have had.  Nothing uses them: each shows that a    *)
(* property notices the slip.                                              *)

OpenedAfresh(k) == [j \in Keys |-> IF j = k THEN None
                                   ELSE IF pending[j] = NoSlot THEN NoSlot
                                   ELSE None]
ClosedAll(k) == [j \in Keys |-> NoSlot]
ClosedToNone(k) == [pending EXCEPT ![k] = None]
FilledAnyWaiter(f) == [j \in Keys |-> IF pending[j] = None THEN f
                                      ELSE pending[j]]
ForAnyone(f) == f.kind = "data"
CanAlwaysNegotiate(f) == f.kind = "identity"
ExhaustedLate(c) == tries[c] > RetryCount
NextTryFree(c) == tries

-----------------------------------------------------------------------------
(* Helpers: the effect of one locked section or one test of the code.      *)

\* _exchange registers the key with nothing received.
Opened(k) == [pending EXCEPT ![k] = None]

\* _exchange drops the key.
Closed(k) == [pending EXCEPT ![k] = NoSlot]

\* _on_receive stores the reply under its own address.
Filled(f) == [pending EXCEPT ![f.key] = f]

\* parse_data_reply: the frame carries the negotiated device id.
ForUs(f) == f.kind = "data" /\ f.unit = device_id

\* Only a link still on the broadcast id negotiates.
CanNegotiate(f) == f.kind = "identity" /\ device_id = Bcast

\* _wait has used all its polls.
Exhausted(c) == tries[c] = RetryCount

\* One more poll spent, and its sleep.
NextTry(c) == [tries EXCEPT ![c] = @ + 1]

\* The locals of the call go with it.
LocalsGone(c) ==
    /\ to' = [to EXCEPT ![c] = Bcast]
    /\ tries' = [tries EXCEPT ![c] = 0]
    /\ data' = [data EXCEPT ![c] = None]
    /\ UNCHANGED key

\* A frame at this address is taken as the reply.
Awaited(f) == pending[f.key] # NoSlot

\* Wires: a message is delivered in order or lost; a full wire loses it.
Carried(wire, m) ==
    {wire} \cup (IF Len(wire) < MaxWire THEN {Append(wire, m)} ELSE {})

Bumped(u, k) ==
    [mem EXCEPT ![u][k] = IF @ < MaxVersion THEN @ + 1 ELSE @]

DataFrame(u, k, v) == [kind |-> "data", unit |-> u, key |-> k, val |-> v]
IdFrame(u, k) == [kind |-> "identity", unit |-> u, key |-> k, val |-> 0]

-----------------------------------------------------------------------------
Init ==
    /\ pending = [k \in Keys |-> NoSlot]
    /\ device_id = Bcast
    /\ pc = [c \in Clients |-> "idle"]
    /\ to = [c \in Clients |-> Bcast]
    /\ key \in [Clients -> Keys]
    /\ \A c \in Clients : Asks[c] # {} => key[c] \in Asks[c]
    /\ tries = [c \in Clients |-> 0]
    /\ data = [c \in Clients |-> None]
    /\ outbound = <<>>
    /\ inbound = <<>>
    /\ handling = None
    /\ mem = [u \in Units |-> [k \in Keys |-> 0]]
    /\ returned = [k \in Keys |-> 0]
    /\ left = {}

-----------------------------------------------------------------------------
(* Client threads                                                          *)

\* request / set_and_await: frame the message, then open the slot.
Register(c, k) ==
    /\ pc[c] = "idle"
    /\ pending' = Opened(k)
    /\ pc' = [pc EXCEPT ![c] = "send"]
    /\ to' = [to EXCEPT ![c] = device_id]
    /\ key' = [key EXCEPT ![c] = k]
    /\ UNCHANGED <<device_id, tries, data, unitVars, handling, returned, left>>

\* The message goes to the transport: an RQ1 from request, a DT1 from
\* set_and_await.
Transmit(c) ==
    /\ pc[c] = "send"
    /\ pc' = [pc EXCEPT ![c] = "poll"]
    /\ \E kind \in {"rq1", "dt1"} :
         outbound' \in Carried(outbound,
                        [kind |-> kind, to |-> to[c], key |-> key[c]])
    /\ UNCHANGED <<pending, device_id, to, key, tries, data, inbound,
                   handling, mem, returned, left>>

\* Transport.send raises out of _exchange: the slot stays open.
TransmitRaises(c) ==
    /\ SendMayRaise
    /\ pc[c] = "send"
    /\ pc' = [pc EXCEPT ![c] = "raised"]
    /\ left' = left \cup {key[c]}
    /\ UNCHANGED <<pending, device_id, to, key, tries, data, unitVars,
                   handling, returned>>

\* _wait finds the reply.
PollHit(c) ==
    /\ pc[c] = "poll"
    /\ ~Exhausted(c)
    /\ pending[key[c]] \notin {NoSlot, None}
    /\ data' = [data EXCEPT ![c] = pending[key[c]]]
    /\ pc' = [pc EXCEPT ![c] = "pop"]
    /\ UNCHANGED <<pending, device_id, to, key, tries, unitVars,
                   handling, returned, left>>

\* _wait finds nothing and sleeps.
PollMiss(c) ==
    /\ pc[c] = "poll"
    /\ ~Exhausted(c)
    /\ pending[key[c]] = None
    /\ tries' = NextTry(c)
    /\ UNCHANGED <<pending, device_id, pc, to, key, data, unitVars,
                   handling, returned, left>>

\* _wait indexes a slot that is gone: KeyError.
PollKeyError(c) ==
    /\ pc[c] = "poll"
    /\ ~Exhausted(c)
    /\ pending[key[c]] = NoSlot
    /\ pc' = [pc EXCEPT ![c] = "keyerror"]
    /\ UNCHANGED <<pending, device_id, to, key, tries, data, unitVars,
                   handling, returned, left>>

\* _wait gives up, without looking at the slot once more.
GiveUp(c) ==
    /\ pc[c] = "poll"
    /\ Exhausted(c)
    /\ pc' = [pc EXCEPT ![c] = "pop"]
    /\ UNCHANGED <<pending, device_id, to, key, tries, data, unitVars,
                   handling, returned, left>>

\* _exchange drops the slot, whatever it holds, and returns.
Return(c) ==
    /\ pc[c] = "pop"
    /\ pending' = Closed(key[c])
    /\ pc' = [pc EXCEPT ![c] = "idle"]
    /\ LocalsGone(c)
    /\ returned' = IF data[c] = None THEN returned
                   ELSE [returned EXCEPT ![key[c]] = data[c].val]
    /\ left' = left \ {key[c]}
    /\ UNCHANGED <<device_id, unitVars, handling>>

\* The caller handles the exception and goes on.
Recover(c) ==
    /\ pc[c] \in {"raised", "keyerror"}
    /\ pc' = [pc EXCEPT ![c] = "idle"]
    /\ LocalsGone(c)
    /\ UNCHANGED <<pending, device_id, unitVars, handling, returned, left>>

\* set: a DT1 nobody waits for.
Set(c, k) ==
    /\ pc[c] = "idle"
    /\ outbound' \in Carried(outbound,
                        [kind |-> "dt1", to |-> device_id, key |-> k])
    /\ UNCHANGED <<pending, device_id, callVars, inbound, handling, mem,
                   returned, left>>

\* send of the identity request.
AskIdentity(c) ==
    /\ pc[c] = "idle"
    /\ outbound' \in Carried(outbound,
                        [kind |-> "idreq", to |-> Bcast, key |-> key[c]])
    /\ UNCHANGED <<pending, device_id, callVars, inbound, handling, mem,
                   returned, left>>

-----------------------------------------------------------------------------
(* The inbound thread: _on_receive, one frame at a time                    *)

Arriving == inbound # <<>> /\ handling = None

Negotiate ==
    /\ Arriving
    /\ CanNegotiate(Head(inbound))
    /\ device_id' = Head(inbound).unit
    /\ inbound' = Tail(inbound)
    /\ UNCHANGED <<pending, callVars, outbound, handling, mem, returned, left>>

Ignore ==
    /\ Arriving
    /\ ~CanNegotiate(Head(inbound))
    /\ ~ForUs(Head(inbound))
    /\ inbound' = Tail(inbound)
    /\ UNCHANGED <<pending, device_id, callVars, outbound, handling, mem,
                   returned, left>>

Correlate ==
    /\ Arriving
    /\ ForUs(Head(inbound))
    /\ Awaited(Head(inbound))
    /\ pending' = Filled(Head(inbound))
    /\ inbound' = Tail(inbound)
    /\ UNCHANGED <<device_id, callVars, outbound, handling, mem,
                   returned, left>>

\* The unsolicited callback starts, outside the lock.
Emit ==
    /\ Arriving
    /\ ForUs(Head(inbound))
    /\ ~Awaited(Head(inbound))
    /\ handling' = Head(inbound)
    /\ inbound' = Tail(inbound)
    /\ UNCHANGED <<pending, device_id, callVars, outbound, mem,
                   returned, left>>

\* It returns or raises; _on_receive swallows the exception.
EmitDone ==
    /\ handling # None
    /\ handling' = None
    /\ UNCHANGED <<pending, device_id, callVars, unitVars, returned, left>>

-----------------------------------------------------------------------------
(* The units (external)                                                    *)

Addressed(u) == outbound # <<>> /\ Head(outbound).to \in {u, Bcast}

Answer(u) ==
    /\ Addressed(u)
    /\ LET k == Head(outbound).key IN
       \/ /\ Head(outbound).kind = "rq1"
          /\ inbound' \in Carried(inbound, DataFrame(u, k, mem[u][k]))
          /\ UNCHANGED mem
       \/ /\ Head(outbound).kind = "dt1"
          /\ mem' = Bumped(u, k)
          /\ inbound' \in Carried(inbound, DataFrame(u, k, mem'[u][k]))
       \/ /\ Head(outbound).kind = "idreq"
          /\ inbound' \in Carried(inbound, IdFrame(u, k))
          /\ UNCHANGED mem
    \* The next unit may still answer a broadcast.
    /\ outbound' \in (IF Head(outbound).to = Bcast
                      THEN {outbound, Tail(outbound)} ELSE {Tail(outbound)})
    /\ UNCHANGED <<pending, device_id, callVars, handling, returned, left>>

\* Nobody answers.
Drop ==
    /\ outbound # <<>>
    /\ outbound' = Tail(outbound)
    /\ UNCHANGED <<pending, device_id, callVars, inbound, handling, mem,
                   returned, left>>

\* A knob is turned on a unit: it announces the new value.
PanelEdit(u, k) ==
    /\ mem[u][k] < MaxVersion
    /\ mem' = Bumped(u, k)
    /\ inbound' \in Carried(inbound, DataFrame(u, k, mem'[u][k]))
    /\ UNCHANGED <<pending, device_id, callVars, outbound, handling,
                   returned, left>>

-----------------------------------------------------------------------------
Exchange(c) ==
    \/ Transmit(c)
    \/ TransmitRaises(c)
    \/ PollHit(c)
    \/ PollMiss(c)
    \/ PollKeyError(c)
    \/ GiveUp(c)
    \/ Return(c)
    \/ Recover(c)

Client(c) ==
    \/ \E k \in Asks[c] : Register(c, k) \/ Set(c, k)
    \/ AskIdentity(c)
    \/ Exchange(c)

Receive == Negotiate \/ Ignore \/ Correlate \/ Emit \/ EmitDone

Unit(u) == Answer(u) \/ \E k \in Keys : PanelEdit(u, k)

Next ==
    \/ \E c \in Clients : Client(c)
    \/ Receive
    \/ Drop
    \/ \E u \in Units : Unit(u)

Spec == Init /\ [][Next]_vars

\* A thread inside a call is eventually scheduled.  The inbound thread, the
\* callback and the units owe nothing.
FairSpec == Spec /\ \A c \in Clients : WF_vars(Exchange(c))

-----------------------------------------------------------------------------
(* Properties                                                              *)

SlotValue == {NoSlot, None} \cup Frames

TypeOK ==
    /\ pending \in [Keys -> SlotValue]
    /\ device_id \in DeviceIds
    /\ pc \in [Clients ->
                {"idle", "send", "poll", "pop", "raised", "keyerror"}]
    /\ to \in [Clients -> DeviceIds]
    /\ key \in [Clients -> Keys]
    /\ tries \in [Clients -> 0..RetryCount]
    /\ data \in [Clients -> {None} \cup Frames]
    /\ outbound \in Seq(Commands)
    /\ inbound \in Seq(Frames)
    /\ handling \in {None} \cup Frames
    /\ mem \in [Units -> [Keys -> Versions]]
    /\ returned \in [Keys -> Versions]
    /\ left \subseteq Keys

\* No two clients exchange on the same address.
DisjointAsks ==
    \A c, d \in Clients : c # d => Asks[c] \cap Asks[d] = {}

\* _wait never indexes a slot another thread has dropped: a call ends with
\* the reply or None, as the docstring of request says.
NoKeyError == \A c \in Clients : pc[c] # "keyerror"

\* A slot belongs to a call under way, so that no later frame at its address
\* is swallowed; only the slot of a send that raised is left behind, for as
\* long as no call at that address returns.
PendingInFlight ==
    \A k \in Keys : pending[k] # NoSlot =>
        \/ \E c \in Clients : key[c] = k /\ pc[c] \in {"send", "poll", "pop"}
        \/ k \in left

\* What a call holds as its result is a data frame of its own address, sent
\* by the unit the link negotiated with.
Correlated ==
    \A c \in Clients : data[c] # None =>
        /\ data[c].kind = "data"
        /\ data[c].key = key[c]
        /\ data[c].unit = device_id

\* A frame handed to the unsolicited callback, too, is of that unit: nothing
\* reaches a caller or the callback before negotiation.
EmittedFromUnit == handling # None => handling.unit = device_id

\* Once negotiated the device id never changes, whoever else answers.
NegotiatedOnce == [][device_id # Bcast => device_id' = device_id]_vars

\* Successive calls at one address never go back in time, although replies
\* outlive the requests they answer and the unit speaks unasked.
MonotoneReads == [][\A k \in Keys : returned'[k] >= returned[k]]_vars

\* Every call ends, even when the unit is silent and when the callback never
\* returns.
EveryCallReturns ==
    \A c \in Clients : pc[c] # "idle" ~> pc[c] = "idle"

-----------------------------------------------------------------------------
(* Each call implements a private mailbox: although _pending is shared, no *)
(* other client and no late frame at another address affects a call.       *)

Phase(c) == IF pc[c] \in {"send", "poll"} THEN "waiting"
            ELSE IF pc[c] = "pop" THEN "returning" ELSE "idle"

Box(c) == IF pc[c] \in {"send", "poll"} THEN pending[key[c]] ELSE None

Calls == INSTANCE Calls WITH
    Replies <- Frames,
    phase <- [c \in Clients |-> Phase(c)],
    box <- [c \in Clients |-> Box(c)],
    reply <- data

\* Calls on disjoint addresses behave as blocking calls with a mailbox each.
MailboxPerCall == Calls!Spec

=============================================================================
