---------------------------- MODULE PatchWireProofs ----------------------------
(* What is on the wires of PatchSync, and with which values, while nothing    *)
(* has raced.  The reading thread has one exchange at a time, and what is     *)
(* under way of a setting when the sliders of its block are read again is     *)
(* that exchange.  The last frame of a cell says what the unit holds.         *)
EXTENDS PatchSyncProofs

-----------------------------------------------------------------------------
(* The messages about a cell: a switch, a type or a setting of a block.       *)

Where(wire, b, ws) == {i \in 1..Len(wire) : wire[i].b = b /\ wire[i].w \in ws}
At(wire, b, w) == Where(wire, b, {w})
SetAt(wire, b) == Where(wire, b, Settings)
InFlight(b, w) == At(outbound, b, w) # {} \/ At(inbound, b, w) # {}
OfSlot(m) == m.b = slot.b /\ m.w = slot.w

\* A reply can be missing.
Lossy == MaxLosses # 0

\* A request is the reading thread's own.
ReadsOwn ==
    \A i \in 1..Len(outbound) : outbound[i].kind = "rq1" => OfSlot(outbound[i])

\* It is answered once, and nothing else is under way of what it asks for.
OneAnswer ==
    slot # NoRead =>
       LET asked == At(outbound, slot.b, slot.w)
           told == At(inbound, slot.b, slot.w)
       IN
       /\ \A i \in asked : outbound[i].kind = "rq1"
       /\ \A i, j \in asked : i = j
       /\ \A i, j \in told : i = j
       /\ asked = {} \/ told = {}
       /\ slot.v # None => ~InFlight(slot.b, slot.w)
       /\ slot.v = None /\ ~InFlight(slot.b, slot.w) => Lossy

\* A program change, and then a scan, waits with nothing else under way but
\* the frames before it.
Announced ==
    On(inbound, ProgramChange) =>
       /\ outbound = <<>> /\ queue = <<>> /\ pc = "idle" /\ toggling = NoRead
       /\ \A i \in 1..Len(inbound) : inbound[i] = ProgramChange => i = Len(inbound)
Queued ==
    On(queue, Full) =>
       /\ outbound = <<>> /\ inbound = <<>> /\ Len(queue) = 1
       /\ pc = "idle" /\ toggling = NoRead
\* A scan runs with nothing under way but its own exchange.
Scanning ==
    pc # "idle" /\ mode = "scan" =>
       /\ queue = <<>> /\ toggling = NoRead
       /\ ~On(inbound, ProgramChange)
       /\ \A i \in 1..Len(outbound) : OfSlot(outbound[i])
       /\ \A i \in 1..Len(inbound) : OfSlot(inbound[i])

\* Outside a scan.  A block whose sliders are to be read again has no setting
\* written, its settings' frames come before its type's, and once the task is
\* queued or runs its own exchange is all there is of them.
Task(b) == \/ pc # "idle" /\ mode = "sliders" /\ Cur = b
           \/ On(queue, Sliders(b))
Unwritten(b) ==
    RereadDue(b) =>
       \A i \in SetAt(outbound, b) : outbound[i].kind = "rq1"
Ordered(b) ==
    \A i \in SetAt(inbound, b) : \A j \in At(inbound, b, "type") : i < j
Awaited(b) ==
    Task(b) => /\ \A i \in SetAt(outbound, b) : OfSlot(outbound[i])
               /\ \A i \in SetAt(inbound, b) : OfSlot(inbound[i])

\* Outside a scan of several blocks of a type, none is set aside.
NoneAside == pc = "idle" \/ mode = "sliders" => out = [b \in Blocks |-> NoEntry]

WiresInv ==
    /\ NoneAside
    /\ ~raced =>
          /\ ReadsOwn /\ OneAnswer /\ Announced /\ Queued /\ Scanning
          /\ ~ScanDue => \A b \in Blocks : Unwritten(b) /\ Ordered(b) /\ Awaited(b)

-----------------------------------------------------------------------------
(* The values.                                                                *)

\* The last message of a cell has value v.
LastIs(wire, b, w, v) ==
    \A i \in At(wire, b, w) :
       (\A j \in At(wire, b, w) : j <= i) => wire[i].v = v

\* The last frame tells what the unit holds, and so does a reply.
Echoed == ~On(inbound, ProgramChange) =>
             \A b \in Blocks : \A w \in Whats : LastIs(inbound, b, w, mem[b][w])
Replied == slot # NoRead => slot.v \in {None, mem[slot.b][slot.w]}
\* The switch that a toggle is about to record is what the unit holds, or will
\* when it has served the writes.
Promised ==
    toggling # NoRead =>
       /\ LastIs(outbound, toggling.b, "sw", toggling.v)
       /\ At(outbound, toggling.b, "sw") = {} =>
             mem[toggling.b]["sw"] = toggling.v

ValuesInv == ~raced => Echoed /\ Replied /\ Promised

-----------------------------------------------------------------------------
(* Sequences of messages: what taking one off or adding one changes.          *)

Taken(new, old, b, ws) ==
    /\ \A i \in Where(new, b, ws) :
          i \in Nat \ {0} /\ i + 1 \in Where(old, b, ws) /\ new[i] = old[i + 1]
    /\ \A i \in Where(old, b, ws) :
          i = 1 \/ (i - 1 \in Where(new, b, ws) /\ new[i - 1] = old[i])
    /\ 1 \in Where(old, b, ws) <=> old[1].b = b /\ old[1].w \in ws
Added(new, old, x, b, ws) ==
    /\ Where(new, b, ws) =
          Where(old, b, ws) \cup (IF x.b = b /\ x.w \in ws THEN {Len(old) + 1} ELSE {})
    /\ new[Len(old) + 1] = x /\ Len(old) \in Nat
    /\ \A i \in Where(old, b, ws) : new[i] = old[i] /\ i \in 1..Len(old)

LEMMA WhereTail ==
    ASSUME NEW S, NEW s \in Seq(S), s # <<>>, NEW b, NEW ws
    PROVE  Taken(Tail(s), s, b, ws)
  <1>1. Len(Tail(s)) = Len(s) - 1 /\ Len(s) \in Nat /\ Len(s) > 0
    OBVIOUS
  <1>2. \A i \in 1..Len(Tail(s)) : Tail(s)[i] = s[i + 1] /\ i + 1 \in 1..Len(s)
    BY HeadTail
  <1>3. ASSUME NEW i \in 1..Len(s), i # 1
        PROVE  i - 1 \in 1..Len(Tail(s)) /\ Tail(s)[i - 1] = s[i]
    <2>1. i - 1 \in 1..Len(Tail(s)) /\ (i - 1) + 1 = i
      BY <1>1, <1>3
    <2> QED
      BY <1>2, <2>1
  <1>4. 1 \in 1..Len(s)
    BY <1>1
  <1>5. \A i \in Where(Tail(s), b, ws) :
           i \in Nat \ {0} /\ i + 1 \in Where(s, b, ws) /\ Tail(s)[i] = s[i + 1]
    BY <1>1, <1>2 DEF Where
  <1>6. ASSUME NEW i \in Where(s, b, ws), i # 1
        PROVE  i - 1 \in Where(Tail(s), b, ws) /\ Tail(s)[i - 1] = s[i]
    <2>1. i \in 1..Len(s) /\ s[i].b = b /\ s[i].w \in ws
      BY DEF Where
    <2> DEFINE k == i - 1
    <2>2. k \in 1..Len(Tail(s)) /\ Tail(s)[k] = s[i]
      BY <1>3, <1>6, <2>1
    <2> HIDE DEF k
    <2>3. k \in Where(Tail(s), b, ws)
      BY <2>1, <2>2 DEF Where
    <2> QED
      BY <2>2, <2>3 DEF k
  <1>7. 1 \in Where(s, b, ws) <=> s[1].b = b /\ s[1].w \in ws
    BY <1>4 DEF Where
  <1> QED
    BY <1>4, <1>5, <1>6, <1>7 DEF Taken

LEMMA WhereAppend ==
    ASSUME NEW S, NEW s \in Seq(S), NEW x \in S, NEW b, NEW ws
    PROVE  Added(Append(s, x), s, x, b, ws)
  <1>1. /\ Append(s, x)[Len(s) + 1] = x /\ Len(s) \in Nat
        /\ Len(Append(s, x)) = Len(s) + 1
        /\ \A i \in 1..Len(s) : Append(s, x)[i] = s[i]
    OBVIOUS
  <1>2. 1..(Len(s) + 1) = 1..Len(s) \cup {Len(s) + 1}
    BY <1>1
  <1>3. Where(Append(s, x), b, ws) =
          {i \in 1..Len(s) \cup {Len(s) + 1} :
              Append(s, x)[i].b = b /\ Append(s, x)[i].w \in ws}
    BY <1>1, <1>2 DEF Where
  <1> QED
    BY <1>1, <1>3 DEF Where, Added

\* The head is all there is of a sequence without a tail.
LEMMA LastLeft ==
    ASSUME NEW S, NEW s \in Seq(S), s # <<>>, Tail(s) = <<>>
    PROVE  Len(s) = 1
  <1> DEFINE t == Tail(s)
  <1>1. Len(t) = Len(s) - 1 /\ Len(s) \in Nat
    OBVIOUS
  <1>2. t = <<>>
    OBVIOUS
  <1> HIDE DEF t
  <1>3. t = <<>> => Len(t) = 0
    OBVIOUS
  <1>4. Len(t) = 0
    BY <1>2, <1>3
  <1> QED
    BY <1>1, <1>4

LEMMA WhereType ==
    \A wire, b : TypeAt(wire, b) = At(wire, b, "type")
  BY DEF TypeAt, At, Where

\* What the empty wire and queue hold.
LEMMA Empty ==
    /\ \A b, w : At(<<>>, b, w) = {}
    /\ \A b : SetAt(<<>>, b) = {}
    /\ \A m : ~On(<<>>, m)
  BY DEF At, SetAt, Where, On

\* The last message of a cell.
LEMMA LastTail ==
    ASSUME NEW S, NEW s \in Seq(S), s # <<>>, NEW b, NEW w, NEW v, LastIs(s, b, w, v)
    PROVE  /\ LastIs(Tail(s), b, w, v)
           /\ s[1].b = b /\ s[1].w = w /\ At(Tail(s), b, w) = {} => s[1].v = v
  <1>1. Taken(Tail(s), s, b, {w})
    BY WhereTail
  <1>2. ASSUME NEW i \in At(Tail(s), b, w),
               \A j \in At(Tail(s), b, w) : j <= i
        PROVE  Tail(s)[i].v = v
    <2>1. i \in Nat \ {0} /\ i + 1 \in At(s, b, w) /\ Tail(s)[i] = s[i + 1]
      BY <1>1 DEF Taken, At
    <2>2. ASSUME NEW j \in At(s, b, w) PROVE j <= i + 1
      <3>1. j = 1 \/ j - 1 \in At(Tail(s), b, w)
        BY <1>1 DEF Taken, At
      <3>2. j \in Nat
        BY DEF At, Where
      <3>3. j = 1 \/ j - 1 <= i
        BY <1>2, <3>1
      <3> QED
        BY <2>1, <3>2, <3>3
    <2> QED
      BY <2>1, <2>2 DEF LastIs
  <1>3. ASSUME s[1].b = b, s[1].w = w, At(Tail(s), b, w) = {}
        PROVE  s[1].v = v
    <2>1. 1 \in At(s, b, w) /\ \A j \in At(s, b, w) : j = 1
      BY <1>1, <1>3 DEF Taken, At
    <2>2. \A j \in At(s, b, w) : j <= 1
      BY <2>1
    <2> QED
      BY <2>1, <2>2 DEF LastIs
  <1> QED
    BY <1>2, <1>3 DEF LastIs

LEMMA LastAppend ==
    ASSUME NEW S, NEW s \in Seq(S), NEW x \in S, NEW b, NEW w, NEW v,
           IF x.b = b /\ x.w = w THEN x.v = v ELSE LastIs(s, b, w, v)
    PROVE  LastIs(Append(s, x), b, w, v)
  <1> SUFFICES ASSUME NEW i \in At(Append(s, x), b, w),
                      \A j \in At(Append(s, x), b, w) : j <= i
               PROVE  Append(s, x)[i].v = v
    BY DEF LastIs
  <1>1. Added(Append(s, x), s, x, b, {w})
    BY WhereAppend
  <1>2. Append(s, x)[Len(s) + 1] = x /\ Len(s) \in Nat
    BY <1>1 DEF Added
  <1>3. i \in At(s, b, w) => Append(s, x)[i] = s[i] /\ i \in 1..Len(s)
    BY <1>1 DEF Added, At
  <1>4. CASE x.b = b /\ x.w = w
    <2>1. At(Append(s, x), b, w) = At(s, b, w) \cup {Len(s) + 1}
      BY <1>1, <1>4 DEF Added, At
    <2>2. Len(s) + 1 <= i
      BY <2>1
    <2>3. i \in 1..Len(s) \/ i = Len(s) + 1
      BY <1>3, <2>1
    <2>4. i = Len(s) + 1
      BY <1>2, <2>2, <2>3
    <2> QED
      BY <1>2, <1>4, <2>4
  <1>5. CASE ~(x.b = b /\ x.w = w)
    <2>1. At(Append(s, x), b, w) = At(s, b, w)
      BY <1>1, <1>5 DEF Added, At
    <2> QED
      BY <1>3, <1>5, <2>1 DEF LastIs
  <1> QED
    BY <1>4, <1>5

-----------------------------------------------------------------------------
(* Facts used by several steps.                                               *)

\* The messages are typed, and none is about no block but a program change.
LEMMA Messages ==
    ASSUME TypeInv
    PROVE  /\ outbound \in Seq(Sent) /\ inbound \in Seq(Heard) /\ queue \in Seq(Tasks)
           /\ \A i \in 1..Len(outbound) :
                 /\ outbound[i] \in Sent /\ outbound[i].b \in Blocks
                 /\ outbound[i].w \in Whats /\ outbound[i].kind \in {"rq1", "dt1"}
           /\ \A i \in 1..Len(inbound) :
                 \/ inbound[i] = ProgramChange
                 \/ /\ inbound[i] \in Heard /\ inbound[i].kind = "data"
                    /\ inbound[i].b \in Blocks /\ inbound[i].w \in Whats
                    /\ inbound[i].v \in ValuesOf(inbound[i].w)
  BY DEF TypeInv, WireInv, QueueInv, Sent, Heard

\* What the slot is for.
LEMMA SlotFor ==
    ASSUME TypeInv
    PROVE  /\ slot # NoRead <=> pc \in Waits
           /\ slot # NoRead => /\ slot.b \in Blocks /\ slot.w \in Whats /\ slot.b = Cur
                               /\ pc = "swWait" => slot.w = "sw"
                               /\ pc = "typeWait" => slot.w = "type"
                               /\ pc = "valWait" => slot.w \in Settings
           /\ slot = NoRead => \A m : m.b \in Blocks => ~OfSlot(m)
           /\ pc # "idle" => Cur \in Blocks
  <1>1. slot = NoRead => slot.b = None
    BY DEF NoRead
  <1>2. pc # "idle" => Cur \in Blocks
    BY HeadTail DEF TypeInv, TaskInv, Cur
  <1> QED
    BY <1>1, <1>2, NamesAssumption DEF TypeInv, SlotInv, Slots, OfSlot

\* What set_fx_value writes is a setting.
LEMMA ValueSetting ==
    ASSUME TypeInv, NEW a \in Blocks, NEW i, NEW v, SetValue(a, i, v)
    PROVE  SettingIn(LiveTable(a), known[a].sliders[i].label) \in Settings
  <1>1. /\ known[a] # NoEntry
        /\ a \in FxBlocks => fxName[a] # None
        /\ Carries(LiveTable(a), known[a].sliders[i].label)
    BY DEF SetValue
  <1>2. LiveTable(a) \subseteq Settings
    BY <1>1, LabelsAssumption DEF LiveTable, TypeInv, KnownInv, NameInv, Named
  <1> QED
    BY <1>1, <1>2 DEF Carries, SettingIn

\* A wait outside a scan is for a setting of the block that is read again.
LEMMA Rereading ==
    ASSUME TypeInv, ~ScanDue, slot # NoRead
    PROVE  /\ pc = "valWait" /\ mode = "sliders" /\ slot.w \in Settings
           /\ slot.b \in Blocks /\ Task(slot.b) /\ RereadDue(slot.b) /\ Busy(slot.b)
           /\ slot.w \notin {"sw", "type"}
  <1>1. pc \in Waits /\ mode \in {"scan", "sliders"} /\ pc # "idle"
    BY SlotFor DEF TypeInv, TaskInv, Waits
  <1>2. mode = "sliders"
    BY <1>1 DEF ScanDue
  <1>3. pc = "valWait"
    BY <1>1, <1>2 DEF TypeInv, TaskInv, Waits
  <1> QED
    BY <1>1, <1>2, <1>3, SlotFor, NamesAssumption DEF Task, RereadDue, Busy

\* What makes a re-read due, by the wires.
LEMMA TypesWhere ==
    ASSUME NEW s \in Seq(Sent), NEW t \in Seq(Heard), NEW b \in Blocks
    PROVE  (\E e \in Effects : On(t, Frame(b, "type", e)) \/ On(s, Write(b, "type", e))) <=>
              \/ At(t, b, "type") # {}
              \/ \E i \in At(s, b, "type") : s[i].kind = "dt1"
  <1>1. ASSUME NEW e \in Effects, On(t, Frame(b, "type", e)) PROVE At(t, b, "type") # {}
    BY <1>1 DEF On, Frame, At, Where
  <1>2. ASSUME NEW e \in Effects, On(s, Write(b, "type", e))
        PROVE  \E i \in At(s, b, "type") : s[i].kind = "dt1"
    BY <1>2 DEF On, Write, At, Where
  <1>3. ASSUME NEW i \in At(t, b, "type")
        PROVE  \E e \in Effects : On(t, Frame(b, "type", e))
    <2>1. i \in 1..Len(t) /\ t[i].b = b /\ t[i].w = "type"
      BY DEF At, Where
    <2>2. t[i] \in Heard /\ t[i] # ProgramChange
      BY <2>1, NamesAssumption DEF ProgramChange
    <2>3. t[i].v \in Effects /\ t[i] = Frame(b, "type", t[i].v)
      BY <2>1, <2>2 DEF Heard, Frame, ValuesOf
    <2> QED
      BY <2>1, <2>3 DEF On
  <1>4. ASSUME NEW i \in At(s, b, "type"), s[i].kind = "dt1"
        PROVE  \E e \in Effects : On(s, Write(b, "type", e))
    <2>1. i \in 1..Len(s) /\ s[i].b = b /\ s[i].w = "type"
      BY DEF At, Where
    <2>2. s[i] \in Sent
      BY <2>1
    <2>3. s[i].v \in Effects /\ s[i] = Write(b, "type", s[i].v)
      BY <1>4, <2>1, <2>2 DEF Sent, Write, ValuesOf
    <2> QED
      BY <2>1, <2>3 DEF On
  <1> QED
    BY <1>1, <1>2, <1>3, <1>4

LEMMA RereadWhere ==
    ASSUME TypeInv, NEW b \in Blocks
    PROVE  RereadDue(b) <=>
              \/ Task(b) \/ At(inbound, b, "type") # {}
              \/ \E i \in At(outbound, b, "type") : outbound[i].kind = "dt1"
  BY TypesWhere DEF TypeInv, WireInv, RereadDue, Task

LEMMA RereadThen ==
    ASSUME TypeInv', NEW b \in Blocks
    PROVE  RereadDue(b)' <=>
              \/ Task(b)' \/ At(inbound', b, "type") # {}
              \/ \E i \in At(outbound', b, "type") : outbound'[i].kind = "dt1"
  <1>1. outbound' \in Seq(Sent) /\ inbound' \in Seq(Heard)
    BY DEF TypeInv, WireInv
  <1> QED
    BY <1>1, TypesWhere DEF RereadDue, Task

LEMMA WiresInit == Init => WiresInv
  <1> SUFFICES ASSUME Init PROVE WiresInv
    OBVIOUS
  <1>1. /\ outbound = <<>> /\ inbound = <<>> /\ queue = <<>> /\ slot = NoRead
        /\ pc = "sw" /\ mode = "scan" /\ toggling = NoRead
    BY DEF Init
  <1>2. NoneAside
    BY <1>1 DEF NoneAside
  <1>3. ReadsOwn /\ OneAnswer /\ Announced /\ Queued /\ Scanning /\ ScanDue
    BY <1>1, Empty DEF ReadsOwn, OneAnswer, Announced, Queued, Scanning, ScanDue
  <1> QED
    BY <1>2, <1>3 DEF WiresInv

-----------------------------------------------------------------------------
(* The steps.                                                                 *)

\* The worker takes a task or skips one.
LEMMA WiresDispatch ==
    ASSUME TypeInv, WiresInv, TakeFull \/ TakeSliders \/ SkipFull
    PROVE  WiresInv'
  <1>1. /\ pc = "idle" /\ queue # <<>> /\ queue' = Tail(queue)
        /\ UNCHANGED <<outbound, inbound, slot, out, toggling>>
    BY DEF TakeFull, TakeSliders, SkipFull, Dispatched, unitVars
  <1>2. queue \in Seq(Tasks) /\ Head(queue) \in Tasks /\ slot = NoRead
    BY <1>1, HeadTail DEF TypeInv, QueueInv, SlotInv, Waits
  <1>3. On(queue, Head(queue)) /\ \A m : On(queue', m) => On(queue, m)
    BY <1>1, <1>2, OnTail
  <1>4. CASE TakeFull
    <2>1. /\ pc' = "sw" /\ mode' = "scan" /\ raced' = (raced /\ ~Undisturbed)
          /\ Head(queue).kind = "full"
      BY <1>4 DEF TakeFull
    <2>2. ASSUME ~raced'
          PROVE  outbound = <<>> /\ inbound = <<>> /\ Len(queue) = 1 /\ toggling = NoRead
      <3>1. CASE raced
        BY <2>1, <2>2, <3>1 DEF TypeInv, CountInv, Undisturbed
      <3>2. CASE ~raced
        <4>1. Head(queue) = Full
          BY <1>2, <2>1 DEF Tasks, Full, Sliders
        <4> QED
          BY <1>3, <3>2, <4>1 DEF WiresInv, Queued
      <3> QED
        BY <3>1, <3>2
    <2>3. ~raced' => queue' = <<>>
      BY <1>1, <1>2, <2>2
    <2>4. ~raced' => ReadsOwn' /\ OneAnswer' /\ Announced' /\ Queued' /\ Scanning'
      <3> SUFFICES ASSUME ~raced'
                   PROVE  ReadsOwn' /\ OneAnswer' /\ Announced' /\ Queued' /\ Scanning'
        OBVIOUS
      <3>1. /\ outbound' = <<>> /\ inbound' = <<>> /\ queue' = <<>>
            /\ toggling' = NoRead /\ slot' = NoRead
        BY <1>1, <1>2, <2>2, <2>3
      <3>2. 1..Len(outbound') = {} /\ 1..Len(inbound') = {}
        BY <3>1
      <3>3. ~On(inbound, ProgramChange)' /\ ~On(queue, Full)'
        BY <3>1, Empty
      <3> QED
        BY <3>1, <3>2, <3>3 DEF ReadsOwn, OneAnswer, Announced, Queued, Scanning
    <2>5. NoneAside' /\ ScanDue'
      BY <2>1 DEF NoneAside, ScanDue
    <2> QED
      BY <2>4, <2>5 DEF WiresInv
  <1>5. CASE TakeSliders
    <2>1. /\ pc' = "params" /\ raced' = raced /\ mode' = "sliders"
          /\ todo' = <<Head(queue).b>> /\ Head(queue).kind = "sliders"
      BY <1>5 DEF TakeSliders
    <2>2. Head(queue) = Sliders(Head(queue).b) /\ Cur' = Head(queue).b /\ Head(queue) # Full
      BY <1>2, <2>1 DEF Tasks, Full, Sliders, Cur
    <2>3. NoneAside'
      BY <1>1 DEF WiresInv, NoneAside
    <2>4. ASSUME ~raced
          PROVE  ReadsOwn' /\ OneAnswer' /\ Announced' /\ Queued' /\ Scanning' /\ ~ScanDue
      <3>1. ~On(inbound, ProgramChange)
        BY <1>1, <2>4 DEF WiresInv, Announced
      <3>2. ~On(queue, Full)
        <4>1. Len(queue) = 1 /\ On(queue, Full) => Head(queue) = Full
          BY <1>1, <1>2 DEF On
        <4> QED
          BY <2>2, <2>4, <4>1 DEF WiresInv, Queued
      <3>3. ReadsOwn' /\ OneAnswer'
        BY <1>1, <1>2, <2>4 DEF WiresInv, ReadsOwn, OneAnswer, OfSlot
      <3> QED
        BY <1>1, <1>3, <2>1, <3>1, <3>2, <3>3 DEF Announced, Queued, Scanning, ScanDue
    <2>5. ASSUME ~raced, NEW b \in Blocks PROVE Unwritten(b)' /\ Ordered(b)' /\ Awaited(b)'
      <3>1. (Task(b)' => Task(b)) /\ (RereadDue(b)' => RereadDue(b))
        BY <1>1, <1>3, <2>1, <2>2 DEF Task, RereadDue
      <3>2. Unwritten(b) /\ Ordered(b) /\ Awaited(b)
        BY <2>4, <2>5 DEF WiresInv
      <3> QED
        BY <1>1, <3>1, <3>2 DEF Unwritten, Ordered, Awaited, OfSlot
    <2> QED
      BY <2>1, <2>3, <2>4, <2>5 DEF WiresInv
  <1>6. CASE SkipFull
    BY <1>1, <1>6 DEF SkipFull, WiresInv, NoneAside
  <1> QED
    BY <1>4, <1>5, <1>6

\* The worker is stopped, ends, or is started.
LEMMA WiresWorker ==
    ASSUME TypeInv, ReaderInv, WiresInv, Exit \/ Stop \/ Start
    PROVE  WiresInv'
  <1>1. /\ UNCHANGED <<outbound, inbound, queue, slot, mode, raced, toggling>>
        /\ \/ UNCHANGED <<pc, todo, out>>
           \/ /\ pc' = "idle" /\ out' = [b \in Blocks |-> NoEntry]
              /\ pc = "idle" \/ raced
    BY DEF Exit, Stop, Start, unitVars, editVars, ReaderInv, TypeInv, TaskInv
  <1>2. NoneAside'
    BY <1>1 DEF WiresInv, NoneAside
  <1>3. ~raced => pc' = pc /\ (pc # "idle" => todo' = todo)
    BY <1>1
  <1>4. ASSUME ~raced PROVE ReadsOwn' /\ OneAnswer' /\ Announced' /\ Queued' /\ Scanning'
    BY <1>1, <1>3, <1>4 DEF WiresInv, ReadsOwn, OneAnswer, Announced, Queued, Scanning, OfSlot,
          InFlight
  <1>5. ASSUME ~raced, ~ScanDue', NEW b \in Blocks
        PROVE  Unwritten(b)' /\ Ordered(b)' /\ Awaited(b)'
    <2>1. ~ScanDue /\ (Task(b)' <=> Task(b)) /\ (RereadDue(b)' <=> RereadDue(b))
      BY <1>1, <1>3, <1>5 DEF ScanDue, Task, RereadDue, Cur
    <2>2. Unwritten(b) /\ Ordered(b) /\ Awaited(b)
      BY <1>5, <2>1 DEF WiresInv
    <2> QED
      BY <1>1, <2>1, <2>2 DEF Unwritten, Ordered, Awaited, OfSlot
  <1> QED
    BY <1>1, <1>2, <1>4, <1>5 DEF WiresInv

\* A request: nothing else is under way of what it asks for.
LEMMA WiresRequest ==
    ASSUME TypeInv, WiresInv, AskSwitch \/ AskType \/ AskValue
    PROVE  WiresInv'
  <1>1. Cur \in Blocks
    BY HeadTail DEF AskSwitch, AskType, AskValue, Ask, TypeInv, TaskInv, Cur
  <1>2. AskValue => SettingIn(LiveTable(Cur), labels[Turn]) \in Settings
    <2>1. AskValue => LiveTable(Cur) \subseteq Settings
      BY <1>1, LabelsAssumption DEF AskValue, Ask, LiveTable, TypeInv, NameInv
    <2> QED
      BY <2>1 DEF AskValue, InTable, Carries, SettingIn
  <1>3. PICK w \in Whats :
           \/ w = "sw" /\ Ask("sw", w, "swWait")
           \/ w = "type" /\ Ask("type", w, "typeWait")
           \/ w \in Settings /\ Ask("val", w, "valWait")
    BY <1>2 DEF AskSwitch, AskType, AskValue, Whats
  <1> DEFINE m == Read(Cur, w)
  <1>4. /\ pc \in {"sw", "type", "val"} /\ pc' \in {"swWait", "typeWait", "valWait"}
        /\ w \in Settings \/ mode = "scan"
        /\ slot = NoRead /\ slot' = [NoRead EXCEPT !.b = Cur, !.w = w]
        /\ outbound' = Append(outbound, m)
        /\ UNCHANGED <<inbound, raced, queue, mode, todo, out, toggling>>
    BY <1>3 DEF Ask, editVars, TypeInv, SlotInv, TaskInv, Waits
  <1>5. slot'.b = Cur /\ slot'.w = w /\ slot'.v = None
    BY <1>4 DEF NoRead
  <1>6. m \in Sent /\ m.b = Cur /\ m.w = w /\ m.kind = "rq1"
    BY <1>1 DEF Read, Sent
  <1> HIDE DEF m
  <1>7. \A b, ws : Added(outbound', outbound, m, b, ws)
    BY <1>4, <1>6, Messages, WhereAppend
  <1>8. /\ \A i \in 1..Len(outbound') : outbound'[i] = m \/ (i \in 1..Len(outbound) /\ outbound'[i] = outbound[i])
    BY <1>4, <1>6, Messages, Appended
  <1>9. NoneAside'
    BY <1>4 DEF WiresInv, NoneAside
  <1>10. ASSUME ~raced PROVE At(outbound, Cur, w) = {} /\ At(inbound, Cur, w) = {}
    <2>1. ASSUME NEW i \in 1..Len(outbound), outbound[i].b = Cur, outbound[i].w = w PROVE FALSE
      <3>1. ~OfSlot(outbound[i])
        BY <1>1, <1>4, <2>1, SlotFor
      <3>2. CASE mode = "scan"
        BY <1>4, <1>10, <3>1, <3>2 DEF WiresInv, Scanning
      <3>3. CASE mode # "scan"
        <4>1. Awaited(Cur) /\ Task(Cur) /\ w \in Settings
          <5>1. ~ScanDue
            BY <1>4, <1>10, <3>3 DEF WiresInv, Announced, Queued, ScanDue
          <5> QED
            BY <1>1, <1>4, <1>10, <3>3, <5>1 DEF WiresInv, TypeInv, TaskInv, Task
        <4>2. i \in SetAt(outbound, Cur)
          BY <2>1, <4>1 DEF SetAt, Where
        <4> QED
          BY <3>1, <4>1, <4>2 DEF Awaited
      <3> QED
        BY <3>2, <3>3
    <2>2. ASSUME NEW i \in 1..Len(inbound), inbound[i].b = Cur, inbound[i].w = w PROVE FALSE
      <3>1. ~OfSlot(inbound[i])
        BY <1>1, <1>4, <2>2, SlotFor
      <3>2. CASE mode = "scan"
        BY <1>4, <1>10, <3>1, <3>2 DEF WiresInv, Scanning
      <3>3. CASE mode # "scan"
        <4>1. Awaited(Cur) /\ Task(Cur) /\ w \in Settings
          <5>1. ~ScanDue
            BY <1>4, <1>10, <3>3 DEF WiresInv, Announced, Queued, ScanDue
          <5> QED
            BY <1>1, <1>4, <1>10, <3>3, <5>1 DEF WiresInv, TypeInv, TaskInv, Task
        <4>2. i \in SetAt(inbound, Cur)
          BY <2>2, <4>1 DEF SetAt, Where
        <4> QED
          BY <3>1, <4>1, <4>2 DEF Awaited
      <3> QED
        BY <3>2, <3>3
    <2> QED
      BY <2>1, <2>2 DEF At, Where
  <1>11. ASSUME ~raced PROVE ReadsOwn' /\ OneAnswer'
    <2>1. ASSUME NEW i \in 1..Len(outbound), outbound[i].kind = "rq1" PROVE FALSE
      <3>1. OfSlot(outbound[i])
        BY <1>11, <2>1 DEF WiresInv, ReadsOwn
      <3> QED
        BY <1>4, <3>1, Messages, SlotFor
    <2>2. ReadsOwn'
      BY <1>5, <1>6, <1>8, <2>1 DEF ReadsOwn, OfSlot
    <2>3. At(outbound', Cur, w) = {Len(outbound) + 1} /\ outbound'[Len(outbound) + 1] = m
      <3>1. Added(outbound', outbound, m, Cur, {w})
        BY <1>7
      <3> QED
        BY <1>6, <1>10, <1>11, <3>1 DEF Added, At
    <2>4. At(inbound', Cur, w) = {}
      BY <1>4, <1>10, <1>11
    <2>5. OneAnswer'
      BY <1>5, <1>6, <2>3, <2>4 DEF OneAnswer, InFlight
    <2> QED
      BY <2>2, <2>5
  <1>12. ASSUME ~raced PROVE Announced' /\ Queued' /\ Scanning'
    <2>1. ~On(inbound, ProgramChange) /\ ~On(queue, Full)
      BY <1>4, <1>12 DEF WiresInv, Announced, Queued
    <2>2. Scanning'
      <3>1. mode = "scan" => \A i \in 1..Len(inbound) : ~OfSlot(inbound[i]) => FALSE
        BY <1>4, <1>12 DEF WiresInv, Scanning
      <3>2. \A i \in 1..Len(inbound) : inbound[i] # ProgramChange => ~OfSlot(inbound[i])
        BY <1>4, Messages, SlotFor
      <3>3. \A i \in 1..Len(inbound) : inbound[i] # ProgramChange
        BY <2>1 DEF On
      <3>4. mode = "scan" => \A i \in 1..Len(outbound) : FALSE
        BY <1>4, <1>12, Messages, SlotFor DEF WiresInv, Scanning
      <3>5. mode = "scan" => \A i \in 1..Len(outbound') : OfSlot(outbound[i])'
        BY <1>5, <1>6, <1>8, <3>4 DEF OfSlot
      <3>6. mode = "scan" => queue = <<>> /\ toggling = NoRead
        BY <1>4, <1>12 DEF WiresInv, Scanning
      <3> QED
        BY <1>4, <2>1, <3>1, <3>2, <3>3, <3>5, <3>6 DEF Scanning
    <2> QED
      BY <1>4, <2>1, <2>2 DEF Announced, Queued
  <1>13. ASSUME ~raced, ~ScanDue', NEW b \in Blocks
         PROVE  Unwritten(b)' /\ Ordered(b)' /\ Awaited(b)'
    <2>1. ~ScanDue /\ mode # "scan" /\ w \in Settings
      BY <1>4, <1>13 DEF ScanDue
    <2>2. Unwritten(b) /\ Ordered(b) /\ Awaited(b)
      BY <1>13, <2>1 DEF WiresInv
    <2>3. Task(b)' <=> Task(b)
      BY <1>4 DEF Task, Cur
    <2>4. RereadDue(b)' => RereadDue(b)
      <3>1. At(outbound', b, "type") = At(outbound, b, "type")
            /\ \A i \in At(outbound, b, "type") : outbound'[i] = outbound[i]
        <4>1. Added(outbound', outbound, m, b, {"type"}) /\ w # "type"
          BY <1>7, <2>1, NamesAssumption
        <4> QED
          BY <1>6, <4>1 DEF Added, At
      <3>2. TypeInv'
        BY TypeRequest
      <3> QED
        BY <1>4, <2>3, <3>1, <3>2, RereadWhere, RereadThen
    <2>5. Added(outbound', outbound, m, b, Settings)
      BY <1>7
    <2>6. Unwritten(b)'
      BY <1>6, <2>2, <2>4, <2>5 DEF Added, SetAt, Unwritten
    <2>7. Ordered(b)'
      BY <1>4, <2>2 DEF Ordered
    <2>8. Awaited(b)'
      <3>1. ASSUME Task(b), NEW i \in SetAt(outbound', b) PROVE OfSlot(outbound[i])'
        <4>1. CASE i \in SetAt(outbound, b)
          <5>1. OfSlot(outbound[i])
            BY <2>2, <3>1, <4>1 DEF Awaited
          <5>2. i \in 1..Len(outbound)
            BY <4>1 DEF SetAt, Where
          <5> QED
            BY <1>4, <5>1, <5>2, Messages, SlotFor
        <4>2. CASE i = Len(outbound) + 1
          BY <1>5, <1>6, <2>5, <4>2 DEF Added, OfSlot
        <4> QED
          BY <2>5, <4>1, <4>2 DEF Added, SetAt
      <3>2. ASSUME Task(b), NEW i \in SetAt(inbound, b) PROVE FALSE
        <4>1. OfSlot(inbound[i]) /\ inbound[i].b = b
          BY <2>2, <3>2 DEF Awaited, SetAt, Where
        <4> QED
          BY <1>4, <4>1, SlotFor
      <3> QED
        BY <1>4, <2>3, <3>1, <3>2 DEF Awaited
    <2> QED
      BY <2>6, <2>7, <2>8
  <1> QED
    BY <1>4, <1>9, <1>11, <1>12, <1>13 DEF WiresInv

\* When a call returns nothing is left of its exchange.
LEMMA NoneLeft ==
    ASSUME TypeInv, WiresInv, ~raced, slot # NoRead, slot.v = None => ~AnswerDue
    PROVE  /\ At(outbound, slot.b, slot.w) = {} /\ At(inbound, slot.b, slot.w) = {}
           /\ slot.v = None => Lossy
  <1>1. OneAnswer
    BY DEF WiresInv
  <1>2. ASSUME slot.v = None, NEW i \in At(outbound, slot.b, slot.w) PROVE FALSE
    <2>1. /\ i \in 1..Len(outbound) /\ outbound[i].kind = "rq1"
          /\ outbound[i].b = slot.b /\ outbound[i].w = slot.w /\ outbound[i] \in Sent
      BY <1>1, Messages DEF OneAnswer, At, Where
    <2>2. outbound[i] = Read(slot.b, slot.w)
      BY <2>1 DEF Sent, Read
    <2> QED
      BY <1>2, <2>1, <2>2 DEF AnswerDue, On
  <1>3. ASSUME slot.v = None, NEW i \in At(inbound, slot.b, slot.w) PROVE FALSE
    <2>1. i \in 1..Len(inbound) /\ inbound[i].b = slot.b /\ inbound[i].w = slot.w
      BY DEF At, Where
    <2>2. inbound[i] # ProgramChange
      BY <2>1, SlotFor, NamesAssumption DEF ProgramChange
    <2>3. inbound[i] \in Heard /\ inbound[i].v \in ValuesOf(slot.w)
      BY <2>1, <2>2, Messages
    <2>4. inbound[i] = Frame(slot.b, slot.w, inbound[i].v)
      BY <2>1, <2>2, <2>3 DEF Heard, Frame
    <2> QED
      BY <1>3, <2>1, <2>3, <2>4 DEF AnswerDue, On
  <1> QED
    BY <1>1, <1>2, <1>3 DEF OneAnswer, InFlight

LEMMA WiresReply ==
    ASSUME TypeInv, WiresInv, GotSwitch \/ GotType \/ GotValue
    PROVE  WiresInv'
  <1>1. /\ pc \in Waits /\ pc' # "idle" /\ slot' = NoRead
        /\ UNCHANGED <<outbound, inbound, raced, queue, mode, todo, out, toggling>>
        /\ slot.v = None => ~AnswerDue
    BY DEF GotSwitch, GotType, GotValue, Got, Resolved, Waits, SlotClosed, unitVars, editVars
  <1>2. slot # NoRead /\ pc # "idle"
    BY <1>1 DEF TypeInv, SlotInv, Waits
  <1>3. NoneAside'
    BY <1>1, <1>2 DEF WiresInv, NoneAside
  <1>4. ASSUME ~raced
        PROVE  /\ \A i \in 1..Len(outbound) : ~OfSlot(outbound[i])
               /\ \A i \in 1..Len(inbound) : ~OfSlot(inbound[i])
    BY <1>1, <1>2, <1>4, NoneLeft DEF At, Where, OfSlot
  <1>5. ASSUME ~raced
        PROVE  ReadsOwn' /\ OneAnswer' /\ Announced' /\ Queued' /\ Scanning'
    BY <1>1, <1>2, <1>4, <1>5
    DEF WiresInv, ReadsOwn, OneAnswer, Announced, Queued, Scanning
  <1>6. ASSUME ~raced, ~ScanDue', NEW b \in Blocks
        PROVE  Unwritten(b)' /\ Ordered(b)' /\ Awaited(b)'
    <2>1. ~ScanDue
      BY <1>1, <1>2, <1>6 DEF ScanDue
    <2>2. Unwritten(b) /\ Ordered(b) /\ Awaited(b)
      BY <1>6, <2>1 DEF WiresInv
    <2>3. (Task(b)' <=> Task(b)) /\ (RereadDue(b)' <=> RereadDue(b))
      BY <1>1, <1>2 DEF Task, RereadDue, Cur
    <2>4. Awaited(b)'
      <3>1. Task(b) => SetAt(outbound, b) = {} /\ SetAt(inbound, b) = {}
        BY <1>4, <1>6, <2>2 DEF Awaited, SetAt, Where
      <3> QED
        BY <1>1, <2>3, <3>1 DEF Awaited
    <2> QED
      BY <1>1, <2>2, <2>3, <2>4 DEF Unwritten, Ordered
  <1> QED
    BY <1>1, <1>3, <1>5, <1>6 DEF WiresInv

\* What the reading thread does with its own variables.
LEMMA WiresLocal ==
    ASSUME TypeInv, ReaderInv, WiresInv,
           RecordName \/ PickParams \/ ReadRange \/ NoAddress
    PROVE  WiresInv'
  <1>1. /\ pc \notin {"idle", "dead"} /\ pc' # "idle"
        /\ UNCHANGED <<outbound, inbound, raced, queue, slot, mode, todo, out, toggling>>
    BY DEF RecordName, PickParams, ReadRange, NoAddress, Resolved, unitVars, editVars
  <1>2. NoneAside'
    BY <1>1 DEF WiresInv, NoneAside
  <1>3. ASSUME ~raced
        PROVE  ReadsOwn' /\ OneAnswer' /\ Announced' /\ Queued' /\ Scanning'
    BY <1>1, <1>3
    DEF WiresInv, ReadsOwn, OneAnswer, Announced, Queued, Scanning, OfSlot, InFlight
  <1>4. ASSUME ~raced, ~ScanDue', NEW b \in Blocks
        PROVE  Unwritten(b)' /\ Ordered(b)' /\ Awaited(b)'
    <2>1. ~ScanDue
      BY <1>1, <1>4 DEF ScanDue
    <2>2. Unwritten(b) /\ Ordered(b) /\ Awaited(b)
      BY <1>4, <2>1 DEF WiresInv
    <2>3. (Task(b)' <=> Task(b)) /\ (RereadDue(b)' <=> RereadDue(b))
      BY <1>1 DEF Task, RereadDue, Cur
    <2> QED
      BY <1>1, <2>2, <2>3 DEF Unwritten, Ordered, Awaited, OfSlot
  <1> QED
    BY <1>1, <1>2, <1>3, <1>4 DEF WiresInv

\* A block is complete: nothing is under way at the end of a scan.
LEMMA WiresInstall ==
    ASSUME TypeInv, WiresInv, NextBlock \/ SetSliders
    PROVE  WiresInv'
  <1>1. /\ pc = "done" /\ pc' \in {"idle", "sw"} /\ slot = NoRead
        /\ UNCHANGED <<outbound, inbound, queue, slot, mode, toggling>>
        /\ ~raced' => ~raced
    BY DEF NextBlock, SetSliders, unitVars, editVars, TypeInv, CountInv, SlotInv, Waits
  <1>2. ASSUME ~raced
        PROVE  ReadsOwn' /\ OneAnswer' /\ ~On(inbound, ProgramChange) /\ ~On(queue, Full)
    BY <1>1, <1>2 DEF WiresInv, ReadsOwn, OneAnswer, OfSlot, Announced, Queued
  <1>3. CASE NextBlock
    <2>1. /\ mode = "scan"
          /\ \/ pc' = "sw" /\ todo' # <<>>
             \/ pc' = "idle" /\ todo' = <<>> 
      BY <1>3 DEF NextBlock
    <2>2. NoneAside'
      <3>1. pc' = "idle" => LastOfType
        <4>1. todo \in Seq(Blocks) /\ todo # <<>>
          BY <1>1 DEF TypeInv, TaskInv
        <4>2. Tail(todo) = <<>> => Len(todo) = 1
          BY <4>1, LastLeft
        <4>3. pc' = "idle" => CutShort \/ Tail(todo) = <<>>
          BY <1>3, <2>1 DEF NextBlock
        <4> QED
          BY <4>2, <4>3 DEF LastOfType, CutShort
      <3>2. LastOfType => out' = [b \in Blocks |-> NoEntry]
        BY <1>3 DEF NextBlock
      <3>3. mode' = "scan"
        BY <1>1, <2>1
      <3> QED
        BY <3>1, <3>2, <3>3 DEF NoneAside
    <2>3. ASSUME ~raced
          PROVE  outbound = <<>> /\ inbound = <<>> /\ queue = <<>> /\ toggling = NoRead
      <3>1. \A i \in 1..Len(outbound) : FALSE
        BY <1>1, <2>1, <2>3, Messages, SlotFor DEF WiresInv, Scanning
      <3>2. \A i \in 1..Len(inbound) : FALSE
        BY <1>1, <1>2, <2>1, <2>3, Messages, SlotFor DEF WiresInv, Scanning, On
      <3>3. outbound \in Seq(Sent) /\ inbound \in Seq(Heard)
        BY Messages
      <3>4. outbound = <<>>
        BY <3>1, <3>3
      <3>5. inbound = <<>>
        BY <3>2, <3>3
      <3> QED
        BY <1>1, <2>1, <2>3, <3>4, <3>5 DEF WiresInv, Scanning
    <2>4. ASSUME ~raced PROVE Announced' /\ Queued' /\ Scanning'
      <3>1. outbound' = <<>> /\ inbound' = <<>> /\ queue' = <<>> /\ toggling' = NoRead
        BY <1>1, <2>3, <2>4
      <3>2. 1..Len(outbound') = {} /\ 1..Len(inbound') = {}
        BY <3>1
      <3>3. ~On(inbound, ProgramChange)' /\ ~On(queue, Full)'
        BY <3>1, Empty
      <3> QED
        BY <3>1, <3>2, <3>3 DEF Announced, Queued, Scanning
    <2>5. ASSUME ~raced, NEW b \in Blocks PROVE Unwritten(b)' /\ Ordered(b)' /\ Awaited(b)'
      <3>1. outbound' = <<>> /\ inbound' = <<>>
        BY <1>1, <2>3, <2>5
      <3>2. SetAt(outbound', b) = {} /\ SetAt(inbound', b) = {}
        BY <3>1, Empty
      <3> QED
        BY <3>2 DEF Unwritten, Ordered, Awaited
    <2> QED
      BY <1>1, <1>2, <2>2, <2>4, <2>5 DEF WiresInv
  <1>4. CASE SetSliders
    <2>1. mode = "sliders" /\ pc' = "idle" /\ out' = out
      BY <1>4 DEF SetSliders
    <2>2. NoneAside'
      BY <2>1 DEF WiresInv, NoneAside
    <2>3. ASSUME ~raced PROVE Announced' /\ Queued' /\ Scanning' /\ ~ScanDue
      BY <1>1, <1>2, <2>1, <2>3 DEF Announced, Queued, Scanning, ScanDue
    <2>4. ASSUME ~raced, NEW b \in Blocks PROVE Unwritten(b)' /\ Ordered(b)' /\ Awaited(b)'
      <3>1. Unwritten(b) /\ Ordered(b) /\ Awaited(b)
        BY <2>3, <2>4 DEF WiresInv
      <3>2. (Task(b)' => Task(b)) /\ (RereadDue(b)' => RereadDue(b))
        BY <1>1, <2>1 DEF Task, RereadDue
      <3> QED
        BY <1>1, <3>1, <3>2 DEF Unwritten, Ordered, Awaited, OfSlot
    <2> QED
      BY <1>1, <1>2, <2>2, <2>3, <2>4 DEF WiresInv
  <1> QED
    BY <1>3, <1>4

\* The inbound thread takes a frame.
LEMMA WiresReceive ==
    ASSUME TypeInv, ReaderInv, WiresInv, Receive
    PROVE  WiresInv'
  <1> DEFINE f == Head(inbound)
  <1>1. /\ inbound # <<>> /\ inbound' = Tail(inbound)
        /\ UNCHANGED <<outbound, raced, pc, mode, todo, out, toggling>>
    BY DEF Receive, Correlate, ProcessProgramChange, Refuse, Apply, readVars, editVars
  <1>2. /\ inbound \in Seq(Heard) /\ outbound \in Seq(Sent) /\ queue \in Seq(Tasks)
        /\ f \in Heard /\ f = inbound[1] /\ 1 \in 1..Len(inbound)
    BY <1>1, Messages, HeadTail
  <1>3. On(inbound, f) /\ \A m : On(inbound', m) => On(inbound, m)
    BY <1>1, <1>2, OnTail
  <1>4. \A b, ws : Taken(inbound', inbound, b, ws)
    BY <1>1, <1>2, WhereTail
  <1>5. \A i \in 1..Len(inbound') : inbound'[i] = inbound[i + 1] /\ i + 1 \in 1..Len(inbound)
    BY <1>1, <1>2, HeadTail
  <1> HIDE DEF f
  <1>6. NoneAside'
    BY <1>1 DEF WiresInv, NoneAside
  <1>7. \/ slot' = slot
        \/ /\ slot' = [slot EXCEPT !.v = f.v] /\ f.kind = "data" /\ queue' = queue
           /\ slot.b = f.b /\ slot.w = f.w
    BY DEF Receive, Correlate, TakenAsReply, ProcessProgramChange, Refuse, Apply, readVars, f
  <1>8. slot'.b = slot.b /\ slot'.w = slot.w /\ (slot # NoRead => slot' # NoRead)
        /\ (slot = NoRead => slot' = NoRead)
    <2>1. CASE slot' = slot
      BY <2>1
    <2>2. CASE slot' # slot
      <3>1. /\ slot' = [slot EXCEPT !.v = f.v] /\ f.kind = "data"
            /\ slot.b = f.b /\ slot.w = f.w
        BY <1>7, <2>2
      <3>2. f.b \in Blocks
        BY <1>2, <3>1 DEF Heard, ProgramChange
      <3>3. slot \in Slots \cup {NoRead}
        BY DEF TypeInv, SlotInv
      <3> QED
        BY <3>1, <3>2, <3>3, NamesAssumption DEF Slots, NoRead
    <2> QED
      BY <2>1, <2>2
  <1>9. \A m : OfSlot(m)' <=> m'.b = slot.b /\ m'.w = slot.w
    BY <1>8 DEF OfSlot
  <1>10. ASSUME ~raced PROVE ReadsOwn'
    BY <1>1, <1>8, <1>10 DEF WiresInv, ReadsOwn, OfSlot
  <1>11. ASSUME ~raced PROVE OneAnswer'
    <2> SUFFICES ASSUME slot' # NoRead PROVE OneAnswer'
      BY DEF OneAnswer
    <2>1. slot # NoRead /\ OneAnswer
      BY <1>8, <1>11 DEF WiresInv
    <2> DEFINE t == At(inbound, slot.b, slot.w)
               u == At(inbound', slot.b, slot.w)
               o == At(outbound, slot.b, slot.w)
    <2>2. Taken(inbound', inbound, slot.b, {slot.w})
      BY <1>4
    <2>3. /\ \A i \in u : i \in Nat \ {0} /\ i + 1 \in t
          /\ \A i \in t : i = 1 \/ i - 1 \in u
          /\ 1 \in t <=> f.b = slot.b /\ f.w = slot.w
      BY <1>2, <2>2 DEF Taken, At
    <2>4. /\ \A i \in o : outbound[i].kind = "rq1"
          /\ \A i, j \in o : i = j
          /\ \A i, j \in t : i = j
          /\ o = {} \/ t = {}
          /\ slot.v # None => o = {} /\ t = {}
          /\ slot.v = None /\ o = {} /\ t = {} => Lossy
      BY <2>1 DEF OneAnswer, InFlight
    <2> HIDE DEF t, u, o
    <2>5. (\A i, j \in u : i = j) /\ (o = {} \/ u = {})
      BY <2>3, <2>4
    <2>6. CASE f.b = slot.b /\ f.w = slot.w
      <3>1. u = {} /\ o = {}
        BY <2>3, <2>4, <2>6
      <3>2. f # ProgramChange
        BY <2>1, <2>6, SlotFor, NamesAssumption DEF ProgramChange
      <3>3. f.v # None /\ f.kind = "data"
        BY <1>2, <3>2, NamesAssumption DEF Heard, ValuesOf
      <3>4. TakenAsReply(f)
        BY <2>6, <3>3 DEF TakenAsReply
      <3>5. Correlate
        BY <3>3, <3>4 DEF Receive, ProcessProgramChange, Refuse, Apply, f
      <3>6. slot'.v = f.v
        <4>1. slot' = [slot EXCEPT !.v = f.v] /\ slot \in Slots
          BY <2>1, <3>5 DEF Correlate, f, TypeInv, SlotInv
        <4> QED
          BY <4>1 DEF Slots
      <3> QED
        BY <1>1, <1>8, <2>4, <2>5, <3>1, <3>3, <3>6 DEF OneAnswer, InFlight, t, u, o
    <2>7. CASE ~(f.b = slot.b /\ f.w = slot.w)
      <3>1. slot' = slot
        BY <1>7, <2>7
      <3>2. u = {} <=> t = {}
        BY <2>3, <2>7
      <3> QED
        BY <1>1, <2>4, <2>5, <3>1, <3>2 DEF OneAnswer, InFlight, t, u, o
    <2> QED
      BY <2>6, <2>7
  <1>12. ASSUME ~raced, pc # "idle", mode = "scan" PROVE Correlate
    <2>1. OfSlot(f) /\ f # ProgramChange
      BY <1>2, <1>3, <1>12 DEF WiresInv, Scanning
    <2>2. f.kind = "data"
      BY <1>2, <2>1 DEF Heard
    <2>3. TakenAsReply(f)
      BY <2>1, <2>2 DEF OfSlot, TakenAsReply
    <2> QED
      BY <2>2, <2>3 DEF Receive, ProcessProgramChange, Refuse, Apply, f
  <1>13. ASSUME ~raced PROVE Scanning'
    <2>1. pc # "idle" /\ mode = "scan" => queue' = queue
      BY <1>12, <1>13 DEF Correlate
    <2> QED
      BY <1>1, <1>3, <1>5, <1>8, <1>13, <2>1 DEF WiresInv, Scanning, OfSlot
  <1>14. ASSUME On(inbound, ProgramChange), ~raced
         PROVE  /\ outbound = <<>> /\ queue = <<>> /\ pc = "idle" /\ toggling = NoRead
                /\ IF f = ProgramChange THEN inbound' = <<>> /\ queue' = <<Full>>
                   ELSE queue' = <<>> /\ Announced'
    <2>1. Announced /\ outbound = <<>> /\ queue = <<>> /\ pc = "idle" /\ toggling = NoRead
      BY <1>14 DEF WiresInv, Announced
    <2>2. CASE f = ProgramChange
      <3>1. Len(inbound) = 1
        BY <1>2, <1>14, <2>1, <2>2 DEF Announced
      <3>2. inbound' = <<>>
        BY <1>1, <1>2, <3>1
      <3>3. f.kind = "program"
        BY <2>2 DEF ProgramChange
      <3>4. queue' = Append(queue, Full)
        BY <3>3 DEF Receive, Correlate, TakenAsReply, ProcessProgramChange, Refuse, Apply, f,
                    Scheduled
      <3> QED
        BY <2>1, <2>2, <3>2, <3>4
    <2>3. CASE f # ProgramChange
      <3>1. f.kind = "data" /\ f.b \in Blocks
        BY <1>2, <2>3 DEF Heard
      <3>2. f.w # "type"
        <4>1. Busy(f.b) /\ ~AtType(f.b)
          BY <1>14, <2>1 DEF Busy, ScanDue, AtType
        <4>2. TypeAt(inbound, f.b) = {}
          BY <1>14, <3>1, <4>1, BusyClear
        <4> QED
          BY <1>2, <4>2 DEF TypeAt
      <3>3. queue' = queue
        BY <3>1, <3>2 DEF Receive, Correlate, ProcessProgramChange, Refuse, Apply, f, Scheduled
      <3>4. Len(inbound') = Len(inbound) - 1 /\ Len(inbound) \in Nat
        BY <1>1, <1>2
      <3>5. \A i \in 1..Len(inbound') : inbound'[i] = ProgramChange => i = Len(inbound')
        BY <1>5, <2>1, <3>4, <1>14 DEF Announced
      <3> QED
        BY <1>1, <2>1, <2>3, <3>3, <3>5 DEF Announced
    <2> QED
      BY <2>2, <2>3
  <1>15. ASSUME ~raced PROVE Announced'
    <2>1. CASE On(inbound, ProgramChange) /\ f # ProgramChange
      BY <1>14, <1>15, <2>1
    <2>2. CASE On(inbound, ProgramChange) /\ f = ProgramChange
      <3>1. inbound' = <<>>
        BY <1>14, <1>15, <2>2
      <3> QED
        BY <3>1, Empty DEF Announced
    <2>3. CASE ~On(inbound, ProgramChange)
      BY <1>3, <2>3 DEF Announced
    <2> QED
      BY <2>1, <2>2, <2>3
  <1>16. queue' = queue \/ queue' = Append(queue, Full) \/ queue' = Append(queue, Sliders(f.b))
    BY DEF Receive, Correlate, ProcessProgramChange, Refuse, Apply, Scheduled, f
  <1>17. queue' = Append(queue, Full) => f = ProgramChange
    <2>1. f.kind = "data" => f.b \in Blocks /\ Scheduled(f) # Append(queue, Full)
      <3>1. f.kind = "data" => f.b \in Blocks
        BY <1>2 DEF Heard, ProgramChange
      <3>2. queue # Append(queue, Full)
        <4>1. Len(Append(queue, Full)) = Len(queue) + 1 /\ Len(queue) \in Nat
          BY <1>2
        <4> QED
          BY <4>1
      <3>3. Append(queue, Sliders(f.b)) # Append(queue, Full)
        <4>1. /\ Append(queue, Sliders(f.b))[Len(queue) + 1] = Sliders(f.b)
              /\ Append(queue, Full)[Len(queue) + 1] = Full
          BY <1>2
        <4> QED
          BY <4>1 DEF Sliders, Full
      <3> QED
        BY <3>1, <3>2, <3>3 DEF Scheduled
    <2>2. f.kind # "data" => f = ProgramChange
      BY <1>2 DEF Heard
    <2>3. queue # Append(queue, Full)
      <3>1. Len(Append(queue, Full)) = Len(queue) + 1 /\ Len(queue) \in Nat
        BY <1>2
      <3> QED
        BY <3>1
    <2> QED
      BY <2>1, <2>2, <2>3 DEF Receive, Correlate, TakenAsReply, ProcessProgramChange, Refuse, Apply, f
  <1>18. ASSUME ~raced PROVE Queued'
    <2>1. CASE On(inbound, ProgramChange)
      <3>1. /\ outbound = <<>> /\ pc = "idle" /\ toggling = NoRead
            /\ f = ProgramChange => inbound' = <<>> /\ queue' = <<Full>>
            /\ f # ProgramChange => queue' = <<>>
        BY <1>14, <1>18, <2>1
      <3>2. Len(<<Full>>) = 1
        OBVIOUS
      <3> QED
        BY <1>1, <3>1, <3>2, Empty DEF Queued
    <2>2. CASE ~On(inbound, ProgramChange)
      <3>1. ~On(queue, Full)
        BY <1>1, <1>18, <2>2 DEF WiresInv, Queued
      <3>2. f # ProgramChange
        BY <1>3, <2>2
      <3>3. queue' = queue \/ queue' = Append(queue, Sliders(f.b))
        BY <1>16, <1>17, <3>2
      <3>4. f.b \in Blocks
        BY <1>2, <3>2 DEF Heard
      <3> DEFINE task == Sliders(f.b)
      <3>5. task \in Tasks /\ task # Full
        BY <3>4 DEF Tasks, Sliders, Full
      <3> HIDE DEF task
      <3>6. ~On(Append(queue, task), Full)
        BY <1>2, <3>1, <3>5, OnAppend
      <3>7. queue' = queue \/ queue' = Append(queue, task)
        BY <3>3 DEF task
      <3> QED
        BY <3>1, <3>6, <3>7 DEF Queued
    <2> QED
      BY <2>1, <2>2
  <1>19. ASSUME ~raced, ~ScanDue', NEW b \in Blocks
         PROVE  Unwritten(b)' /\ Ordered(b)' /\ Awaited(b)'
    <2>1. ~On(inbound, ProgramChange)
      <3>1. CASE On(inbound, ProgramChange) /\ f = ProgramChange
        <4>1. On(queue', Full)
          <5>1. queue' = <<Full>>
            BY <1>14, <1>19, <3>1
          <5> QED
            BY <5>1 DEF On
        <4> QED
          BY <1>19, <4>1 DEF ScanDue
      <3>2. CASE On(inbound, ProgramChange) /\ f # ProgramChange
        <4>1. PICK i \in 1..Len(inbound) : inbound[i] = ProgramChange
          BY <3>2 DEF On
        <4>2. i - 1 \in 1..Len(inbound') /\ (i - 1) + 1 = i
          <5>1. Len(inbound') = Len(inbound) - 1 /\ Len(inbound) \in Nat
            BY <1>1, <1>2
          <5> QED
            BY <1>2, <3>2, <4>1, <5>1
        <4>3. inbound'[i - 1] = ProgramChange
          BY <1>5, <4>1, <4>2
        <4>4. On(inbound', ProgramChange)
          BY <4>2, <4>3 DEF On
        <4> QED
          BY <1>19, <4>4 DEF ScanDue
      <3> QED
        BY <3>1, <3>2
    <2>2. f # ProgramChange /\ f.b \in Blocks /\ f.kind = "data"
      BY <1>2, <1>3, <2>1 DEF Heard
    <2>3. ~ScanDue
      <3>1. ~(pc # "idle" /\ mode = "scan")
        BY <1>1, <1>19 DEF ScanDue
      <3>2. ASSUME On(queue, Full) PROVE FALSE
        BY <1>1, <1>19, <3>2 DEF WiresInv, Queued
      <3> QED
        BY <2>1, <3>1, <3>2 DEF ScanDue
    <2>4. Unwritten(b) /\ Ordered(b) /\ Awaited(b)
      BY <1>19, <2>3 DEF WiresInv
    <2>5. CASE Task(b)' => Task(b)
      <3>1. At(inbound', b, "type") # {} => At(inbound, b, "type") # {}
        <4>1. Taken(inbound', inbound, b, {"type"})
          BY <1>4
        <4> QED
          BY <4>1 DEF Taken, At
      <3>2. TypeInv'
        BY TypeReceive
      <3>3. RereadDue(b)' => RereadDue(b)
        BY <1>1, <2>5, <3>1, <3>2, RereadWhere, RereadThen
      <3>4. Taken(inbound', inbound, b, Settings) /\ Taken(inbound', inbound, b, {"type"})
        BY <1>4
      <3>5. Unwritten(b)'
        BY <1>1, <2>4, <3>3 DEF Unwritten
      <3>6. Ordered(b)'
        <4>1. ASSUME NEW i \in SetAt(inbound', b), NEW j \in At(inbound', b, "type")
              PROVE  i < j
          <5>1. i + 1 \in SetAt(inbound, b) /\ j + 1 \in At(inbound, b, "type")
                /\ i \in Nat /\ j \in Nat
            BY <3>4 DEF Taken, SetAt, At
          <5>2. i + 1 < j + 1
            BY <2>4, <5>1 DEF Ordered
          <5> QED
            BY <5>1, <5>2
        <4> QED
          BY <4>1 DEF Ordered
      <3>7. Awaited(b)'
        <4>1. ASSUME Task(b)', NEW i \in SetAt(inbound', b) PROVE OfSlot(inbound[i])'
          <5>1. i + 1 \in SetAt(inbound, b) /\ inbound'[i] = inbound[i + 1]
            BY <3>4 DEF Taken, SetAt
          <5>2. OfSlot(inbound[i + 1])
            BY <2>4, <2>5, <4>1, <5>1 DEF Awaited
          <5> QED
            BY <1>8, <5>1, <5>2 DEF OfSlot
        <4>2. ASSUME Task(b)', NEW i \in SetAt(outbound, b) PROVE OfSlot(outbound[i])'
          BY <1>1, <1>8, <2>4, <2>5, <4>2 DEF OfSlot, Awaited
        <4> QED
          BY <1>1, <4>1, <4>2 DEF Awaited
      <3> QED
        BY <3>5, <3>6, <3>7
    <2>6. CASE Task(b)' /\ ~Task(b)
      <3>1. queue' = Append(queue, Sliders(f.b)) /\ f.b = b /\ f.w = "type" /\ slot' = slot
        <4>1. On(queue', Sliders(b)) /\ ~On(queue, Sliders(b))
          BY <1>1, <2>6 DEF Task, Cur
        <4>2. queue' # queue
          BY <4>1
        <4>3. queue' = Append(queue, Sliders(f.b))
          BY <1>16, <1>17, <2>2, <4>2
        <4>4. Sliders(f.b) \in Tasks
          BY <2>2 DEF Tasks
        <4>5. Sliders(f.b) = Sliders(b)
          BY <1>2, <4>1, <4>3, <4>4, OnAppend
        <4>6. Apply /\ f.w = "type"
          BY <2>2, <4>2 DEF Receive, Correlate, ProcessProgramChange, Refuse, Apply, Scheduled, f
        <4> QED
          BY <4>3, <4>5, <4>6 DEF Sliders, Apply, readVars
      <3>2. 1 \in At(inbound, b, "type")
        BY <1>2, <3>1 DEF At, Where
      <3>3. SetAt(inbound', b) = {}
        <4>1. ASSUME NEW i \in SetAt(inbound', b) PROVE FALSE
          <5>1. i + 1 \in SetAt(inbound, b) /\ i \in Nat
            <6>1. Taken(inbound', inbound, b, Settings)
              BY <1>4
            <6> QED
              BY <6>1 DEF Taken, SetAt
          <5>2. i + 1 < 1
            BY <2>4, <3>2, <5>1 DEF Ordered
          <5> QED
            BY <5>1, <5>2
        <4> QED
          BY <4>1
      <3>4. ASSUME NEW i \in SetAt(outbound, b) PROVE FALSE
        <4>1. RereadDue(b)
          BY <3>2, RereadWhere
        <4>2. outbound[i].kind = "rq1" /\ i \in 1..Len(outbound) /\ outbound[i].b = b
          BY <2>4, <4>1 DEF Unwritten, SetAt, Where
        <4>3. OfSlot(outbound[i])
          BY <1>19, <4>2 DEF WiresInv, ReadsOwn
        <4>4. slot # NoRead /\ slot.b = b
          BY <4>2, <4>3, SlotFor DEF OfSlot
        <4> QED
          BY <2>3, <2>6, <4>4, Rereading
      <3>5. SetAt(outbound', b) = {}
        BY <1>1, <3>4
      <3> QED
        BY <3>3, <3>5 DEF Unwritten, Ordered, Awaited
    <2> QED
      BY <2>5, <2>6
  <1> QED
    BY <1>1, <1>6, <1>10, <1>11, <1>13, <1>15, <1>18, <1>19 DEF WiresInv

\* A calm edit adds a message.
LEMMA WiresAdded ==
    ASSUME TypeInv, WiresInv, TypeInv', ~raced, ~raced',
           NEW a \in Blocks, NEW w \in Whats, Calm(a, w), NEW m, m.b = a, m.w = w,
           \/ m \in Sent /\ m.kind = "dt1" /\ inbound' = inbound
              /\ outbound' = Append(outbound, m)
           \/ m \in Heard /\ m.kind = "data" /\ outbound' = outbound
              /\ inbound' = Append(inbound, m),
           UNCHANGED <<queue, pc, mode, todo, slot, out>>
    PROVE  WiresInv'
  <1>1. outbound \in Seq(Sent) /\ inbound \in Seq(Heard)
    BY Messages
  <1>2. ~ScanDue /\ (w = "sw" \/ ~RereadDue(a)) /\ (w = "type" => ~WriteDue(a))
    BY DEF Calm
  <1>3. /\ \A b, ws : outbound' = outbound \/ Added(outbound', outbound, m, b, ws)
        /\ \A b, ws : inbound' = inbound \/ Added(inbound', inbound, m, b, ws)
        /\ outbound' = outbound \/ inbound' = inbound
        /\ outbound' = outbound \/ m.kind = "dt1"
    BY <1>1, WhereAppend
  <1>4. ASSUME NEW b, NEW ws, ~(a = b /\ w \in ws)
        PROVE  /\ Where(outbound', b, ws) = Where(outbound, b, ws)
               /\ \A i \in Where(outbound, b, ws) : outbound'[i] = outbound[i]
               /\ Where(inbound', b, ws) = Where(inbound, b, ws)
               /\ \A i \in Where(inbound, b, ws) : inbound'[i] = inbound[i]
    <2>1. \/ outbound' = outbound
          \/ /\ Where(outbound', b, ws) = Where(outbound, b, ws)
             /\ \A i \in Where(outbound, b, ws) : outbound'[i] = outbound[i]
      <3>1. outbound' = outbound \/ Added(outbound', outbound, m, b, ws)
        BY <1>3
      <3> QED
        BY <1>4, <3>1 DEF Added
    <2>2. \/ inbound' = inbound
          \/ /\ Where(inbound', b, ws) = Where(inbound, b, ws)
             /\ \A i \in Where(inbound, b, ws) : inbound'[i] = inbound[i]
      <3>1. inbound' = inbound \/ Added(inbound', inbound, m, b, ws)
        BY <1>3
      <3> QED
        BY <1>4, <3>1 DEF Added
    <2> QED
      BY <2>1, <2>2
  <1>5. ~ScanDue'
    <2>1. ~On(inbound', ProgramChange)
      <3>1. m \in Heard => m # ProgramChange
        BY NamesAssumption DEF ProgramChange
      <3> QED
        BY <1>1, <1>2, <3>1, OnAppend DEF ScanDue
    <2> QED
      BY <1>2, <2>1 DEF ScanDue
  <1>6. NoneAside'
    BY DEF WiresInv, NoneAside
  <1>7. ReadsOwn'
    <2>1. ASSUME NEW i \in 1..Len(outbound'), outbound'[i].kind = "rq1"
          PROVE  OfSlot(outbound[i])'
      <3>1. i \in 1..Len(outbound) /\ outbound'[i] = outbound[i]
        <4>1. CASE outbound' = outbound
          BY <2>1, <4>1
        <4>2. CASE m \in Sent /\ m.kind = "dt1" /\ outbound' = Append(outbound, m)
          BY <1>1, <2>1, <4>2, Appended
        <4> QED
          BY <4>1, <4>2
      <3> QED
        BY <2>1, <3>1 DEF WiresInv, ReadsOwn, OfSlot
    <2> QED
      BY <2>1 DEF ReadsOwn
  <1>8. OneAnswer'
    <2> SUFFICES ASSUME slot # NoRead PROVE OneAnswer'
      BY DEF OneAnswer
    <2>1. RereadDue(slot.b) /\ slot.w # "sw"
      BY <1>2, Rereading
    <2>2. ~(a = slot.b /\ w \in {slot.w})
      BY <1>2, <2>1
    <2>3. /\ At(outbound', slot.b, slot.w) = At(outbound, slot.b, slot.w)
          /\ \A i \in At(outbound, slot.b, slot.w) : outbound'[i] = outbound[i]
          /\ At(inbound', slot.b, slot.w) = At(inbound, slot.b, slot.w)
      BY <1>4, <2>2 DEF At
    <2> QED
      BY <2>3 DEF WiresInv, OneAnswer, InFlight
  <1>9. Announced' /\ Queued' /\ Scanning'
    BY <1>5 DEF Announced, Queued, Scanning, ScanDue
  <1>10. ASSUME NEW b \in Blocks PROVE Unwritten(b)' /\ Ordered(b)' /\ Awaited(b)'
    <2>1. Unwritten(b) /\ Ordered(b) /\ Awaited(b) /\ (Task(b)' <=> Task(b))
      BY <1>2 DEF WiresInv, Task, Cur
    <2>2. CASE ~(a = b /\ w = "type")
      <3>1. /\ At(outbound', b, "type") = At(outbound, b, "type")
            /\ \A i \in At(outbound, b, "type") : outbound'[i] = outbound[i]
            /\ At(inbound', b, "type") = At(inbound, b, "type")
        BY <1>4, <2>2 DEF At
      <3>2. RereadDue(b)' => RereadDue(b)
        BY <2>1, <3>1, RereadWhere, RereadThen
      <3>3. CASE ~(a = b /\ w \in Settings)
        <4>1. /\ SetAt(outbound', b) = SetAt(outbound, b)
              /\ \A i \in SetAt(outbound, b) : outbound'[i] = outbound[i]
              /\ SetAt(inbound', b) = SetAt(inbound, b)
              /\ \A i \in SetAt(inbound, b) : inbound'[i] = inbound[i]
          BY <1>4, <3>3 DEF SetAt
        <4> QED
          BY <2>1, <3>1, <3>2, <4>1 DEF Unwritten, Ordered, Awaited, OfSlot
      <3>4. CASE a = b /\ w \in Settings
        <4>1. ~RereadDue(b)
          BY <1>2, <3>4, NamesAssumption
        <4>2. ~Task(b) /\ At(inbound, b, "type") = {}
          BY <4>1, RereadWhere
        <4> QED
          BY <2>1, <3>1, <3>2, <4>1, <4>2 DEF Unwritten, Ordered, Awaited
      <3> QED
        BY <3>3, <3>4
    <2>3. CASE a = b /\ w = "type"
      <3>1. ~WriteDue(b) /\ ~RereadDue(b) /\ w \notin Settings
        BY <1>2, <2>3, NamesAssumption
      <3>2. ~Task(b) /\ At(inbound, b, "type") = {}
        BY <3>1, RereadWhere
      <3>3. /\ SetAt(outbound', b) = SetAt(outbound, b)
            /\ \A i \in SetAt(outbound, b) : outbound'[i] = outbound[i]
            /\ SetAt(inbound', b) = SetAt(inbound, b)
            /\ \A i \in SetAt(inbound, b) : i \in 1..Len(inbound)
        BY <1>4, <3>1 DEF SetAt, Where
      <3>4. \A i \in SetAt(outbound, b) : outbound[i].kind = "rq1"
        BY <3>1, Messages DEF SetAt, Where, WriteDue
      <3>5. \A j \in At(inbound', b, "type") : j = Len(inbound) + 1
        <4>1. inbound' = inbound \/ Added(inbound', inbound, m, b, {"type"})
          BY <1>3
        <4> QED
          BY <3>2, <4>1 DEF Added, At
      <3>6. Len(inbound) \in Nat
        BY <1>1
      <3>7. Ordered(b)'
        <4>1. ASSUME NEW i \in SetAt(inbound', b), NEW j \in At(inbound', b, "type")
              PROVE  i < j
          <5>1. i \in 1..Len(inbound) /\ j = Len(inbound) + 1
            BY <3>3, <3>5
          <5> QED
            BY <3>6, <5>1
        <4> QED
          BY <4>1 DEF Ordered
      <3> QED
        BY <2>1, <3>2, <3>3, <3>4, <3>7 DEF Unwritten, Awaited
    <2> QED
      BY <2>2, <2>3
  <1> QED
    BY <1>6, <1>7, <1>8, <1>9, <1>10 DEF WiresInv

\* An edit at the unit or in the application.
LEMMA WiresEdit ==
    ASSUME TypeInv, WiresInv, NEW a \in Blocks, Edit(a)
    PROVE  WiresInv'
  <1>1. TypeInv'
    BY TypeEdit
  <1>2. ASSUME NEW w \in Whats, NEW v \in ValuesOf(w), CountEdit(Calm(a, w)),
               \/ inbound' = inbound /\ outbound' = Append(outbound, Write(a, w, v))
               \/ outbound' = outbound /\ inbound' = Append(inbound, Frame(a, w, v)),
               UNCHANGED <<queue, readVars>>
        PROVE  WiresInv'
    <2>1. UNCHANGED <<queue, pc, mode, todo, slot, out>>
      BY <1>2 DEF readVars
    <2>2. CASE raced'
      BY <2>1, <2>2 DEF WiresInv, NoneAside
    <2>3. CASE ~raced'
      <3>1. ~raced /\ Calm(a, w)
        BY <1>2, <2>3 DEF CountEdit
      <3>2. /\ Write(a, w, v) \in Sent /\ Write(a, w, v).kind = "dt1"
            /\ Write(a, w, v).b = a /\ Write(a, w, v).w = w
        BY DEF Write, Sent, Values, ValuesOf
      <3>3. /\ Frame(a, w, v) \in Heard /\ Frame(a, w, v).kind = "data"
            /\ Frame(a, w, v).b = a /\ Frame(a, w, v).w = w
        BY DEF Frame, Heard, Values, ValuesOf
      <3>4. CASE inbound' = inbound /\ outbound' = Append(outbound, Write(a, w, v))
        BY <1>1, <2>1, <2>3, <3>1, <3>2, <3>4, WiresAdded
      <3>5. CASE outbound' = outbound /\ inbound' = Append(inbound, Frame(a, w, v))
        BY <1>1, <2>1, <2>3, <3>1, <3>3, <3>5, WiresAdded
      <3> QED
        BY <1>2, <3>4, <3>5
    <2> QED
      BY <2>2, <2>3
  <1>3. ASSUME NEW w \in Whats, NEW v \in ValuesOf(w), PanelEdit(a, w, v)
        PROVE  WiresInv'
    BY <1>2, <1>3 DEF PanelEdit
  <1>4. ASSUME NEW v \in Switch, Toggle(a, v) PROVE WiresInv'
    <2>1. "sw" \in Whats /\ v \in ValuesOf("sw")
      BY DEF Whats, ValuesOf
    <2> QED
      BY <1>2, <1>4, <2>1 DEF Toggle
  <1>5. ASSUME NEW i \in 1..2, NEW v \in Vals, SetValue(a, i, v) PROVE WiresInv'
    <2> DEFINE l == known[a].sliders[i].label
               w == SettingIn(LiveTable(a), l)
    <2>1. /\ CountEdit(Calm(a, w)) /\ outbound' = Append(outbound, Write(a, w, v))
          /\ inbound' = inbound /\ UNCHANGED <<queue, readVars>>
      BY <1>5 DEF SetValue
    <2>2. w \in Settings
      BY <1>5, ValueSetting
    <2>3. w \in Whats /\ v \in ValuesOf(w)
      BY <2>2, NamesAssumption DEF Whats, ValuesOf
    <2> HIDE DEF w
    <2> QED
      BY <1>2, <2>1, <2>3
  <1>6. ASSUME NEW e \in Effects, SetType(a, e) PROVE WiresInv'
    <2>1. "type" \in Whats /\ e \in ValuesOf("type")
      BY DEF Whats, ValuesOf
    <2> QED
      BY <1>2, <1>6, <2>1 DEF SetType
  <1> QED
    BY <1>3, <1>4, <1>5, <1>6 DEF Edit

\* Another patch is called up while nothing at all is under way.
LEMMA ProgramCalm ==
    ASSUME TypeInv, WiresInv, ChangeProgram, ~raced'
    PROVE  /\ ~raced /\ outbound = <<>> /\ queue = <<>> /\ pc = "idle" /\ toggling = NoRead
           /\ slot = NoRead /\ ~On(inbound, ProgramChange) /\ ~ScanDue
           /\ \A b \in Blocks : ~RereadDue(b)
  <1>1. ~raced /\ \A b \in Blocks : Calm(b, "type")
    BY DEF ChangeProgram, CountEdit
  <1>2. /\ ~ScanDue /\ \A b \in Blocks : ~RereadDue(b) /\ ~WriteDue(b) /\ toggling.b # b
    BY <1>1, BlocksAssumption DEF Calm
  <1>3. pc = "idle"
    BY <1>2, SlotFor DEF ScanDue, RereadDue, TypeInv, TaskInv
  <1>4. slot = NoRead
    BY <1>3, SlotFor DEF Waits
  <1>5. ASSUME NEW i \in 1..Len(outbound) PROVE FALSE
    <2>1. outbound[i].b \in Blocks /\ outbound[i].kind \in {"rq1", "dt1"}
      BY Messages
    <2>2. outbound[i].kind # "dt1"
      BY <1>2, <2>1 DEF WriteDue
    <2>3. OfSlot(outbound[i])
      BY <1>1, <2>1, <2>2 DEF WiresInv, ReadsOwn
    <2> QED
      BY <1>4, <2>1, <2>3, SlotFor
  <1>6. ASSUME NEW i \in 1..Len(queue) PROVE FALSE
    <2>1. queue[i] \in Tasks
      BY Messages
    <2>2. queue[i] = Full \/ \E b \in Blocks : queue[i] = Sliders(b)
      BY <2>1 DEF Tasks
    <2> QED
      BY <1>2, <2>2 DEF ScanDue, RereadDue, On
  <1>7. outbound = <<>>
    BY <1>5, Messages
  <1>8. queue = <<>>
    BY <1>6, Messages
  <1>9. toggling = NoRead
    BY <1>2 DEF TypeInv, CountInv
  <1> QED
    BY <1>1, <1>2, <1>3, <1>4, <1>7, <1>8, <1>9 DEF ScanDue

LEMMA WiresProgram ==
    ASSUME TypeInv, WiresInv, ChangeProgram
    PROVE  WiresInv'
  <1>1. /\ UNCHANGED <<outbound, queue, slot, pc, mode, todo, out, toggling>>
        /\ inbound' = Append(inbound, ProgramChange)
    BY DEF ChangeProgram, readVars
  <1>2. NoneAside'
    BY <1>1 DEF WiresInv, NoneAside
  <1>3. ASSUME ~raced'
        PROVE  outbound = <<>> /\ queue = <<>> /\ pc = "idle" /\ toggling = NoRead
               /\ ~On(inbound, ProgramChange)
    BY <1>3, ProgramCalm
  <1>4. ASSUME ~raced'
        PROVE  ReadsOwn' /\ OneAnswer' /\ Announced' /\ Queued' /\ Scanning' /\ ScanDue'
    <2>1. outbound' = <<>> /\ queue' = <<>> /\ pc' = "idle" /\ toggling' = NoRead
      BY <1>1, <1>3, <1>4
    <2>2. slot' = NoRead
      BY <1>1, <1>3, <1>4, SlotFor DEF Waits
    <2>3. ~On(queue', Full) /\ 1..Len(outbound') = {}
      BY <2>1, Empty
    <2>4. inbound \in Seq(Heard) /\ ProgramChange \in Heard /\ Len(inbound) \in Nat
      BY Messages DEF Heard
    <2>5. /\ Len(inbound') = Len(inbound) + 1 /\ inbound'[Len(inbound')] = ProgramChange
          /\ \A i \in 1..Len(inbound) : inbound'[i] = inbound[i]
      BY <1>1, <2>4
    <2>6. \A i \in 1..Len(inbound') : inbound'[i] = ProgramChange => i = Len(inbound')
      <3>1. ASSUME NEW i \in 1..Len(inbound') PROVE i \in 1..Len(inbound) \/ i = Len(inbound')
        BY <2>4, <2>5
      <3> QED
        BY <1>3, <1>4, <2>5, <3>1 DEF On
    <2>7. On(inbound', ProgramChange)
      <3>1. Len(inbound') \in 1..Len(inbound')
        BY <2>4, <2>5
      <3> QED
        BY <2>5, <3>1 DEF On
    <2> QED
      BY <2>1, <2>2, <2>3, <2>6, <2>7
      DEF ReadsOwn, OneAnswer, Announced, Queued, Scanning, ScanDue
  <1> QED
    BY <1>2, <1>4 DEF WiresInv

\* A toggle is recorded.
LEMMA WiresToggle ==
    ASSUME WiresInv, RecordToggle
    PROVE  WiresInv'
  <1>1. /\ UNCHANGED <<outbound, inbound, raced, queue, slot, pc, mode, todo, out>>
        /\ toggling' = NoRead
    BY DEF RecordToggle, unitVars, editVars, readVars
  <1>2. ASSUME ~raced PROVE ReadsOwn' /\ OneAnswer' /\ Announced' /\ Queued' /\ Scanning'
    BY <1>1, <1>2
    DEF WiresInv, ReadsOwn, OneAnswer, Announced, Queued, Scanning, OfSlot, InFlight
  <1>3. ASSUME ~raced, ~ScanDue', NEW b \in Blocks
        PROVE  Unwritten(b)' /\ Ordered(b)' /\ Awaited(b)'
    <2>1. ~ScanDue /\ (Task(b)' <=> Task(b)) /\ (RereadDue(b)' <=> RereadDue(b))
      BY <1>1, <1>3 DEF ScanDue, Task, RereadDue, Cur
    <2>2. Unwritten(b) /\ Ordered(b) /\ Awaited(b)
      BY <1>3, <2>1 DEF WiresInv
    <2> QED
      BY <1>1, <2>1, <2>2 DEF Unwritten, Ordered, Awaited, OfSlot
  <1> QED
    BY <1>1, <1>2, <1>3 DEF WiresInv, NoneAside

\* What the unit does with the first message: it answers it or the request is lost.
Moved(m, f) ==
    /\ f.b = m.b /\ f.w = m.w
    /\ \/ inbound' = inbound /\ m.kind = "rq1" /\ Lossy
       \/ \A b, ws : Added(inbound', inbound, f, b, ws)

LEMMA ServeMoves ==
    ASSUME TypeInv, Serve \/ LoseRequest
    PROVE  /\ outbound # <<>> /\ outbound' = Tail(outbound)
           /\ Head(outbound) = outbound[1] /\ 1 \in 1..Len(outbound)
           /\ Head(outbound) \in Sent /\ Head(outbound).b \in Blocks
           /\ Head(outbound).w \in Whats
           /\ \A b, ws : Taken(outbound', outbound, b, ws)
           /\ UNCHANGED <<raced, known, fxName, queue, readVars, toggling>>
           /\ \E f \in Heard :
                 /\ f # ProgramChange /\ f.kind = "data"
                 /\ \/ LoseRequest /\ mem' = mem
                    \/ /\ Serve /\ inbound' = Append(inbound, f)
                       /\ Head(outbound).kind = "rq1" =>
                             mem' = mem /\ f.v = mem[f.b][f.w]
                       /\ Head(outbound).kind = "dt1" =>
                             /\ mem' = [mem EXCEPT ![f.b][f.w] = f.v]
                             /\ f.v = Head(outbound).v
                 /\ Moved(Head(outbound), f)
  <1> DEFINE m == Head(outbound)
  <1>1. /\ outbound # <<>> /\ outbound' = Tail(outbound)
        /\ UNCHANGED <<raced, known, fxName, queue, readVars, toggling>>
    BY DEF Serve, LoseRequest, editVars
  <1>2. outbound \in Seq(Sent) /\ inbound \in Seq(Heard)
    BY Messages
  <1>3. m \in Sent /\ m = outbound[1] /\ 1 \in 1..Len(outbound)
    BY <1>1, <1>2, HeadTail
  <1>4. m.b \in Blocks /\ m.w \in Whats /\ m.kind \in {"rq1", "dt1"}
    BY <1>3 DEF Sent
  <1>5. \A b, ws : Taken(outbound', outbound, b, ws)
    BY <1>1, <1>2, WhereTail
  <1> HIDE DEF m
  <1>6. mem[m.b][m.w] \in ValuesOf(m.w)
    BY <1>4 DEF TypeInv, MemInv, Memory
  <1>7. m.kind = "dt1" => m.v \in ValuesOf(m.w)
    BY <1>3 DEF Sent
  <1> DEFINE v == IF m.kind = "dt1" THEN m.v ELSE mem[m.b][m.w]
             f == Frame(m.b, m.w, v)
  <1>8. v \in ValuesOf(m.w)
    BY <1>6, <1>7
  <1> HIDE DEF v
  <1>9. /\ f \in Heard /\ f # ProgramChange /\ f.kind = "data" /\ f.b = m.b /\ f.w = m.w
        /\ f.v = v
    BY <1>4, <1>8 DEF Frame, Heard, ProgramChange, Values, ValuesOf
  <1>10. CASE Serve
    <2>1. inbound' = Append(inbound, f)
      BY <1>10 DEF Serve, v, m
    <2>2. /\ m.kind = "rq1" => mem' = mem /\ f.v = mem[f.b][f.w]
          /\ m.kind = "dt1" => mem' = [mem EXCEPT ![f.b][f.w] = f.v] /\ f.v = m.v
      BY <1>9, <1>10 DEF Serve, v, m
    <2> HIDE DEF f
    <2>3. \A b, ws : Added(inbound', inbound, f, b, ws)
      BY <1>2, <1>9, <2>1, WhereAppend
    <2>4. Moved(m, f)
      BY <1>9, <2>3 DEF Moved
    <2> QED
      BY <1>1, <1>3, <1>4, <1>5, <1>9, <1>10, <2>1, <2>2, <2>4 DEF m
  <1>11. CASE LoseRequest
    <2>1. inbound' = inbound /\ mem' = mem /\ m.kind = "rq1" /\ losses < MaxLosses
      BY <1>11 DEF LoseRequest, m
    <2>2. Lossy
      BY <2>1, BoundsAssumption DEF Lossy, TypeInv, CountInv
    <2> HIDE DEF f
    <2>3. Moved(m, f)
      BY <1>9, <2>1, <2>2 DEF Moved
    <2> QED
      BY <1>1, <1>3, <1>4, <1>5, <1>9, <1>11, <2>1, <2>3 DEF m
  <1> QED
    BY <1>10, <1>11

LEMMA WiresUnit ==
    ASSUME TypeInv, ReaderInv, WiresInv, Serve \/ LoseRequest
    PROVE  WiresInv'
  <1> DEFINE m == Head(outbound)
  <1>1. /\ outbound # <<>> /\ outbound' = Tail(outbound) /\ m = outbound[1]
        /\ 1 \in 1..Len(outbound) /\ m \in Sent /\ m.b \in Blocks /\ m.w \in Whats
        /\ \A b, ws : Taken(outbound', outbound, b, ws)
        /\ UNCHANGED <<raced, queue, slot, pc, mode, todo, out, toggling>>
    BY ServeMoves DEF readVars
  <1>2. PICK f \in Heard : f # ProgramChange /\ Moved(m, f)
                           /\ (inbound' = inbound \/ inbound' = Append(inbound, f))
    BY ServeMoves DEF LoseRequest
  <1>3. /\ f.b = m.b /\ f.w = m.w
        /\ \A b, ws : \/ inbound' = inbound /\ m.kind = "rq1" /\ Lossy
                      \/ Added(inbound', inbound, f, b, ws)
    BY <1>2 DEF Moved
  <1>4. outbound \in Seq(Sent) /\ inbound \in Seq(Heard) /\ TypeInv'
    BY Messages, TypeUnit
  <1> HIDE DEF m
  <1>5. NoneAside'
    BY <1>1 DEF WiresInv, NoneAside
  <1>6. ASSUME ~raced
        PROVE  /\ ~On(inbound, ProgramChange) /\ ~On(queue, Full)
               /\ ~On(inbound', ProgramChange)
    <2>1. ~On(inbound, ProgramChange) /\ ~On(queue, Full)
      BY <1>1, <1>6 DEF WiresInv, Announced, Queued
    <2> QED
      BY <1>2, <1>4, <2>1, OnAppend
  <1>7. /\ \A i \in 1..Len(outbound') :
             i + 1 \in 1..Len(outbound) /\ outbound'[i] = outbound[i + 1]
        /\ \A i \in 1..Len(inbound') :
             inbound'[i] = f \/ (i \in 1..Len(inbound) /\ inbound'[i] = inbound[i])
    <2>1. /\ \A i \in 1..Len(inbound) :
               inbound[i] = f \/ (i \in 1..Len(inbound) /\ inbound[i] = inbound[i])
          /\ \A i \in 1..Len(Append(inbound, f)) :
               Append(inbound, f)[i] = f \/
                 (i \in 1..Len(inbound) /\ Append(inbound, f)[i] = inbound[i])
      BY <1>2, <1>4, Appended
    <2>2. CASE inbound' = inbound
      BY <1>1, <1>4, <2>1, <2>2, HeadTail
    <2>3. CASE inbound' = Append(inbound, f)
      <3>1. \A i \in 1..Len(inbound') :
             inbound'[i] = f \/ (i \in 1..Len(inbound) /\ inbound'[i] = inbound[i])
        BY <2>1, <2>3
      <3> QED
        BY <1>1, <1>4, <3>1, HeadTail
    <2> QED
      BY <1>2, <2>2, <2>3
  <1>8. ASSUME ~raced PROVE ReadsOwn' /\ Announced' /\ Queued' /\ Scanning'
    <2>1. ReadsOwn'
      BY <1>1, <1>7, <1>8 DEF WiresInv, ReadsOwn, OfSlot
    <2>2. Scanning'
      <3> SUFFICES ASSUME pc # "idle", mode = "scan" PROVE Scanning'
        BY <1>1 DEF Scanning
      <3>1. /\ \A i \in 1..Len(outbound) : OfSlot(outbound[i])
            /\ \A i \in 1..Len(inbound) : OfSlot(inbound[i])
            /\ queue = <<>> /\ toggling = NoRead
        BY <1>8 DEF WiresInv, Scanning
      <3>2. f.b = slot.b /\ f.w = slot.w
        BY <1>1, <1>3, <3>1 DEF OfSlot
      <3>3. \A i \in 1..Len(outbound') : OfSlot(outbound[i])'
        BY <1>1, <1>7, <3>1 DEF OfSlot
      <3>4. \A i \in 1..Len(inbound') : OfSlot(inbound[i])'
        BY <1>1, <1>7, <3>1, <3>2 DEF OfSlot
      <3> QED
        BY <1>1, <1>6, <1>8, <3>1, <3>3, <3>4 DEF Scanning
    <2> QED
      BY <1>1, <1>6, <1>8, <2>1, <2>2 DEF Announced, Queued
  <1>9. ASSUME ~raced PROVE OneAnswer'
    <2> SUFFICES ASSUME slot # NoRead PROVE OneAnswer'
      BY <1>1 DEF OneAnswer
    <2> DEFINE o == At(outbound, slot.b, slot.w)
               p == At(outbound', slot.b, slot.w)
               t == At(inbound, slot.b, slot.w)
               u == At(inbound', slot.b, slot.w)
    <2>1. /\ \A i \in p : i \in Nat \ {0} /\ i + 1 \in o /\ outbound'[i] = outbound[i + 1]
          /\ \A i \in o : i = 1 \/ i - 1 \in p
          /\ 1 \in o <=> m.b = slot.b /\ m.w = slot.w
      <3>1. Taken(outbound', outbound, slot.b, {slot.w})
        BY <1>1
      <3> QED
        BY <1>1, <3>1 DEF Taken, At
    <2>2. \/ u = t /\ (m.b = slot.b /\ m.w = slot.w => Lossy)
          \/ u = t \cup (IF f.b = slot.b /\ f.w = slot.w THEN {Len(inbound) + 1} ELSE {})
      <3>1. \/ inbound' = inbound /\ Lossy
            \/ Added(inbound', inbound, f, slot.b, {slot.w})
        BY <1>3
      <3> QED
        BY <3>1 DEF Added, At
    <2>3. /\ \A i \in o : outbound[i].kind = "rq1"
          /\ \A i, j \in o : i = j
          /\ \A i, j \in t : i = j
          /\ o = {} \/ t = {}
          /\ slot.v # None => o = {} /\ t = {}
          /\ slot.v = None /\ o = {} /\ t = {} => Lossy
      BY <1>9 DEF WiresInv, OneAnswer, InFlight
    <2>4. \A i \in o : i \in Nat
      BY DEF At, Where
    <2> HIDE DEF o, p, t, u
    <2>5. CASE m.b = slot.b /\ m.w = slot.w
      <3>1. p = {} /\ t = {} /\ slot.v = None
        BY <2>1, <2>3, <2>5
      <3>2. (u = {} /\ Lossy) \/ u = {Len(inbound) + 1}
        BY <1>3, <2>2, <2>5, <3>1
      <3> QED
        BY <1>1, <3>1, <3>2 DEF OneAnswer, InFlight, p, u
    <2>6. CASE ~(m.b = slot.b /\ m.w = slot.w)
      <3>1. u = t
        BY <1>3, <2>2, <2>6
      <3>2. p = {} <=> o = {}
        BY <2>1, <2>6
      <3>3. \A i \in p : outbound'[i].kind = "rq1"
        BY <2>1, <2>3
      <3>4. \A i, j \in p : i = j
        BY <2>1, <2>3
      <3> QED
        BY <1>1, <2>3, <3>1, <3>2, <3>3, <3>4 DEF OneAnswer, InFlight, p, u
    <2> QED
      BY <2>5, <2>6
  <1>10. ASSUME ~raced, ~ScanDue', NEW b \in Blocks
         PROVE  Unwritten(b)' /\ Ordered(b)' /\ Awaited(b)'
    <2>1. ~ScanDue /\ (Task(b)' <=> Task(b))
      BY <1>1, <1>6, <1>10 DEF ScanDue, Task, Cur
    <2>2. Unwritten(b) /\ Ordered(b) /\ Awaited(b)
      BY <1>10, <2>1 DEF WiresInv
    <2>3. /\ Taken(outbound', outbound, b, Settings) /\ Taken(outbound', outbound, b, {"type"})
          /\ inbound' = inbound \/ Added(inbound', inbound, f, b, Settings)
          /\ inbound' = inbound \/ Added(inbound', inbound, f, b, {"type"})
      BY <1>1, <1>3
    <2>4. m.kind = "rq1" => /\ OfSlot(m) /\ slot # NoRead /\ slot.w \in Settings
                            /\ slot.w # "type" /\ Busy(slot.b) /\ ~AtType(slot.b)
                            /\ slot.b \in Blocks
      <3>1. m.kind = "rq1" => OfSlot(m)
        BY <1>1, <1>10 DEF WiresInv, ReadsOwn
      <3>2. m.kind = "rq1" => slot # NoRead
        BY <1>1, <3>1, SlotFor
      <3> QED
        BY <2>1, <3>1, <3>2, Rereading DEF AtType
    <2>5. RereadDue(b)' => RereadDue(b)
      <3>1. ASSUME At(inbound', b, "type") # {} PROVE RereadDue(b)
        <4>1. CASE At(inbound, b, "type") # {}
          BY <4>1, RereadWhere
        <4>2. CASE At(inbound, b, "type") = {}
          <5>1. f.b = b /\ f.w = "type"
            BY <2>3, <3>1, <4>2 DEF Added, At
          <5>2. 1 \in At(outbound, b, "type") /\ outbound[1].kind # "rq1"
            BY <1>1, <1>3, <2>4, <5>1 DEF At, Where, OfSlot
          <5>3. outbound[1].kind = "dt1"
            BY <1>1, <5>2 DEF Sent
          <5> QED
            BY <5>2, <5>3, RereadWhere
        <4> QED
          BY <4>1, <4>2
      <3>2. ASSUME NEW i \in At(outbound', b, "type"), outbound'[i].kind = "dt1"
            PROVE  RereadDue(b)
        <4>1. i + 1 \in At(outbound, b, "type") /\ outbound[i + 1].kind = "dt1"
          BY <2>3, <3>2 DEF Taken, At
        <4> QED
          BY <4>1, RereadWhere
      <3> QED
        BY <1>4, <2>1, <3>1, <3>2, RereadWhere, RereadThen
    <2>6. Unwritten(b)'
      BY <2>2, <2>3, <2>5 DEF Unwritten, Taken, SetAt
    <2>7. Awaited(b)'
      <3>1. ASSUME Task(b), NEW i \in SetAt(outbound', b) PROVE OfSlot(outbound[i])'
        <4>1. i + 1 \in SetAt(outbound, b) /\ outbound'[i] = outbound[i + 1]
          BY <2>3, <3>1 DEF Taken, SetAt
        <4>2. OfSlot(outbound[i + 1])
          BY <2>2, <3>1, <4>1 DEF Awaited
        <4> QED
          BY <1>1, <4>1, <4>2 DEF OfSlot
      <3>2. ASSUME Task(b), NEW i \in SetAt(inbound', b) PROVE OfSlot(inbound[i])'
        <4>1. CASE i \in SetAt(inbound, b) /\ inbound'[i] = inbound[i]
          BY <1>1, <2>2, <3>2, <4>1 DEF Awaited, OfSlot
        <4>2. CASE f.b = b /\ f.w \in Settings /\ inbound'[i] = f
          <5>1. 1 \in SetAt(outbound, b)
            BY <1>1, <1>3, <4>2 DEF SetAt, Where
          <5>2. OfSlot(outbound[1])
            BY <2>2, <3>2, <5>1 DEF Awaited
          <5> QED
            BY <1>1, <1>3, <4>2, <5>2 DEF OfSlot
        <4> QED
          BY <2>3, <3>2, <4>1, <4>2 DEF Added, SetAt
      <3> QED
        BY <2>1, <3>1, <3>2 DEF Awaited
    <2>8. Ordered(b)'
      <3>1. CASE inbound' = inbound
        BY <2>2, <3>1 DEF Ordered
      <3>2. CASE inbound' # inbound
        <4>1. /\ SetAt(inbound', b) = SetAt(inbound, b) \cup
                    (IF f.b = b /\ f.w \in Settings THEN {Len(inbound) + 1} ELSE {})
              /\ At(inbound', b, "type") = At(inbound, b, "type") \cup
                    (IF f.b = b /\ f.w = "type" THEN {Len(inbound) + 1} ELSE {})
              /\ \A i \in SetAt(inbound, b) : i \in 1..Len(inbound)
              /\ Len(inbound) \in Nat
          BY <2>3, <3>2 DEF Added, SetAt, At
        <4>2. f.w \in Settings => f.w # "type"
          BY NamesAssumption
        <4>3. ASSUME f.b = b, f.w \in Settings PROVE At(inbound, b, "type") = {}
          <5> SUFFICES ASSUME At(inbound, b, "type") # {} PROVE FALSE
            OBVIOUS
          <5>1. RereadDue(b)
            BY RereadWhere
          <5>2. 1 \in SetAt(outbound, b)
            BY <1>1, <1>3, <4>3 DEF SetAt, Where
          <5>3. m.kind = "rq1"
            BY <1>1, <2>2, <5>1, <5>2 DEF Unwritten
          <5>4. slot.b = b
            BY <1>3, <2>4, <4>3, <5>3 DEF OfSlot
          <5>5. TypeAt(inbound, b) = {}
            BY <1>10, <2>4, <5>3, <5>4, BusyClear
          <5> QED
            BY <5>5, WhereType
        <4>4. ASSUME NEW i \in SetAt(inbound', b), NEW j \in At(inbound', b, "type")
              PROVE  i < j
          <5>1. CASE i \in SetAt(inbound, b) /\ j \in At(inbound, b, "type")
            BY <2>2, <5>1 DEF Ordered
          <5>2. CASE i \in SetAt(inbound, b) /\ j = Len(inbound) + 1
            <6>1. i \in 1..Len(inbound) /\ Len(inbound) \in Nat
              BY <4>1, <5>2
            <6> QED
              BY <5>2, <6>1
          <5>3. i \in SetAt(inbound, b) \/ (f.b = b /\ f.w \in Settings)
            BY <4>1, <4>4
          <5>4. j \in At(inbound, b, "type") \/ (f.b = b /\ f.w = "type" /\ j = Len(inbound) + 1)
            BY <4>1, <4>4
          <5> QED
            BY <4>2, <4>3, <5>1, <5>2, <5>3, <5>4
        <4> QED
          BY <4>4 DEF Ordered
      <3> QED
        BY <3>1, <3>2
    <2> QED
      BY <2>6, <2>7, <2>8
  <1> QED
    BY <1>1, <1>5, <1>8, <1>9, <1>10 DEF WiresInv

LEMMA WiresStutter ==
    ASSUME WiresInv, UNCHANGED vars
    PROVE  WiresInv'
  <1>1. UNCHANGED <<outbound, inbound, raced, queue, slot, pc, mode, todo, out, toggling>>
    BY DEF vars, unitVars, readVars, editVars
  <1>2. NoneAside' /\ (~raced => ReadsOwn' /\ OneAnswer' /\ Announced' /\ Queued' /\ Scanning')
    BY <1>1
    DEF WiresInv, NoneAside, ReadsOwn, OneAnswer, Announced, Queued, Scanning, OfSlot, InFlight
  <1>3. ASSUME ~raced, ~ScanDue', NEW b \in Blocks
        PROVE  Unwritten(b)' /\ Ordered(b)' /\ Awaited(b)'
    <2>1. ~ScanDue /\ (Task(b)' <=> Task(b)) /\ (RereadDue(b)' <=> RereadDue(b))
      BY <1>1, <1>3 DEF ScanDue, Task, RereadDue, Cur
    <2>2. Unwritten(b) /\ Ordered(b) /\ Awaited(b)
      BY <1>3, <2>1 DEF WiresInv
    <2> QED
      BY <1>1, <2>1, <2>2 DEF Unwritten, Ordered, Awaited, OfSlot
  <1> QED
    BY <1>1, <1>2, <1>3 DEF WiresInv

LEMMA WiresStep == TypeInv /\ ReaderInv /\ WiresInv /\ [Next]_vars => WiresInv'
  BY WiresDispatch, WiresWorker, WiresRequest, WiresReply, WiresLocal, WiresInstall,
     WiresReceive, WiresEdit, WiresProgram, WiresToggle, WiresUnit, WiresStutter
  DEF Next, Reader

-----------------------------------------------------------------------------
(* The values: the steps.                                                     *)

LEMMA ValuesInit == Init => ValuesInv
  <1> SUFFICES ASSUME Init PROVE ValuesInv
    OBVIOUS
  <1>1. inbound = <<>> /\ slot = NoRead /\ toggling = NoRead
    BY DEF Init
  <1>2. \A b, w : At(inbound, b, w) = {}
    BY <1>1, Empty
  <1> QED
    BY <1>1, <1>2 DEF ValuesInv, Echoed, Replied, Promised, LastIs

\* Steps of the reading thread but its requests, and of the worker's control.
LEMMA ValuesReader ==
    ASSUME TypeInv, ValuesInv,
           \/ TakeFull \/ TakeSliders \/ SkipFull \/ Exit \/ Stop \/ Start
           \/ GotSwitch \/ GotType \/ GotValue
           \/ RecordName \/ PickParams \/ ReadRange \/ NoAddress
           \/ NextBlock \/ SetSliders
    PROVE  ValuesInv'
  <1>1. UNCHANGED <<mem, outbound, inbound, toggling>> /\ (slot' = slot \/ slot' = NoRead)
    BY DEF TakeFull, TakeSliders, SkipFull, Dispatched, Exit, Stop, Start, GotSwitch, GotType,
           GotValue, Got, SlotClosed, RecordName, PickParams, ReadRange, NoAddress, NextBlock,
           SetSliders, unitVars
  <1>2. \/ ~raced' => ~raced
        \/ TakeFull /\ inbound = <<>> /\ toggling = NoRead
    BY DEF TakeFull, TakeSliders, SkipFull, Exit, Stop, Start, GotSwitch, GotType,
           GotValue, Got, RecordName, PickParams, ReadRange, NoAddress, NextBlock,
           SetSliders, editVars, Undisturbed, TypeInv, CountInv
  <1>3. CASE ~raced' => ~raced
    BY <1>1, <1>3 DEF ValuesInv, Echoed, Replied, Promised
  <1>4. CASE TakeFull /\ inbound = <<>> /\ toggling = NoRead
    <2>1. slot' = NoRead
      BY <1>4, SlotFor DEF TakeFull, Dispatched, Waits
    <2>2. \A b, w : At(inbound', b, w) = {}
      BY <1>1, <1>4, Empty
    <2> QED
      BY <1>1, <1>4, <2>1, <2>2 DEF ValuesInv, Echoed, Replied, Promised, LastIs
  <1> QED
    BY <1>2, <1>3, <1>4

LEMMA ValuesRequest ==
    ASSUME TypeInv, WiresInv, ValuesInv, AskSwitch \/ AskType \/ AskValue
    PROVE  ValuesInv'
  <1>1. PICK w : \/ w = "sw" /\ Ask("sw", w, "swWait")
                 \/ w = "type" /\ Ask("type", w, "typeWait")
                 \/ AskValue /\ Ask("val", w, "valWait") /\ w \in Settings
    <2>1. AskValue => SettingIn(LiveTable(Cur), labels[Turn]) \in Settings
      <3>1. AskValue => LiveTable(Cur) \subseteq Settings
        BY SlotFor, LabelsAssumption DEF AskValue, Ask, LiveTable, TypeInv, NameInv
      <3> QED
        BY <3>1 DEF AskValue, InTable, Carries, SettingIn
    <2> QED
      BY <2>1 DEF AskSwitch, AskType, AskValue
  <1> DEFINE m == Read(Cur, w)
  <1>2. /\ outbound' = Append(outbound, m) /\ slot'.v = None
        /\ UNCHANGED <<mem, inbound, raced, toggling>>
        /\ pc # "idle" /\ (mode = "scan" \/ w \in Settings)
    BY <1>1 DEF Ask, NoRead, editVars, TypeInv, TaskInv
  <1>3. m \in Sent /\ m.w = w
    BY <1>1, <1>2, SlotFor DEF Read, Sent, Whats
  <1> HIDE DEF m
  <1>4. ASSUME ~raced PROVE Promised'
    <2> SUFFICES ASSUME toggling # NoRead PROVE Promised'
      BY <1>2 DEF Promised
    <2>1. w \in Settings
      BY <1>2, <1>4 DEF WiresInv, Scanning
    <2>2. m.w # "sw"
      BY <1>3, <2>1, NamesAssumption
    <2>3. Added(outbound', outbound, m, toggling.b, {"sw"}) /\ outbound \in Seq(Sent)
      BY <1>2, <1>3, Messages, WhereAppend
    <2>4. At(outbound', toggling.b, "sw") = At(outbound, toggling.b, "sw")
      BY <2>2, <2>3 DEF Added, At
    <2>5. LastIs(outbound, toggling.b, "sw", toggling.v)
      BY <1>4 DEF ValuesInv, Promised
    <2>6. LastIs(outbound', toggling.b, "sw", toggling.v)
      BY <1>2, <1>3, <2>2, <2>3, <2>5, LastAppend
    <2> QED
      BY <1>2, <1>4, <2>4, <2>6 DEF ValuesInv, Promised
  <1> QED
    BY <1>2, <1>4 DEF ValuesInv, Echoed, Replied

LEMMA ValuesReceive ==
    ASSUME TypeInv, WiresInv, ValuesInv, Receive
    PROVE  ValuesInv'
  <1> DEFINE f == Head(inbound)
  <1>1. /\ inbound # <<>> /\ inbound' = Tail(inbound)
        /\ UNCHANGED <<mem, outbound, raced, toggling>>
    BY DEF Receive, Correlate, ProcessProgramChange, Refuse, Apply, readVars, editVars
  <1>2. /\ inbound \in Seq(Heard) /\ f \in Heard /\ f = inbound[1] /\ 1 \in 1..Len(inbound)
    BY <1>1, Messages, HeadTail
  <1>3. slot' = slot \/ (slot' = [slot EXCEPT !.v = f.v] /\ TakenAsReply(f))
    BY DEF Receive, Correlate, ProcessProgramChange, Refuse, Apply, readVars
  <1> HIDE DEF f
  <1> SUFFICES ASSUME ~raced PROVE ValuesInv'
    BY <1>1 DEF ValuesInv
  <1>4. On(inbound, ProgramChange) => inbound' = <<>> \/ On(inbound', ProgramChange)
    <2> SUFFICES ASSUME On(inbound, ProgramChange), inbound' # <<>>
                 PROVE  On(inbound', ProgramChange)
      OBVIOUS
    <2>1. PICK i \in 1..Len(inbound) : inbound[i] = ProgramChange
      BY DEF On
    <2>2. i = Len(inbound)
      BY <2>1 DEF WiresInv, Announced
    <2>3. Len(inbound) # 1
      BY <1>1, <1>2
    <2> DEFINE k == Len(inbound')
    <2>4. k \in 1..Len(inbound') /\ k + 1 = Len(inbound)
      <3>1. Len(inbound') = Len(inbound) - 1 /\ Len(inbound) \in Nat /\ Len(inbound) # 0
        BY <1>1, <1>2
      <3> QED
        BY <2>3, <3>1
    <2>5. inbound'[k] = inbound[k + 1]
      BY <1>1, <1>2, <2>4, HeadTail
    <2> QED
      BY <2>1, <2>2, <2>4, <2>5 DEF On
  <1>5. Echoed'
    <2>1. CASE inbound' = <<>>
      <3>1. \A b, w : At(inbound', b, w) = {}
        BY <2>1, Empty
      <3> QED
        BY <3>1 DEF Echoed, LastIs
    <2>2. CASE On(inbound', ProgramChange)
      BY <2>2 DEF Echoed
    <2>3. CASE ~On(inbound, ProgramChange)
      <3>1. ASSUME NEW b \in Blocks, NEW w \in Whats PROVE LastIs(inbound', b, w, mem[b][w])
        <4>1. LastIs(inbound, b, w, mem[b][w])
          BY <2>3 DEF ValuesInv, Echoed
        <4> QED
          BY <1>1, <1>2, <4>1, LastTail
      <3> QED
        BY <1>1, <3>1 DEF Echoed
    <2> QED
      BY <1>4, <2>1, <2>2, <2>3
  <1>6. Replied'
    <2>1. CASE slot' = slot
      BY <1>1, <2>1 DEF ValuesInv, Replied
    <2>2. CASE slot' = [slot EXCEPT !.v = f.v] /\ TakenAsReply(f)
      <3>1. f.b = slot.b /\ f.w = slot.w /\ f.kind = "data"
        BY <2>2 DEF TakenAsReply
      <3>2. f.b \in Blocks
        BY <1>2, <3>1 DEF Heard, ProgramChange
      <3>3. slot # NoRead
        BY <3>1, <3>2, SlotFor DEF OfSlot
      <3>4. slot \in Slots
        BY <3>3 DEF TypeInv, SlotInv
      <3>5. slot'.b = slot.b /\ slot'.w = slot.w /\ slot'.v = f.v
        BY <2>2, <3>4 DEF Slots
      <3>6. ~On(inbound, ProgramChange)
        BY <3>3, SlotFor DEF WiresInv, Announced, Waits
      <3>7. slot.b \in Blocks /\ slot.w \in Whats
        BY <3>3, SlotFor
      <3>8. LastIs(inbound, slot.b, slot.w, mem[slot.b][slot.w])
        BY <3>6, <3>7 DEF ValuesInv, Echoed
      <3>9. At(Tail(inbound), slot.b, slot.w) = {}
        <4>1. Taken(Tail(inbound), inbound, slot.b, {slot.w})
          BY <1>1, <1>2, WhereTail
        <4>2. /\ \A i \in At(Tail(inbound), slot.b, slot.w) :
                    i \in Nat \ {0} /\ i + 1 \in At(inbound, slot.b, slot.w)
              /\ 1 \in At(inbound, slot.b, slot.w)
          BY <1>2, <3>1, <4>1 DEF Taken, At
        <4>3. \A i, j \in At(inbound, slot.b, slot.w) : i = j
          BY <3>3 DEF WiresInv, OneAnswer
        <4>4. ASSUME NEW i \in At(Tail(inbound), slot.b, slot.w) PROVE FALSE
          <5>1. i \in Nat \ {0} /\ i + 1 = 1
            BY <4>2, <4>3
          <5> QED
            BY <5>1
        <4> QED
          BY <4>4
      <3>10. f.v = mem[slot.b][slot.w]
        BY <1>1, <1>2, <3>1, <3>8, <3>9, LastTail
      <3> QED
        BY <1>1, <3>5, <3>10 DEF Replied
    <2> QED
      BY <1>3, <2>1, <2>2
  <1>7. Promised'
    BY <1>1 DEF ValuesInv, Promised
  <1> QED
    BY <1>5, <1>6, <1>7 DEF ValuesInv

\* A cell that a calm edit changes is not the one being read.
LEMMA CalmNotRead ==
    ASSUME TypeInv, NEW a, NEW w, Calm(a, w), slot # NoRead
    PROVE  ~(slot.b = a /\ slot.w = w)
  BY Rereading DEF Calm

\* A write adds to the outbound wire.
LEMMA ValuesWrite ==
    ASSUME TypeInv, ValuesInv, NEW a \in Blocks, NEW w \in Whats, NEW v \in ValuesOf(w),
           CountEdit(Calm(a, w)), outbound' = Append(outbound, Write(a, w, v)),
           UNCHANGED <<mem, inbound, slot>>,
           \/ toggling' = toggling
           \/ w = "sw" /\ toggling'.b = a /\ toggling'.v = v
    PROVE  ValuesInv'
  <1> DEFINE m == Write(a, w, v)
  <1>1. m \in Sent /\ m.b = a /\ m.w = w /\ m.v = v
    BY DEF Write, Sent, Values, ValuesOf
  <1>2. outbound' = Append(outbound, m) /\ outbound \in Seq(Sent)
    BY Messages
  <1> HIDE DEF m
  <1> SUFFICES ASSUME ~raced' PROVE ValuesInv'
    BY DEF ValuesInv
  <1>3. ~raced /\ Calm(a, w)
    BY DEF CountEdit
  <1>4. Echoed' /\ Replied'
    BY <1>3 DEF ValuesInv, Echoed, Replied
  <1>5. Promised'
    <2>1. CASE toggling' = toggling
      <3> SUFFICES ASSUME toggling # NoRead PROVE Promised'
        BY <2>1 DEF Promised
      <3>1. toggling.b # a
        BY <1>3 DEF Calm
      <3>2. LastIs(outbound, toggling.b, "sw", toggling.v)
        BY <1>3 DEF ValuesInv, Promised
      <3>3. LastIs(outbound', toggling.b, "sw", toggling.v)
        BY <1>1, <1>2, <3>1, <3>2, LastAppend
      <3>4. Added(outbound', outbound, m, toggling.b, {"sw"})
        BY <1>1, <1>2, WhereAppend
      <3>5. At(outbound', toggling.b, "sw") = At(outbound, toggling.b, "sw")
        BY <1>1, <3>1, <3>4 DEF Added, At
      <3> QED
        BY <1>3, <2>1, <3>3, <3>5 DEF ValuesInv, Promised
    <2>2. CASE w = "sw" /\ toggling'.b = a /\ toggling'.v = v
      <3>1. LastIs(outbound', a, "sw", v)
        BY <1>1, <1>2, <2>2, LastAppend
      <3>2. Added(outbound', outbound, m, a, {"sw"})
        BY <1>1, <1>2, WhereAppend
      <3>3. At(outbound', a, "sw") # {}
        BY <1>1, <2>2, <3>2 DEF Added, At
      <3> QED
        BY <2>2, <3>1, <3>3 DEF Promised
    <2> QED
      BY <2>1, <2>2
  <1> QED
    BY <1>4, <1>5 DEF ValuesInv

\* A control of the panel changes a cell and announces it.
LEMMA ValuesPanel ==
    ASSUME TypeInv, ValuesInv, NEW a \in Blocks, NEW w \in Whats, NEW v \in ValuesOf(w),
           PanelEdit(a, w, v)
    PROVE  ValuesInv'
  <1> DEFINE f == Frame(a, w, v)
  <1>1. f \in Heard /\ f.b = a /\ f.w = w /\ f.v = v /\ f # ProgramChange
    BY DEF Frame, Heard, Values, ValuesOf, ProgramChange
  <1>2. /\ inbound' = Append(inbound, f) /\ inbound \in Seq(Heard)
        /\ mem' = [mem EXCEPT ![a][w] = v] /\ UNCHANGED <<outbound, slot, toggling>>
        /\ CountEdit(Calm(a, w))
    BY Messages DEF PanelEdit, readVars
  <1> HIDE DEF f
  <1> SUFFICES ASSUME ~raced' PROVE ValuesInv'
    BY DEF ValuesInv
  <1>3. ~raced /\ Calm(a, w)
    BY <1>2 DEF CountEdit
  <1>4. \A b \in Blocks : \A x \in Whats :
           mem'[b][x] = IF b = a /\ x = w THEN v ELSE mem[b][x]
    BY <1>2 DEF TypeInv, MemInv, Memory
  <1>5. Echoed'
    <2>1. ~On(inbound, ProgramChange)
      BY <1>3 DEF Calm, ScanDue
    <2>2. ASSUME NEW b \in Blocks, NEW x \in Whats PROVE LastIs(inbound', b, x, mem'[b][x])
      <3>1. LastIs(inbound, b, x, mem[b][x])
        BY <1>3, <2>1 DEF ValuesInv, Echoed
      <3>2. IF f.b = b /\ f.w = x THEN f.v = mem'[b][x] ELSE LastIs(inbound, b, x, mem'[b][x])
        <4>1. CASE f.b = b /\ f.w = x
          BY <1>1, <1>4, <4>1
        <4>2. CASE ~(f.b = b /\ f.w = x)
          <5>1. mem'[b][x] = mem[b][x]
            BY <1>1, <1>4, <4>2
          <5> QED
            BY <3>1, <4>2, <5>1
        <4> QED
          BY <4>1, <4>2
      <3> QED
        BY <1>1, <1>2, <3>2, LastAppend
    <2> QED
      BY <2>2 DEF Echoed
  <1>6. Replied'
    <2> SUFFICES ASSUME slot # NoRead PROVE Replied'
      BY <1>2 DEF Replied
    <2>1. mem'[slot.b][slot.w] = mem[slot.b][slot.w]
      BY <1>3, <1>4, SlotFor, CalmNotRead
    <2> QED
      BY <1>2, <1>3, <2>1 DEF ValuesInv, Replied
  <1>7. Promised'
    <2> SUFFICES ASSUME toggling # NoRead PROVE Promised'
      BY <1>2 DEF Promised
    <2>1. toggling.b # a /\ toggling.b \in Blocks /\ "sw" \in Whats
      BY <1>3 DEF Calm, TypeInv, CountInv, Whats
    <2>2. mem'[toggling.b]["sw"] = mem[toggling.b]["sw"]
      BY <1>4, <2>1
    <2> QED
      BY <1>2, <1>3, <2>2 DEF ValuesInv, Promised
  <1> QED
    BY <1>5, <1>6, <1>7 DEF ValuesInv

LEMMA ValuesEdit ==
    ASSUME TypeInv, ValuesInv, NEW a \in Blocks, Edit(a)
    PROVE  ValuesInv'
  <1>1. ASSUME NEW w \in Whats, NEW v \in ValuesOf(w), PanelEdit(a, w, v)
        PROVE  ValuesInv'
    BY <1>1, ValuesPanel
  <1>2. ASSUME NEW v \in Switch, Toggle(a, v) PROVE ValuesInv'
    <2>1. "sw" \in Whats /\ v \in ValuesOf("sw")
      BY DEF Whats, ValuesOf
    <2>2. /\ CountEdit(Calm(a, "sw")) /\ outbound' = Append(outbound, Write(a, "sw", v))
          /\ UNCHANGED <<mem, inbound, slot>> /\ toggling'.b = a /\ toggling'.v = v
      BY <1>2 DEF Toggle, readVars
    <2> QED
      BY <2>1, <2>2, ValuesWrite
  <1>3. ASSUME NEW i \in 1..2, NEW v \in Vals, SetValue(a, i, v) PROVE ValuesInv'
    <2> DEFINE w == SettingIn(LiveTable(a), known[a].sliders[i].label)
    <2>1. /\ CountEdit(Calm(a, w)) /\ outbound' = Append(outbound, Write(a, w, v))
          /\ UNCHANGED <<mem, inbound, slot, toggling>>
      BY <1>3 DEF SetValue, readVars
    <2>2. w \in Settings
      BY <1>3, ValueSetting
    <2>3. w \in Whats /\ v \in ValuesOf(w)
      BY <2>2, NamesAssumption DEF Whats, ValuesOf
    <2> HIDE DEF w
    <2> QED
      BY <2>1, <2>3, ValuesWrite
  <1>4. ASSUME NEW e \in Effects, SetType(a, e) PROVE ValuesInv'
    <2>1. "type" \in Whats /\ e \in ValuesOf("type")
      BY DEF Whats, ValuesOf
    <2>2. /\ CountEdit(Calm(a, "type")) /\ outbound' = Append(outbound, Write(a, "type", e))
          /\ UNCHANGED <<mem, inbound, slot, toggling>>
      BY <1>4 DEF SetType, readVars
    <2> QED
      BY <2>1, <2>2, ValuesWrite
  <1> QED
    BY <1>1, <1>2, <1>3, <1>4 DEF Edit

LEMMA ValuesProgram ==
    ASSUME TypeInv, WiresInv, ChangeProgram
    PROVE  ValuesInv'
  <1> SUFFICES ASSUME ~raced' PROVE ValuesInv'
    BY DEF ValuesInv
  <1>1. slot' = NoRead /\ toggling' = NoRead /\ inbound' = Append(inbound, ProgramChange)
    BY ProgramCalm DEF ChangeProgram, readVars
  <1>2. On(inbound', ProgramChange)
    <2>1. inbound \in Seq(Heard) /\ ProgramChange \in Heard
      BY Messages DEF Heard
    <2>2. Len(inbound') \in 1..Len(inbound') /\ inbound'[Len(inbound')] = ProgramChange
      BY <1>1, <2>1
    <2> QED
      BY <2>2 DEF On
  <1> QED
    BY <1>1, <1>2 DEF ValuesInv, Echoed, Replied, Promised

LEMMA ValuesToggle ==
    ASSUME ValuesInv, RecordToggle
    PROVE  ValuesInv'
  BY DEF ValuesInv, RecordToggle, unitVars, editVars, readVars, Echoed, Replied, Promised

LEMMA ValuesUnit ==
    ASSUME TypeInv, WiresInv, ValuesInv, Serve \/ LoseRequest
    PROVE  ValuesInv'
  <1> DEFINE m == Head(outbound)
  <1>1. /\ outbound # <<>> /\ outbound' = Tail(outbound) /\ m = outbound[1]
        /\ 1 \in 1..Len(outbound) /\ m \in Sent /\ m.b \in Blocks /\ m.w \in Whats
        /\ \A b, ws : Taken(outbound', outbound, b, ws)
        /\ UNCHANGED <<raced, slot, toggling>>
    BY ServeMoves DEF readVars
  <1>2. PICK f \in Heard :
           /\ f # ProgramChange
           /\ \/ LoseRequest /\ mem' = mem
              \/ /\ Serve /\ inbound' = Append(inbound, f)
                 /\ m.kind = "rq1" => mem' = mem /\ f.v = mem[f.b][f.w]
                 /\ m.kind = "dt1" => mem' = [mem EXCEPT ![f.b][f.w] = f.v] /\ f.v = m.v
           /\ Moved(m, f)
    BY ServeMoves
  <1>3. f.b = m.b /\ f.w = m.w
    BY <1>2 DEF Moved
  <1>4. outbound \in Seq(Sent) /\ inbound \in Seq(Heard) /\ m.kind \in {"rq1", "dt1"}
    BY <1>1, Messages DEF Sent
  <1> HIDE DEF m
  <1> SUFFICES ASSUME ~raced PROVE ValuesInv'
    BY <1>1 DEF ValuesInv
  <1>5. \/ inbound' = inbound /\ mem' = mem /\ m.kind = "rq1"
        \/ inbound' = Append(inbound, f) /\ mem' = mem /\ f.v = mem[f.b][f.w] /\ m.kind = "rq1"
        \/ /\ inbound' = Append(inbound, f) /\ m.kind = "dt1" /\ f.v = m.v
           /\ mem' = [mem EXCEPT ![f.b][f.w] = f.v]
    BY <1>2, <1>4 DEF LoseRequest, m
  <1>6. \A b \in Blocks : \A x \in Whats :
           mem'[b][x] = IF m.kind = "dt1" /\ b = m.b /\ x = m.w THEN m.v ELSE mem[b][x]
    <2>1. mem \in [Blocks -> [Whats -> Switch \cup Effects \cup Vals]]
      BY DEF TypeInv, MemInv, Memory
    <2>2. CASE m.kind = "rq1"
      BY <1>5, <2>2
    <2>3. CASE m.kind = "dt1"
      BY <1>1, <1>3, <1>5, <2>1, <2>3
    <2> QED
      BY <1>4, <2>2, <2>3
  <1>7. Echoed'
    <2> SUFFICES ASSUME ~On(inbound', ProgramChange), NEW b \in Blocks, NEW x \in Whats
                 PROVE  LastIs(inbound', b, x, mem'[b][x])
      BY DEF Echoed
    <2>1. ~On(inbound, ProgramChange)
      BY <1>1 DEF WiresInv, Announced
    <2>2. LastIs(inbound, b, x, mem[b][x])
      BY <2>1 DEF ValuesInv, Echoed
    <2>3. CASE inbound' = inbound /\ mem' = mem
      BY <2>2, <2>3
    <2>4. CASE inbound' = Append(inbound, f) /\ f.v = mem'[f.b][f.w]
      <3>1. ~(f.b = b /\ f.w = x) => mem'[b][x] = mem[b][x]
        BY <1>3, <1>6
      <3>2. IF f.b = b /\ f.w = x THEN f.v = mem'[b][x] ELSE LastIs(inbound, b, x, mem'[b][x])
        BY <2>2, <2>4, <3>1
      <3> QED
        BY <1>4, <2>4, <3>2, LastAppend
    <2>5. inbound' = Append(inbound, f) => f.v = mem'[f.b][f.w]
      <3>1. Len(inbound) \in Nat /\ Len(Append(inbound, f)) = Len(inbound) + 1
        BY <1>4
      <3>2. Append(inbound, f) # inbound
        BY <3>1
      <3> QED
        BY <1>1, <1>3, <1>5, <1>6, <3>2
    <2> QED
      BY <1>5, <2>3, <2>4, <2>5
  <1>8. Replied'
    <2> SUFFICES ASSUME slot # NoRead PROVE Replied'
      BY <1>1 DEF Replied
    <2>1. ~(m.kind = "dt1" /\ slot.b = m.b /\ slot.w = m.w)
      <3>1. \A i \in At(outbound, slot.b, slot.w) : outbound[i].kind = "rq1"
        BY DEF WiresInv, OneAnswer
      <3> QED
        BY <1>1, <3>1 DEF At, Where
    <2>2. mem'[slot.b][slot.w] = mem[slot.b][slot.w]
      BY <1>6, <2>1, SlotFor
    <2> QED
      BY <1>1, <2>2 DEF ValuesInv, Replied
  <1>9. Promised'
    <2> SUFFICES ASSUME toggling # NoRead PROVE Promised'
      BY <1>1 DEF Promised
    <2> DEFINE a == toggling.b
    <2>1. a \in Blocks /\ "sw" \in Whats /\ toggling.v # None
      BY NamesAssumption DEF TypeInv, CountInv, Whats
    <2>2. LastIs(outbound, a, "sw", toggling.v)
      BY DEF ValuesInv, Promised
    <2> HIDE DEF a
    <2>3. LastIs(outbound', a, "sw", toggling.v)
      BY <1>1, <1>4, <2>2, LastTail
    <2>4. ASSUME At(outbound', a, "sw") = {} PROVE mem'[a]["sw"] = toggling.v
      <3>1. CASE m.b = a /\ m.w = "sw"
        <4>1. m.v = toggling.v
          BY <1>1, <1>4, <2>2, <2>4, <3>1, LastTail
        <4>2. m.kind = "dt1"
          BY <1>1, <1>4, <2>1, <4>1 DEF Sent
        <4> QED
          BY <1>6, <2>1, <3>1, <4>1, <4>2
      <3>2. CASE ~(m.b = a /\ m.w = "sw")
        <4>1. Taken(outbound', outbound, a, {"sw"})
          BY <1>1
        <4>2. At(outbound, a, "sw") = {}
          BY <1>1, <2>4, <3>2, <4>1 DEF Taken, At
        <4>3. mem[a]["sw"] = toggling.v
          BY <4>2 DEF ValuesInv, Promised, a
        <4> QED
          BY <1>6, <2>1, <3>2, <4>3
      <3> QED
        BY <3>1, <3>2
    <2> QED
      BY <1>1, <2>3, <2>4 DEF Promised, a
  <1> QED
    BY <1>7, <1>8, <1>9 DEF ValuesInv

LEMMA ValuesStutter ==
    ASSUME ValuesInv, UNCHANGED vars
    PROVE  ValuesInv'
  BY DEF ValuesInv, vars, unitVars, editVars, readVars, Echoed, Replied, Promised

LEMMA ValuesStep == TypeInv /\ WiresInv /\ ValuesInv /\ [Next]_vars => ValuesInv'
  BY ValuesReader, ValuesRequest, ValuesReceive, ValuesEdit, ValuesProgram, ValuesToggle,
     ValuesUnit, ValuesStutter
  DEF Next, Reader

=============================================================================
