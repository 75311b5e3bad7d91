---------------------------- MODULE PatchValueProofs ----------------------------
(* What TLAPS proves of the values in PatchState: once nothing is under way   *)
(* and nothing has raced they are the unit's, up to replies that went missing.*)
EXTENDS PatchWireProofs

-----------------------------------------------------------------------------
(* What PatchState may show of a block b whose memory is m.                   *)

\* v tells that the unit holds t, or nothing.
Tells(v, t) == v = t \/ (Lossy /\ v = None)

\* The labels to show, the settings of the block, and the one slider i is for.
Meant(b, m) == SlidersOf[b][m["type"]]
TableIn(b, m) == IF b \in FxBlocks THEN FxTable[m["type"]] ELSE BlockTable[b]
Cell(b, m, i) == SettingIn(TableIn(b, m), Meant(b, m)[i])

SliderShape(s, l) ==
    IF s = None THEN l = None \/ Lossy ELSE l # None /\ s.label = l
SliderRight(b, m, s, i) ==
    /\ SliderShape(s, Meant(b, m)[i])
    /\ s # None => Tells(s.value, m[Cell(b, m, i)])
SlidersRight(b, m, sliders) == \A i \in 1..2 : SliderRight(b, m, sliders[i], i)
NameRight(b, m, name) == b \in FxBlocks => Tells(name, m["type"])
EntryRight(b, m, entry, name) ==
    /\ entry # NoEntry
    /\ Tells(entry.sw, m["sw"])
    /\ Tells(entry.name, m["type"])
    /\ SlidersRight(b, m, entry.sliders)
    /\ NameRight(b, m, name)

\* The same while messages are under way, from the application on s and from
\* the unit on t.
Flying(s, t, b, w) == At(s, b, w) # {} \/ At(t, b, w) # {}
SlidersHold(b, m, sliders, s, t) ==
    \A i \in 1..2 :
       /\ SliderShape(sliders[i], Meant(b, m)[i])
       /\ sliders[i] # None =>
             \/ Flying(s, t, b, Cell(b, m, i))
             \/ Tells(sliders[i].value, m[Cell(b, m, i)])
OfTable(b, m, s, t) ==
    /\ \A i \in SetAt(s, b) : s[i].w \in TableIn(b, m)
    /\ \A i \in SetAt(t, b) : t[i].w \in TableIn(b, m)

-----------------------------------------------------------------------------
(* The invariant.                                                             *)

\* The reader has read right so far.
RecRight ==
    /\ mode = "scan" /\ pc \notin {"idle", "sw", "swWait"} => Tells(rec.sw, mem[Cur]["sw"])
    /\ mode = "scan" /\ pc \notin {"idle", "sw", "swWait", "type", "typeWait"} =>
          Tells(rec.name, mem[Cur]["type"])
    /\ pc \in {"params", "range", "val", "valWait", "done"} =>
          NameRight(Cur, mem[Cur], fxName[Cur])
    /\ pc \in {"sw", "swWait", "type", "typeWait", "name", "params"} =>
          \A i \in 1..2 : rec.sliders[i] = None
    /\ pc \in {"range", "val", "valWait", "done"} =>
          \A i \in 1..2 :
             IF i \in due
             THEN rec.sliders[i] = None /\ labels[i] = Meant(Cur, mem[Cur])[i]
             ELSE SliderRight(Cur, mem[Cur], rec.sliders[i], i)
    /\ pc = "done" => due = {}
    /\ pc = "valWait" => slot.w = Cell(Cur, mem[Cur], Turn)

\* A scan: a block is still to be read, or is set aside, or is installed.
Due(b) == \E i \in 1..Len(todo) : todo[i] = b
ScanRight ==
    pc # "idle" /\ mode = "scan" =>
       \A b \in Blocks :
          /\ out[b] # NoEntry => EntryRight(b, mem[b], out[b], fxName[b])
          /\ \/ Due(b) \/ out[b] # NoEntry
             \/ EntryRight(b, mem[b], known[b], fxName[b])

\* Outside a scan: an entry is right but for what is under way.
Settled(b) ==
    /\ known[b] # NoEntry
    /\ \/ Flying(outbound, inbound, b, "sw")
       \/ Tells(known[b].sw, mem[b]["sw"])
    /\ \/ Flying(outbound, inbound, b, "type")
       \/ Tells(known[b].name, mem[b]["type"]) /\ NameRight(b, mem[b], fxName[b])
    /\ ~RereadDue(b) => /\ SlidersHold(b, mem[b], known[b].sliders, outbound, inbound)
                        /\ OfTable(b, mem[b], outbound, inbound)

ShownInv ==
    ~raced =>
       /\ RecRight /\ ScanRight
       /\ ~ScanDue => \A b \in Blocks : Settled(b)

-----------------------------------------------------------------------------
(* Facts used by several steps.                                               *)

LEMMA MemoryHolds ==
    ASSUME NEW m \in Memory
    PROVE  m["type"] \in Effects /\ m["sw"] \in Switch /\ \A c \in Settings : m[c] \in Vals
  <1>1. \A w \in Whats : m[w] \in ValuesOf(w)
    BY DEF Memory
  <1>2. "sw" \in Whats /\ "type" \in Whats /\ Settings \subseteq Whats
    BY DEF Whats
  <1>3. \A c \in Settings : c # "sw" /\ c # "type"
    BY NamesAssumption
  <1> QED
    BY <1>1, <1>2, <1>3 DEF ValuesOf

\* A label that is meant is found, and is that of one setting only.
LEMMA CellOf ==
    ASSUME NEW b \in Blocks, NEW m \in Memory, NEW i \in 1..2, Meant(b, m)[i] # None
    PROVE  /\ TableIn(b, m) \subseteq Settings /\ Cell(b, m, i) \in TableIn(b, m)
           /\ LabelOf[Cell(b, m, i)] = Meant(b, m)[i]
           /\ \A c \in TableIn(b, m) : LabelOf[c] = Meant(b, m)[i] => c = Cell(b, m, i)
  <1>1. m["type"] \in Effects
    BY MemoryHolds
  <1> DEFINE T == TableIn(b, m)
             l == Meant(b, m)[i]
  <1>2. T \subseteq Settings
    BY <1>1, LabelsAssumption DEF TableIn
  <1>3. Carries(T, l)
    <2>1. CASE b \in FxBlocks
      BY <1>1, <2>1, LabelsAssumption DEF TableIn, Meant
    <2>2. CASE b \notin FxBlocks
      <3>1. l \in {SlidersOf[b][e][i] : e \in Effects}
        BY <1>1 DEF Meant
      <3>2. b \in Blocks \ FxBlocks
        BY <2>2
      <3> QED
        BY <2>2, <3>1, <3>2, LabelsAssumption DEF TableIn
    <2> QED
      BY <2>1, <2>2
  <1>4. \A c, d \in T : LabelOf[c] = LabelOf[d] => c = d
    BY <1>1, TablesAssumption DEF TableIn
  <1> HIDE DEF T, l
  <1>5. SettingIn(T, l) \in T /\ LabelOf[SettingIn(T, l)] = l
    BY <1>3 DEF Carries, SettingIn
  <1>6. \A c \in T : LabelOf[c] = l => c = SettingIn(T, l)
    BY <1>4, <1>5
  <1> QED
    BY <1>2, <1>5, <1>6 DEF T, l, Cell

\* What a block should show depends on its type and its settings.
LEMMA SameCells ==
    ASSUME NEW b, NEW m, NEW n, n["type"] = m["type"]
    PROVE  /\ Meant(b, n) = Meant(b, m) /\ TableIn(b, n) = TableIn(b, m)
           /\ \A i : Cell(b, n, i) = Cell(b, m, i)
           /\ \A name : NameRight(b, n, name) <=> NameRight(b, m, name)
  BY DEF Meant, TableIn, Cell, NameRight

LEMMA SameRight ==
    ASSUME NEW b \in Blocks, NEW m \in Memory, NEW n, n["type"] = m["type"],
           \A c \in Settings : n[c] = m[c], NEW i \in 1..2, NEW s, SliderRight(b, m, s, i)
    PROVE  SliderRight(b, n, s, i)
  <1>1. Meant(b, n) = Meant(b, m) /\ Cell(b, n, i) = Cell(b, m, i)
    BY SameCells
  <1>2. s # None => Meant(b, m)[i] # None
    BY DEF SliderRight, SliderShape
  <1>3. s # None => Cell(b, m, i) \in Settings
    BY <1>2, CellOf
  <1> QED
    BY <1>1, <1>3 DEF SliderRight

\* The sliders hold while what changes is announced.
LEMMA SameHold ==
    ASSUME NEW b \in Blocks, NEW m \in Memory, NEW n, n["type"] = m["type"],
           NEW s, NEW t, NEW u, NEW v, NEW sliders, SlidersHold(b, m, sliders, s, t),
           \A c \in Settings : Flying(s, t, b, c) \/ n[c] # m[c] => Flying(u, v, b, c)
    PROVE  SlidersHold(b, n, sliders, u, v)
  <1> SUFFICES ASSUME NEW i \in 1..2
               PROVE  /\ SliderShape(sliders[i], Meant(b, n)[i])
                      /\ sliders[i] # None =>
                            \/ Flying(u, v, b, Cell(b, n, i))
                            \/ Tells(sliders[i].value, n[Cell(b, n, i)])
    BY DEF SlidersHold
  <1>1. Meant(b, n) = Meant(b, m) /\ Cell(b, n, i) = Cell(b, m, i)
    BY SameCells
  <1>2. /\ SliderShape(sliders[i], Meant(b, m)[i])
        /\ sliders[i] # None =>
              \/ Flying(s, t, b, Cell(b, m, i))
              \/ Tells(sliders[i].value, m[Cell(b, m, i)])
    BY DEF SlidersHold
  <1>3. sliders[i] # None => Meant(b, m)[i] # None
    BY <1>2 DEF SliderShape
  <1>4. sliders[i] # None => Cell(b, m, i) \in Settings
    BY <1>3, CellOf
  <1> QED
    BY <1>1, <1>2, <1>4

\* Sliders that are right hold, whatever is under way.
LEMMA RightHolds ==
    ASSUME NEW b, NEW m, NEW sliders, SlidersRight(b, m, sliders), NEW s, NEW t
    PROVE  SlidersHold(b, m, sliders, s, t)
  BY DEF SlidersRight, SliderRight, SlidersHold

\* A step that leaves the entry of a settled block, and loses nothing under way of it
\* but what is to be read again.
LEMMA SettledKept ==
    ASSUME TypeInv, NEW b \in Blocks, Settled(b),
           known'[b] = known[b], fxName'[b] = fxName[b] \/ b \notin FxBlocks,
           \A w \in {"sw", "type"} :
              Flying(outbound, inbound, b, w) \/ mem'[b][w] # mem[b][w] =>
                 Flying(outbound', inbound', b, w),
           ~RereadDue(b)' =>
              /\ ~RereadDue(b) /\ mem'[b]["type"] = mem[b]["type"]
              /\ \A c \in Settings : Flying(outbound, inbound, b, c) \/ mem'[b][c] # mem[b][c] =>
                    Flying(outbound', inbound', b, c)
              /\ OfTable(b, mem[b], outbound', inbound')
    PROVE  Settled(b)'
  <1>1. mem[b] \in Memory
    BY DEF TypeInv, MemInv
  <1>2. known'[b] # NoEntry
    BY DEF Settled
  <1>3. \/ Flying(outbound', inbound', b, "sw")
        \/ Tells(known'[b].sw, mem'[b]["sw"])
    BY DEF Settled
  <1>4. \/ Flying(outbound', inbound', b, "type")
        \/ Tells(known'[b].name, mem'[b]["type"]) /\ NameRight(b, mem'[b], fxName'[b])
    <2>1. mem'[b]["type"] = mem[b]["type"] /\ NameRight(b, mem[b], fxName[b]) =>
             NameRight(b, mem'[b], fxName'[b])
      BY DEF NameRight
    <2> QED
      BY <2>1 DEF Settled
  <1>5. ASSUME ~RereadDue(b)'
        PROVE  /\ SlidersHold(b, mem'[b], known'[b].sliders, outbound', inbound')
               /\ OfTable(b, mem'[b], outbound', inbound')
    <2>1. SlidersHold(b, mem[b], known[b].sliders, outbound, inbound)
      BY <1>5 DEF Settled
    <2>2. SlidersHold(b, mem'[b], known[b].sliders, outbound', inbound')
      BY <1>1, <1>5, <2>1, SameHold
    <2>3. TableIn(b, mem'[b]) = TableIn(b, mem[b])
      BY <1>5, SameCells
    <2> QED
      BY <1>5, <2>2, <2>3 DEF OfTable
  <1> QED
    BY <1>2, <1>3, <1>4, <1>5 DEF Settled

\* A step of another thread that leaves what is being read.
LEMMA RecKept ==
    ASSUME TypeInv, RecRight, UNCHANGED <<pc, mode, todo, rec, labels, due>>,
           slot'.w = slot.w,
           pc # "idle" =>
              /\ fxName'[Cur] = fxName[Cur] \/ Cur \notin FxBlocks
              /\ mem'[Cur]["type"] = mem[Cur]["type"]
              /\ \A c \in Settings : mem'[Cur][c] = mem[Cur][c]
              /\ mode = "scan" => mem'[Cur]["sw"] = mem[Cur]["sw"]
    PROVE  RecRight'
  <1>1. CASE pc = "idle"
    BY <1>1 DEF RecRight
  <1>2. CASE pc # "idle"
    <2>1. Cur \in Blocks /\ mem[Cur] \in Memory /\ Cur' = Cur
      BY <1>2, SlotFor DEF TypeInv, MemInv, Cur
    <2> DEFINE b == Cur
               m == mem[b]
               n == mem'[b]
    <2>2. /\ n["type"] = m["type"] /\ \A c \in Settings : n[c] = m[c]
          /\ mode = "scan" => n["sw"] = m["sw"]
          /\ b \in Blocks /\ m \in Memory
          /\ fxName'[b] = fxName[b] \/ b \notin FxBlocks
      BY <1>2, <2>1
    <2> HIDE DEF b, m, n
    <2>3. /\ Meant(b, n) = Meant(b, m)
          /\ \A i : Cell(b, n, i) = Cell(b, m, i)
          /\ NameRight(b, m, fxName[b]) => NameRight(b, n, fxName'[b])
          /\ \A i \in 1..2 : \A s : SliderRight(b, m, s, i) => SliderRight(b, n, s, i)
      <3>1. NameRight(b, m, fxName[b]) => NameRight(b, n, fxName'[b])
        BY <2>2 DEF NameRight
      <3> QED
        BY <2>2, <3>1, SameCells, SameRight
    <2>4. Cur = b /\ Cur' = b /\ mem[b] = m /\ mem'[b] = n
      BY <2>1 DEF b, m, n
    <2>5. Turn' = Turn
      BY DEF Turn
    <2> QED
      BY <2>2, <2>3, <2>4, <2>5 DEF RecRight
  <1> QED
    BY <1>1, <1>2

\* The settings that the application finds under a name that is right.
LEMMA LiveCells ==
    ASSUME TypeInv, NEW b \in Blocks, NameRight(b, mem[b], fxName[b]),
           b \in FxBlocks => fxName[b] # None
    PROVE  LiveTable(b) = TableIn(b, mem[b])
  BY DEF NameRight, Tells, LiveTable, TableIn

LEMMA UnitCells == \A b : UnitTable(b) = TableIn(b, mem[b])
  BY DEF UnitTable, TableIn

\* What is under way outside a scan, by block.
LEMMA SettledFacts ==
    ASSUME TypeInv, ReaderInv, WiresInv, ~raced, ~ScanDue, NEW b \in Blocks
    PROVE  /\ Task(b) => At(outbound, b, "type") = {} /\ At(inbound, b, "type") = {}
           /\ ~RereadDue(b) => At(outbound, b, "type") = {} /\ At(inbound, b, "type") = {}
           /\ pc # "idle" => mode = "sliders" /\ Cur \in Blocks /\ Task(Cur) /\ RereadDue(Cur)
           /\ slot # NoRead => slot.b = Cur /\ slot.w \in Settings /\ pc # "idle"
  <1>1. Task(b) => Busy(b) /\ ~AtType(b)
    BY DEF Task, Busy, AtType, ScanDue, TypeInv, TaskInv
  <1>2. Task(b) => At(outbound, b, "type") = {} /\ At(inbound, b, "type") = {}
    BY <1>1, BusyClear, WhereType
  <1>3. ASSUME ~RereadDue(b), NEW i \in At(outbound, b, "type") PROVE FALSE
    <2>1. outbound[i].kind # "dt1" /\ i \in 1..Len(outbound) /\ outbound[i].w = "type"
      BY <1>3, RereadWhere DEF At, Where
    <2>2. outbound[i].kind = "rq1"
      BY <2>1, Messages
    <2>3. OfSlot(outbound[i])
      BY <2>1, <2>2 DEF WiresInv, ReadsOwn
    <2> QED
      BY <2>1, <2>3, Messages, SlotFor, Rereading DEF OfSlot
  <1>4. ~RereadDue(b) => At(inbound, b, "type") = {}
    BY RereadWhere
  <1>5. pc # "idle" => mode = "sliders" /\ Cur \in Blocks
    BY SlotFor DEF ScanDue, TypeInv, TaskInv
  <1>6. pc # "idle" => Task(Cur) /\ RereadDue(Cur)
    BY <1>5 DEF Task, RereadDue
  <1>7. slot # NoRead => slot.b = Cur /\ slot.w \in Settings /\ pc # "idle"
    BY Rereading, SlotFor
  <1> QED
    BY <1>2, <1>3, <1>4, <1>5, <1>6, <1>7

LEMMA SettledSame ==
    ASSUME NEW b \in Blocks, Settled(b), UNCHANGED <<mem, outbound, inbound>>,
           known'[b] = known[b], fxName'[b] = fxName[b] \/ b \notin FxBlocks,
           ~RereadDue(b)' => ~RereadDue(b)
    PROVE  Settled(b)'
  <1>1. NameRight(b, mem[b], fxName[b]) => NameRight(b, mem'[b], fxName'[b])
    BY DEF NameRight
  <1> QED
    BY <1>1 DEF Settled

LEMMA ShownInit == Init => ShownInv
  <1> SUFFICES ASSUME Init PROVE ShownInv
    OBVIOUS
  <1>1. /\ pc = "sw" /\ mode = "scan" /\ todo = ScanOrder /\ rec = Blank
        /\ out = [b \in Blocks |-> NoEntry]
    BY DEF Init
  <1>2. \A i \in 1..2 : rec.sliders[i] = None
    BY <1>1 DEF Blank
  <1>3. RecRight
    BY <1>1, <1>2 DEF RecRight
  <1>4. ScanRight /\ ScanDue
    BY <1>1, BlocksAssumption DEF ScanRight, Due, ScanDue
  <1> QED
    BY <1>3, <1>4 DEF ShownInv

-----------------------------------------------------------------------------
(* The reading thread.                                                        *)

\* The worker takes a task or skips one.
LEMMA ShownDispatch ==
    ASSUME TypeInv, ReaderInv, WiresInv, ShownInv, TakeFull \/ TakeSliders \/ SkipFull
    PROVE  ShownInv'
  <1>1. /\ pc = "idle" /\ queue # <<>> /\ queue' = Tail(queue) /\ rec' = Blank
        /\ UNCHANGED <<mem, outbound, inbound, known, fxName, out>>
    BY DEF TakeFull, TakeSliders, SkipFull, Dispatched, unitVars
  <1>2. queue \in Seq(Tasks) /\ Head(queue) \in Tasks /\ Head(queue) = queue[1]
        /\ 1 \in 1..Len(queue)
    BY <1>1, HeadTail DEF TypeInv, QueueInv
  <1>3. \A i \in 1..2 : rec'.sliders[i] = None
    BY <1>1 DEF Blank
  <1>4. CASE TakeFull
    <2>1. pc' = "sw" /\ mode' = "scan" /\ todo' = ScanOrder
      BY <1>4 DEF TakeFull
    <2>2. out' = [b \in Blocks |-> NoEntry]
      BY <1>1 DEF WiresInv, NoneAside
    <2>3. RecRight'
      BY <1>3, <2>1 DEF RecRight
    <2>4. ScanRight' /\ ScanDue'
      BY <2>1, <2>2, BlocksAssumption DEF ScanRight, Due, ScanDue
    <2> QED
      BY <2>3, <2>4 DEF ShownInv
  <1>5. CASE TakeSliders
    <2>1. /\ pc' = "params" /\ raced' = raced /\ mode' = "sliders"
          /\ todo' = <<Head(queue).b>> /\ Head(queue).kind = "sliders"
      BY <1>5 DEF TakeSliders
    <2> DEFINE a == Head(queue).b
    <2>2. Head(queue) = Sliders(a) /\ Cur' = a /\ Head(queue) # Full /\ a \in Blocks
      BY <1>2, <2>1 DEF Tasks, Full, Sliders, Cur
    <2> SUFFICES ASSUME ~raced PROVE ShownInv'
      BY <2>1 DEF ShownInv
    <2>3. ~ScanDue
      <3>1. ~On(inbound, ProgramChange)
        BY <1>1 DEF WiresInv, Announced
      <3>2. ~On(queue, Full)
        <4>1. Len(queue) = 1 /\ On(queue, Full) => Head(queue) = Full
          BY <1>1, <1>2 DEF On
        <4> QED
          BY <2>2, <4>1 DEF WiresInv, Queued
      <3> QED
        BY <1>1, <3>1, <3>2 DEF ScanDue
    <2>4. Settled(a) /\ Task(a)
      BY <1>2, <2>2, <2>3 DEF ShownInv, Task, On
    <2>5. NameRight(a, mem[a], fxName[a])
      BY <2>2, <2>3, <2>4, SettledFacts DEF Settled, Flying
    <2>6. RecRight'
      BY <1>1, <1>3, <2>1, <2>2, <2>5 DEF RecRight
    <2>7. ASSUME NEW b \in Blocks PROVE Settled(b)'
      <3>1. On(queue, Sliders(b)) => On(queue', Sliders(b)) \/ Sliders(b) = Head(queue)
        <4> SUFFICES ASSUME NEW i \in 1..Len(queue), queue[i] = Sliders(b), i # 1
                     PROVE  On(queue', Sliders(b))
          BY <1>2 DEF On
        <4>1. i - 1 \in 1..Len(queue') /\ (i - 1) + 1 = i
          <5>1. Len(queue') = Len(queue) - 1 /\ Len(queue) \in Nat
            BY <1>1, <1>2
          <5> QED
            BY <5>1
        <4>2. queue'[i - 1] = queue[i]
          BY <1>1, <1>2, <4>1, HeadTail
        <4> QED
          BY <4>1, <4>2 DEF On
      <3>2. Sliders(b) = Head(queue) => b = a
        BY DEF Sliders
      <3>3. RereadDue(b) => RereadDue(b)'
        BY <1>1, <2>1, <2>2, <3>1, <3>2 DEF RereadDue
      <3> QED
        BY <1>1, <2>3, <3>3, SettledSame DEF ShownInv
    <2> QED
      BY <2>1, <2>6, <2>7 DEF ShownInv, ScanRight
  <1>6. CASE SkipFull
    BY <1>6 DEF SkipFull, ShownInv
  <1> QED
    BY <1>4, <1>5, <1>6

\* The worker is stopped, ends, or is started.
LEMMA ShownWorker ==
    ASSUME TypeInv, ReaderInv, ShownInv, Exit \/ Stop \/ Start
    PROVE  ShownInv'
  <1>1. /\ UNCHANGED <<mem, outbound, inbound, queue, slot, mode, raced, known, fxName,
                       labels, due>>
        /\ \/ UNCHANGED <<pc, todo, rec, out>>
           \/ pc' = "idle" /\ (pc = "idle" \/ raced)
    BY DEF Exit, Stop, Start, unitVars, editVars, ReaderInv, TypeInv, TaskInv
  <1> SUFFICES ASSUME ~raced PROVE ShownInv'
    BY <1>1 DEF ShownInv
  <1>2. CASE UNCHANGED <<pc, todo, rec, out>>
    <2>1. RecRight'
      BY <1>1, <1>2 DEF ShownInv, RecRight, Cur, Turn
    <2>2. ScanRight'
      BY <1>1, <1>2 DEF ShownInv, ScanRight, Due
    <2>3. ASSUME ~ScanDue', NEW b \in Blocks PROVE Settled(b)'
      <3>1. ~ScanDue /\ (RereadDue(b) => RereadDue(b)')
        BY <1>1, <1>2, <2>3 DEF ScanDue, RereadDue, Cur
      <3> QED
        BY <1>1, <3>1, SettledSame DEF ShownInv
    <2> QED
      BY <2>1, <2>2, <2>3 DEF ShownInv
  <1>3. CASE pc' = "idle" /\ pc = "idle"
    <2>1. RecRight' /\ ScanRight'
      BY <1>3 DEF RecRight, ScanRight
    <2>2. ASSUME ~ScanDue', NEW b \in Blocks PROVE Settled(b)'
      <3>1. ~ScanDue /\ (RereadDue(b) => RereadDue(b)')
        BY <1>1, <1>3, <2>2 DEF ScanDue, RereadDue
      <3> QED
        BY <1>1, <3>1, SettledSame DEF ShownInv
    <2> QED
      BY <2>1, <2>2 DEF ShownInv
  <1> QED
    BY <1>1, <1>2, <1>3

\* The reader asks for what the unit's type says the label stands for.
LEMMA ShownRequest ==
    ASSUME TypeInv, ReaderInv, WiresInv, ShownInv, AskSwitch \/ AskType \/ AskValue
    PROVE  ShownInv'
  <1>1. /\ UNCHANGED <<mem, inbound, raced, known, fxName, queue, mode, todo, rec, labels,
                       due, out>>
        /\ pc # "idle" /\ pc' # "idle" /\ TypeInv'
        /\ \/ pc = "sw" /\ pc' = "swWait"
           \/ pc = "type" /\ pc' = "typeWait"
           \/ /\ AskValue /\ pc = "val" /\ pc' = "valWait"
              /\ slot'.w = SettingIn(LiveTable(Cur), labels[Turn])
              /\ outbound' = Append(outbound, Read(Cur, slot'.w))
    BY TypeRequest DEF AskSwitch, AskType, AskValue, Ask, NoRead, editVars
  <1> SUFFICES ASSUME ~raced PROVE ShownInv'
    BY <1>1 DEF ShownInv
  <1>2. Cur \in Blocks /\ Cur' = Cur /\ Turn' = Turn
    BY <1>1, SlotFor DEF Cur, Turn
  <1>3. RecRight'
    <2>1. CASE pc = "sw" /\ pc' = "swWait"
      BY <1>1, <1>2, <2>1 DEF ShownInv, RecRight
    <2>2. CASE pc = "type" /\ pc' = "typeWait"
      BY <1>1, <1>2, <2>2 DEF ShownInv, RecRight
    <2>3. CASE /\ pc = "val" /\ pc' = "valWait"
               /\ slot'.w = SettingIn(LiveTable(Cur), labels[Turn])
      <3>1. /\ NameRight(Cur, mem[Cur], fxName[Cur])
            /\ \A i \in due : labels[i] = Meant(Cur, mem[Cur])[i]
        BY <2>3, NamesAssumption DEF ShownInv, RecRight, TypeInv, RecInv
      <3>2. Turn \in due
        BY <2>3 DEF TypeInv, RecInv, Turn
      <3>3. Cur \in FxBlocks => fxName[Cur] # None
        BY <2>3, NamesAssumption DEF TypeInv, NameInv
      <3>4. slot'.w = Cell(Cur, mem[Cur], Turn)
        BY <1>2, <2>3, <3>1, <3>2, <3>3, LiveCells DEF Cell
      <3>5. RecRight
        BY DEF ShownInv
      <3> QED
        BY <1>1, <1>2, <2>3, <3>4, <3>5 DEF RecRight
    <2> QED
      BY <1>1, <2>1, <2>2, <2>3
  <1>4. ScanRight'
    BY <1>1 DEF ShownInv, ScanRight, Due
  <1>5. ASSUME ~ScanDue', NEW b \in Blocks PROVE Settled(b)'
    <2>1. ~ScanDue /\ mode = "sliders" /\ pc = "val" /\ pc' = "valWait"
      BY <1>1, <1>5 DEF ScanDue, TypeInv, TaskInv
    <2> DEFINE m == Read(Cur, slot'.w)
    <2>2. outbound' = Append(outbound, m)
      BY <1>1, <2>1
    <2>3. m \in Sent /\ m.b = Cur /\ m.w = slot'.w /\ m.w \in Settings /\ m.kind = "rq1"
      <3>1. slot'.w \in Settings
        BY <1>1, <2>1 DEF TypeInv, SlotInv
      <3> QED
        BY <1>2, <3>1 DEF Read, Sent, Whats
    <2> HIDE DEF m
    <2>4. outbound \in Seq(Sent)
      BY Messages
    <2>5. \A w : Added(outbound', outbound, m, b, {w})
      BY <2>2, <2>3, <2>4, WhereAppend
    <2>6. \A w : Flying(outbound, inbound, b, w) => Flying(outbound', inbound', b, w)
      BY <1>1, <2>5 DEF Added, At, Flying
    <2>7. RereadDue(b) => RereadDue(b)'
      <3>1. /\ At(outbound', b, "type") = At(outbound, b, "type")
            /\ \A i \in At(outbound, b, "type") : outbound'[i] = outbound[i]
        BY <2>3, <2>5, NamesAssumption DEF Added, At
      <3>2. Task(b) => Task(b)'
        BY <1>1, <1>2 DEF Task
      <3> QED
        BY <1>1, <3>1, <3>2, RereadWhere, RereadThen
    <2>8. ~RereadDue(b)' => OfTable(b, mem[b], outbound', inbound')
      <3>1. RereadDue(Cur)'
        BY <1>1, <1>2, <2>1 DEF RereadDue
      <3>2. CASE b = Cur
        BY <1>2, <3>1, <3>2
      <3>3. CASE b # Cur
        <4>1. Added(outbound', outbound, m, b, Settings)
          BY <2>2, <2>3, <2>4, WhereAppend
        <4>2. /\ SetAt(outbound', b) = SetAt(outbound, b)
              /\ \A i \in SetAt(outbound, b) : outbound'[i] = outbound[i]
          BY <2>3, <3>3, <4>1 DEF Added, SetAt
        <4> QED
          BY <1>1, <2>1, <2>7, <4>2 DEF ShownInv, Settled, OfTable
      <3> QED
        BY <3>2, <3>3
    <2>9. Settled(b)
      BY <2>1 DEF ShownInv
    <2> QED
      BY <1>1, <2>6, <2>7, <2>8, <2>9, SettledKept
  <1> QED
    BY <1>3, <1>4, <1>5 DEF ShownInv

\* What the reader gets is what the unit holds, or nothing when a reply went missing.
LEMMA ShownReply ==
    ASSUME TypeInv, WiresInv, ValuesInv, ShownInv, GotSwitch \/ GotType \/ GotValue
    PROVE  ShownInv'
  <1>1. /\ pc \in Waits /\ pc # "idle" /\ pc' # "idle" /\ slot # NoRead
        /\ UNCHANGED <<mem, outbound, inbound, raced, known, fxName, queue, mode, todo, labels,
                       out>>
        /\ slot.v = None => ~AnswerDue
    BY SlotFor DEF GotSwitch, GotType, GotValue, Got, Resolved, Waits, unitVars, editVars
  <1> SUFFICES ASSUME ~raced PROVE ShownInv'
    BY <1>1 DEF ShownInv
  <1>2. Cur \in Blocks /\ Cur' = Cur /\ slot.b = Cur
    BY <1>1, SlotFor DEF Cur
  <1>3. Tells(slot.v, mem[Cur][slot.w])
    <2>1. slot.v \in {None, mem[Cur][slot.w]}
      BY <1>1, <1>2 DEF ValuesInv, Replied
    <2>2. slot.v = None => Lossy
      BY <1>1, NoneLeft
    <2> QED
      BY <2>1, <2>2 DEF Tells
  <1>4. RecRight'
    <2>1. CASE GotSwitch
      <3>1. pc = "swWait" /\ pc' = "type" /\ rec' = [rec EXCEPT !.sw = slot.v] /\ slot.w = "sw"
        BY <2>1, <1>1, SlotFor DEF GotSwitch, Got
      <3>2. rec'.sw = slot.v /\ rec'.sliders = rec.sliders
        BY <3>1 DEF TypeInv, RecInv, Entry
      <3>3. \A i \in 1..2 : rec.sliders[i] = None
        BY <3>1 DEF ShownInv, RecRight
      <3> QED
        BY <1>1, <1>2, <1>3, <3>1, <3>2, <3>3 DEF RecRight
    <2>2. CASE GotType
      <3>1. /\ pc = "typeWait" /\ rec' = [rec EXCEPT !.name = slot.v] /\ slot.w = "type"
            /\ \/ pc' = "name"
               \/ pc' = "params" /\ Cur \notin FxBlocks
        BY <2>2, <1>1, SlotFor DEF GotType, Got
      <3>2. rec'.name = slot.v /\ rec'.sw = rec.sw /\ rec'.sliders = rec.sliders
        BY <3>1 DEF TypeInv, RecInv, Entry
      <3>3. /\ \A i \in 1..2 : rec.sliders[i] = None
            /\ mode = "scan" => Tells(rec.sw, mem[Cur]["sw"])
        BY <3>1 DEF ShownInv, RecRight
      <3> QED
        BY <1>1, <1>2, <1>3, <3>1, <3>2, <3>3 DEF RecRight, NameRight
    <2>3. CASE GotValue
      <3> DEFINE t == Turn
                 value == [label |-> labels[t], value |-> slot.v]
      <3>1. /\ pc = "valWait" /\ due' = due \ {t}
            /\ rec' = IF slot.v = None /\ Cur \in FxBlocks THEN rec
                      ELSE [rec EXCEPT !.sliders[t] = value]
            /\ pc' = IF due' = {} THEN "done" ELSE "range"
        BY <2>3 DEF GotValue, Got, Resolved
      <3>2. t \in due /\ due \subseteq {1, 2} /\ labels[t] # None
        BY <3>1 DEF TypeInv, RecInv, Turn
      <3>3. /\ mode = "scan" => Tells(rec.sw, mem[Cur]["sw"]) /\ Tells(rec.name, mem[Cur]["type"])
            /\ NameRight(Cur, mem[Cur], fxName[Cur])
            /\ \A i \in 1..2 :
                  IF i \in due
                  THEN rec.sliders[i] = None /\ labels[i] = Meant(Cur, mem[Cur])[i]
                  ELSE SliderRight(Cur, mem[Cur], rec.sliders[i], i)
            /\ slot.w = Cell(Cur, mem[Cur], t)
        BY <3>1 DEF ShownInv, RecRight
      <3>4. rec'.sw = rec.sw /\ rec'.name = rec.name
            /\ \A i \in 1..2 : i # t => rec'.sliders[i] = rec.sliders[i]
            /\ rec'.sliders[t] = IF slot.v = None /\ Cur \in FxBlocks THEN rec.sliders[t]
                                 ELSE value
        <4>1. rec \in Entry
          BY DEF TypeInv, RecInv
        <4> HIDE DEF value, t
        <4> QED
          BY <3>1, <3>2, <4>1 DEF Entry
      <3>5. value # None /\ value.label = labels[t] /\ value.value = slot.v
        <4>1. labels[t] \in Labels /\ slot.v \in Vals \cup {None}
          <5>1. slot \in Slots /\ slot.w \in Settings /\ t \in 1..2
            BY <1>1, <3>1, <3>2 DEF TypeInv, SlotInv
          <5>2. slot.v \in Vals \cup {None}
            BY <5>1, NamesAssumption DEF Slots, ValuesOf
          <5> QED
            BY <3>2, <5>1, <5>2 DEF TypeInv, RecInv, Pairs
        <4>2. value \in [label : Labels, value : Vals \cup {None}]
          BY <4>1
        <4> QED
          BY <4>2, NamesAssumption
      <3> HIDE DEF value
      <3>6. SliderRight(Cur, mem[Cur], rec'.sliders[t], t)
        <4>1. CASE slot.v = None /\ Cur \in FxBlocks
          <5>1. rec'.sliders[t] = None /\ Lossy
            BY <1>1, <3>2, <3>3, <3>4, <4>1, NoneLeft
          <5> QED
            BY <5>1 DEF SliderRight, SliderShape
        <4>2. CASE ~(slot.v = None /\ Cur \in FxBlocks)
          <5>1. rec'.sliders[t] = value /\ labels[t] = Meant(Cur, mem[Cur])[t]
            BY <3>2, <3>3, <3>4, <4>2
          <5> QED
            BY <1>3, <3>2, <3>3, <3>5, <5>1 DEF SliderRight, SliderShape
        <4> QED
          BY <4>1, <4>2
      <3> HIDE DEF t
      <3>7. \A i \in 1..2 :
               IF i \in due'
               THEN rec'.sliders[i] = None /\ labels[i] = Meant(Cur, mem[Cur])[i]
               ELSE SliderRight(Cur, mem[Cur], rec'.sliders[i], i)
        BY <3>1, <3>2, <3>3, <3>4, <3>6
      <3> QED
        BY <1>1, <1>2, <3>1, <3>3, <3>4, <3>7 DEF RecRight
    <2> QED
      BY <2>1, <2>2, <2>3
  <1>5. ScanRight'
    BY <1>1 DEF ShownInv, ScanRight, Due
  <1>6. ASSUME ~ScanDue', NEW b \in Blocks PROVE Settled(b)'
    <2>1. ~ScanDue /\ (RereadDue(b) => RereadDue(b)')
      BY <1>1, <1>2, <1>6 DEF ScanDue, RereadDue
    <2> QED
      BY <1>1, <2>1, SettledSame DEF ShownInv
  <1> QED
    BY <1>1, <1>4, <1>5, <1>6 DEF ShownInv

\* The name of an fx block is recorded as it was read.
LEMMA ShownName ==
    ASSUME TypeInv, ShownInv, RecordName
    PROVE  ShownInv'
  <1>1. /\ UNCHANGED <<mem, outbound, inbound, raced, known, queue, mode, todo, rec, out>>
        /\ pc = "name" /\ pc' = "params" /\ fxName' = [fxName EXCEPT ![Cur] = rec.name]
    BY DEF RecordName, Names, unitVars, editVars
  <1>2. Cur \in Blocks /\ Cur' = Cur /\ mode = "scan"
    BY <1>1, SlotFor DEF Cur, TypeInv, TaskInv
  <1> SUFFICES ASSUME ~raced PROVE ShownInv'
    BY <1>1 DEF ShownInv
  <1>3. /\ Tells(rec.sw, mem[Cur]["sw"]) /\ Tells(rec.name, mem[Cur]["type"])
        /\ \A i \in 1..2 : rec.sliders[i] = None
    BY <1>1, <1>2 DEF ShownInv, RecRight
  <1>4. \A b \in Blocks : /\ NameRight(b, mem[b], fxName[b]) => NameRight(b, mem[b], fxName'[b])
                          /\ b = Cur => NameRight(b, mem[b], fxName'[b])
    BY <1>1, <1>3 DEF NameRight, TypeInv, KnownInv
  <1>5. RecRight'
    BY <1>1, <1>2, <1>3, <1>4 DEF RecRight
  <1>6. \A b \in Blocks : \A entry :
           EntryRight(b, mem[b], entry, fxName[b]) => EntryRight(b, mem[b], entry, fxName'[b])
    BY <1>4 DEF EntryRight
  <1>7. ScanRight'
    BY <1>1, <1>2, <1>6 DEF ShownInv, ScanRight, Due
  <1> QED
    BY <1>1, <1>2, <1>5, <1>7 DEF ShownInv, ScanDue

\* The labels are those of the unit's type.
LEMMA ShownPick ==
    ASSUME FixedSliders, TypeInv, ShownInv, PickParams
    PROVE  ShownInv'
  <1>1. /\ UNCHANGED <<mem, outbound, inbound, raced, known, fxName, queue, mode, todo, rec,
                       out>>
        /\ pc = "params" /\ pc' \in {"dead", "done", "range"}
    BY DEF PickParams, unitVars, editVars
  <1>2. Cur \in Blocks /\ Cur' = Cur /\ mem[Cur] \in Memory
    BY <1>1, SlotFor DEF Cur, TypeInv, MemInv
  <1> SUFFICES ASSUME ~raced PROVE ShownInv'
    BY <1>1 DEF ShownInv
  <1>3. /\ NameRight(Cur, mem[Cur], fxName[Cur])
        /\ \A i \in 1..2 : rec.sliders[i] = None
        /\ mode = "scan" => Tells(rec.sw, mem[Cur]["sw"]) /\ Tells(rec.name, mem[Cur]["type"])
    BY <1>1 DEF ShownInv, RecRight
  <1> DEFINE e == mem[Cur]["type"]
             name == NameOf(Cur)
             picked == SliderLabels(Cur, name)
  <1>4. e \in Effects /\ e # None
    BY <1>2, MemoryHolds, NamesAssumption
  <1>5. picked = Meant(Cur, mem[Cur]) \/ (Lossy /\ \A i \in 1..2 : picked[i] = None)
    <2>1. CASE Cur \in FxBlocks
      <3>1. name = e \/ (Lossy /\ name = None)
        BY <1>3, <2>1 DEF NameRight, Tells, NameOf
      <3>2. SlidersUnnamed[Cur] = <<None, None>>
        BY <2>1, LabelsAssumption
      <3> HIDE DEF name
      <3>3. CASE name = e
        BY <1>4, <3>3 DEF SliderLabels, Meant
      <3>4. CASE Lossy /\ name = None
        BY <3>2, <3>4 DEF SliderLabels
      <3> QED
        BY <3>1, <3>3, <3>4
    <2>2. CASE Cur \notin FxBlocks
      <3>1. name \in Effects \cup {None}
        BY <2>2 DEF NameOf, TypeInv, RecInv, Entry
      <3>2. SlidersOf[Cur][e] = SlidersUnnamed[Cur]
            /\ (name \in Effects => SlidersOf[Cur][name] = SlidersUnnamed[Cur])
        BY <1>2, <1>4, <2>2 DEF FixedSliders
      <3> QED
        BY <3>1, <3>2 DEF SliderLabels, Meant
    <2> QED
      BY <2>1, <2>2
  <1>6. RecRight'
    <2>1. CASE pc' = "dead"
      BY <1>1, <1>2, <1>3, <2>1 DEF RecRight
    <2>2. CASE pc' # "dead"
      <3>1. /\ labels' = picked /\ due' = {i \in {1, 2} : labels'[i] # None}
            /\ pc' = IF due' = {} THEN "done" ELSE "range"
        BY <2>2 DEF PickParams
      <3>2. \A i \in 1..2 :
               IF i \in due'
               THEN rec.sliders[i] = None /\ labels'[i] = Meant(Cur, mem[Cur])[i]
               ELSE SliderRight(Cur, mem[Cur], rec.sliders[i], i)
        <4> HIDE DEF picked
        <4> TAKE i \in 1..2
        <4>1. i \in due' <=> labels'[i] # None
          BY <3>1
        <4> QED
          BY <1>3, <1>5, <3>1, <4>1 DEF SliderRight, SliderShape
      <3> QED
        BY <1>1, <1>2, <1>3, <3>1, <3>2 DEF RecRight
    <2> QED
      BY <2>1, <2>2
  <1>7. ScanRight'
    BY <1>1 DEF ShownInv, ScanRight, Due
  <1>8. ASSUME ~ScanDue', NEW b \in Blocks PROVE Settled(b)'
    <2>1. ~ScanDue /\ (RereadDue(b) => RereadDue(b)')
      BY <1>1, <1>2, <1>8 DEF ScanDue, RereadDue
    <2> QED
      BY <1>1, <2>1, SettledSame DEF ShownInv
  <1> QED
    BY <1>1, <1>6, <1>7, <1>8 DEF ShownInv

\* The label is found: no slider is left out for want of an address.
LEMMA ShownRange ==
    ASSUME TypeInv, ReaderInv, ShownInv, ReadRange \/ NoAddress
    PROVE  ShownInv'
  <1>1. /\ UNCHANGED <<mem, outbound, inbound, raced, known, fxName, queue, mode, todo, rec,
                       labels, slot, out>>
        /\ pc \in {"range", "val"} /\ pc' # "idle"
    BY DEF ReadRange, NoAddress, Resolved, unitVars, editVars
  <1>2. Cur' = Cur
    BY <1>1 DEF Cur
  <1> SUFFICES ASSUME ~raced PROVE ShownInv'
    BY <1>1 DEF ShownInv
  <1>3. InTable(Cur)
    <2>1. Turn \in due
      BY <1>1 DEF TypeInv, RecInv, Turn
    <2> QED
      BY <1>1, <2>1 DEF ReaderInv, Found, InTable
  <1>4. pc = "range" /\ pc' = "val" /\ due' = due
    BY <1>3 DEF ReadRange, NoAddress
  <1>5. RecRight'
    BY <1>1, <1>2, <1>4 DEF ShownInv, RecRight
  <1>6. ScanRight'
    BY <1>1, <1>4 DEF ShownInv, ScanRight, Due
  <1>7. ASSUME ~ScanDue', NEW b \in Blocks PROVE Settled(b)'
    <2>1. ~ScanDue /\ (RereadDue(b) => RereadDue(b)')
      BY <1>1, <1>2, <1>4, <1>7 DEF ScanDue, RereadDue
    <2> QED
      BY <1>1, <2>1, SettledSame DEF ShownInv
  <1> QED
    BY <1>1, <1>5, <1>6, <1>7 DEF ShownInv

\* A block of a scan is complete: at the end of the scan every entry is right.
LEMMA ShownNext ==
    ASSUME TypeInv, WiresInv, ShownInv, NextBlock
    PROVE  ShownInv'
  <1> DEFINE read == [out EXCEPT ![Cur] = rec]
  <1>1. /\ pc = "done" /\ mode = "scan" /\ mode' = "scan" /\ slot = NoRead
        /\ UNCHANGED <<mem, outbound, inbound, fxName, queue>>
        /\ ~raced' => ~raced /\ (CutShort => Len(todo) = 1)
        /\ todo' = IF CutShort THEN <<>> ELSE Tail(todo)
        /\ IF LastOfType
           THEN /\ known' = [b \in Blocks |-> IF read[b] # NoEntry THEN read[b] ELSE known[b]]
                /\ out' = [b \in Blocks |-> NoEntry]
           ELSE out' = read /\ known' = known
        /\ rec' = Blank /\ pc' = IF todo' = <<>> THEN "idle" ELSE "sw"
    BY SlotFor DEF NextBlock, unitVars, TypeInv, CountInv, Waits
  <1> SUFFICES ASSUME ~raced' PROVE ShownInv'
    BY DEF ShownInv
  <1>2. Cur \in Blocks /\ Cur = todo[1] /\ todo \in Seq(Blocks) /\ todo # <<>>
    BY <1>1, SlotFor, HeadTail DEF TypeInv, TaskInv, Cur
  <1>3. out \in [Blocks -> Entry \cup {NoEntry}] /\ rec \in Entry /\ rec # NoEntry
    BY NamesAssumption DEF TypeInv, KnownInv, RecInv
  <1>4. \A b \in Blocks : read[b] = IF b = Cur THEN rec ELSE out[b]
    BY <1>2, <1>3
  <1>5. EntryRight(Cur, mem[Cur], rec, fxName[Cur])
    <2>1. /\ Tells(rec.sw, mem[Cur]["sw"]) /\ Tells(rec.name, mem[Cur]["type"])
          /\ NameRight(Cur, mem[Cur], fxName[Cur]) /\ due = {}
          /\ \A i \in 1..2 : i \notin due => SliderRight(Cur, mem[Cur], rec.sliders[i], i)
      BY <1>1 DEF ShownInv, RecRight
    <2> QED
      BY <1>3, <2>1 DEF EntryRight, SlidersRight
  <1>6. \A b \in Blocks : read[b] # NoEntry => EntryRight(b, mem[b], read[b], fxName[b])
    BY <1>1, <1>4, <1>5 DEF ShownInv, ScanRight
  <1>7. \A b \in Blocks : \/ b # Cur /\ Due(b)
                          \/ read[b] # NoEntry
                          \/ EntryRight(b, mem[b], known[b], fxName[b])
    BY <1>1, <1>3, <1>4 DEF ShownInv, ScanRight
  <1> HIDE DEF read
  <1>8. \A b \in Blocks : b # Cur /\ Due(b) => \E i \in 1..Len(Tail(todo)) : Tail(todo)[i] = b
    <2> SUFFICES ASSUME NEW b \in Blocks, b # Cur, NEW i \in 1..Len(todo), todo[i] = b
                 PROVE  \E k \in 1..Len(Tail(todo)) : Tail(todo)[k] = b
      BY DEF Due
    <2>1. i # 1
      BY <1>2
    <2>2. i - 1 \in 1..Len(Tail(todo)) /\ (i - 1) + 1 = i
      <3>1. Len(Tail(todo)) = Len(todo) - 1 /\ Len(todo) \in Nat
        BY <1>2
      <3> QED
        BY <2>1, <3>1
    <2>3. Tail(todo)[i - 1] = todo[i]
      BY <1>2, <2>2, HeadTail
    <2> QED
      BY <2>2, <2>3
  <1>9. RecRight'
    <2>1. \A i \in 1..2 : rec'.sliders[i] = None
      BY <1>1 DEF Blank
    <2> QED
      BY <1>1, <2>1 DEF RecRight
  <1>10. ASSUME NEW b \in Blocks
         PROVE  /\ out'[b] # NoEntry => EntryRight(b, mem[b], out'[b], fxName[b])
                /\ \/ \E i \in 1..Len(Tail(todo)) : Tail(todo)[i] = b
                   \/ out'[b] # NoEntry
                   \/ EntryRight(b, mem[b], known'[b], fxName[b])
    <2>1. CASE LastOfType
      <3>1. known'[b] = (IF read[b] # NoEntry THEN read[b] ELSE known[b]) /\ out'[b] = NoEntry
        BY <1>1, <2>1
      <3> QED
        BY <1>6, <1>7, <1>8, <3>1
    <2>2. CASE ~LastOfType
      <3>1. known' = known /\ out' = read
        BY <1>1, <2>2
      <3> QED
        BY <1>6, <1>7, <1>8, <3>1
    <2> QED
      BY <2>1, <2>2
  <1>11. CASE todo' # <<>>
    <2>1. todo' = Tail(todo) /\ pc' = "sw"
      BY <1>1, <1>11
    <2>2. \A b \in Blocks : Due(b)' <=> \E i \in 1..Len(Tail(todo)) : Tail(todo)[i] = b
      BY <2>1 DEF Due
    <2>3. ScanRight'
      BY <1>1, <1>10, <2>2 DEF ScanRight
    <2> QED
      BY <1>1, <1>9, <2>1, <2>3 DEF ShownInv, ScanDue
  <1>12. CASE todo' = <<>>
    <2>1. pc' = "idle" /\ Len(todo) = 1
      <3>1. CutShort \/ Tail(todo) = <<>>
        BY <1>1, <1>12
      <3> QED
        BY <1>1, <1>2, <1>12, <3>1, LastLeft
    <2>2. LastOfType /\ out' = [b \in Blocks |-> NoEntry]
      BY <1>1, <2>1 DEF LastOfType
    <2>3. \A i \in 1..Len(Tail(todo)) : FALSE
      <3>1. Len(Tail(todo)) = Len(todo) - 1
        BY <1>2
      <3> DEFINE n == Len(Tail(todo))
                 l == Len(todo)
      <3>2. n = l - 1 /\ l = 1
        BY <2>1, <3>1
      <3> HIDE DEF n, l
      <3>3. \A i \in 1..n : FALSE
        BY <3>2
      <3> QED
        BY <3>3 DEF n
    <2>4. \A b \in Blocks : EntryRight(b, mem[b], known'[b], fxName[b])
      BY <1>10, <2>2, <2>3
    <2>5. outbound = <<>> /\ inbound = <<>>
      <3>1. \A i \in 1..Len(outbound) : FALSE
        BY <1>1, Messages, SlotFor DEF WiresInv, Scanning
      <3>2. \A i \in 1..Len(inbound) : FALSE
        BY <1>1, Messages, SlotFor DEF WiresInv, Scanning, On
      <3>3. outbound \in Seq(Sent) /\ inbound \in Seq(Heard)
        BY Messages
      <3>4. outbound = <<>>
        BY <3>1, <3>3
      <3>5. inbound = <<>>
        BY <3>2, <3>3
      <3> QED
        BY <3>4, <3>5
    <2>6. ASSUME NEW b \in Blocks PROVE Settled(b)'
      <3>1. EntryRight(b, mem[b], known'[b], fxName[b])
        BY <2>4
      <3>2. SlidersHold(b, mem[b], known'[b].sliders, outbound, inbound)
        BY <3>1, RightHolds DEF EntryRight
      <3>3. SetAt(outbound, b) = {} /\ SetAt(inbound, b) = {}
        BY <2>5, Empty
      <3>4. OfTable(b, mem[b], outbound, inbound)
        BY <3>3 DEF OfTable
      <3> QED
        BY <1>1, <3>1, <3>2, <3>4 DEF Settled, EntryRight
    <2> QED
      BY <1>9, <2>1, <2>6 DEF ShownInv, ScanRight
  <1> QED
    BY <1>11, <1>12

\* The sliders of a block are installed, and nothing is left of their reads.
LEMMA ShownSet ==
    ASSUME TypeInv, WiresInv, ShownInv, SetSliders
    PROVE  ShownInv'
  <1>1. /\ pc = "done" /\ mode = "sliders" /\ pc' = "idle" /\ slot = NoRead
        /\ UNCHANGED <<mem, outbound, inbound, raced, fxName, queue, mode, slot>>
        /\ known' = [known EXCEPT ![Cur].sliders = rec.sliders]
    BY SlotFor DEF SetSliders, unitVars, editVars, Waits
  <1> SUFFICES ASSUME ~raced PROVE ShownInv'
    BY <1>1 DEF ShownInv
  <1>2. Cur \in Blocks /\ ~ScanDue /\ Ready
    BY <1>1, SlotFor DEF TypeInv, TaskInv, WiresInv, Announced, Queued, ScanDue
  <1>3. RecRight' /\ ScanRight'
    BY <1>1 DEF RecRight, ScanRight
  <1>4. ASSUME NEW b \in Blocks, b # Cur PROVE Settled(b)'
    <2>1. known'[b] = known[b] /\ (RereadDue(b) => RereadDue(b)')
      BY <1>1, <1>2, <1>4 DEF RereadDue, TypeInv, KnownInv
    <2> QED
      BY <1>1, <1>2, <2>1, SettledSame DEF ShownInv
  <1>5. Settled(Cur) /\ Task(Cur)
    BY <1>1, <1>2 DEF ShownInv, Task
  <1>6. PICK a \in Blocks : a = Cur
    BY <1>2
  <1>7. /\ known'[a] # NoEntry /\ known'[a].sw = known[a].sw /\ known'[a].name = known[a].name
        /\ known'[a].sliders = rec.sliders
    <2>1. known[a] \in Entry /\ rec \in Entry /\ known'[a] = [known[a] EXCEPT !.sliders = rec.sliders]
      BY <1>1, <1>2, <1>6 DEF Ready, TypeInv, KnownInv, RecInv
    <2>2. known'[a] \in Entry
      BY <2>1 DEF Entry
    <2> QED
      BY <2>1, <2>2, NamesAssumption DEF Entry
  <1>8. SlidersHold(a, mem[a], rec.sliders, outbound, inbound)
    <2>1. SlidersRight(a, mem[a], rec.sliders)
      BY <1>1, <1>6 DEF ShownInv, RecRight, SlidersRight
    <2> QED
      BY <2>1, RightHolds
  <1>9. OfTable(a, mem[a], outbound, inbound)
    <2>1. Awaited(a)
      BY <1>2, <1>6 DEF WiresInv
    <2>2. SetAt(outbound, a) = {}
      <3>1. ASSUME NEW i \in SetAt(outbound, a) PROVE FALSE
        <4>1. OfSlot(outbound[i]) /\ outbound[i].b \in Blocks
          BY <1>2, <1>5, <1>6, <2>1, <3>1 DEF Awaited, SetAt, Where
        <4> QED
          BY <1>1, <4>1, SlotFor
      <3> QED
        BY <3>1
    <2>3. SetAt(inbound, a) = {}
      <3>1. ASSUME NEW i \in SetAt(inbound, a) PROVE FALSE
        <4>1. OfSlot(inbound[i]) /\ inbound[i].b \in Blocks
          BY <1>2, <1>5, <1>6, <2>1, <3>1 DEF Awaited, SetAt, Where
        <4> QED
          BY <1>1, <4>1, SlotFor
      <3> QED
        BY <3>1
    <2> QED
      BY <2>2, <2>3 DEF OfTable
  <1>10. Settled(a)'
    <2>1. Settled(a)
      BY <1>5, <1>6
    <2> QED
      BY <1>1, <1>7, <1>8, <1>9, <2>1 DEF Settled
  <1>11. ASSUME NEW b \in Blocks PROVE Settled(b)'
    <2>1. CASE b = a
      BY <1>10, <2>1
    <2>2. CASE b # a
      BY <1>4, <1>6, <2>2
    <2> QED
      BY <2>1, <2>2
  <1> QED
    BY <1>3, <1>11 DEF ShownInv

-----------------------------------------------------------------------------
(* The inbound thread.                                                        *)

\* A frame taken off the wire leaves what is under way of other cells.
LEMMA InboundTaken ==
    ASSUME TypeInv, inbound # <<>>, inbound' = Tail(inbound), outbound' = outbound,
           NEW b \in Blocks
    PROVE  /\ \A w : \/ inbound[1].b = b /\ inbound[1].w = w
                     \/ Flying(outbound, inbound, b, w) => Flying(outbound', inbound', b, w)
           /\ \A m : OfTable(b, m, outbound, inbound) => OfTable(b, m, outbound', inbound')
           /\ \A m : On(inbound, m) => m = inbound[1] \/ On(inbound', m)
           /\ \A m : On(inbound', m) => On(inbound, m)
  <1>1. \A ws : Taken(inbound', inbound, b, ws)
    BY Messages, WhereTail
  <1>2. ASSUME NEW w, ~(inbound[1].b = b /\ inbound[1].w = w), At(inbound, b, w) # {}
        PROVE  At(inbound', b, w) # {}
    <2>1. Taken(inbound', inbound, b, {w})
      BY <1>1
    <2>2. PICK i : i \in Where(inbound, b, {w})
      BY <1>2 DEF At
    <2>3. 1 \notin Where(inbound, b, {w})
      BY <1>2, <2>1 DEF Taken
    <2>4. i - 1 \in Where(inbound', b, {w})
      BY <2>1, <2>2, <2>3 DEF Taken
    <2> QED
      BY <2>4 DEF At
  <1>3. ASSUME NEW m, OfTable(b, m, outbound, inbound)
        PROVE  OfTable(b, m, outbound', inbound')
    <2>1. Taken(inbound', inbound, b, Settings)
      BY <1>1
    <2>2. \A i \in SetAt(inbound', b) : i + 1 \in SetAt(inbound, b) /\ inbound'[i] = inbound[i + 1]
      BY <2>1 DEF Taken, SetAt
    <2> QED
      BY <1>3, <2>2 DEF OfTable
  <1>4. ASSUME NEW m, On(inbound, m), m # inbound[1] PROVE On(inbound', m)
    <2>1. PICK i \in 1..Len(inbound) : inbound[i] = m
      BY <1>4 DEF On
    <2>2. i - 1 \in 1..Len(inbound') /\ (i - 1) + 1 = i
      <3>1. Len(inbound') = Len(inbound) - 1 /\ Len(inbound) \in Nat /\ i # 1
        BY <1>4, <2>1, Messages
      <3> QED
        BY <3>1
    <2>3. inbound'[i - 1] = m
      BY <2>1, <2>2, Messages, HeadTail
    <2> QED
      BY <2>2, <2>3 DEF On
  <1>5. \A m : On(inbound', m) => On(inbound, m)
    BY Messages, OnTail
  <1> QED
    BY <1>2, <1>3, <1>4, <1>5 DEF Flying

\* What a wire or the queue gains is on it.
LEMMA OnAdded ==
    ASSUME NEW S, NEW s \in Seq(S), NEW x \in S
    PROVE  On(Append(s, x), x) /\ \A m : On(s, m) => On(Append(s, x), m)
  <1>1. /\ Len(Append(s, x)) = Len(s) + 1 /\ Len(s) \in Nat
        /\ Append(s, x)[Len(s) + 1] = x
        /\ \A i \in 1..Len(s) : Append(s, x)[i] = s[i]
    OBVIOUS
  <1>2. Len(s) + 1 \in 1..Len(Append(s, x)) /\ \A i \in 1..Len(s) : i \in 1..Len(Append(s, x))
    BY <1>1
  <1> QED
    BY <1>1, <1>2 DEF On

\* The reply in hand is set aside: only the read of a setting has one outside a scan.
LEMMA ShownCorrelate ==
    ASSUME TypeInv, ReaderInv, WiresInv, ShownInv, Correlate
    PROVE  ShownInv'
  <1>1. /\ inbound # <<>> /\ inbound' = Tail(inbound) /\ slot'.w = slot.w
        /\ inbound[1].kind = "data" /\ OfSlot(inbound[1])
        /\ UNCHANGED <<mem, outbound, raced, known, fxName, queue, pc, mode, todo, rec, labels,
                       due, out>>
    <2>1. Head(inbound) = inbound[1]
      BY Messages, HeadTail DEF Correlate
    <2>2. slot'.w = slot.w
      BY DEF Correlate, TypeInv, SlotInv, Slots, NoRead
    <2> QED
      BY <2>1, <2>2 DEF Correlate, TakenAsReply, OfSlot, editVars
  <1> SUFFICES ASSUME ~raced PROVE ShownInv'
    BY <1>1 DEF ShownInv
  <1>2. RecRight'
    BY <1>1, RecKept DEF ShownInv
  <1>3. ScanRight'
    BY <1>1 DEF ShownInv, ScanRight, Due
  <1>4. ASSUME ~ScanDue', NEW b \in Blocks PROVE Settled(b)'
    <2>1. inbound[1] # ProgramChange
      BY <1>1 DEF ProgramChange
    <2>2. ~ScanDue
      BY <1>1, <1>4, <2>1, InboundTaken DEF ScanDue
    <2>3. /\ slot # NoRead /\ slot.b = Cur /\ slot.w \in Settings
          /\ pc # "idle" /\ mode = "sliders"
      <3>1. slot # NoRead
        <4>1. inbound[1].b \in Blocks
          BY <1>1, <2>1, Messages, HeadTail
        <4> QED
          BY <1>1, <4>1, SlotFor
      <3> QED
        BY <2>2, <3>1, SettledFacts
    <2>4. RereadDue(Cur)'
      BY <1>1, <2>3 DEF RereadDue, Cur
    <2>5. slot.w # "sw" /\ slot.w # "type" /\ inbound[1].w = slot.w /\ inbound[1].b = Cur
      BY <1>1, <2>3, NamesAssumption DEF OfSlot
    <2>6. ~RereadDue(b)' => b # Cur
      BY <1>1, <2>4 DEF RereadDue, Cur
    <2>7. RereadDue(b) => RereadDue(b)'
      <3>1. \A e : Frame(b, "type", e).w = "type"
        BY DEF Frame
      <3> QED
        BY <1>1, <2>5, <3>1, InboundTaken DEF RereadDue, Cur
    <2>8. /\ \A w : w # slot.w \/ b # Cur =>
                (Flying(outbound, inbound, b, w) => Flying(outbound', inbound', b, w))
          /\ OfTable(b, mem[b], outbound, inbound) => OfTable(b, mem[b], outbound', inbound')
      BY <1>1, <2>5, InboundTaken
    <2>9. Settled(b) /\ (~RereadDue(b) => OfTable(b, mem[b], outbound, inbound))
      BY <2>2 DEF ShownInv, Settled
    <2> QED
      BY <1>1, <2>5, <2>6, <2>7, <2>8, <2>9, SettledKept
  <1> QED
    BY <1>1, <1>2, <1>3, <1>4 DEF ShownInv

\* A program change puts a scan in the queue, of everything.
LEMMA ShownProgramChange ==
    ASSUME TypeInv, WiresInv, ShownInv, ProcessProgramChange
    PROVE  ShownInv'
  <1>1. /\ UNCHANGED <<raced, pc>> /\ queue' = Append(queue, Full)
        /\ On(inbound, ProgramChange)
    <2>1. On(inbound, Head(inbound)) /\ Head(inbound) \in Heard /\ Head(inbound).kind = "program"
      BY Messages, HeadTail, OnTail DEF ProcessProgramChange
    <2>2. Head(inbound) = ProgramChange
      BY <2>1 DEF Heard
    <2> QED
      BY <2>1, <2>2 DEF ProcessProgramChange, Scheduled, editVars, readVars
  <1> SUFFICES ASSUME ~raced PROVE ShownInv'
    BY <1>1 DEF ShownInv
  <1>2. pc' = "idle"
    BY <1>1 DEF WiresInv, Announced
  <1>3. ScanDue'
    <2>1. On(queue', Full)
      BY <1>1, Messages, OnAdded DEF Tasks
    <2> QED
      BY <2>1 DEF ScanDue
  <1> QED
    BY <1>2, <1>3 DEF ShownInv, RecRight, ScanRight

\* A frame is refused only before a scan has ended.
LEMMA ShownRefuse ==
    ASSUME TypeInv, ShownInv, Refuse
    PROVE  ShownInv'
  <1>1. /\ inbound # <<>> /\ inbound' = Tail(inbound) /\ Head(inbound).kind = "data" /\ ~Ready
        /\ UNCHANGED <<mem, outbound, raced, known, fxName, queue, pc, mode, todo, rec, labels,
                       due, out, slot>>
    BY DEF Refuse, editVars, readVars
  <1> SUFFICES ASSUME ~raced PROVE ShownInv'
    BY <1>1 DEF ShownInv
  <1>2. RecRight'
    BY <1>1, RecKept DEF ShownInv
  <1>3. ScanRight'
    BY <1>1 DEF ShownInv, ScanRight, Due
  <1>4. ScanDue'
    <2>1. ScanDue
      BY <1>1 DEF ShownInv, Settled, Ready
    <2>2. Head(inbound) = inbound[1] /\ inbound[1] # ProgramChange
      BY <1>1, Messages, HeadTail DEF ProgramChange
    <2>3. PICK b \in Blocks : TRUE
      BY BlocksAssumption
    <2>4. On(inbound, ProgramChange) => On(inbound', ProgramChange)
      BY <1>1, <2>2, InboundTaken
    <2> QED
      BY <1>1, <2>1, <2>4 DEF ScanDue
  <1> QED
    BY <1>2, <1>3, <1>4 DEF ShownInv

\* What applying a frame does to the sliders of an entry: the frame is for one that shows
\* its cell, if the settings under way are of the block's table.
LEMMA AppliedHold ==
    ASSUME NEW b \in Blocks, NEW m \in Memory, NEW entry \in Entry, NEW f, NEW s, NEW t, NEW u,
           f.w \in Settings, f.w \in TableIn(b, m), f.v \in Vals,
           SlidersHold(b, m, entry.sliders, s, t),
           \A w : w = f.w \/ (Flying(s, t, b, w) => Flying(s, u, b, w)),
           Flying(s, u, b, f.w) \/ m[f.w] = f.v
    PROVE  SlidersHold(b, m, Applied(entry, f).sliders, s, u)
  <1> DEFINE new == Applied(entry, f).sliders
             l == LabelOf[f.w]
  <1>1. new = [i \in 1..2 |->
                  IF entry.sliders[i] # None /\ entry.sliders[i].label = l
                  THEN [entry.sliders[i] EXCEPT !.value = f.v] ELSE entry.sliders[i]]
    BY NamesAssumption DEF Applied, Entry
  <1> SUFFICES ASSUME NEW i \in 1..2
               PROVE  /\ SliderShape(new[i], Meant(b, m)[i])
                      /\ new[i] # None =>
                            \/ Flying(s, u, b, Cell(b, m, i))
                            \/ Tells(new[i].value, m[Cell(b, m, i)])
    BY DEF SlidersHold
  <1>2. /\ SliderShape(entry.sliders[i], Meant(b, m)[i])
        /\ entry.sliders[i] # None =>
              \/ Flying(s, t, b, Cell(b, m, i))
              \/ Tells(entry.sliders[i].value, m[Cell(b, m, i)])
    BY DEF SlidersHold
  <1>3. CASE entry.sliders[i] = None
    <2>1. new[i] = None
      BY <1>1, <1>3
    <2> QED
      BY <1>2, <1>3, <2>1
  <1>4. CASE entry.sliders[i] # None
    <2> DEFINE old == entry.sliders[i]
    <2>1. old \in [label : Labels, value : Vals \cup {None}] /\ old.label = Meant(b, m)[i]
          /\ Meant(b, m)[i] # None
      BY <1>2, <1>4 DEF Entry, SliderShape
    <2>2. CASE old.label = l
      <3>1. f.w = Cell(b, m, i)
        <4>1. LabelOf[f.w] = Meant(b, m)[i] /\ Meant(b, m)[i] # None
          BY <2>1, <2>2
        <4> HIDE DEF old, new, l
        <4> QED
          BY <4>1, CellOf
      <3>2. new[i] = [old EXCEPT !.value = f.v]
        BY <1>1, <1>4, <2>2
      <3>3. new[i].label = old.label /\ new[i].value = f.v
            /\ new[i] \in [label : Labels, value : Vals \cup {None}]
        <4> HIDE DEF old, new
        <4> QED
          BY <2>1, <3>2
      <3>4. new[i] # None
        BY <3>3, NamesAssumption
      <3> HIDE DEF new
      <3> QED
        BY <2>1, <3>1, <3>3, <3>4 DEF SliderShape, Tells
    <2>3. CASE old.label # l
      <3>1. Cell(b, m, i) # f.w
        BY <2>1, <2>3, CellOf
      <3>2. new[i] = old
        BY <1>1, <2>3
      <3> QED
        BY <1>2, <3>1, <3>2
    <2> QED
      BY <2>2, <2>3
  <1> QED
    BY <1>3, <1>4

\* A frame is applied: what it says is what the unit holds, or another follows.
LEMMA ShownApply ==
    ASSUME TypeInv, ReaderInv, WiresInv, ValuesInv, ShownInv, Apply
    PROVE  ShownInv'
  <1>1. PICK f \in Heard :
           /\ f = inbound[1] /\ f.kind = "data" /\ 1 \in 1..Len(inbound)
           /\ inbound # <<>> /\ inbound' = Tail(inbound) /\ ~(slot.b = f.b /\ slot.w = f.w)
           /\ known' = [known EXCEPT ![f.b] = Applied(@, f)]
           /\ fxName' = IF f.w = "type" /\ f.b \in FxBlocks
                        THEN [fxName EXCEPT ![f.b] = f.v] ELSE fxName
           /\ queue' = Scheduled(f) /\ Ready
           /\ UNCHANGED <<mem, outbound, raced, slot, pc, mode, todo, rec, labels, due, out>>
    <2>1. inbound # <<>> /\ Head(inbound) \in Heard /\ Head(inbound) = inbound[1]
          /\ 1 \in 1..Len(inbound)
      BY Messages, HeadTail DEF Apply
    <2> QED
      BY <2>1 DEF Apply, TakenAsReply, editVars, readVars
  <1>2. f.b \in Blocks /\ f.w \in Whats /\ f.v \in ValuesOf(f.w) /\ f # ProgramChange
    BY <1>1 DEF Heard, ProgramChange
  <1> SUFFICES ASSUME ~raced PROVE ShownInv'
    BY <1>1 DEF ShownInv
  <1>3. pc # "idle" => mode = "sliders" /\ ~ScanDue
    <2>1. pc # "idle" => mode # "scan"
      BY <1>1 DEF WiresInv, Scanning, OfSlot
    <2> QED
      BY <2>1 DEF TypeInv, TaskInv, WiresInv, Announced, Queued, ScanDue
  <1>4. pc # "idle" /\ f.w = "type" => f.b # Cur
    <2>1. f.w = "type" => 1 \in At(inbound, f.b, "type")
      BY <1>1 DEF At, Where
    <2> SUFFICES ASSUME pc # "idle", f.w = "type", f.b = Cur PROVE FALSE
      OBVIOUS
    <2>2. f.b \in Blocks /\ ~ScanDue
      BY <1>2, <1>3
    <2>3. Task(f.b)
      BY <1>3 DEF Task
    <2> QED
      BY <2>1, <2>2, <2>3, SettledFacts
  <1>5. RecRight'
    <2>1. pc # "idle" => fxName'[Cur] = fxName[Cur]
      BY <1>1, <1>4 DEF TypeInv, KnownInv
    <2> QED
      BY <1>1, <2>1, RecKept DEF ShownInv
  <1>6. ScanRight'
    BY <1>1, <1>3 DEF ScanRight
  <1>7. ASSUME ~ScanDue' PROVE \A b \in Blocks : Settled(b)'
    <2>1. queue' = queue \/ queue' = Append(queue, Sliders(f.b))
      BY <1>1 DEF Scheduled
    <2>2. Sliders(f.b) \in Tasks /\ queue \in Seq(Tasks)
      BY <1>2, Messages DEF Tasks
    <2>3. /\ On(Append(queue, Sliders(f.b)), Sliders(f.b))
          /\ \A m : On(queue, m) => On(Append(queue, Sliders(f.b)), m)
      BY <2>2, OnAdded
    <2>4. \A m : On(queue, m) => On(queue', m)
      BY <2>1, <2>3
    <2>5. f.w = "type" => On(queue', Sliders(f.b))
      BY <1>1, <2>3 DEF Scheduled
    <2>6. ~ScanDue /\ ~On(inbound, ProgramChange)
      BY <1>1, <1>2, <1>7, <2>4, InboundTaken DEF ScanDue
    <2>7. ASSUME NEW b \in Blocks PROVE RereadDue(b) => RereadDue(b)'
      <3>1. \A e : Frame(b, "type", e) = f => On(queue', Sliders(b))
        BY <2>5 DEF Frame
      <3> QED
        BY <1>1, <2>4, <2>7, <3>1, InboundTaken DEF RereadDue, Cur
    <2>8. ASSUME NEW b \in Blocks, b # f.b PROVE Settled(b)'
      <3>1. known'[b] = known[b] /\ (fxName'[b] = fxName[b] \/ b \notin FxBlocks)
        BY <1>1, <2>8 DEF TypeInv, KnownInv
      <3>2. \A w : Flying(outbound, inbound, b, w) => Flying(outbound', inbound', b, w)
        BY <1>1, <2>8, InboundTaken
      <3>3. OfTable(b, mem[b], outbound, inbound) => OfTable(b, mem[b], outbound', inbound')
        BY <1>1, InboundTaken
      <3> QED
        BY <1>1, <2>6, <2>7, <2>8, <3>1, <3>2, <3>3, SettledKept DEF ShownInv, Settled
    <2>9. Settled(f.b)'
      <3>1. PICK b \in Blocks : b = f.b
        BY <1>2
      <3>2. Settled(b) /\ known[b] \in Entry /\ known'[b] = Applied(known[b], f)
            /\ mem[b] \in Memory
        BY <1>1, <2>6, <3>1 DEF ShownInv, Settled, TypeInv, KnownInv, MemInv
      <3>3. known'[b] \in Entry /\ known'[b] # NoEntry
        BY <1>1, <3>2, AppliedType, NamesAssumption
      <3>4. /\ \A w : w = f.w \/
                  (Flying(outbound, inbound, b, w) => Flying(outbound', inbound', b, w))
            /\ \A m : OfTable(b, m, outbound, inbound) => OfTable(b, m, outbound', inbound')
        BY <1>1, <3>1, InboundTaken
      <3>5. \/ Flying(outbound', inbound', b, f.w)
            \/ mem[b][f.w] = f.v
        <4>1. LastIs(inbound, b, f.w, mem[b][f.w])
          BY <1>2, <2>6 DEF ValuesInv, Echoed
        <4>2. At(inbound', b, f.w) = {} => inbound[1].v = mem[b][f.w]
          BY <1>1, <3>1, <4>1, Messages, LastTail
        <4> QED
          BY <1>1, <4>2 DEF Flying
      <3>6. CASE f.w = "sw"
        <4>1. known'[b] = [known[b] EXCEPT !.sw = f.v] /\ fxName' = fxName
          BY <1>1, <3>2, <3>6 DEF Applied
        <4>2. /\ known'[b].sw = f.v /\ known'[b].name = known[b].name
              /\ known'[b].sliders = known[b].sliders
          BY <3>2, <4>1 DEF Entry
        <4>3. ~RereadDue(b)' =>
                 /\ SlidersHold(b, mem[b], known[b].sliders, outbound', inbound')
                 /\ OfTable(b, mem[b], outbound', inbound')
          <5> SUFFICES ASSUME ~RereadDue(b)'
                       PROVE  SlidersHold(b, mem[b], known[b].sliders, outbound', inbound')
                              /\ OfTable(b, mem[b], outbound', inbound')
            OBVIOUS
          <5>1. /\ SlidersHold(b, mem[b], known[b].sliders, outbound, inbound)
                /\ OfTable(b, mem[b], outbound, inbound)
            BY <2>7, <3>2 DEF Settled
          <5>2. \A c \in Settings : c # f.w
            BY <3>6, NamesAssumption
          <5> QED
            BY <3>2, <3>4, <5>1, <5>2, SameHold
        <4> QED
          BY <1>1, <3>1, <3>2, <3>3, <3>4, <3>5, <3>6, <4>1, <4>2, <4>3 DEF Settled, Tells
      <3>7. CASE f.w = "type"
        <4>1. known'[b] = [known[b] EXCEPT !.name = f.v] /\ RereadDue(b)'
          BY <2>5, <3>1, <3>2, <3>7 DEF Applied, RereadDue
        <4>2. known'[b].name = f.v /\ known'[b].sw = known[b].sw
          BY <3>2, <4>1 DEF Entry
        <4>3. b \in FxBlocks => fxName'[b] = f.v
          BY <1>1, <3>1, <3>7 DEF TypeInv, KnownInv
        <4> QED
          BY <1>1, <3>1, <3>2, <3>3, <3>4, <3>5, <3>7, <4>1, <4>2, <4>3
             DEF Settled, Tells, NameRight
      <3>8. CASE f.w \in Settings
        <4>1. f.w # "sw" /\ f.w # "type" /\ fxName' = fxName /\ f.v \in Vals
          BY <1>1, <1>2, <3>8, NamesAssumption DEF ValuesOf
        <4>2. known'[b].sw = known[b].sw /\ known'[b].name = known[b].name
          BY <3>2, <4>1 DEF Applied, Entry
        <4>3. ~RereadDue(b)' =>
                 /\ SlidersHold(b, mem[b], known'[b].sliders, outbound', inbound')
                 /\ OfTable(b, mem[b], outbound', inbound')
          <5> SUFFICES ASSUME ~RereadDue(b)'
                       PROVE  SlidersHold(b, mem[b], known'[b].sliders, outbound', inbound')
                              /\ OfTable(b, mem[b], outbound', inbound')
            OBVIOUS
          <5>1. /\ SlidersHold(b, mem[b], known[b].sliders, outbound, inbound)
                /\ OfTable(b, mem[b], outbound, inbound)
            BY <2>7, <3>2 DEF Settled
          <5>2. f.w \in TableIn(b, mem[b])
            <6>1. 1 \in SetAt(inbound, b)
              BY <1>1, <3>1, <3>8 DEF SetAt, Where
            <6> QED
              BY <1>1, <5>1, <6>1 DEF OfTable
          <5> QED
            BY <1>1, <3>2, <3>4, <3>5, <3>8, <4>1, <5>1, <5>2, AppliedHold
        <4> QED
          BY <1>1, <3>1, <3>2, <3>3, <3>4, <4>1, <4>2, <4>3 DEF Settled
      <3> QED
        BY <1>2, <3>6, <3>7, <3>8 DEF Whats
    <2> QED
      BY <2>8, <2>9
  <1> QED
    BY <1>5, <1>6, <1>7 DEF ShownInv

-----------------------------------------------------------------------------
(* Edits.                                                                     *)

\* A wire gains a message, which is for a setting of the table.
LEMMA TableGains ==
    ASSUME NEW S, NEW s \in Seq(S), NEW m \in S, NEW b, NEW T,
           m.b = b /\ m.w \in Settings => m.w \in T,
           \A i \in SetAt(s, b) : s[i].w \in T
    PROVE  \A i \in SetAt(Append(s, m), b) : Append(s, m)[i].w \in T
  <1> DEFINE t == Append(s, m)
  <1>1. Added(t, s, m, b, Settings)
    BY WhereAppend
  <1> HIDE DEF t
  <1>2. \A i \in SetAt(t, b) : t[i].w \in T
    BY <1>1 DEF Added, SetAt
  <1> QED
    BY <1>2 DEF t

\* An edit of a cell that nothing reads: its announcement or its write is under way.
LEMMA ShownAdded ==
    ASSUME TypeInv, ReaderInv, WiresInv, ShownInv, TypeInv', ~raced,
           NEW a \in Blocks, NEW w \in Whats, Calm(a, w), NEW m, m.b = a, m.w = w,
           \/ m \in Sent /\ m.kind = "dt1" /\ inbound' = inbound
              /\ outbound' = Append(outbound, m)
           \/ m \in Heard /\ m.kind = "data" /\ outbound' = outbound
              /\ inbound' = Append(inbound, m),
           \A b \in Blocks : \A u \in Whats : mem'[b][u] # mem[b][u] => b = a /\ u = w,
           w \in Settings => w \in TableIn(a, mem[a]),
           UNCHANGED <<known, fxName, queue, readVars>>
    PROVE  ShownInv'
  <1>1. UNCHANGED <<slot, pc, mode, todo, rec, labels, due, out>>
    BY DEF readVars
  <1>2. ~ScanDue /\ (w # "sw" => ~RereadDue(a))
    BY DEF Calm
  <1>3. "sw" \in Whats /\ "type" \in Whats /\ Settings \subseteq Whats
        /\ "sw" \notin Settings /\ "type" \notin Settings
    BY NamesAssumption DEF Whats
  <1>4. pc # "idle" => mode = "sliders" /\ Cur \in Blocks /\ (a = Cur => w = "sw")
    BY <1>2, SettledFacts
  <1>5. RecRight'
    <2>1. ASSUME pc # "idle"
          PROVE  /\ mem'[Cur]["type"] = mem[Cur]["type"]
                 /\ \A c \in Settings : mem'[Cur][c] = mem[Cur][c]
                 /\ mode # "scan"
      <3>1. PICK b \in Blocks : b = Cur
        BY <1>4, <2>1
      <3>2. b = a => w = "sw"
        BY <1>4, <2>1, <3>1
      <3>3. mem'[b]["type"] = mem[b]["type"] /\ \A c \in Settings : mem'[b][c] = mem[b][c]
        BY <1>3, <3>2
      <3> QED
        BY <1>4, <2>1, <3>1, <3>3
    <2> QED
      BY <1>1, <2>1, RecKept DEF ShownInv
  <1>6. ScanRight'
    BY <1>1, <1>4 DEF ScanRight
  <1>7. ASSUME NEW b \in Blocks PROVE Settled(b)'
    <2> DEFINE T == TableIn(b, mem[b])
    <2>1. m.b = b /\ m.w \in Settings => m.w \in T
      OBVIOUS
    <2>2. outbound \in Seq(Sent) /\ inbound \in Seq(Heard)
      BY Messages
    <2> HIDE DEF T
    <2>3. /\ \A u : At(outbound, b, u) # {} => At(outbound', b, u) # {}
          /\ \A u : At(inbound, b, u) # {} => At(inbound', b, u) # {}
          /\ b = a => At(outbound', b, w) # {} \/ At(inbound', b, w) # {}
          /\ (\A i \in SetAt(outbound, b) : outbound[i].w \in T) =>
                 \A i \in SetAt(outbound', b) : outbound'[i].w \in T
          /\ (\A i \in SetAt(inbound, b) : inbound[i].w \in T) =>
                 \A i \in SetAt(inbound', b) : inbound'[i].w \in T
          /\ b = a => \/ At(inbound', b, w) # {}
                      \/ \E i \in At(outbound', b, w) : outbound'[i].kind = "dt1"
          /\ \A i \in At(outbound, b, "type") :
                i \in At(outbound', b, "type") /\ outbound'[i].kind = outbound[i].kind
      <3>1. CASE /\ m \in Sent /\ m.kind = "dt1" /\ inbound' = inbound
                 /\ outbound' = Append(outbound, m)
        <4>1. \A u : Added(outbound', outbound, m, b, {u})
          BY <2>2, <3>1, WhereAppend
        <4>2. \A u : /\ At(outbound', b, u) =
                           At(outbound, b, u) \cup (IF m.b = b /\ m.w = u THEN {Len(outbound) + 1} ELSE {})
                     /\ outbound'[Len(outbound) + 1] = m
                     /\ \A i \in At(outbound, b, u) : outbound'[i] = outbound[i]
          BY <4>1 DEF Added, At
        <4>3. /\ \A u : At(outbound, b, u) # {} => At(outbound', b, u) # {}
              /\ b = a => \E i \in At(outbound', b, w) : outbound'[i] = m
              /\ \A i \in At(outbound, b, "type") :
                    i \in At(outbound', b, "type") /\ outbound'[i] = outbound[i]
          BY <4>2
        <4>4. b = a => \E i \in At(outbound', b, w) : outbound'[i].kind = "dt1"
          BY <3>1, <4>3
        <4>5. b = a => At(outbound', b, w) # {}
          BY <4>3
        <4>6. (\A i \in SetAt(outbound, b) : outbound[i].w \in T) =>
                 \A i \in SetAt(outbound', b) : outbound'[i].w \in T
          BY <2>1, <2>2, <3>1, TableGains
        <4> QED
          BY <3>1, <4>3, <4>4, <4>5, <4>6
      <3>2. CASE /\ m \in Heard /\ outbound' = outbound
                 /\ inbound' = Append(inbound, m)
        <4>1. \A u : Added(inbound', inbound, m, b, {u})
          BY <2>2, <3>2, WhereAppend
        <4>2. \A u : /\ At(inbound', b, u) =
                           At(inbound, b, u) \cup (IF m.b = b /\ m.w = u THEN {Len(inbound) + 1} ELSE {})
                     /\ inbound'[Len(inbound) + 1] = m
                     /\ \A i \in At(inbound, b, u) : inbound'[i] = inbound[i]
          BY <4>1 DEF Added, At
        <4>3. /\ \A u : At(inbound, b, u) # {} => At(inbound', b, u) # {}
              /\ b = a => \E i \in At(inbound', b, w) : inbound'[i] = m
          BY <4>2
        <4>4. (\A i \in SetAt(inbound, b) : inbound[i].w \in T) =>
                 \A i \in SetAt(inbound', b) : inbound'[i].w \in T
          BY <2>1, <2>2, <3>2, TableGains
        <4> QED
          BY <3>2, <4>3, <4>4
      <3> QED
        BY <3>1, <3>2
    <2>4. Task(b) => Task(b)'
      BY <1>1 DEF Task, Cur
    <2>5. RereadDue(b) => RereadDue(b)'
      BY <2>3, <2>4, RereadWhere, RereadThen
    <2>6. b = a /\ w = "type" => RereadDue(b)'
      BY <2>3, RereadThen
    <2>7. \A u \in Whats :
             Flying(outbound, inbound, b, u) \/ mem'[b][u] # mem[b][u] =>
                Flying(outbound', inbound', b, u)
      BY <2>3 DEF Flying
    <2>8. OfTable(b, mem[b], outbound, inbound) => OfTable(b, mem[b], outbound', inbound')
      BY <2>3 DEF OfTable, T
    <2>9. Settled(b) /\ (~RereadDue(b) => OfTable(b, mem[b], outbound, inbound))
      BY <1>2 DEF ShownInv, Settled
    <2>10. ~RereadDue(b)' => mem'[b]["type"] = mem[b]["type"]
      BY <1>3, <2>6
    <2>11. known'[b] = known[b] /\ fxName'[b] = fxName[b]
      OBVIOUS
    <2>12. \A c \in {"sw", "type"} :
              Flying(outbound, inbound, b, c) \/ mem'[b][c] # mem[b][c] =>
                 Flying(outbound', inbound', b, c)
      BY <1>3, <2>7
    <2>13. \A c \in Settings :
              Flying(outbound, inbound, b, c) \/ mem'[b][c] # mem[b][c] =>
                 Flying(outbound', inbound', b, c)
      BY <1>3, <2>7
    <2> QED
      BY <2>5, <2>8, <2>9, <2>10, <2>11, <2>12, <2>13, SettledKept
  <1> QED
    BY <1>5, <1>6, <1>7 DEF ShownInv

\* The setting an application writes is one of the effect the block has.
LEMMA WrittenCell ==
    ASSUME TypeInv, ReaderInv, WiresInv, ShownInv, ~raced, ~ScanDue,
           NEW a \in Blocks, NEW l, ~RereadDue(a), Carries(LiveTable(a), l),
           a \in FxBlocks => fxName[a] # None
    PROVE  SettingIn(LiveTable(a), l) \in TableIn(a, mem[a])
  <1>1. Settled(a) /\ ~Flying(outbound, inbound, a, "type")
    BY SettledFacts DEF ShownInv, Flying
  <1>2. NameRight(a, mem[a], fxName[a])
    BY <1>1 DEF Settled
  <1>3. LiveTable(a) = TableIn(a, mem[a])
    BY <1>2, LiveCells
  <1>4. SettingIn(LiveTable(a), l) \in LiveTable(a)
    BY DEF Carries, SettingIn
  <1> QED
    BY <1>3, <1>4

LEMMA ShownEdit ==
    ASSUME TypeInv, ReaderInv, WiresInv, ShownInv, NEW a \in Blocks, Edit(a)
    PROVE  ShownInv'
  <1> SUFFICES ASSUME ~raced' PROVE ShownInv'
    BY DEF ShownInv
  <1>1. TypeInv'
    BY TypeEdit
  <1>2. \A calm : CountEdit(calm) => ~raced /\ calm
    BY DEF CountEdit, TypeInv, CountInv
  <1>3. /\ \A e \in Effects : e \in ValuesOf("type")
        /\ \A v \in Switch : v \in ValuesOf("sw")
        /\ "sw" \in Whats /\ "type" \in Whats /\ Settings \subseteq Whats
        /\ "sw" \notin Settings /\ "type" \notin Settings
    BY NamesAssumption DEF ValuesOf, Whats
  <1>4. \A w \in Whats : \A v \in ValuesOf(w) : Write(a, w, v) \in Sent
    BY DEF Write, Sent, Values, ValuesOf
  <1>5. \A w \in Whats : \A v \in ValuesOf(w) : Frame(a, w, v) \in Heard
    BY DEF Frame, Heard, Values, ValuesOf
  <1>6. ASSUME NEW w \in Whats, NEW v \in ValuesOf(w), PanelEdit(a, w, v)
        PROVE  ShownInv'
    <2>1. ~raced /\ Calm(a, w)
      BY <1>2, <1>6 DEF PanelEdit
    <2>2. /\ mem' = [mem EXCEPT ![a][w] = v] /\ inbound' = Append(inbound, Frame(a, w, v))
          /\ UNCHANGED <<outbound, known, fxName, queue, readVars>>
          /\ w \in Settings => w \in UnitTable(a)
      BY <1>6 DEF PanelEdit
    <2>3. \A b \in Blocks : \A u \in Whats : mem'[b][u] # mem[b][u] => b = a /\ u = w
      BY <2>2 DEF TypeInv, MemInv, Memory
    <2>4. w \in Settings => w \in TableIn(a, mem[a])
      BY <2>2, UnitCells
    <2> DEFINE m == Frame(a, w, v)
    <2>5. m \in Heard /\ m.b = a /\ m.w = w /\ m.kind = "data"
      BY <1>5 DEF Frame
    <2>6. inbound' = Append(inbound, m)
      BY <2>2
    <2> HIDE DEF m
    <2> QED
      BY <1>1, <2>1, <2>2, <2>3, <2>4, <2>5, <2>6, ShownAdded
  <1>7. ASSUME NEW w \in Whats, NEW v \in ValuesOf(w), CountEdit(Calm(a, w)),
               outbound' = Append(outbound, Write(a, w, v)),
               UNCHANGED <<mem, inbound, known, fxName, queue, readVars>>,
               w \in Settings /\ ~raced /\ Calm(a, w) => w \in TableIn(a, mem[a])
        PROVE  ShownInv'
    <2>1. ~raced /\ Calm(a, w)
      BY <1>2, <1>7
    <2> DEFINE m == Write(a, w, v)
    <2>2. m \in Sent /\ m.b = a /\ m.w = w /\ m.kind = "dt1"
      BY <1>4 DEF Write
    <2>3. outbound' = Append(outbound, m) /\ inbound' = inbound
      BY <1>7
    <2>4. \A b \in Blocks : \A u \in Whats : mem'[b][u] = mem[b][u]
      BY <1>7
    <2> HIDE DEF m
    <2> QED
      BY <1>1, <1>7, <2>1, <2>2, <2>3, <2>4, ShownAdded
  <1>8. ASSUME NEW v \in Switch, Toggle(a, v) PROVE ShownInv'
    BY <1>3, <1>7, <1>8 DEF Toggle
  <1>9. ASSUME NEW e \in Effects, SetType(a, e) PROVE ShownInv'
    BY <1>3, <1>7, <1>9 DEF SetType
  <1>10. ASSUME NEW i \in 1..2, NEW v \in Vals, SetValue(a, i, v) PROVE ShownInv'
    <2> DEFINE l == known[a].sliders[i].label
               w == SettingIn(LiveTable(a), l)
    <2>1. w \in Settings
      BY <1>10, ValueSetting
    <2>2. /\ CountEdit(Calm(a, w)) /\ outbound' = Append(outbound, Write(a, w, v))
          /\ Carries(LiveTable(a), l) /\ (a \in FxBlocks => fxName[a] # None)
          /\ UNCHANGED <<mem, inbound, known, fxName, queue, readVars>>
      BY <1>10 DEF SetValue
    <2>3. w \in Whats /\ v \in ValuesOf(w) /\ w # "sw"
      BY <1>3, <2>1 DEF ValuesOf
    <2>4. ~raced /\ Calm(a, w) => w \in TableIn(a, mem[a])
      <3>1. Calm(a, w) => ~ScanDue /\ ~RereadDue(a)
        BY <2>3 DEF Calm
      <3> QED
        BY <2>2, <3>1, WrittenCell
    <2> HIDE DEF w
    <2> QED
      BY <1>7, <2>2, <2>3, <2>4
  <1> QED
    BY <1>6, <1>8, <1>9, <1>10 DEF Edit

\* Another patch: a scan is due.
LEMMA ShownProgram ==
    ASSUME TypeInv, WiresInv, ShownInv, ChangeProgram
    PROVE  ShownInv'
  <1> SUFFICES ASSUME ~raced' PROVE ShownInv'
    BY DEF ShownInv
  <1>1. pc' = "idle"
    BY ProgramCalm DEF ChangeProgram, readVars
  <1>2. ScanDue'
    <2>1. inbound' = Append(inbound, ProgramChange) /\ inbound \in Seq(Heard)
      BY Messages DEF ChangeProgram
    <2>2. On(inbound', ProgramChange)
      BY <2>1, OnAdded DEF Heard
    <2> QED
      BY <2>2 DEF ScanDue
  <1> QED
    BY <1>1, <1>2 DEF ShownInv, RecRight, ScanRight

\* What a toggle records is what the unit holds once it has served the write.
LEMMA ShownToggle ==
    ASSUME TypeInv, WiresInv, ValuesInv, ShownInv, RecordToggle
    PROVE  ShownInv'
  <1>1. /\ toggling # NoRead
        /\ UNCHANGED <<mem, outbound, inbound, raced, fxName, queue, slot, pc, mode, todo, rec,
                       labels, due, out>>
        /\ known' = IF known[toggling.b] = NoEntry THEN known
                    ELSE [known EXCEPT ![toggling.b].sw = toggling.v]
    BY DEF RecordToggle, unitVars, editVars, readVars
  <1> SUFFICES ASSUME ~raced PROVE ShownInv'
    BY <1>1 DEF ShownInv
  <1>2. ~ScanDue
    BY <1>1 DEF WiresInv, Scanning, Announced, Queued, ScanDue
  <1>3. RecRight'
    BY <1>1, RecKept DEF ShownInv
  <1>4. ScanRight'
    BY <1>1, <1>2 DEF ScanRight, ScanDue
  <1>5. PICK a \in Blocks : a = toggling.b
    BY <1>1 DEF TypeInv, CountInv
  <1>6. \A b \in Blocks : RereadDue(b)' <=> RereadDue(b)
    BY <1>1 DEF RereadDue, Cur
  <1>7. ASSUME NEW b \in Blocks, b # a PROVE Settled(b)'
    <2>1. known'[b] = known[b]
      BY <1>1, <1>5, <1>7 DEF TypeInv, KnownInv
    <2> QED
      BY <1>1, <1>2, <1>6, <1>7, <2>1, SettledSame DEF ShownInv
  <1>8. Settled(a)'
    <2>1. Settled(a) /\ known[a] \in Entry
      BY <1>2 DEF ShownInv, Settled, TypeInv, KnownInv
    <2>2. known'[a] = [known[a] EXCEPT !.sw = toggling.v] /\ toggling.v \in Switch
      BY <1>1, <1>5, <2>1 DEF Settled, TypeInv, KnownInv, CountInv
    <2>3. /\ known'[a].sw = toggling.v /\ known'[a].name = known[a].name
          /\ known'[a].sliders = known[a].sliders /\ known'[a] \in Entry
      BY <2>1, <2>2 DEF Entry
    <2>4. known'[a] # NoEntry
      BY <2>3, NamesAssumption
    <2>5. Flying(outbound, inbound, a, "sw") \/ toggling.v = mem[a]["sw"]
      BY <1>1, <1>5 DEF ValuesInv, Promised, Flying
    <2> QED
      BY <1>1, <1>6, <2>1, <2>3, <2>4, <2>5 DEF Settled, Tells
  <1>9. \A b \in Blocks : Settled(b)'
    BY <1>7, <1>8
  <1> QED
    BY <1>3, <1>4, <1>9 DEF ShownInv

-----------------------------------------------------------------------------
(* The unit.                                                                  *)

\* The unit changes nothing that is being read.
LEMMA ServedNotRead ==
    ASSUME TypeInv, ReaderInv, WiresInv, ~raced, Serve \/ LoseRequest, pc # "idle"
    PROVE  /\ mode = "scan" => mem' = mem
           /\ mem'[Cur]["type"] = mem[Cur]["type"]
           /\ \A c \in Settings : mem'[Cur][c] = mem[Cur][c]
  <1> DEFINE m == Head(outbound)
  <1>1. /\ m = outbound[1] /\ 1 \in 1..Len(outbound) /\ m \in Sent
        /\ m.b \in Blocks /\ m.w \in Whats /\ m.kind \in {"rq1", "dt1"}
    BY ServeMoves, Messages
  <1>2. m.kind = "rq1" => mem' = mem
    BY ServeMoves
  <1>3. m.kind = "dt1" => mem' = [mem EXCEPT ![m.b][m.w] = m.v]
    BY DEF Serve, LoseRequest
  <1> HIDE DEF m
  <1>4. CASE mode = "scan"
    <2>1. OfSlot(m)
      BY <1>1, <1>4 DEF WiresInv, Scanning
    <2>2. slot # NoRead
      BY <1>1, <2>1, SlotFor
    <2>3. 1 \in At(outbound, slot.b, slot.w)
      BY <1>1, <2>1 DEF OfSlot, At, Where
    <2>4. m.kind = "rq1"
      BY <1>1, <2>2, <2>3 DEF WiresInv, OneAnswer
    <2> QED
      BY <1>2, <2>4
  <1>5. CASE mode = "sliders"
    <2>1. ~ScanDue /\ Cur \in Blocks
      BY <1>5, SlotFor DEF WiresInv, Announced, Queued, ScanDue
    <2>2. PICK b \in Blocks : b = Cur
      BY <2>1
    <2>3. Task(b) /\ RereadDue(b)
      BY <1>5, <2>2 DEF Task, RereadDue
    <2>4. At(outbound, b, "type") = {}
      BY <2>1, <2>3, SettledFacts
    <2>5. \A i \in SetAt(outbound, b) : outbound[i].kind = "rq1"
      BY <2>1, <2>3 DEF WiresInv, Unwritten
    <2>6. m.kind = "dt1" /\ m.b = b => m.w # "type" /\ m.w \notin Settings
      <3>1. m.b = b /\ m.w = "type" => 1 \in At(outbound, b, "type")
        BY <1>1 DEF At, Where
      <3>2. m.b = b /\ m.w \in Settings => 1 \in SetAt(outbound, b)
        BY <1>1 DEF SetAt, Where
      <3> QED
        BY <1>1, <2>4, <2>5, <3>1, <3>2
    <2>7. mem'[b]["type"] = mem[b]["type"] /\ \A c \in Settings : mem'[b][c] = mem[b][c]
      <3>1. CASE m.kind = "rq1"
        BY <1>2, <3>1
      <3>2. CASE m.kind = "dt1"
        <4>1. \A u \in Whats : mem'[b][u] = mem[b][u] \/ (m.b = b /\ m.w = u)
          BY <1>1, <1>3, <3>2 DEF TypeInv, MemInv, Memory
        <4>2. "type" \in Whats /\ Settings \subseteq Whats
          BY DEF Whats
        <4> QED
          BY <2>6, <3>2, <4>1, <4>2
      <3> QED
        BY <1>1, <3>1, <3>2
    <2> QED
      BY <1>5, <2>2, <2>7
  <1> QED
    BY <1>4, <1>5 DEF TypeInv, TaskInv

\* What is under way stays so when the unit has taken a message: its answer or echo
\* follows.  A request that is lost is the reading thread's own.
LEMMA ServedFlying ==
    ASSUME TypeInv, Serve \/ LoseRequest, NEW b \in Blocks
    PROVE  /\ \A w : \/ Flying(outbound, inbound, b, w) => Flying(outbound', inbound', b, w)
                     \/ Head(outbound).kind = "rq1" /\ Head(outbound).b = b
                        /\ Head(outbound).w = w
           /\ \A w \in Whats : mem'[b][w] # mem[b][w] =>
                 /\ Flying(outbound', inbound', b, w)
                 /\ 1 \in At(outbound, b, w) /\ outbound[1].kind = "dt1"
           /\ At(inbound, b, "type") # {} => At(inbound', b, "type") # {}
           /\ \A i \in At(outbound, b, "type") : outbound[i].kind = "dt1" =>
                 \/ At(inbound', b, "type") # {}
                 \/ \E j \in At(outbound', b, "type") : outbound'[j].kind = "dt1"
           /\ OfTable(b, mem[b], outbound, inbound) => OfTable(b, mem[b], outbound', inbound')
           /\ \A x : On(inbound, x) => On(inbound', x)
  <1> DEFINE m == Head(outbound)
  <1>1. PICK f \in Heard :
           /\ m = outbound[1] /\ 1 \in 1..Len(outbound)
           /\ m.b \in Blocks /\ m.w \in Whats /\ m.kind \in {"rq1", "dt1"}
           /\ f.b = m.b /\ f.w = m.w
           /\ \A a, ws : Taken(outbound', outbound, a, ws)
           /\ \/ inbound' = inbound /\ m.kind = "rq1"
              \/ inbound' = Append(inbound, f) /\ \A a, ws : Added(inbound', inbound, f, a, ws)
           /\ m.kind = "rq1" => mem' = mem
           /\ m.kind = "dt1" => mem' = [mem EXCEPT ![m.b][m.w] = f.v]
    <2>1. PICK f \in Heard :
             /\ \/ LoseRequest /\ mem' = mem
                \/ /\ Serve /\ inbound' = Append(inbound, f)
                   /\ m.kind = "rq1" => mem' = mem /\ f.v = mem[f.b][f.w]
                   /\ m.kind = "dt1" =>
                         mem' = [mem EXCEPT ![f.b][f.w] = f.v] /\ f.v = m.v
             /\ f.b = m.b /\ f.w = m.w
      BY ServeMoves DEF Moved
    <2>2. /\ m = outbound[1] /\ 1 \in 1..Len(outbound)
          /\ m.b \in Blocks /\ m.w \in Whats /\ m.kind \in {"rq1", "dt1"}
          /\ \A a, ws : Taken(outbound', outbound, a, ws)
      BY ServeMoves, Messages
    <2>3. CASE LoseRequest
      <3>1. inbound' = inbound /\ m.kind = "rq1" /\ mem' = mem
        BY <2>3 DEF LoseRequest
      <3> QED
        BY <2>1, <2>2, <3>1
    <2>4. CASE Serve /\ inbound' = Append(inbound, f)
      <3>1. \A a, ws : Added(inbound', inbound, f, a, ws)
        BY <2>4, Messages, WhereAppend
      <3>2. ~LoseRequest
        <4>1. inbound \in Seq(Heard)
          BY Messages
        <4>2. Len(Append(inbound, f)) = Len(inbound) + 1 /\ Len(inbound) \in Nat
          BY <4>1
        <4>3. Append(inbound, f) # inbound
          BY <4>2
        <4> QED
          BY <2>4, <4>3 DEF LoseRequest
      <3> QED
        BY <2>1, <2>2, <2>4, <3>1, <3>2
    <2> QED
      BY <2>1, <2>3, <2>4
  <1> HIDE DEF m
  <1>2. ASSUME NEW w
        PROVE  /\ At(inbound, b, w) # {} => At(inbound', b, w) # {}
               /\ \A i \in At(outbound, b, w) :
                     \/ i = 1 /\ m.b = b /\ m.w = w
                     \/ i - 1 \in At(outbound', b, w) /\ outbound'[i - 1] = outbound[i]
               /\ m.b = b /\ m.w = w =>
                     /\ 1 \in At(outbound, b, w)
                     /\ m.kind = "rq1" \/ At(inbound', b, w) # {}
    <2>1. Taken(outbound', outbound, b, {w})
      BY <1>1
    <2>2. /\ \A i \in At(outbound, b, w) :
                i = 1 \/ (i - 1 \in At(outbound', b, w) /\ outbound'[i - 1] = outbound[i])
          /\ 1 \in At(outbound, b, w) <=> m.b = b /\ m.w = w
      BY <1>1, <2>1 DEF Taken, At
    <2>3. CASE inbound' = inbound /\ m.kind = "rq1"
      BY <2>2, <2>3
    <2>4. CASE \A a, ws : Added(inbound', inbound, f, a, ws)
      <3>1. Added(inbound', inbound, f, b, {w})
        BY <2>4
      <3>2. At(inbound', b, w) =
               At(inbound, b, w) \cup (IF f.b = b /\ f.w = w THEN {Len(inbound) + 1} ELSE {})
        BY <3>1 DEF Added, At
      <3> QED
        BY <1>1, <2>2, <3>2
    <2> QED
      BY <1>1, <2>3, <2>4
  <1>3. ASSUME NEW w, Flying(outbound, inbound, b, w), ~(m.kind = "rq1" /\ m.b = b /\ m.w = w)
        PROVE  Flying(outbound', inbound', b, w)
    <2>1. CASE At(inbound, b, w) # {}
      BY <1>2, <2>1 DEF Flying
    <2>2. CASE At(outbound, b, w) # {}
      <3>1. PICK i : i \in At(outbound, b, w)
        BY <2>2
      <3>2. CASE m.b = b /\ m.w = w
        BY <1>2, <1>3, <3>2 DEF Flying
      <3>3. CASE i - 1 \in At(outbound', b, w)
        BY <3>3 DEF Flying
      <3> QED
        BY <1>2, <3>1, <3>2, <3>3
    <2> QED
      BY <1>3, <2>1, <2>2 DEF Flying
  <1>4. ASSUME NEW w \in Whats, mem'[b][w] # mem[b][w]
        PROVE  /\ Flying(outbound', inbound', b, w)
               /\ 1 \in At(outbound, b, w) /\ outbound[1].kind = "dt1"
    <2>1. m.kind = "dt1"
      BY <1>1, <1>4
    <2>2. m.b = b /\ m.w = w
      BY <1>1, <1>4, <2>1 DEF TypeInv, MemInv, Memory
    <2> QED
      BY <1>1, <1>2, <2>1, <2>2 DEF Flying
  <1>5. ASSUME NEW i \in At(outbound, b, "type"), outbound[i].kind = "dt1"
        PROVE  \/ At(inbound', b, "type") # {}
               \/ \E j \in At(outbound', b, "type") : outbound'[j].kind = "dt1"
    <2>1. CASE i = 1 /\ m.b = b /\ m.w = "type"
      BY <1>1, <1>2, <1>5, <2>1
    <2>2. CASE i - 1 \in At(outbound', b, "type") /\ outbound'[i - 1] = outbound[i]
      BY <1>5, <2>2
    <2> QED
      BY <1>2, <2>1, <2>2
  <1>6. ASSUME OfTable(b, mem[b], outbound, inbound)
        PROVE  OfTable(b, mem[b], outbound', inbound')
    <2> DEFINE T == TableIn(b, mem[b])
    <2>1. Taken(outbound', outbound, b, Settings)
      BY <1>1
    <2>2. /\ \A i \in SetAt(outbound, b) : outbound[i].w \in T
          /\ \A i \in SetAt(inbound, b) : inbound[i].w \in T
      BY <1>6 DEF OfTable
    <2> HIDE DEF T
    <2>3. /\ \A i \in SetAt(outbound', b) : outbound'[i].w \in T
          /\ f.b = b /\ f.w \in Settings => f.w \in T
      BY <1>1, <2>1, <2>2 DEF Taken, SetAt
    <2>4. \A i \in SetAt(inbound', b) : inbound'[i].w \in T
      <3>1. CASE inbound' = inbound
        BY <2>2, <3>1
      <3>2. CASE inbound' = Append(inbound, f)
        <4>1. inbound \in Seq(Heard)
          BY Messages
        <4> QED
          BY <2>2, <2>3, <3>2, <4>1, TableGains
      <3> QED
        BY <1>1, <3>1, <3>2
    <2> QED
      BY <2>3, <2>4 DEF OfTable, T
  <1>7. ASSUME NEW x, On(inbound, x) PROVE On(inbound', x)
    <2>1. inbound \in Seq(Heard)
      BY Messages
    <2>2. On(Append(inbound, f), x)
      BY <1>7, <2>1, OnAdded
    <2> QED
      BY <1>1, <1>7, <2>2
  <1> QED
    BY <1>2, <1>3, <1>4, <1>5, <1>6, <1>7 DEF m

\* The unit answers or echoes, or a request is lost.
LEMMA ShownUnit ==
    ASSUME TypeInv, ReaderInv, WiresInv, ShownInv, Serve \/ LoseRequest
    PROVE  ShownInv'
  <1>1. /\ UNCHANGED <<raced, known, fxName, queue, slot, pc, mode, todo, rec, labels, due, out>>
        /\ TypeInv'
    BY ServeMoves, TypeUnit DEF readVars
  <1> SUFFICES ASSUME ~raced PROVE ShownInv'
    BY <1>1 DEF ShownInv
  <1>2. RecRight'
    <2>1. ShownInv => RecRight
      BY DEF ShownInv
    <2> QED
      BY <1>1, <2>1, ServedNotRead, RecKept
  <1>3. ScanRight'
    <2>1. pc # "idle" /\ mode = "scan" => mem' = mem
      BY ServedNotRead
    <2> QED
      BY <1>1, <2>1 DEF ShownInv, ScanRight, Due
  <1>4. ASSUME ~ScanDue', NEW b \in Blocks PROVE Settled(b)'
    <2>1. ~ScanDue
      BY <1>1, <1>4, ServedFlying DEF ScanDue
    <2> DEFINE m == Head(outbound)
    <2>2. /\ m = outbound[1] /\ 1 \in 1..Len(outbound) /\ m.b \in Blocks
      BY ServeMoves
    <2>3. m.kind = "rq1" => m.b = Cur /\ m.w \in Settings /\ RereadDue(Cur)
      <3>1. m.kind = "rq1" => OfSlot(m)
        BY <2>2 DEF WiresInv, ReadsOwn
      <3>2. OfSlot(m) => slot # NoRead
        BY <2>2, SlotFor
      <3>3. slot # NoRead => slot.b = Cur /\ slot.w \in Settings /\ RereadDue(Cur)
        BY <2>1, SettledFacts
      <3> QED
        BY <3>1, <3>2, <3>3 DEF OfSlot
    <2> HIDE DEF m
    <2>4. RereadDue(b) => RereadDue(b)'
      <3>1. Task(b) => Task(b)'
        BY <1>1 DEF Task, Cur
      <3>2. At(inbound, b, "type") # {} => At(inbound', b, "type") # {}
        BY ServedFlying
      <3>3. \A i \in At(outbound, b, "type") : outbound[i].kind = "dt1" =>
                 \/ At(inbound', b, "type") # {}
                 \/ \E j \in At(outbound', b, "type") : outbound'[j].kind = "dt1"
        BY ServedFlying
      <3> QED
        BY <1>1, <3>1, <3>2, <3>3, RereadWhere, RereadThen
    <2>5. \A w : \/ Flying(outbound, inbound, b, w) => Flying(outbound', inbound', b, w)
                 \/ m.kind = "rq1" /\ m.b = b /\ m.w = w
      BY ServedFlying DEF m
    <2>6. "sw" \in Whats /\ "type" \in Whats /\ Settings \subseteq Whats
          /\ "sw" \notin Settings /\ "type" \notin Settings
      BY NamesAssumption DEF Whats
    <2>7. \A w \in {"sw", "type"} :
             Flying(outbound, inbound, b, w) \/ mem'[b][w] # mem[b][w] =>
                Flying(outbound', inbound', b, w)
      <3>1. \A w \in Whats : mem'[b][w] # mem[b][w] => Flying(outbound', inbound', b, w)
        BY ServedFlying
      <3> QED
        BY <2>3, <2>5, <2>6, <3>1
    <2>8. ASSUME ~RereadDue(b)'
          PROVE  /\ ~RereadDue(b) /\ mem'[b]["type"] = mem[b]["type"]
                 /\ \A c \in Settings :
                       Flying(outbound, inbound, b, c) \/ mem'[b][c] # mem[b][c] =>
                          Flying(outbound', inbound', b, c)
                 /\ OfTable(b, mem[b], outbound', inbound')
      <3>1. ~RereadDue(b)
        BY <2>4, <2>8
      <3>2. At(outbound, b, "type") = {}
        BY <2>1, <3>1, SettledFacts
      <3>3. mem'[b]["type"] = mem[b]["type"]
        BY <2>6, <3>2, ServedFlying
      <3>4. \A w \in Whats : mem'[b][w] # mem[b][w] => Flying(outbound', inbound', b, w)
        BY ServedFlying
      <3>5. \A c \in Settings : Flying(outbound, inbound, b, c) => Flying(outbound', inbound', b, c)
        BY <2>3, <2>5, <3>1
      <3>6. OfTable(b, mem[b], outbound, inbound)
        BY <2>1, <3>1 DEF ShownInv, Settled
      <3>7. OfTable(b, mem[b], outbound', inbound')
        BY <3>6, ServedFlying
      <3> QED
        BY <2>6, <3>1, <3>3, <3>4, <3>5, <3>7
    <2>9. Settled(b)
      BY <2>1 DEF ShownInv
    <2> QED
      BY <1>1, <2>7, <2>8, <2>9, SettledKept
  <1> QED
    BY <1>2, <1>3, <1>4 DEF ShownInv

LEMMA ShownStutter ==
    ASSUME ShownInv, UNCHANGED vars
    PROVE  ShownInv'
  <1>1. /\ UNCHANGED <<mem, outbound, inbound, raced, known, fxName, queue, slot, pc, mode, todo,
                       rec, labels, due, out>>
    BY DEF vars, unitVars, editVars, readVars
  <1> SUFFICES ASSUME ~raced PROVE ShownInv'
    BY <1>1 DEF ShownInv
  <1>2. Turn' = Turn /\ Cur' = Cur
    BY <1>1 DEF Turn, Cur
  <1>3. RecRight'
    BY <1>1, <1>2 DEF ShownInv, RecRight
  <1>4. ScanRight'
    BY <1>1 DEF ShownInv, ScanRight, Due
  <1>5. ASSUME ~ScanDue', NEW b \in Blocks PROVE Settled(b)'
    <2>1. ~ScanDue /\ (RereadDue(b)' => RereadDue(b)) /\ (RereadDue(b) => RereadDue(b)')
      BY <1>1, <1>2, <1>5 DEF ScanDue, RereadDue
    <2> QED
      BY <1>1, <2>1, SettledSame DEF ShownInv
  <1> QED
    BY <1>3, <1>4, <1>5 DEF ShownInv

LEMMA ShownStep ==
    ASSUME FixedSliders, TypeInv, ReaderInv, WiresInv, ValuesInv, ShownInv, [Next]_vars
    PROVE  ShownInv'
  <1>1. ASSUME Reader PROVE ShownInv'
    BY <1>1, ShownDispatch, ShownWorker, ShownRequest, ShownReply, ShownName, ShownPick,
       ShownRange, ShownNext, ShownSet DEF Reader
  <1>2. ASSUME Receive PROVE ShownInv'
    BY <1>2, ShownCorrelate, ShownProgramChange, ShownRefuse, ShownApply DEF Receive
  <1>3. ASSUME NEW b \in Blocks, Edit(b) PROVE ShownInv'
    BY <1>3, ShownEdit
  <1>4. ASSUME Next PROVE ShownInv'
    BY <1>1, <1>2, <1>3, <1>4, ShownProgram, ShownToggle, ShownWorker, ShownUnit DEF Next
  <1> QED
    BY <1>4, ShownStutter

-----------------------------------------------------------------------------
(* The properties.                                                            *)

\* With nothing under way an entry is right.
LEMMA QuietRight ==
    ASSUME TypeInv, ShownInv, Quiet, ~raced, NEW b \in Blocks
    PROVE  EntryRight(b, mem[b], known[b], fxName[b])
  <1>1. outbound = <<>> /\ inbound = <<>> /\ queue = <<>> /\ pc = "idle"
    BY DEF Quiet
  <1>2. ~ScanDue /\ ~RereadDue(b) /\ \A w : ~Flying(outbound, inbound, b, w)
    BY <1>1, Empty DEF ScanDue, RereadDue, Flying
  <1>3. Settled(b) /\ SlidersHold(b, mem[b], known[b].sliders, outbound, inbound)
    BY <1>2 DEF ShownInv, Settled
  <1>4. SlidersRight(b, mem[b], known[b].sliders)
    BY <1>2, <1>3 DEF SlidersHold, SlidersRight, SliderRight
  <1> QED
    BY <1>2, <1>3, <1>4 DEF Settled, EntryRight

\* What the unit would show of a slider.
LEMMA ShownSlider ==
    ASSUME TypeInv, NEW b \in Blocks, NEW i \in 1..2
    PROVE  /\ Meant(b, mem[b])[i] = None => Shown(b).sliders[i] = None
           /\ Meant(b, mem[b])[i] # None =>
                 Shown(b).sliders[i] =
                    [label |-> Meant(b, mem[b])[i], value |-> mem[b][Cell(b, mem[b], i)]]
  BY UnitCells DEF Shown, Meant, Cell

LEMMA ShownAll ==
    ASSUME FixedSliders
    PROVE  Spec => [](TypeInv /\ ShownInv)
  <1>1. Spec => []TypeInv
    BY TypeInit, TypeStep, PTL DEF Spec
  <1>2. Spec => []ReaderInv
    BY <1>1, ReaderInit, ReaderStep, PTL DEF Spec
  <1>3. Spec => []WiresInv
    BY <1>1, <1>2, WiresInit, WiresStep, PTL DEF Spec
  <1>4. Spec => []ValuesInv
    BY <1>1, <1>3, ValuesInit, ValuesStep, PTL DEF Spec
  <1>5. TypeInv /\ ReaderInv /\ WiresInv /\ ValuesInv /\ ShownInv /\ [Next]_vars => ShownInv'
    BY ShownStep
  <1> QED
    BY <1>1, <1>2, <1>3, <1>4, <1>5, ShownInit, PTL DEF Spec

\* Whatever replies go missing, and however echoes, re-reads, scans, stops and
\* starts interleave: with nothing under way, and no edit having fallen into a read
\* of the same data, PatchState presents no value, name or label that is not the
\* unit's.
THEOREM NothingWrongTheorem ==
    ASSUME FixedSliders
    PROVE  Spec => []NothingWrong
  <1>1. ASSUME TypeInv, ShownInv PROVE NothingWrong
    <2> SUFFICES ASSUME Quiet, ~raced, NEW b \in Blocks
                 PROVE  /\ known[b].sw \in {None, mem[b]["sw"]}
                        /\ known[b].name \in {None, mem[b]["type"]}
                        /\ \A i \in 1..2 : known[b].sliders[i] # None =>
                             /\ known[b].sliders[i].label = Shown(b).sliders[i].label
                             /\ known[b].sliders[i].value \in {None, Shown(b).sliders[i].value}
      BY DEF NothingWrong
    <2>1. EntryRight(b, mem[b], known[b], fxName[b])
      BY <1>1, QuietRight
    <2>2. ASSUME NEW i \in 1..2, known[b].sliders[i] # None
          PROVE  /\ known[b].sliders[i].label = Shown(b).sliders[i].label
                 /\ known[b].sliders[i].value \in {None, Shown(b).sliders[i].value}
      <3>1. /\ Meant(b, mem[b])[i] # None
            /\ known[b].sliders[i].label = Meant(b, mem[b])[i]
            /\ Tells(known[b].sliders[i].value, mem[b][Cell(b, mem[b], i)])
        BY <2>1, <2>2 DEF EntryRight, SlidersRight, SliderRight, SliderShape
      <3>2. /\ Shown(b).sliders[i].label = Meant(b, mem[b])[i]
            /\ Shown(b).sliders[i].value = mem[b][Cell(b, mem[b], i)]
        <4>1. Shown(b).sliders[i] =
                 [label |-> Meant(b, mem[b])[i], value |-> mem[b][Cell(b, mem[b], i)]]
          BY <1>1, <3>1, ShownSlider
        <4> QED
          BY <4>1
      <3> QED
        BY <3>1, <3>2 DEF Tells
    <2> QED
      BY <2>1, <2>2 DEF EntryRight, Tells
  <1>2. TypeInv /\ ShownInv => NothingWrong
    BY <1>1
  <1> QED
    BY <1>2, ShownAll, PTL

\* While every reply comes: with nothing under way, and no edit having fallen into a
\* read of the same data, PatchState and the live effect names are the unit's.
THEOREM SyncedTheorem ==
    ASSUME FixedSliders, MaxLosses = 0
    PROVE  Spec => []SyncedUnlessRaced
  <1>1. ASSUME TypeInv, ShownInv PROVE SyncedUnlessRaced
    <2> SUFFICES ASSUME Quiet, ~raced PROVE Synced
      BY DEF SyncedUnlessRaced
    <2>1. \A b \in Blocks : EntryRight(b, mem[b], known[b], fxName[b])
      BY <1>1, QuietRight
    <2>2. \A v, t : Tells(v, t) => v = t
      BY DEF Tells, Lossy
    <2>3. ASSUME NEW b \in Blocks PROVE known[b] = Shown(b)
      <3>1. /\ known[b].sw = mem[b]["sw"] /\ known[b].name = mem[b]["type"]
            /\ SlidersRight(b, mem[b], known[b].sliders) /\ known[b] # NoEntry
        BY <2>1, <2>2 DEF EntryRight
      <3>2. known[b] \in Entry
        BY <1>1, <3>1 DEF TypeInv, KnownInv
      <3>3. ASSUME NEW i \in 1..2 PROVE known[b].sliders[i] = Shown(b).sliders[i]
        <4> DEFINE s == known[b].sliders[i]
        <4>1. SliderShape(s, Meant(b, mem[b])[i])
              /\ (s # None => s.value = mem[b][Cell(b, mem[b], i)])
          BY <2>2, <3>1 DEF SlidersRight, SliderRight
        <4>2. s \in {None} \cup [label : Labels, value : Vals \cup {None}]
          BY <3>2 DEF Entry
        <4> HIDE DEF s
        <4>3. CASE s = None
          <5>1. Meant(b, mem[b])[i] = None
            BY <4>1, <4>3 DEF SliderShape, Lossy
          <5> QED
            BY <1>1, <4>3, <5>1, ShownSlider DEF s
        <4>4. CASE s # None
          <5>1. s = [label |-> Meant(b, mem[b])[i], value |-> mem[b][Cell(b, mem[b], i)]]
                /\ Meant(b, mem[b])[i] # None
            BY <4>1, <4>2, <4>4 DEF SliderShape
          <5> QED
            BY <1>1, <5>1, ShownSlider DEF s
        <4> QED
          BY <4>3, <4>4
      <3>4. Shown(b).sliders = [i \in 1..2 |-> Shown(b).sliders[i]]
        BY DEF Shown
      <3>5. known[b].sliders = [i \in 1..2 |-> known[b].sliders[i]]
        BY <3>2 DEF Entry
      <3>6. known[b].sliders = Shown(b).sliders
        BY <3>3, <3>4, <3>5
      <3>7. Shown(b) = [sw |-> mem[b]["sw"], name |-> mem[b]["type"],
                        sliders |-> Shown(b).sliders]
        BY DEF Shown
      <3>8. known[b] = [sw |-> known[b].sw, name |-> known[b].name,
                        sliders |-> known[b].sliders]
        BY <3>2 DEF Entry
      <3> QED
        BY <3>1, <3>6, <3>7, <3>8
    <2>4. \A b \in FxBlocks : fxName[b] = mem[b]["type"]
      BY <2>1, <2>2, BlocksAssumption DEF EntryRight, NameRight
    <2> QED
      BY <2>3, <2>4 DEF Synced
  <1>2. TypeInv /\ ShownInv => SyncedUnlessRaced
    BY <1>1
  <1> QED
    BY <1>2, ShownAll, PTL

=============================================================================
