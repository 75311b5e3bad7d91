--------------------------- MODULE PatchSyncProofs ---------------------------
(* What TLAPS proves of PatchSync for any blocks, effects, settings and      *)
(* patches, and any number of edits, stops and lost requests: its types, and  *)
(* that the reading thread ends with a KeyError only when an edit or a stop   *)
(* has disturbed a read.                                                      *)
EXTENDS PatchSync, TLAPS

-----------------------------------------------------------------------------
(* Type correctness.  Inductive form: what is on the wires, in the queue     *)
(* and in the slot is typed; a re-read is only ever queued when every block  *)
(* is known, and nothing makes a known block unknown.                        *)

Values == Switch \cup Effects \cup Vals
Sent == {m \in [kind : {"rq1", "dt1"}, b : Blocks, w : Whats,
                v : Values \cup {None}] :
            IF m.kind = "dt1" THEN m.v \in ValuesOf(m.w) ELSE m.v = None}
Heard == {m \in [kind : {"data"}, b : Blocks, w : Whats, v : Values] :
             m.v \in ValuesOf(m.w)} \cup {ProgramChange}
Tasks == {Full} \cup {Sliders(b) : b \in Blocks}
Slots == {s \in [b : Blocks, w : Whats, v : Values \cup {None}] :
             s.v # None => s.v \in ValuesOf(s.w)}
Pcs == {"idle", "sw", "swWait", "type", "typeWait", "name", "params", "range",
        "val", "valWait", "done", "dead"}

MemInv == mem \in [Blocks -> Memory]
WireInv == outbound \in Seq(Sent) /\ inbound \in Seq(Heard)
QueueInv ==
    /\ queue \in Seq(Tasks)
    /\ \A i \in 1..Len(queue) : queue[i].kind = "sliders" => Ready
KnownInv ==
    /\ known \in [Blocks -> Entry \cup {NoEntry}]
    /\ fxName \in [FxBlocks -> Effects \cup {None, NoEntry}]
    /\ out \in [Blocks -> Entry \cup {NoEntry}]
CountInv ==
    /\ edits \in 0..MaxEdits
    /\ stops \in 0..MaxStops
    /\ losses \in 0..MaxLosses
    /\ raced \in BOOLEAN
    /\ toggling \in {NoRead} \cup [b : Blocks, w : {"sw"}, v : Switch]
SlotInv ==
    /\ pc \in Pcs
    /\ slot \in Slots \cup {NoRead}
    /\ slot # NoRead <=> pc \in Waits
    /\ pc \in Waits => slot.b = Cur
    /\ pc = "swWait" => slot.w = "sw"
    /\ pc = "typeWait" => slot.w = "type"
    /\ pc = "valWait" => slot.w \in Settings
TaskInv ==
    /\ mode \in {"scan", "sliders"}
    /\ mode = "sliders" =>
          Len(todo) <= 1 /\ Ready /\ pc \in {"idle", "params", "range", "val",
                                             "valWait", "done", "dead"}
    /\ todo \in Seq(Blocks)
    /\ todo = <<>> <=> pc = "idle"
    /\ worker \in {"running", "stopping", "exited"}
    /\ worker = "exited" => pc = "idle"
RecInv ==
    /\ rec \in Entry
    /\ labels \in Pairs
    /\ due \subseteq {1, 2}
    /\ \A i \in due : labels[i] # None
    /\ pc \in {"range", "val", "valWait"} => due # {}
\* A block that is known, or read past its name, has its name recorded.
Named(b) == \/ known[b] # NoEntry \/ out[b] # NoEntry
            \/ Cur = b /\ pc \in {"params", "range", "val", "valWait", "done"}
NameInv ==
    /\ \A b \in FxBlocks : Named(b) => fxName[b] # NoEntry
    /\ pc \in {"range", "val", "valWait"} /\ Cur \in FxBlocks =>
          fxName[Cur] \in Effects

TypeInv == /\ MemInv /\ WireInv /\ QueueInv /\ KnownInv /\ CountInv
           /\ SlotInv /\ TaskInv /\ RecInv /\ NameInv

LEMMA TypeInvOK == TypeInv => TypeOK
  <1> SUFFICES ASSUME TypeInv PROVE TypeOK
    OBVIOUS
  <1>1. \A b \in Blocks : \A w \in Whats : mem[b][w] \in ValuesOf(w)
    BY DEF TypeInv, MemInv, Memory
  <1>2. pc \in {"range", "val", "valWait"} => labels[Turn] # None
    BY DEF TypeInv, RecInv, Turn
  <1> QED
    BY <1>1, <1>2 DEF TypeInv, TypeOK, KnownInv, CountInv, SlotInv, TaskInv,
                      RecInv

LEMMA TypeInit == Init => TypeInv
  <1> SUFFICES ASSUME Init PROVE TypeInv
    OBVIOUS
  <1>1. MemInv
    BY PatchesAssumption DEF Init, MemInv
  <1>2. WireInv /\ QueueInv
    BY DEF Init, WireInv, QueueInv
  <1>3. KnownInv
    BY DEF Init, KnownInv
  <1>4. raced \in BOOLEAN /\ toggling = NoRead
    BY DEF Init
  <1>5. CountInv
    BY <1>4, BoundsAssumption DEF Init, CountInv
  <1>6. SlotInv
    BY DEF Init, SlotInv, Pcs, Waits
  <1>7. ScanOrder # <<>> /\ ScanOrder \in Seq(Blocks)
    BY BlocksAssumption
  <1>8. TaskInv
    BY <1>7 DEF Init, TaskInv
  <1>9. Blank \in Entry /\ <<None, None>> \in Pairs
    BY DEF Blank, Entry, Pairs
  <1>10. RecInv
    BY <1>9 DEF Init, RecInv
  <1>11. NameInv
    BY BlocksAssumption DEF Init, NameInv, Named
  <1> QED
    BY <1>1, <1>3, <1>5, <1>6, <1>8, <1>10, <1>2, <1>11 DEF TypeInv

\* What is at the head of a queue or wire, and what taking it off or adding
\* to it leaves.
LEMMA HeadTail ==
    ASSUME NEW S, NEW s \in Seq(S), s # <<>>
    PROVE  /\ Head(s) \in S /\ Head(s) = s[1] /\ 1 \in 1..Len(s)
           /\ Tail(s) \in Seq(S)
           /\ \A i \in 1..Len(Tail(s)) : Tail(s)[i] = s[i + 1] /\ i + 1 \in 1..Len(s)
  OBVIOUS

LEMMA Appended ==
    ASSUME NEW S, NEW s \in Seq(S), NEW x \in S
    PROVE  /\ Append(s, x) \in Seq(S)
           /\ \A i \in 1..Len(Append(s, x)) :
                 \/ i \in 1..Len(s) /\ Append(s, x)[i] = s[i]
                 \/ i = Len(s) + 1 /\ Append(s, x)[i] = x
  OBVIOUS

LEMMA BlankType == Blank \in Entry /\ NoRead \notin Slots
  BY NamesAssumption DEF Blank, Entry, NoRead, Slots

\* The worker takes a task or skips one.
LEMMA TypeDispatch ==
    ASSUME TypeInv, TakeFull \/ TakeSliders \/ SkipFull
    PROVE  TypeInv'
  <1> USE DEF TypeInv
  <1>0. Dispatched
    BY DEF TakeFull, TakeSliders, SkipFull
  <1>1. MemInv' /\ WireInv' /\ KnownInv'
    BY <1>0 DEF Dispatched, unitVars, MemInv, WireInv, KnownInv
  <1>2. queue \in Seq(Tasks) /\ queue # <<>> /\ queue' = Tail(queue) /\ known' = known
    BY <1>0 DEF Dispatched, QueueInv
  <1>3. QueueInv'
    BY <1>2, HeadTail DEF QueueInv, Ready
  <1>4. Head(queue) \in Tasks /\ (Head(queue).kind = "sliders" => Ready)
    BY <1>2, HeadTail DEF QueueInv
  <1>5. /\ pc = "idle" /\ slot' = slot /\ worker' = worker /\ worker # "exited"
        /\ rec' \in Entry /\ labels' = labels /\ due' = due
        /\ UNCHANGED <<edits, stops, losses, toggling>>
    BY <1>0, BlankType DEF Dispatched
  <1>6. UNCHANGED <<known, fxName, out>> /\ FxBlocks \subseteq Blocks
    BY <1>0, BlocksAssumption DEF Dispatched
  <1>7. CASE TakeFull
    <2>1. ScanOrder # <<>> /\ ScanOrder \in Seq(Blocks)
      BY BlocksAssumption
    <2>2. pc' = "sw" /\ mode' = "scan" /\ todo' = ScanOrder /\ raced' \in BOOLEAN
      BY <1>7 DEF TakeFull
    <2>3. SlotInv'
      BY <1>5, <2>2 DEF SlotInv, Pcs, Waits
    <2>4. CountInv'
      BY <1>5, <2>2 DEF CountInv
    <2>5. TaskInv' /\ RecInv'
      BY <1>5, <2>1, <2>2 DEF TaskInv, RecInv
    <2>6. NameInv'
      BY <1>6, <2>2 DEF NameInv, Named
    <2> QED
      BY <1>1, <1>3, <2>3, <2>4, <2>5, <2>6
  <1>8. CASE TakeSliders
    <2>1. Head(queue).b \in Blocks /\ Ready'
      BY <1>2, <1>4, <1>8 DEF TakeSliders, Tasks, Full, Sliders, Ready
    <2>2. /\ pc' = "params" /\ mode' = "sliders" /\ todo' = <<Head(queue).b>>
          /\ raced' = raced
      BY <1>8 DEF TakeSliders
    <2>3. SlotInv'
      BY <1>5, <2>2 DEF SlotInv, Pcs, Waits
    <2>4. CountInv'
      BY <1>5, <2>2 DEF CountInv
    <2>5. TaskInv' /\ RecInv'
      BY <1>5, <2>1, <2>2 DEF TaskInv, RecInv
    <2>6. NameInv'
      BY <1>6, <2>1, <2>2 DEF NameInv, Named, Ready
    <2> QED
      BY <1>1, <1>3, <2>3, <2>4, <2>5, <2>6
  <1>9. CASE SkipFull
    <2>1. UNCHANGED <<mode, todo, pc>> /\ raced' \in BOOLEAN
      BY <1>9 DEF SkipFull
    <2>2. SlotInv'
      BY <1>5, <2>1 DEF SlotInv, Pcs, Waits
    <2>3. CountInv'
      BY <1>5, <2>1 DEF CountInv
    <2>4. TaskInv' /\ RecInv'
      BY <1>2, <1>5, <2>1 DEF TaskInv, RecInv, Ready
    <2>5. NameInv'
      BY <1>5, <1>6, <2>1 DEF NameInv, Named
    <2> QED
      BY <1>1, <1>3, <2>2, <2>3, <2>4, <2>5
  <1> QED
    BY <1>7, <1>8, <1>9

\* The worker is stopped, ends, and is started.
LEMMA TypeWorker ==
    ASSUME TypeInv, Exit \/ Stop \/ Start
    PROVE  TypeInv'
  <1> USE DEF TypeInv
  <1>1. MemInv' /\ WireInv' /\ UNCHANGED <<queue, known, fxName, slot>>
    BY DEF Exit, Stop, Start, unitVars, MemInv, WireInv
  <1>2. QueueInv'
    BY <1>1 DEF QueueInv, Ready
  <1>3. CASE Exit
    <2>1. KnownInv' /\ CountInv'
      BY <1>3 DEF Exit, KnownInv, CountInv, editVars
    <2>2. SlotInv'
      BY <1>3 DEF Exit, SlotInv, Pcs, Waits
    <2>3. TaskInv' /\ RecInv'
      BY <1>3 DEF Exit, TaskInv, RecInv, Ready
    <2>4. NameInv'
      BY <1>3 DEF Exit, NameInv, Named
    <2> QED
      BY <1>1, <1>2, <2>1, <2>2, <2>3, <2>4
  <1>4. CASE Stop
    <2>1. raced' = raced /\ toggling' = toggling /\ edits' = edits
          /\ losses' = losses /\ stops' \in 0..MaxStops
      BY <1>4, BoundsAssumption DEF Stop, CountInv
    <2>2. KnownInv' /\ CountInv'
      BY <1>4, <2>1 DEF Stop, KnownInv, CountInv
    <2>3. SlotInv'
      BY <1>4 DEF Stop, SlotInv, Pcs, Waits, Cur
    <2>4. TaskInv' /\ RecInv'
      BY <1>4 DEF Stop, TaskInv, RecInv, Ready
    <2>5. NameInv'
      BY <1>4 DEF Stop, NameInv, Named, Cur
    <2> QED
      BY <1>1, <1>2, <2>2, <2>3, <2>4, <2>5
  <1>5. CASE Start
    <2>1. out' \in [Blocks -> Entry \cup {NoEntry}]
      BY <1>5 DEF Start
    <2>2. KnownInv' /\ CountInv'
      BY <1>5, <2>1 DEF Start, KnownInv, CountInv, editVars
    <2>3. pc' = "idle" /\ pc \notin Waits /\ todo' = <<>> /\ worker' = "running"
          /\ rec' \in Entry /\ UNCHANGED <<mode, labels, due, slot, known>>
      BY <1>5, BlankType DEF Start, TaskInv, Waits
    <2>4. SlotInv'
      BY <2>3 DEF SlotInv, Pcs, Waits
    <2>5. TaskInv' /\ RecInv'
      BY <2>3 DEF TaskInv, RecInv, Ready
    <2>6. NameInv'
      BY <1>1, <2>3, <1>5, BlocksAssumption DEF Start, NameInv, Named
    <2> QED
      BY <1>1, <1>2, <2>2, <2>4, <2>5, <2>6
  <1> QED
    BY <1>3, <1>4, <1>5

\* A request of the reader: a slot of its own, and a message.
LEMMA TypeRequest ==
    ASSUME TypeInv, AskSwitch \/ AskType \/ AskValue
    PROVE  TypeInv'
  <1> USE DEF TypeInv
  <1>1. Cur \in Blocks
    BY HeadTail DEF AskSwitch, AskType, AskValue, Ask, TaskInv, Cur
  <1>2. AskValue => SettingIn(LiveTable(Cur), labels[Turn]) \in Settings
    <2>1. AskValue => LiveTable(Cur) \subseteq Settings
      BY <1>1, LabelsAssumption DEF AskValue, Ask, LiveTable, NameInv
    <2> QED
      BY <2>1 DEF AskValue, InTable, Carries, SettingIn
  <1>3. PICK w \in Whats :
           \/ w = "sw" /\ Ask("sw", w, "swWait")
           \/ w = "type" /\ Ask("type", w, "typeWait")
           \/ w \in Settings /\ Ask("val", w, "valWait")
    BY <1>2 DEF AskSwitch, AskType, AskValue, Whats
  <1>4. /\ pc \in {"sw", "type", "val"} /\ pc' \in {"swWait", "typeWait", "valWait"}
        /\ pc = "sw" <=> pc' = "swWait"
        /\ pc = "type" <=> pc' = "typeWait"
        /\ pc' = "swWait" => w = "sw"
        /\ pc' = "typeWait" => w = "type"
        /\ pc' = "valWait" => w \in Settings
        /\ slot' = [NoRead EXCEPT !.b = Cur, !.w = w]
        /\ outbound' = Append(outbound, Read(Cur, w))
        /\ UNCHANGED <<mem, inbound, editVars, known, fxName, queue, mode, todo,
                       rec, labels, due, out, worker, toggling>>
    BY <1>3, NamesAssumption DEF Ask
  <1> HIDE DEF TypeInv
  <1>5. Read(Cur, w) \in Sent
    BY <1>1 DEF Read, Sent
  <1>6. MemInv' /\ WireInv' /\ CountInv' /\ KnownInv'
    BY <1>4, <1>5, Appended DEF TypeInv, MemInv, WireInv, CountInv, KnownInv, editVars
  <1>7. QueueInv'
    BY <1>4 DEF TypeInv, QueueInv, Ready
  <1>8. slot' \in Slots /\ slot' # NoRead /\ slot'.b = Cur /\ slot'.w = w
    BY <1>1, <1>4, NamesAssumption DEF NoRead, Slots
  <1>9. SlotInv'
    BY <1>4, <1>8 DEF SlotInv, Pcs, Waits, Cur
  <1>10. TaskInv' /\ RecInv'
    BY <1>4 DEF TypeInv, TaskInv, RecInv, Ready
  <1>11. NameInv'
    BY <1>4 DEF TypeInv, NameInv, Named, Cur
  <1> QED
    BY <1>6, <1>7, <1>9, <1>10, <1>11 DEF TypeInv

\* The reply is taken, or the polls run out.
LEMMA TypeReply ==
    ASSUME TypeInv, GotSwitch \/ GotType \/ GotValue
    PROVE  TypeInv'
  <1>1. PICK at \in Waits : Got(at)
    BY DEF GotSwitch, GotType, GotValue, Waits
  <1>2. /\ pc = at /\ slot' = NoRead
        /\ UNCHANGED <<unitVars, editVars, known, fxName, queue, mode, todo, labels,
                       out, worker, toggling>>
    BY <1>1 DEF Got, SlotClosed
  <1>3. MemInv' /\ WireInv' /\ CountInv' /\ KnownInv' /\ QueueInv'
    <2>1. MemInv' /\ WireInv' /\ KnownInv'
      BY <1>2 DEF TypeInv, MemInv, WireInv, KnownInv, unitVars
    <2>2. CountInv'
      BY <1>2 DEF TypeInv, CountInv, editVars
    <2>3. QueueInv'
      BY <1>2 DEF TypeInv, QueueInv, Ready
    <2> QED
      BY <2>1, <2>2, <2>3
  <1>4. slot.v \in Values \cup {None} /\ (slot.v # None => slot.v \in ValuesOf(slot.w))
    BY <1>2 DEF TypeInv, SlotInv, Slots, NoRead
  <1>5. todo # <<>>
    BY <1>2 DEF TypeInv, TaskInv, Waits
  <1>6. CASE GotSwitch
    <2>1. pc = "swWait" /\ pc' = "type" /\ due' = due /\ rec' = [rec EXCEPT !.sw = slot.v]
      BY <1>6 DEF GotSwitch, Got
    <2>2. slot.v \in Switch \cup {None}
      BY <1>4, <2>1 DEF TypeInv, SlotInv, ValuesOf
    <2>3. rec' \in Entry
      BY <2>1, <2>2 DEF TypeInv, RecInv, Entry
    <2>4. SlotInv'
      BY <1>2, <2>1 DEF TypeInv, SlotInv, Pcs, Waits
    <2>5. TaskInv' /\ RecInv'
      BY <1>2, <1>5, <2>1, <2>3 DEF TypeInv, TaskInv, RecInv, Ready
    <2>6. NameInv'
      BY <1>2, <2>1 DEF TypeInv, NameInv, Named, Cur
    <2> QED
      BY <1>3, <2>4, <2>5, <2>6 DEF TypeInv
  <1>7. CASE GotType
    <2>1. /\ pc = "typeWait" /\ pc' \in {"name", "params"} /\ due' = due
          /\ Cur \in FxBlocks => pc' = "name"
          /\ rec' = [rec EXCEPT !.name = slot.v]
      BY <1>7 DEF GotType, Got
    <2>2. slot.v \in Effects \cup {None}
      BY <1>4, <2>1 DEF TypeInv, SlotInv, ValuesOf
    <2>3. rec' \in Entry
      BY <2>1, <2>2 DEF TypeInv, RecInv, Entry
    <2>4. SlotInv'
      BY <1>2, <2>1 DEF TypeInv, SlotInv, Pcs, Waits
    <2>5. TaskInv' /\ RecInv'
      BY <1>2, <1>5, <2>1, <2>3 DEF TypeInv, TaskInv, RecInv, Ready
    <2>6. NameInv'
      BY <1>2, <2>1 DEF TypeInv, NameInv, Named, Cur
    <2> QED
      BY <1>3, <2>4, <2>5, <2>6 DEF TypeInv
  <1>8. CASE GotValue
    <2>1. /\ pc = "valWait" /\ due' = due \ {Turn}
          /\ pc' = IF due' = {} THEN "done" ELSE "range"
          /\ rec' = IF slot.v = None /\ Cur \in FxBlocks THEN rec
                    ELSE [rec EXCEPT !.sliders[Turn] =
                             [label |-> labels[Turn], value |-> slot.v]]
      BY <1>8 DEF GotValue, Got, Resolved
    <2>2. Turn \in 1..2 /\ Turn \in due /\ labels[Turn] \in Labels
      BY <2>1 DEF TypeInv, RecInv, Turn, Pairs
    <2>3. slot.w \in Settings /\ slot.v \in Vals \cup {None}
      BY <1>4, <2>1, NamesAssumption DEF TypeInv, SlotInv, ValuesOf
    <2>4. rec' \in Entry
      <3> DEFINE made == [label |-> labels[Turn], value |-> slot.v]
      <3>1. made \in [label : Labels, value : Vals \cup {None}]
        BY <2>2, <2>3
      <3>2. [rec.sliders EXCEPT ![Turn] = made] \in
               [1..2 -> {None} \cup [label : Labels, value : Vals \cup {None}]]
        BY <2>2, <3>1 DEF TypeInv, RecInv, Entry
      <3> HIDE DEF made
      <3>3. [rec EXCEPT !.sliders[Turn] = made] \in Entry
        BY <3>2 DEF TypeInv, RecInv, Entry
      <3> QED
        BY <2>1, <3>3 DEF TypeInv, RecInv, made
    <2>5. SlotInv'
      BY <1>2, <2>1 DEF TypeInv, SlotInv, Pcs, Waits
    <2>6. TaskInv' /\ RecInv'
      BY <1>2, <1>5, <2>1, <2>4 DEF TypeInv, TaskInv, RecInv, Ready
    <2>7. NameInv'
      BY <1>2, <2>1 DEF TypeInv, NameInv, Named, Cur
    <2> QED
      BY <1>3, <2>5, <2>6, <2>7 DEF TypeInv
  <1> QED
    BY <1>6, <1>7, <1>8

\* The steps between the requests touch only the reader's own state.
LEMMA TypeLocal ==
    ASSUME TypeInv, RecordName \/ PickParams \/ ReadRange \/ NoAddress
    PROVE  TypeInv'
  <1>1. /\ pc \in {"name", "params", "range", "val"}
        /\ UNCHANGED <<unitVars, editVars, known, queue, slot, mode, todo, rec, out,
                       worker, toggling>>
        /\ RecordName \/ fxName' = fxName
    BY DEF RecordName, PickParams, ReadRange, NoAddress
  <1>2. todo # <<>> /\ Cur \in Blocks
    BY <1>1, HeadTail DEF TypeInv, TaskInv, Cur
  <1>3. MemInv' /\ WireInv'
    BY <1>1 DEF TypeInv, MemInv, WireInv, unitVars
  <1>4. CountInv'
    BY <1>1 DEF TypeInv, CountInv, editVars
  <1>5. QueueInv'
    BY <1>1 DEF TypeInv, QueueInv, Ready
  <1>6. CASE RecordName
    <2>1. /\ pc = "name" /\ pc' = "params" /\ labels' = labels /\ due' = due
          /\ fxName' = [fxName EXCEPT ![Cur] = rec.name]
      BY <1>6 DEF RecordName, Names
    <2>2. rec.name \in Effects \cup {None} /\ rec.name # NoEntry
      BY NamesAssumption DEF TypeInv, RecInv, Entry
    <2>3. KnownInv'
      BY <1>1, <2>1, <2>2 DEF TypeInv, KnownInv
    <2>4. SlotInv'
      BY <1>1, <2>1 DEF TypeInv, SlotInv, Pcs, Waits
    <2>5. TaskInv' /\ RecInv'
      BY <1>1, <1>2, <2>1 DEF TypeInv, TaskInv, RecInv, Ready
    <2>6. NameInv'
      BY <1>1, <2>1, <2>2 DEF TypeInv, KnownInv, NameInv, Named, Cur
    <2> QED
      BY <1>3, <1>4, <1>5, <2>3, <2>4, <2>5, <2>6 DEF TypeInv
  <1>7. CASE PickParams
    <2>1. pc = "params" /\ fxName' = fxName
      BY <1>7 DEF PickParams
    <2>2. /\ Cur \in FxBlocks => NameOf(Cur) = fxName[Cur] /\ fxName[Cur] # NoEntry
          /\ NameOf(Cur) \in Effects \cup {None}
      BY <1>2, <2>1, NamesAssumption, BlocksAssumption
         DEF TypeInv, NameOf, NameInv, Named, KnownInv, RecInv, Entry
    <2>3. /\ labels' = SliderLabels(Cur, NameOf(Cur))
          /\ due' = {i \in {1, 2} : labels'[i] # None}
          /\ pc' = IF due' = {} THEN "done" ELSE "range"
      BY <1>7, <2>2, NamesAssumption DEF PickParams
    <2>4. SliderLabels(Cur, NameOf(Cur)) \in Pairs
      BY <1>2, <2>2, LabelsAssumption DEF SliderLabels
    <2>5. KnownInv'
      BY <1>1, <2>1 DEF TypeInv, KnownInv
    <2>6. SlotInv'
      BY <1>1, <2>1, <2>3 DEF TypeInv, SlotInv, Pcs, Waits
    <2>7. TaskInv' /\ RecInv'
      BY <1>1, <1>2, <2>1, <2>3, <2>4 DEF TypeInv, TaskInv, RecInv, Ready
    <2>8. pc' = "range" /\ Cur \in FxBlocks => fxName[Cur] \in Effects
      BY <1>2, <2>2, <2>3, LabelsAssumption DEF SliderLabels
    <2>9. NameInv'
      BY <1>1, <2>1, <2>3, <2>8 DEF TypeInv, NameInv, Named, Cur
    <2> QED
      BY <1>3, <1>4, <1>5, <2>5, <2>6, <2>7, <2>9 DEF TypeInv
  <1>8. CASE ReadRange
    <2>1. /\ pc = "range" /\ pc' \in {"val", "dead"}
          /\ UNCHANGED <<fxName, labels, due>>
      BY <1>8 DEF ReadRange
    <2>2. KnownInv'
      BY <1>1, <2>1 DEF TypeInv, KnownInv
    <2>3. SlotInv'
      BY <1>1, <2>1 DEF TypeInv, SlotInv, Pcs, Waits
    <2>4. TaskInv' /\ RecInv'
      BY <1>1, <1>2, <2>1 DEF TypeInv, TaskInv, RecInv, Ready
    <2>5. NameInv'
      BY <1>1, <2>1 DEF TypeInv, NameInv, Named, Cur
    <2> QED
      BY <1>3, <1>4, <1>5, <2>2, <2>3, <2>4, <2>5 DEF TypeInv
  <1>9. CASE NoAddress
    <2>1. /\ pc = "val" /\ due' = due \ {Turn} /\ UNCHANGED <<fxName, labels>>
          /\ pc' = IF due' = {} THEN "done" ELSE "range"
      BY <1>9 DEF NoAddress, Resolved
    <2>2. KnownInv'
      BY <1>1, <2>1 DEF TypeInv, KnownInv
    <2>3. SlotInv'
      BY <1>1, <2>1 DEF TypeInv, SlotInv, Pcs, Waits
    <2>4. TaskInv' /\ RecInv'
      BY <1>1, <1>2, <2>1 DEF TypeInv, TaskInv, RecInv, Ready
    <2>5. NameInv'
      BY <1>1, <2>1 DEF TypeInv, NameInv, Named, Cur
    <2> QED
      BY <1>3, <1>4, <1>5, <2>2, <2>3, <2>4, <2>5 DEF TypeInv
  <1> QED
    BY <1>6, <1>7, <1>8, <1>9

\* What is read is installed in the known state.
LEMMA TypeInstall ==
    ASSUME TypeInv, NextBlock \/ SetSliders
    PROVE  TypeInv'
  <1>1. /\ pc = "done"
        /\ UNCHANGED <<unitVars, edits, stops, losses, fxName, queue, slot, mode,
                       labels, due, worker, toggling>>
        /\ rec' = Blank
    BY DEF NextBlock, SetSliders, editVars
  <1>2. todo # <<>> /\ Cur \in Blocks /\ Tail(todo) \in Seq(Blocks) /\ slot = NoRead
    BY <1>1, HeadTail DEF TypeInv, TaskInv, Cur, SlotInv, Waits
  <1>3. MemInv' /\ WireInv'
    BY <1>1 DEF TypeInv, MemInv, WireInv, unitVars
  <1>4. CASE NextBlock
    <2> DEFINE read == [out EXCEPT ![Cur] = rec]
    <2>1. /\ mode = "scan"
          /\ todo' = <<>> \/ todo' = Tail(todo)
          /\ raced' = (raced \/ (CutShort /\ Len(todo) # 1))
          /\ pc' = IF todo' = <<>> THEN "idle" ELSE "sw"
      BY <1>4 DEF NextBlock
    <2>2. read \in [Blocks -> Entry \cup {NoEntry}]
      BY DEF TypeInv, KnownInv, RecInv
    <2>3. \A b \in Blocks : read[b] # NoEntry =>
             out[b] # NoEntry \/ (b = Cur /\ pc = "done")
      BY <1>1 DEF TypeInv, KnownInv
    <2>4. \/ /\ known' = [b \in Blocks |-> IF read[b] # NoEntry THEN read[b]
                                           ELSE known[b]]
             /\ out' = [b \in Blocks |-> NoEntry]
          \/ out' = read /\ known' = known
      BY <1>4 DEF NextBlock
    <2> HIDE DEF read
    <2>5. KnownInv'
      BY <1>1, <2>2, <2>4 DEF TypeInv, KnownInv
    <2>6. /\ Ready => Ready'
          /\ \A b \in FxBlocks : known'[b] # NoEntry \/ out'[b] # NoEntry =>
                known[b] # NoEntry \/ out[b] # NoEntry \/ (b = Cur /\ pc = "done")
      BY <2>3, <2>4, BlocksAssumption DEF Ready
    <2>7. QueueInv'
      BY <1>1, <2>6 DEF TypeInv, QueueInv
    <2>8. raced' \in BOOLEAN
      BY <2>1 DEF TypeInv, CountInv
    <2>9. CountInv'
      BY <1>1, <2>8 DEF TypeInv, CountInv
    <2>10. SlotInv'
      BY <1>1, <1>2, <2>1 DEF TypeInv, SlotInv, Pcs, Waits
    <2>11. mode' = "scan" /\ pc' \in {"idle", "sw"} /\ (todo' = <<>> <=> pc' = "idle")
      BY <1>1, <2>1
    <2>12. todo' \in Seq(Blocks)
      <3>1. <<>> \in Seq(Blocks)
        OBVIOUS
      <3>2. todo' = <<>> \/ todo' = Tail(todo)
        BY <2>1
      <3> QED
        BY <1>2, <3>1, <3>2
    <2>13. mode' = "scan" /\ todo' \in Seq(Blocks) /\ (todo' = <<>> <=> pc' = "idle")
      BY <2>11, <2>12
    <2>14. TaskInv'
      BY <1>1, <2>13 DEF TypeInv, TaskInv
    <2>15. pc' \in {"idle", "sw"} /\ UNCHANGED <<labels, due>> /\ rec' \in Entry
      BY <1>1, <2>1, BlankType
    <2>16. RecInv'
      BY <2>15 DEF TypeInv, RecInv
    <2>17. NameInv'
      BY <1>1, <2>1, <2>6 DEF TypeInv, NameInv, Named
    <2> QED
      BY <1>3, <2>5, <2>7, <2>9, <2>10, <2>16, <2>17, <2>14 DEF TypeInv
  <1>5. CASE SetSliders
    <2>1. /\ mode = "sliders" /\ todo' = <<>> /\ pc' = "idle"
          /\ raced' = raced /\ out' = out
          /\ known' = [known EXCEPT ![Cur].sliders = rec.sliders]
      BY <1>5 DEF SetSliders, editVars
    <2>2. Ready
      BY <2>1 DEF TypeInv, TaskInv
    <2>3. known[Cur] \in Entry
      BY <1>2, <2>2 DEF TypeInv, KnownInv, Ready
    <2>4. [known[Cur] EXCEPT !.sliders = rec.sliders] \in Entry
      BY <2>3 DEF TypeInv, RecInv, Entry
    <2>5. KnownInv'
      BY <1>1, <2>1, <2>4 DEF TypeInv, KnownInv
    <2>6. Ready'
      BY <2>1, <2>2, <2>4, NamesAssumption DEF TypeInv, KnownInv, Ready
    <2>7. QueueInv'
      BY <1>1, <2>6 DEF TypeInv, QueueInv
    <2>8. CountInv'
      BY <1>1, <2>1 DEF TypeInv, CountInv
    <2>9. SlotInv'
      BY <1>1, <1>2, <2>1 DEF TypeInv, SlotInv, Pcs, Waits
    <2>10. TaskInv' /\ RecInv'
      BY <1>1, <2>1, <2>6, BlankType DEF TypeInv, TaskInv, RecInv
    <2>11. NameInv'
      BY <1>1, <2>1, <2>2, BlocksAssumption DEF TypeInv, NameInv, Named, Ready
    <2> QED
      BY <1>3, <2>5, <2>7, <2>8, <2>9, <2>10, <2>11 DEF TypeInv
  <1> QED
    BY <1>4, <1>5

\* An echo leaves an entry an entry.
LEMMA AppliedType ==
    ASSUME NEW entry \in Entry, NEW f \in Heard, f.kind = "data"
    PROVE  Applied(entry, f) \in Entry
  <1>1. f.w \in Whats /\ f.v \in ValuesOf(f.w)
    BY DEF Heard, ProgramChange
  <1>2. CASE f.w = "sw"
    BY <1>1, <1>2 DEF Applied, ValuesOf, Entry
  <1>3. CASE f.w = "type"
    BY <1>1, <1>3 DEF Applied, ValuesOf, Entry
  <1>4. CASE f.w \in Settings
    <2>1. f.v \in Vals /\ f.w # "sw" /\ f.w # "type"
      BY <1>1, <1>4, NamesAssumption DEF ValuesOf
    <2> DEFINE new == [i \in 1..2 |->
                IF entry.sliders[i] # None /\ entry.sliders[i].label = LabelOf[f.w]
                THEN [entry.sliders[i] EXCEPT !.value = f.v] ELSE entry.sliders[i]]
               Slider == [label : Labels, value : Vals \cup {None}]
    <2>2. entry.sliders \in [1..2 -> {None} \cup Slider]
      BY DEF Entry
    <2>3. ASSUME NEW s \in Slider PROVE [s EXCEPT !.value = f.v] \in Slider
      BY <2>1
    <2> HIDE DEF Slider
    <2>4. new \in [1..2 -> {None} \cup Slider]
      BY <2>2, <2>3
    <2> HIDE DEF new
    <2>5. [entry EXCEPT !.sliders = new] \in Entry
      BY <2>4 DEF Entry, Slider
    <2> QED
      BY <2>1, <2>5 DEF Applied, new
  <1> QED
    BY <1>1, <1>2, <1>3, <1>4 DEF Whats

\* A frame is taken as the reply, handled, or refused.
LEMMA TypeReceive ==
    ASSUME TypeInv, Receive
    PROVE  TypeInv'
  <1>1. /\ inbound # <<>> /\ inbound' = Tail(inbound)
        /\ UNCHANGED <<mem, outbound, editVars, pc, mode, todo, rec, labels, due,
                       out, worker, toggling>>
    BY DEF Receive, Correlate, ProcessProgramChange, Refuse, Apply, readVars
  <1>2. Head(inbound) \in Heard /\ Tail(inbound) \in Seq(Heard)
    BY <1>1, HeadTail DEF TypeInv, WireInv
  <1>3. MemInv' /\ WireInv'
    BY <1>1, <1>2 DEF TypeInv, MemInv, WireInv
  <1>4. CountInv'
    BY <1>1 DEF TypeInv, CountInv, editVars
  <1>5. RecInv'
    BY <1>1 DEF TypeInv, RecInv
  <1>6. CASE Correlate
    <2>1. /\ UNCHANGED <<known, fxName, queue>> /\ Head(inbound).kind = "data"
          /\ slot.b = Head(inbound).b /\ slot.w = Head(inbound).w
          /\ slot' = [slot EXCEPT !.v = Head(inbound).v]
      BY <1>6 DEF Correlate, TakenAsReply
    <2>2. /\ Head(inbound).b \in Blocks /\ Head(inbound).v \in Values
          /\ Head(inbound).v \in ValuesOf(Head(inbound).w)
      BY <1>2, <2>1 DEF Heard, ProgramChange
    <2>3. slot \in Slots
      BY <2>1, <2>2, NamesAssumption DEF TypeInv, SlotInv, NoRead
    <2>4. slot' \in Slots /\ slot'.b = slot.b /\ slot'.w = slot.w
      BY <2>1, <2>2, <2>3 DEF Slots
    <2>5. SlotInv'
      BY <1>1, <2>3, <2>4, BlankType DEF TypeInv, SlotInv, Cur
    <2>6. KnownInv' /\ QueueInv'
      BY <1>1, <2>1 DEF TypeInv, KnownInv, QueueInv, Ready
    <2>7. TaskInv' /\ NameInv'
      BY <1>1, <2>1 DEF TypeInv, TaskInv, NameInv, Named, Ready, Cur
    <2> QED
      BY <1>3, <1>4, <1>5, <2>5, <2>6, <2>7 DEF TypeInv
  <1>7. CASE ProcessProgramChange
    <2>1. /\ UNCHANGED <<known, fxName, slot>>
          /\ queue' = Append(queue, Full)
      BY <1>7 DEF ProcessProgramChange, readVars, Scheduled
    <2>2. Full \in Tasks /\ Full.kind # "sliders"
      BY DEF Tasks, Full
    <2>3. QueueInv'
      BY <2>1, <2>2, Appended DEF TypeInv, QueueInv, Ready
    <2>4. KnownInv' /\ SlotInv'
      BY <1>1, <2>1 DEF TypeInv, KnownInv, SlotInv, Cur
    <2>5. TaskInv' /\ NameInv'
      BY <1>1, <2>1 DEF TypeInv, TaskInv, NameInv, Named, Ready, Cur
    <2> QED
      BY <1>3, <1>4, <1>5, <2>3, <2>4, <2>5 DEF TypeInv
  <1>8. CASE Refuse
    <2>1. UNCHANGED <<known, fxName, queue, slot>>
      BY <1>8 DEF Refuse, readVars
    <2>2. KnownInv' /\ QueueInv' /\ SlotInv'
      BY <1>1, <2>1 DEF TypeInv, KnownInv, QueueInv, SlotInv, Ready, Cur
    <2>3. TaskInv' /\ NameInv'
      BY <1>1, <2>1 DEF TypeInv, TaskInv, NameInv, Named, Ready, Cur
    <2> QED
      BY <1>3, <1>4, <1>5, <2>2, <2>3 DEF TypeInv
  <1>9. CASE Apply
    <2> DEFINE f == Head(inbound)
    <2>1. /\ slot' = slot /\ f.kind = "data" /\ Ready
          /\ known' = [known EXCEPT ![f.b] = Applied(@, f)]
          /\ fxName' = IF f.w = "type" /\ f.b \in FxBlocks
                       THEN [fxName EXCEPT ![f.b] = f.v] ELSE fxName
          /\ queue' = Scheduled(f)
      BY <1>9 DEF Apply, readVars
    <2>2. /\ f \in Heard /\ f.b \in Blocks
          /\ f.w = "type" => f.v \in Effects
      BY <1>2, <2>1 DEF Heard, ProgramChange, ValuesOf
    <2> HIDE DEF f
    <2>3. known[f.b] \in Entry
      BY <2>1, <2>2 DEF TypeInv, KnownInv, Ready
    <2>4. Applied(known[f.b], f) \in Entry
      BY <2>1, <2>2, <2>3, AppliedType
    <2>5. KnownInv'
      BY <1>1, <2>1, <2>2, <2>4 DEF TypeInv, KnownInv
    <2>6. Ready'
      BY <2>1, <2>2, <2>4, NamesAssumption DEF TypeInv, KnownInv, Ready
    <2>7. queue' \in Seq(Tasks)
      BY <2>1, <2>2, Appended DEF TypeInv, QueueInv, Scheduled, Tasks
    <2>8. QueueInv'
      BY <2>6, <2>7 DEF QueueInv
    <2>9. SlotInv' /\ TaskInv'
      BY <1>1, <2>1, <2>6 DEF TypeInv, SlotInv, TaskInv, Cur
    <2>10. \A b \in FxBlocks : /\ fxName[b] # NoEntry
                               /\ fxName'[b] # NoEntry
                               /\ fxName[b] \in Effects => fxName'[b] \in Effects
      BY <2>1, <2>2, NamesAssumption, BlocksAssumption
         DEF TypeInv, KnownInv, NameInv, Named, Ready
    <2>11. NameInv'
      BY <1>1, <2>10 DEF TypeInv, NameInv, Cur
    <2> QED
      BY <1>3, <1>4, <1>5, <2>5, <2>8, <2>9, <2>11 DEF TypeInv
  <1> QED
    BY <1>6, <1>7, <1>8, <1>9 DEF Receive

\* What an edit leaves of the reader and of the known state.
LEMMA TypeKeep ==
    ASSUME TypeInv,
           UNCHANGED <<fxName, queue, slot, pc, mode, todo, rec, labels, due, out,
                       worker>>,
           known' \in [Blocks -> Entry \cup {NoEntry}],
           \A b \in Blocks : known'[b] # NoEntry <=> known[b] # NoEntry
    PROVE  QueueInv' /\ KnownInv' /\ SlotInv' /\ TaskInv' /\ RecInv' /\ NameInv'
  <1>1. QueueInv'
    BY DEF TypeInv, QueueInv, Ready
  <1>2. KnownInv' /\ RecInv'
    BY DEF TypeInv, KnownInv, RecInv
  <1>3. SlotInv'
    BY DEF TypeInv, SlotInv, Cur
  <1>4. TaskInv'
    BY DEF TypeInv, TaskInv, Ready
  <1>5. NameInv'
    BY BlocksAssumption DEF TypeInv, NameInv, Named, Cur
  <1> QED
    BY <1>1, <1>2, <1>3, <1>4, <1>5

LEMMA TypeCount ==
    ASSUME TypeInv, NEW calm, CountEdit(calm)
    PROVE  /\ edits' \in 0..MaxEdits /\ stops' \in 0..MaxStops
           /\ losses' \in 0..MaxLosses /\ raced' \in BOOLEAN
  <1>1. raced' \in BOOLEAN
    BY DEF TypeInv, CountInv, CountEdit
  <1> QED
    BY <1>1, BoundsAssumption DEF TypeInv, CountInv, CountEdit

\* A cell of the unit's memory takes a value it can have.
LEMMA MemoryType ==
    ASSUME MemInv, NEW b \in Blocks, NEW w \in Whats, NEW v \in ValuesOf(w)
    PROVE  [mem EXCEPT ![b][w] = v] \in [Blocks -> Memory]
  <1>1. v \in Switch \cup Effects \cup Vals
    BY DEF ValuesOf
  <1>2. [mem[b] EXCEPT ![w] = v] \in Memory
    BY <1>1 DEF MemInv, Memory
  <1> QED
    BY <1>2 DEF MemInv

\* The unit's panel, the application's writes and its toggle.
LEMMA TypeEdit ==
    ASSUME TypeInv, (\E b \in Blocks : Edit(b)) \/ ChangeProgram \/ RecordToggle
    PROVE  TypeInv'
  <1> DEFINE Reading == <<slot, pc, mode, todo, rec, labels, due, out, worker>>
  <1>1. ASSUME UNCHANGED <<fxName, queue, readVars, known>>
        PROVE  QueueInv' /\ KnownInv' /\ SlotInv' /\ TaskInv' /\ RecInv' /\ NameInv'
    <2>1. /\ UNCHANGED <<fxName, queue, slot, pc, mode, todo, rec, labels, due, out,
                         worker>>
          /\ known' = known /\ known' \in [Blocks -> Entry \cup {NoEntry}]
      BY <1>1 DEF readVars, TypeInv, KnownInv
    <2> QED
      BY <2>1, TypeKeep
  <1>2. ASSUME NEW b \in Blocks, NEW w \in Whats, NEW v \in ValuesOf(w),
               PanelEdit(b, w, v)
        PROVE  TypeInv'
    <2>1. MemInv'
      BY <1>2, MemoryType DEF PanelEdit, TypeInv, MemInv
    <2>2. Frame(b, w, v) \in Heard
      BY DEF Frame, Heard, Values, ValuesOf
    <2>3. WireInv'
      BY <1>2, <2>2, Appended DEF PanelEdit, TypeInv, WireInv
    <2>4. CountInv'
      BY <1>2, TypeCount DEF PanelEdit, TypeInv, CountInv
    <2> QED
      BY <1>1, <1>2, <2>1, <2>3, <2>4 DEF PanelEdit, TypeInv
  <1>3. ASSUME NEW b \in Blocks, NEW w \in Whats, NEW v \in ValuesOf(w), NEW calm,
               CountEdit(calm), outbound' = Append(outbound, Write(b, w, v)),
               UNCHANGED <<mem, inbound, known, fxName, queue, readVars>>
        PROVE  /\ MemInv' /\ WireInv' /\ QueueInv' /\ KnownInv' /\ SlotInv'
               /\ TaskInv' /\ RecInv' /\ NameInv'
    <2>1. Write(b, w, v) \in Sent
      BY DEF Write, Sent, Values, ValuesOf
    <2>2. MemInv' /\ WireInv'
      BY <1>3, <2>1, Appended DEF TypeInv, MemInv, WireInv
    <2> QED
      BY <1>1, <1>3, <2>2
  <1>4. ASSUME NEW b \in Blocks, NEW v \in Switch, Toggle(b, v)
        PROVE  TypeInv'
    <2>1. "sw" \in Whats /\ v \in ValuesOf("sw")
      BY DEF Whats, ValuesOf
    <2>2. CountInv'
      BY <1>4, TypeCount DEF Toggle, TypeInv, CountInv
    <2> QED
      BY <1>3, <1>4, <2>1, <2>2 DEF Toggle, TypeInv
  <1>5. ASSUME NEW b \in Blocks, NEW i \in 1..2, NEW v \in Vals, SetValue(b, i, v)
        PROVE  TypeInv'
    <2> DEFINE l == known[b].sliders[i].label
               w == SettingIn(LiveTable(b), l)
    <2>1. /\ known[b] # NoEntry /\ Carries(LiveTable(b), l)
          /\ b \in FxBlocks => fxName[b] # None
          /\ CountEdit(Calm(b, w)) /\ outbound' = Append(outbound, Write(b, w, v))
          /\ UNCHANGED <<mem, inbound, known, fxName, queue, readVars, toggling>>
      BY <1>5 DEF SetValue
    <2>2. LiveTable(b) \subseteq Settings
      BY <2>1, LabelsAssumption DEF LiveTable, TypeInv, KnownInv, NameInv, Named
    <2>3. w \in Settings
      BY <2>1, <2>2 DEF Carries, SettingIn
    <2>4. w \in Whats /\ v \in ValuesOf(w)
      BY <2>3, NamesAssumption DEF Whats, ValuesOf
    <2> HIDE DEF w
    <2>5. CountInv'
      BY <2>1, TypeCount DEF TypeInv, CountInv
    <2> QED
      BY <1>3, <2>1, <2>4, <2>5 DEF TypeInv
  <1>6. ASSUME NEW b \in Blocks, NEW e \in Effects, SetType(b, e)
        PROVE  TypeInv'
    <2>1. "type" \in Whats /\ e \in ValuesOf("type")
      BY DEF Whats, ValuesOf
    <2>2. CountInv'
      BY <1>6, TypeCount DEF SetType, TypeInv, CountInv
    <2> QED
      BY <1>3, <1>6, <2>1, <2>2 DEF SetType, TypeInv
  <1>7. CASE ChangeProgram
    <2>1. MemInv'
      BY <1>7, PatchesAssumption DEF ChangeProgram, MemInv
    <2>2. ProgramChange \in Heard
      BY DEF Heard
    <2>3. WireInv'
      BY <1>7, <2>2, Appended DEF ChangeProgram, TypeInv, WireInv
    <2>4. CountInv'
      BY <1>7, TypeCount DEF ChangeProgram, TypeInv, CountInv
    <2> QED
      BY <1>1, <1>7, <2>1, <2>3, <2>4 DEF ChangeProgram, TypeInv
  <1>8. CASE RecordToggle
    <2>1. /\ toggling \in [b : Blocks, w : {"sw"}, v : Switch] /\ toggling' = NoRead
          /\ UNCHANGED <<unitVars, editVars, fxName, queue, readVars>>
          /\ known' = IF known[toggling.b] = NoEntry THEN known
                      ELSE [known EXCEPT ![toggling.b].sw = toggling.v]
      BY <1>8 DEF RecordToggle, TypeInv, CountInv
    <2>2. /\ known' \in [Blocks -> Entry \cup {NoEntry}]
          /\ \A b \in Blocks : known'[b] # NoEntry <=> known[b] # NoEntry
      <3>1. CASE known[toggling.b] = NoEntry
        BY <2>1, <3>1 DEF TypeInv, KnownInv
      <3>2. CASE known[toggling.b] # NoEntry
        <4>1. toggling.b \in Blocks /\ toggling.v \in Switch
              /\ known[toggling.b] \in Entry
          BY <2>1, <3>2 DEF TypeInv, KnownInv
        <4>2. [known[toggling.b] EXCEPT !.sw = toggling.v] \in Entry
          BY <4>1 DEF Entry
        <4> QED
          BY <2>1, <3>2, <4>1, <4>2, NamesAssumption DEF TypeInv, KnownInv
      <3> QED
        BY <3>1, <3>2
    <2>3. MemInv' /\ WireInv'
      BY <2>1 DEF TypeInv, MemInv, WireInv, unitVars
    <2>4. CountInv'
      BY <2>1 DEF TypeInv, CountInv, editVars
    <2> QED
      BY <2>1, <2>2, <2>3, <2>4, TypeKeep DEF readVars, TypeInv
  <1> QED
    BY <1>2, <1>4, <1>5, <1>6, <1>7, <1>8 DEF Edit

\* The unit serves a message, or a request is lost.
LEMMA TypeUnit ==
    ASSUME TypeInv, Serve \/ LoseRequest
    PROVE  TypeInv'
  <1>1. /\ outbound # <<>> /\ outbound' = Tail(outbound)
        /\ UNCHANGED <<edits, stops, raced, known, fxName, queue, readVars, toggling>>
    BY DEF Serve, LoseRequest, editVars
  <1>2. Head(outbound) \in Sent /\ Tail(outbound) \in Seq(Sent)
    BY <1>1, HeadTail DEF TypeInv, WireInv
  <1>3. QueueInv' /\ KnownInv' /\ SlotInv' /\ TaskInv' /\ RecInv' /\ NameInv'
    <2>1. /\ UNCHANGED <<fxName, queue, slot, pc, mode, todo, rec, labels, due, out,
                         worker>>
          /\ known' = known /\ known' \in [Blocks -> Entry \cup {NoEntry}]
      BY <1>1 DEF readVars, TypeInv, KnownInv
    <2> QED
      BY <2>1, TypeKeep
  <1>4. CountInv'
    <2>1. losses' \in 0..MaxLosses
      BY BoundsAssumption DEF Serve, LoseRequest, editVars, TypeInv, CountInv
    <2>2. raced' \in BOOLEAN /\ toggling' = toggling
      BY <1>1 DEF TypeInv, CountInv
    <2> QED
      BY <1>1, <2>1, <2>2 DEF TypeInv, CountInv
  <1>5. CASE Serve
    <2> DEFINE m == Head(outbound)
    <2>1. /\ m.kind = "dt1" => /\ mem' = [mem EXCEPT ![m.b][m.w] = m.v]
                               /\ inbound' = Append(inbound, Frame(m.b, m.w, m.v))
          /\ m.kind # "dt1" =>
                /\ mem' = mem
                /\ inbound' = Append(inbound, Frame(m.b, m.w, mem[m.b][m.w]))
      BY <1>5 DEF Serve
    <2>2. /\ m.b \in Blocks /\ m.w \in Whats
          /\ m.kind = "dt1" => m.v \in ValuesOf(m.w)
      BY <1>2 DEF Sent
    <2> HIDE DEF m
    <2>3. mem[m.b][m.w] \in ValuesOf(m.w)
      BY <2>2 DEF TypeInv, MemInv, Memory
    <2>4. ASSUME NEW v \in ValuesOf(m.w) PROVE Frame(m.b, m.w, v) \in Heard
      BY <2>2 DEF Frame, Heard, Values, ValuesOf
    <2>5. MemInv'
      BY <2>1, <2>2, MemoryType DEF TypeInv, MemInv
    <2>6. inbound' \in Seq(Heard)
      <3>1. \E f \in Heard : inbound' = Append(inbound, f)
        BY <2>1, <2>2, <2>3, <2>4
      <3> QED
        BY <3>1, Appended DEF TypeInv, WireInv
    <2> QED
      BY <1>1, <1>2, <1>3, <1>4, <2>5, <2>6 DEF TypeInv, WireInv
  <1>6. CASE LoseRequest
    <2>1. mem' = mem /\ inbound' = inbound
      BY <1>6 DEF LoseRequest
    <2> QED
      BY <1>1, <1>2, <1>3, <1>4, <2>1 DEF TypeInv, MemInv, WireInv
  <1> QED
    BY <1>5, <1>6

LEMMA TypeStutter == TypeInv /\ UNCHANGED vars => TypeInv'
  <1> SUFFICES ASSUME TypeInv, UNCHANGED vars PROVE TypeInv'
    OBVIOUS
  <1>1. /\ UNCHANGED <<mem, outbound, inbound, edits, stops, losses, raced, known, fxName>>
        /\ UNCHANGED <<queue, slot, pc, mode, todo, rec, labels, due, out, worker, toggling>>
    BY DEF vars, unitVars, readVars, editVars
  <1>2. MemInv' /\ WireInv' /\ CountInv'
    BY <1>1 DEF TypeInv, MemInv, WireInv, CountInv
  <1>3. known' \in [Blocks -> Entry \cup {NoEntry}]
    BY <1>1 DEF TypeInv, KnownInv
  <1> QED
    BY <1>1, <1>2, <1>3, TypeKeep DEF TypeInv

\* Every step keeps the inductive form.
LEMMA TypeStep == TypeInv /\ [Next]_vars => TypeInv'
  BY TypeDispatch, TypeWorker, TypeRequest, TypeReply, TypeLocal, TypeInstall,
     TypeReceive, TypeEdit, TypeUnit, TypeStutter DEF Next, Reader

\* Whatever the unit, the application and the worker do in whatever order, the
\* known state, the live effect names and the reader's locals keep their types:
\* an entry is never built from a value of another setting, and a re-read of the
\* sliders never runs before every block is known.
THEOREM TypeCorrect == Spec => []TypeOK
  <1>1. Spec => []TypeInv
    BY TypeInit, TypeStep, PTL DEF Spec
  <1> QED
    BY <1>1, TypeInvOK, PTL

-----------------------------------------------------------------------------
(* A type on its way: a read, a write, an echo or a reply.  As long as no    *)
(* edit has raced, a block has at most one; while a scan, or a re-read of    *)
(* the block's sliders, is under way or due it can only be the scan's own    *)
(* read.  So the name that a block's labels were picked under stays.         *)

TypeAt(wire, b) == {i \in 1..Len(wire) : wire[i].b = b /\ wire[i].w = "type"}
Single(b) ==
    /\ \A i, j \in TypeAt(outbound, b) : i = j
    /\ \A i, j \in TypeAt(inbound, b) : i = j
    /\ TypeAt(outbound, b) = {} \/ TypeAt(inbound, b) = {}
AtType(b) == pc = "typeWait" /\ Cur = b
ReadsType(b) ==
    \A i \in TypeAt(outbound, b) : outbound[i].kind = "rq1" => AtType(b)
Busy(b) == \/ ScanDue
           \/ pc # "idle" /\ mode = "sliders" /\ Cur = b
           \/ On(queue, Sliders(b))
Clear(b) ==
    Busy(b) =>
       /\ \A i \in TypeAt(outbound, b) : outbound[i].kind = "rq1"
       /\ TypeAt(outbound, b) # {} \/ TypeAt(inbound, b) # {} =>
             AtType(b) /\ slot.v = None
Tracked(b) == Single(b) /\ ReadsType(b) /\ Clear(b)
Found == pc \in {"range", "val", "valWait"} =>
            \A i \in due : Carries(LiveTable(Cur), labels[i])
ReaderInv == /\ ~raced => (\A b \in Blocks : Tracked(b)) /\ Found
             /\ pc = "dead" => raced

\* What a wire loses at its head and gains at its end.
LEMMA TypeTail ==
    ASSUME NEW S, NEW s \in Seq(S), s # <<>>, NEW b
    PROVE  /\ \A i \in TypeAt(Tail(s), b) : i + 1 \in TypeAt(s, b) /\ Tail(s)[i] = s[i + 1]
           /\ 1 \in TypeAt(s, b) <=> Head(s).b = b /\ Head(s).w = "type"
  BY HeadTail DEF TypeAt

LEMMA TypeAppended ==
    ASSUME NEW S, NEW s \in Seq(S), NEW x \in S, NEW b, x.b = b, x.w = "type"
    PROVE  /\ TypeAt(Append(s, x), b) = TypeAt(s, b) \cup {Len(s) + 1}
           /\ Append(s, x)[Len(s) + 1] = x
  BY Appended DEF TypeAt

LEMMA OtherAppended ==
    ASSUME NEW S, NEW s \in Seq(S), NEW x \in S, NEW b, ~(x.b = b /\ x.w = "type")
    PROVE  /\ TypeAt(Append(s, x), b) = TypeAt(s, b)
           /\ \A i \in TypeAt(s, b) : Append(s, x)[i] = s[i]
  BY Appended DEF TypeAt

\* A step that leaves the types on the wires keeps a block tracked, if it
\* neither begins a read of it nor ends one of its type.
LEMMA TrackedKept ==
    ASSUME NEW b, Tracked(b),
           TypeAt(outbound', b) = TypeAt(outbound, b),
           TypeAt(inbound', b) = TypeAt(inbound, b),
           \A i \in TypeAt(outbound, b) : outbound'[i] = outbound[i],
           AtType(b) => AtType(b)' /\ (slot.v = None => slot'.v = None),
           Busy(b)' => Busy(b)
    PROVE  Tracked(b)'
  BY DEF Tracked, Single, ReadsType, Clear

\* A step after which no type of the block is on a wire.
LEMMA TrackedNone ==
    ASSUME NEW b, TypeAt(outbound', b) = {}, TypeAt(inbound', b) = {}
    PROVE  Tracked(b)'
  BY DEF Tracked, Single, ReadsType, Clear

\* A step that takes something off a wire.
LEMMA TrackedTail ==
    ASSUME NEW b, Tracked(b),
           NEW S, outbound \in Seq(S), NEW T, inbound \in Seq(T),
           \/ outbound # <<>> /\ outbound' = Tail(outbound) /\ inbound' = inbound
           \/ inbound # <<>> /\ inbound' = Tail(inbound) /\ outbound' = outbound,
           AtType(b) => AtType(b)' /\ (slot.v = None => slot'.v = None),
           Busy(b)' => Busy(b)
    PROVE  Tracked(b)'
  <1> DEFINE Shifted(s, t) == \/ t = s
                              \/ \A i \in TypeAt(t, b) : i + 1 \in TypeAt(s, b) /\ t[i] = s[i + 1]
  <1>1. Shifted(outbound, outbound') /\ Shifted(inbound, inbound')
    <2>1. outbound # <<>> => Shifted(outbound, Tail(outbound))
      BY TypeTail
    <2>2. inbound # <<>> => Shifted(inbound, Tail(inbound))
      BY TypeTail
    <2> HIDE DEF Shifted
    <2>3. Shifted(outbound, outbound) /\ Shifted(inbound, inbound)
      BY DEF Shifted
    <2> QED
      BY <2>1, <2>2, <2>3
  <1>2. /\ \A i \in TypeAt(outbound, b) \cup TypeAt(outbound', b) : i \in Nat
        /\ \A i \in TypeAt(inbound, b) \cup TypeAt(inbound', b) : i \in Nat
    BY HeadTail DEF TypeAt
  <1>3. Single(b)'
    BY <1>1, <1>2 DEF Tracked, Single
  <1>4. ReadsType(b)'
    BY <1>1 DEF Tracked, ReadsType
  <1>5. Clear(b)'
    BY <1>1 DEF Tracked, Clear
  <1> QED
    BY <1>3, <1>4, <1>5 DEF Tracked

LEMMA ReaderInit == Init => ReaderInv
  <1> SUFFICES ASSUME Init PROVE ReaderInv
    OBVIOUS
  <1>1. pc = "sw" /\ \A b : TypeAt(outbound, b) = {} /\ TypeAt(inbound, b) = {}
    BY DEF Init, TypeAt
  <1> QED
    BY <1>1 DEF ReaderInv, Tracked, Single, ReadsType, Clear, Found

\* While a block is busy, only the scan's read of its own type may be on a wire.
LEMMA BusyClear ==
    ASSUME ReaderInv, ~raced, NEW b \in Blocks, Busy(b), ~AtType(b)
    PROVE  TypeAt(outbound, b) = {} /\ TypeAt(inbound, b) = {}
  BY DEF ReaderInv, Tracked, Clear

\* What is queued is on the queue, and was so before the head was taken.
LEMMA OnTail ==
    ASSUME NEW S, NEW s \in Seq(S), s # <<>>, NEW m
    PROVE  /\ On(s, Head(s))
           /\ On(Tail(s), m) => On(s, m)
  BY HeadTail DEF On

LEMMA OnAppend ==
    ASSUME NEW S, NEW s \in Seq(S), NEW x \in S, NEW m
    PROVE  On(Append(s, x), m) => On(s, m) \/ x = m
  BY Appended DEF On

\* The worker takes a task, skips one, is stopped, ends or is started.
LEMMA ReaderDispatch ==
    ASSUME TypeInv, ReaderInv, TakeFull \/ TakeSliders \/ SkipFull
    PROVE  ReaderInv'
  <1>1. /\ pc = "idle" /\ queue # <<>> /\ queue' = Tail(queue)
        /\ UNCHANGED <<outbound, inbound>>
    BY DEF TakeFull, TakeSliders, SkipFull, Dispatched, unitVars
  <1>2. queue \in Seq(Tasks) /\ Head(queue) \in Tasks
    BY <1>1, HeadTail DEF TypeInv, QueueInv
  <1>3. CASE TakeFull
    <2>1. pc' = "sw" /\ raced' = (raced /\ ~Undisturbed) /\ Head(queue).kind = "full"
      BY <1>3 DEF TakeFull
    <2>2. Head(queue) = Full
      BY <1>2, <2>1 DEF Tasks, Full, Sliders
    <2>3. ASSUME ~raced', NEW b \in Blocks PROVE Tracked(b)'
      <3>1. CASE raced
        <4>1. Undisturbed
          BY <2>1, <2>3, <3>1 DEF TypeInv, CountInv
        <4> QED
          BY <1>1, <4>1, TrackedNone DEF Undisturbed, TypeAt
      <3>2. CASE ~raced
        <4>1. Busy(b)
          BY <1>1, <1>2, <2>2, OnTail DEF Busy, ScanDue
        <4>2. TypeAt(outbound, b) = {} /\ TypeAt(inbound, b) = {}
          BY <1>1, <3>2, <4>1, BusyClear DEF AtType
        <4> QED
          BY <1>1, <4>2, TrackedNone
      <3> QED
        BY <3>1, <3>2
    <2> QED
      BY <2>1, <2>3 DEF ReaderInv, Found
  <1>4. CASE TakeSliders
    <2>1. /\ pc' = "params" /\ raced' = raced /\ mode' = "sliders"
          /\ todo' = <<Head(queue).b>> /\ Head(queue).kind = "sliders"
      BY <1>4 DEF TakeSliders
    <2>2. Head(queue) = Sliders(Head(queue).b) /\ Cur' = Head(queue).b
      BY <1>2, <2>1 DEF Tasks, Full, Sliders, Cur
    <2>3. ASSUME ~raced, NEW b \in Blocks PROVE Tracked(b)'
      <3>1. Busy(b)' => Busy(b)
        BY <1>1, <1>2, <2>1, <2>2, OnTail DEF Busy, ScanDue
      <3>2. Tracked(b) /\ ~AtType(b)
        BY <1>1, <2>3 DEF ReaderInv, AtType
      <3> QED
        BY <1>1, <3>1, <3>2, TrackedKept
    <2> QED
      BY <2>1, <2>3 DEF ReaderInv, Found
  <1>5. CASE SkipFull
    BY <1>1, <1>5 DEF SkipFull, ReaderInv
  <1> QED
    BY <1>3, <1>4, <1>5

LEMMA ReaderWorker ==
    ASSUME TypeInv, ReaderInv, Exit \/ Stop \/ Start
    PROVE  ReaderInv'
  <1>1. /\ UNCHANGED <<outbound, inbound, queue, slot, fxName, mode, labels, due, raced>>
        /\ \/ UNCHANGED <<pc, todo>>
           \/ pc \notin Waits /\ pc' = "idle"
    BY DEF Exit, Stop, Start, unitVars, editVars, Waits, TypeInv, TaskInv
  <1>2. ASSUME ~raced, NEW b \in Blocks PROVE Tracked(b)'
    <2>1. Busy(b)' => Busy(b)
      BY <1>1 DEF Busy, ScanDue, Cur
    <2>2. AtType(b) => AtType(b)'
      BY <1>1 DEF AtType, Waits, Cur
    <2> QED
      BY <1>1, <1>2, <2>1, <2>2, TrackedKept DEF ReaderInv
  <1>3. ~raced => Found'
    BY <1>1 DEF ReaderInv, Found, LiveTable, Cur
  <1> QED
    BY <1>1, <1>2, <1>3 DEF ReaderInv

\* A request: only a scan asks for a type, and then none is on a wire.
LEMMA ReaderRequest ==
    ASSUME TypeInv, ReaderInv, AskSwitch \/ AskType \/ AskValue
    PROVE  ReaderInv'
  <1>1. Cur \in Blocks
    BY HeadTail DEF AskSwitch, AskType, AskValue, Ask, TypeInv, TaskInv, Cur
  <1>2. AskValue => SettingIn(LiveTable(Cur), labels[Turn]) \in Settings
    <2>1. AskValue => LiveTable(Cur) \subseteq Settings
      BY <1>1, LabelsAssumption DEF AskValue, Ask, LiveTable, TypeInv, NameInv
    <2> QED
      BY <2>1 DEF AskValue, InTable, Carries, SettingIn
  <1>3. PICK w \in Whats :
           \/ w = "sw" /\ Ask("sw", w, "swWait")
           \/ w = "type" /\ Ask("type", w, "typeWait")
           \/ w \in Settings /\ Ask("val", w, "valWait")
    BY <1>2 DEF AskSwitch, AskType, AskValue, Whats
  <1>4. /\ pc \in {"sw", "type", "val"} /\ pc' \in {"swWait", "typeWait", "valWait"}
        /\ pc = "type" <=> w = "type"
        /\ pc' = "typeWait" <=> w = "type"
        /\ pc' = "valWait" => pc = "val"
        /\ slot' = [NoRead EXCEPT !.b = Cur, !.w = w]
        /\ outbound' = Append(outbound, Read(Cur, w))
        /\ UNCHANGED <<inbound, raced, fxName, queue, mode, todo, labels, due>>
    BY <1>3, NamesAssumption DEF Ask, editVars
  <1>5. Read(Cur, w) \in Sent /\ outbound \in Seq(Sent)
    BY <1>1 DEF Read, Sent, TypeInv, WireInv
  <1>6. ASSUME ~raced, NEW b \in Blocks PROVE Tracked(b)'
    <2>1. Busy(b)' => Busy(b)
      BY <1>4 DEF Busy, ScanDue, Cur
    <2>2. ~AtType(b) /\ Tracked(b)
      BY <1>4, <1>6 DEF AtType, ReaderInv
    <2>3. CASE w = "type" /\ b = Cur
      <3>1. Busy(b)
        BY <1>4, <2>3 DEF Busy, ScanDue, TypeInv, TaskInv
      <3>2. TypeAt(outbound, b) = {} /\ TypeAt(inbound, b) = {}
        BY <1>6, <2>2, <3>1, BusyClear
      <3>3. /\ TypeAt(outbound', b) = {Len(outbound) + 1}
            /\ outbound'[Len(outbound) + 1] = Read(Cur, w)
        BY <1>4, <1>5, <2>3, <3>2, TypeAppended DEF Read
      <3>4. AtType(b)' /\ slot'.v = None
        BY <1>4, <2>3 DEF AtType, Cur, NoRead
      <3>5. Single(b)' /\ ReadsType(b)' /\ Clear(b)'
        BY <1>4, <3>2, <3>3, <3>4 DEF Single, ReadsType, Clear, Read
      <3> QED
        BY <3>5 DEF Tracked
    <2>4. CASE ~(w = "type" /\ b = Cur)
      <3>1. /\ TypeAt(outbound', b) = TypeAt(outbound, b)
            /\ \A i \in TypeAt(outbound, b) : outbound'[i] = outbound[i]
        <4>1. ~(Read(Cur, w).b = b /\ Read(Cur, w).w = "type")
          BY <2>4 DEF Read
        <4> QED
          BY <1>4, <1>5, <4>1, OtherAppended
      <3> QED
        BY <1>4, <2>1, <2>2, <3>1, TrackedKept
    <2> QED
      BY <2>3, <2>4
  <1>7. ~raced => Found'
    BY <1>4 DEF ReaderInv, Found, LiveTable, Cur
  <1> QED
    BY <1>4, <1>6, <1>7 DEF ReaderInv

\* The reader's other steps leave the wires alone.  When it has the type of a
\* block, or has given up on it, no type of the block is on a wire; so the
\* labels it then picks are in the table it looks them up in.
LEMMA ReaderRest ==
    ASSUME TypeInv, ReaderInv,
           GotSwitch \/ GotType \/ GotValue \/ RecordName \/ PickParams \/ ReadRange
              \/ NoAddress
    PROVE  ReaderInv'
  <1>1. /\ UNCHANGED <<outbound, inbound, queue, mode, todo, raced>>
        /\ pc \in {"swWait", "typeWait", "valWait", "name", "params", "range", "val"}
        /\ slot' = slot \/ slot' = NoRead
    BY DEF GotSwitch, GotType, GotValue, Got, RecordName, PickParams, ReadRange,
           NoAddress, unitVars, editVars, SlotClosed
  <1>2. Cur \in Blocks
    BY <1>1, HeadTail DEF TypeInv, TaskInv, Cur
  <1>3. ASSUME ~raced, NEW b \in Blocks PROVE Tracked(b)'
    <2>1. Tracked(b)
      BY <1>3 DEF ReaderInv
    <2>2. CASE AtType(b)
      <3>1. GotType /\ b = Cur /\ Busy(b) /\ slot.b = b /\ slot.w = "type"
        BY <1>1, <2>2 DEF AtType, Busy, ScanDue, TypeInv, TaskInv, SlotInv, Waits,
              GotSwitch, GotType, GotValue, Got, RecordName, PickParams,
              ReadRange, NoAddress
      <3>2. CASE slot.v # None
        <4>1. TypeAt(outbound, b) = {} /\ TypeAt(inbound, b) = {}
          BY <2>1, <3>1, <3>2 DEF Tracked, Clear
        <4> QED
          BY <1>1, <4>1, TrackedNone
      <3>3. CASE slot.v = None
        <4>1. /\ ~On(outbound, Read(b, "type"))
              /\ \A v \in Effects : ~On(inbound, Frame(b, "type", v))
          BY <3>1, <3>3 DEF GotType, Got, AnswerDue, ValuesOf
        <4>2. ASSUME NEW i \in TypeAt(outbound, b) PROVE FALSE
          <5>1. /\ i \in 1..Len(outbound) /\ outbound[i] \in Sent
                /\ outbound[i].kind = "rq1"
            BY <2>1, <3>1 DEF Tracked, Clear, TypeAt, TypeInv, WireInv
          <5>2. outbound[i] = Read(b, "type")
            BY <5>1 DEF TypeAt, Sent, Read
          <5> QED
            BY <4>1, <5>1, <5>2 DEF On
        <4>3. ASSUME NEW i \in TypeAt(inbound, b) PROVE FALSE
          <5>1. /\ i \in 1..Len(inbound) /\ inbound[i] \in Heard
                /\ inbound[i].b = b /\ inbound[i].w = "type"
            BY DEF TypeAt, TypeInv, WireInv
          <5>2. inbound[i].v \in Effects /\ inbound[i] = Frame(b, "type", inbound[i].v)
            BY <5>1, NamesAssumption DEF Heard, Frame, ProgramChange, ValuesOf
          <5> QED
            BY <4>1, <5>1, <5>2 DEF On
        <4>4. TypeAt(outbound, b) = {} /\ TypeAt(inbound, b) = {}
          BY <4>2, <4>3
        <4> QED
          BY <1>1, <4>4, TrackedNone
      <3> QED
        BY <3>2, <3>3
    <2>3. CASE ~AtType(b)
      <3>1. Busy(b)' => Busy(b)
        BY <1>1 DEF Busy, ScanDue, Cur
      <3> QED
        BY <1>1, <2>1, <2>3, <3>1, TrackedKept
    <2> QED
      BY <2>2, <2>3
  <1>4. CASE GotSwitch \/ GotType \/ RecordName
    <2>1. pc' \in {"type", "name", "params"}
      BY <1>4 DEF GotSwitch, GotType, RecordName
    <2> QED
      BY <1>1, <1>3, <2>1 DEF ReaderInv, Found
  <1>5. CASE PickParams
    <2>1. pc = "params" /\ fxName' = fxName /\ todo' = todo
      BY <1>5 DEF PickParams
    <2>2. /\ Cur \in FxBlocks => NameOf(Cur) = fxName[Cur]
          /\ NameOf(Cur) \in Effects \cup {None}
      BY <1>2, <2>1, NamesAssumption, BlocksAssumption
         DEF TypeInv, NameOf, NameInv, Named, KnownInv, RecInv, Entry
    <2>3. /\ labels' = SliderLabels(Cur, NameOf(Cur))
          /\ due' = {i \in {1, 2} : labels'[i] # None}
          /\ pc' \in {"done", "range"}
      BY <1>5, <2>2, NamesAssumption DEF PickParams
    <2>4. ASSUME NEW i \in due' PROVE Carries(LiveTable(Cur), labels'[i])
      <3>1. i \in 1..2 /\ SliderLabels(Cur, NameOf(Cur))[i] # None
        BY <2>3
      <3>2. CASE Cur \in FxBlocks
        <4>1. fxName[Cur] \in Effects /\ labels' = SlidersOf[Cur][fxName[Cur]]
          BY <2>2, <2>3, <3>1, <3>2, LabelsAssumption DEF SliderLabels
        <4> QED
          BY <2>3, <3>1, <3>2, <4>1, LabelsAssumption DEF LiveTable
      <3>3. CASE Cur \notin FxBlocks
        <4>1. labels'[i] \in {SlidersOf[Cur][e][i] : e \in Effects}
                             \cup {SlidersUnnamed[Cur][i]}
          BY <2>2, <2>3 DEF SliderLabels
        <4> QED
          BY <1>2, <2>3, <3>1, <3>3, <4>1, LabelsAssumption DEF LiveTable
      <3> QED
        BY <3>2, <3>3
    <2>5. Found'
      BY <2>1, <2>4 DEF Found, LiveTable, Cur
    <2> QED
      BY <1>1, <1>3, <2>3, <2>5 DEF ReaderInv
  <1>6. CASE ReadRange
    <2>1. /\ pc = "range" /\ UNCHANGED <<fxName, labels, due>>
          /\ pc' = IF InTable(Cur) THEN "val" ELSE "dead"
      BY <1>6 DEF ReadRange
    <2>2. ~raced => InTable(Cur)
      <3>1. Turn \in due
        BY <2>1 DEF TypeInv, RecInv, Turn
      <3> QED
        BY <2>1, <3>1 DEF ReaderInv, Found, InTable
    <2>3. ~raced => Found'
      BY <1>1, <2>1 DEF ReaderInv, Found, LiveTable, Cur
    <2> QED
      BY <1>1, <1>3, <2>1, <2>2, <2>3 DEF ReaderInv
  <1>7. CASE GotValue \/ NoAddress
    <2>1. /\ pc \in {"val", "valWait"} /\ pc' \in {"range", "done"}
          /\ due' = due \ {Turn} /\ UNCHANGED <<fxName, labels>>
      BY <1>7 DEF GotValue, NoAddress, Got, Resolved
    <2>2. ~raced => Found'
      BY <1>1, <2>1 DEF ReaderInv, Found, LiveTable, Cur
    <2> QED
      BY <1>1, <1>3, <2>1, <2>2 DEF ReaderInv
  <1> QED
    BY <1>4, <1>5, <1>6, <1>7

\* Nothing of a type is on a wire when a block of a scan is complete.
LEMMA ReaderInstall ==
    ASSUME TypeInv, ReaderInv, NextBlock \/ SetSliders
    PROVE  ReaderInv'
  <1>1. /\ pc = "done" /\ pc' \in {"idle", "sw"} /\ UNCHANGED <<outbound, inbound, queue, slot, mode>>
        /\ ~raced' => ~raced
    BY DEF NextBlock, SetSliders, unitVars, editVars, TypeInv, CountInv
  <1>2. ASSUME ~raced, NEW b \in Blocks PROVE Tracked(b)'
    <2>1. CASE NextBlock
      <3>1. Busy(b) /\ ~AtType(b)
        BY <1>1, <2>1 DEF NextBlock, Busy, ScanDue, AtType
      <3>2. TypeAt(outbound, b) = {} /\ TypeAt(inbound, b) = {}
        BY <1>2, <3>1, BusyClear
      <3> QED
        BY <1>1, <3>2, TrackedNone
    <2>2. CASE SetSliders
      <3>1. pc' = "idle"
        BY <2>2 DEF SetSliders
      <3>2. Busy(b)' => Busy(b)
        BY <1>1, <3>1 DEF Busy, ScanDue
      <3>3. Tracked(b) /\ ~AtType(b)
        BY <1>1, <1>2 DEF ReaderInv, AtType
      <3> QED
        BY <1>1, <3>2, <3>3, TrackedKept
    <2> QED
      BY <2>1, <2>2
  <1> QED
    BY <1>1, <1>2 DEF ReaderInv, Found

\* The inbound thread: the frame it takes off may have been a type's only one.
LEMMA ReaderReceive ==
    ASSUME TypeInv, ReaderInv, Receive
    PROVE  ReaderInv'
  <1> DEFINE f == Head(inbound)
  <1>1. /\ inbound # <<>> /\ inbound' = Tail(inbound)
        /\ UNCHANGED <<outbound, raced, pc, mode, todo, labels, due>>
    BY DEF Receive, Correlate, ProcessProgramChange, Refuse, Apply, readVars, editVars
  <1>2. /\ inbound \in Seq(Heard) /\ outbound \in Seq(Sent) /\ queue \in Seq(Tasks)
        /\ f \in Heard
    BY <1>1, HeadTail DEF TypeInv, WireInv, QueueInv
  <1>3. On(inbound, f) /\ \A m : On(inbound', m) => On(inbound, m)
    BY <1>1, <1>2, OnTail
  <1>4. \A b : 1 \in TypeAt(inbound, b) <=> f.b = b /\ f.w = "type"
    BY <1>1, <1>2, TypeTail
  <1>5. \A b : \A i \in TypeAt(inbound', b) : i \in Nat \ {0} /\ i + 1 \in TypeAt(inbound, b)
    <2>1. \A b : \A i \in TypeAt(Tail(inbound), b) : i + 1 \in TypeAt(inbound, b)
      BY <1>1, <1>2, TypeTail
    <2>2. \A b : \A i \in TypeAt(Tail(inbound), b) : i \in Nat \ {0}
      BY <1>1, <1>2, HeadTail DEF TypeAt
    <2> QED
      BY <1>1, <2>1, <2>2
  <1> HIDE DEF f
  <1>6. ASSUME ~raced, NEW b \in Blocks, f.b = b, f.w = "type"
        PROVE  TypeAt(outbound', b) = {} /\ TypeAt(inbound', b) = {}
    <2>1. Single(b) /\ 1 \in TypeAt(inbound, b)
      BY <1>4, <1>6 DEF ReaderInv, Tracked
    <2>2. TypeAt(inbound', b) = {}
      BY <1>5, <2>1 DEF Single
    <2> QED
      BY <1>1, <2>1, <2>2 DEF Single
  <1>7. ASSUME NEW b, AtType(b) PROVE AtType(b)'
    BY <1>1, <1>7 DEF AtType, Cur
  <1>8. ASSUME ~raced, NEW b \in Blocks, Busy(b)' => Busy(b), ~AtType(b) \/ slot' = slot
        PROVE  Tracked(b)'
    BY <1>1, <1>2, <1>7, <1>8, TrackedTail DEF ReaderInv
  <1>9. ASSUME UNCHANGED queue, NEW b PROVE Busy(b)' => Busy(b)
    BY <1>1, <1>3, <1>9 DEF Busy, ScanDue, Cur
  <1>10. ~raced => \A b \in Blocks : Tracked(b)'
    <2> SUFFICES ASSUME ~raced, NEW b \in Blocks PROVE Tracked(b)'
      OBVIOUS
    <2>1. CASE f.b = b /\ f.w = "type"
      BY <1>6, <2>1, TrackedNone
    <2>2. CASE ~(f.b = b /\ f.w = "type")
      <3>1. CASE Correlate
        <4>1. queue' = queue /\ slot.b = f.b /\ slot.w = f.w
          BY <3>1 DEF Correlate, TakenAsReply, f
        <4>2. ~AtType(b)
          BY <2>2, <4>1 DEF AtType, TypeInv, SlotInv, Waits
        <4> QED
          BY <1>8, <1>9, <4>1, <4>2
      <3>2. CASE ProcessProgramChange
        <4>1. f.kind = "program" /\ queue' = Append(queue, Full) /\ slot' = slot
          BY <3>2 DEF ProcessProgramChange, Scheduled, readVars, f
        <4>2. f = ProgramChange
          BY <1>2, <4>1 DEF Heard, ProgramChange
        <4>3. Busy(b)
          BY <1>3, <4>2 DEF Busy, ScanDue
        <4> QED
          BY <1>8, <4>1, <4>3
      <3>3. CASE Refuse
        BY <1>8, <1>9, <3>3 DEF Refuse, readVars
      <3>4. CASE Apply
        <4>1. f.kind = "data" /\ slot' = slot /\ queue' = Scheduled(f)
          BY <3>4 DEF Apply, readVars, f
        <4>2. CASE f.w # "type"
          <5>1. queue' = queue
            BY <4>1, <4>2 DEF Scheduled
          <5> QED
            BY <1>8, <1>9, <4>1, <5>1
        <4>3. CASE f.w = "type"
          <5> DEFINE task == Sliders(f.b)
          <5>1. queue' = Append(queue, task)
            BY <4>1, <4>3 DEF Scheduled
          <5>2. task \in Tasks /\ task # Full /\ task # Sliders(b)
            BY <1>2, <2>2, <4>1, <4>3 DEF Tasks, Full, Sliders, Heard, ProgramChange
          <5> HIDE DEF task
          <5>3. \A m : On(queue', m) => On(queue, m) \/ task = m
            BY <1>2, <5>1, <5>2, OnAppend
          <5>4. Busy(b)' => Busy(b)
            BY <1>1, <1>3, <5>2, <5>3 DEF Busy, ScanDue, Cur
          <5> QED
            BY <1>8, <4>1, <5>4
        <4> QED
          BY <4>2, <4>3
      <3> QED
        BY <3>1, <3>2, <3>3, <3>4 DEF Receive
    <2> QED
      BY <2>1, <2>2
  <1>11. ~raced => Found'
    <2> SUFFICES ASSUME ~raced, pc \in {"range", "val", "valWait"} PROVE Found'
      BY <1>1 DEF Found
    <2>1. Cur \in Blocks /\ Busy(Cur) /\ ~AtType(Cur)
      BY HeadTail DEF TypeInv, TaskInv, Cur, Busy, ScanDue, AtType
    <2>2. TypeAt(inbound, Cur) = {}
      BY <2>1, BusyClear
    <2>3. ~(f.b = Cur /\ f.w = "type")
      BY <1>4, <2>2
    <2>4. Cur \in FxBlocks => fxName'[Cur] = fxName[Cur]
      BY <2>3 DEF Receive, Correlate, ProcessProgramChange, Refuse, Apply, f,
                  TypeInv, KnownInv
    <2> QED
      BY <1>1, <2>4 DEF ReaderInv, Found, LiveTable, Cur
  <1> QED
    BY <1>1, <1>10, <1>11 DEF ReaderInv

\* A write or an echo of a type while nothing reads it is the block's only one.
LEMMA TrackedCalm ==
    ASSUME TypeInv, ReaderInv, ~raced, NEW b \in Blocks, Calm(b, "type")
    PROVE  TypeAt(outbound, b) = {} /\ TypeAt(inbound, b) = {} /\ ~Busy(b)
  <1>1. ~ScanDue /\ ~RereadDue(b) /\ ~WriteDue(b)
    BY DEF Calm
  <1>2. ~Busy(b)
    BY <1>1 DEF Busy, RereadDue
  <1>3. ASSUME NEW i \in TypeAt(outbound, b) PROVE FALSE
    <2>1. i \in 1..Len(outbound) /\ outbound[i] \in Sent /\ outbound[i].b = b
      BY DEF TypeAt, TypeInv, WireInv
    <2>2. outbound[i].kind = "rq1"
      BY <1>1, <2>1 DEF WriteDue, Sent
    <2>3. pc = "typeWait"
      BY <1>3, <2>2 DEF ReaderInv, Tracked, ReadsType, AtType
    <2> QED
      BY <1>1, <2>3 DEF ScanDue, TypeInv, TaskInv
  <1>4. ASSUME NEW i \in TypeAt(inbound, b) PROVE FALSE
    <2>1. /\ i \in 1..Len(inbound) /\ inbound[i] \in Heard
          /\ inbound[i].b = b /\ inbound[i].w = "type"
      BY DEF TypeAt, TypeInv, WireInv
    <2>2. inbound[i].v \in Effects /\ inbound[i] = Frame(b, "type", inbound[i].v)
      BY <2>1, NamesAssumption DEF Heard, Frame, ProgramChange, ValuesOf
    <2> QED
      BY <1>1, <2>1, <2>2 DEF RereadDue, On
  <1> QED
    BY <1>2, <1>3, <1>4

LEMMA EchoAppended ==
    ASSUME TypeInv, NEW b, NEW x \in Heard, x.b = b, x.w = "type"
    PROVE  TypeAt(Append(inbound, x), b) = TypeAt(inbound, b) \cup {Len(inbound) + 1}
  <1>1. inbound \in Seq(Heard)
    BY DEF TypeInv, WireInv
  <1> QED
    BY <1>1, TypeAppended

\* A message is added to a wire by an edit: of a type when it is calm or races,
\* of anything else at any time.
LEMMA TrackedAdded ==
    ASSUME TypeInv, ReaderInv, ~raced, NEW b \in Blocks, NEW m,
           \/ m \in Sent /\ m.kind = "dt1" /\ inbound' = inbound
              /\ outbound' = Append(outbound, m)
           \/ m \in Heard /\ m.kind = "data" /\ outbound' = outbound
              /\ inbound' = Append(inbound, m),
           m.b = b /\ m.w = "type" => Calm(b, "type"),
           UNCHANGED <<queue, pc, mode, todo, slot>>
    PROVE  Tracked(b)'
  <1>1. outbound \in Seq(Sent) /\ inbound \in Seq(Heard)
    BY DEF TypeInv, WireInv
  <1>2. Busy(b)' => Busy(b)
    <2>1. On(inbound', ProgramChange) => On(inbound, ProgramChange)
      <3>1. CASE inbound' = inbound
        BY <3>1
      <3>2. CASE inbound' # inbound
        <4>1. m \in Heard /\ inbound' = Append(inbound, m) /\ m # ProgramChange
          BY <3>2 DEF ProgramChange
        <4> QED
          BY <1>1, <4>1, OnAppend
      <3> QED
        BY <3>1, <3>2
    <2> QED
      BY <2>1 DEF Busy, ScanDue, Cur
  <1>3. AtType(b)' <=> AtType(b)
    BY DEF AtType, Cur
  <1>4. CASE m.b = b /\ m.w = "type"
    <2>1. TypeAt(outbound, b) = {} /\ TypeAt(inbound, b) = {} /\ ~Busy(b)'
      BY <1>2, <1>4, TrackedCalm
    <2>2. CASE m \in Sent /\ m.kind = "dt1" /\ inbound' = inbound
               /\ outbound' = Append(outbound, m)
      <3>1. /\ TypeAt(outbound', b) = {Len(outbound) + 1}
            /\ outbound'[Len(outbound) + 1] = m /\ TypeAt(inbound', b) = {}
        <4>1. /\ TypeAt(Append(outbound, m), b) = TypeAt(outbound, b) \cup {Len(outbound) + 1}
              /\ Append(outbound, m)[Len(outbound) + 1] = m
          BY <1>1, <1>4, <2>2, TypeAppended
        <4> QED
          BY <2>1, <2>2, <4>1
      <3> QED
        BY <2>1, <2>2, <3>1 DEF Tracked, Single, ReadsType, Clear
    <2>3. CASE m \in Heard /\ outbound' = outbound /\ inbound' = Append(inbound, m)
      <3>1. /\ TypeAt(inbound', b) = {Len(inbound) + 1}
            /\ TypeAt(outbound', b) = {}
        <4>1. TypeAt(Append(inbound, m), b) = TypeAt(inbound, b) \cup {Len(inbound) + 1}
          BY <1>4, <2>3, EchoAppended
        <4> QED
          BY <2>1, <2>3, <4>1
      <3> QED
        BY <2>1, <3>1 DEF Tracked, Single, ReadsType, Clear
    <2> QED
      BY <2>2, <2>3
  <1>5. CASE ~(m.b = b /\ m.w = "type")
    <2>1. /\ TypeAt(outbound', b) = TypeAt(outbound, b)
          /\ TypeAt(inbound', b) = TypeAt(inbound, b)
          /\ \A i \in TypeAt(outbound, b) : outbound'[i] = outbound[i]
      <3>1. CASE m \in Sent /\ inbound' = inbound /\ outbound' = Append(outbound, m)
        BY <1>1, <1>5, <3>1, OtherAppended
      <3>2. CASE m \in Heard /\ outbound' = outbound /\ inbound' = Append(inbound, m)
        <4>1. TypeAt(Append(inbound, m), b) = TypeAt(inbound, b)
          BY <1>1, <1>5, <3>2, OtherAppended
        <4> QED
          BY <3>2, <4>1
      <3> QED
        BY <3>1, <3>2
    <2> QED
      BY <1>2, <1>3, <2>1, TrackedKept DEF ReaderInv
  <1> QED
    BY <1>4, <1>5

LEMMA ReaderEdit ==
    ASSUME TypeInv, ReaderInv, (\E b \in Blocks : Edit(b)) \/ ChangeProgram \/ RecordToggle
    PROVE  ReaderInv'
  <1>1. /\ UNCHANGED <<queue, fxName, slot, pc, mode, todo, labels, due>>
        /\ raced => raced'
    <2>1. ASSUME NEW b \in Blocks, Edit(b)
          PROVE  UNCHANGED <<queue, fxName, readVars>> /\ (raced => raced')
      <3>1. ASSUME NEW w, NEW v, PanelEdit(b, w, v)
            PROVE  UNCHANGED <<queue, fxName, readVars>> /\ (raced => raced')
        BY <3>1 DEF PanelEdit, CountEdit
      <3>2. ASSUME NEW v, Toggle(b, v)
            PROVE  UNCHANGED <<queue, fxName, readVars>> /\ (raced => raced')
        BY <3>2 DEF Toggle, CountEdit
      <3>3. ASSUME NEW i, NEW v, SetValue(b, i, v)
            PROVE  UNCHANGED <<queue, fxName, readVars>> /\ (raced => raced')
        BY <3>3 DEF SetValue, CountEdit
      <3>4. ASSUME NEW e, SetType(b, e)
            PROVE  UNCHANGED <<queue, fxName, readVars>> /\ (raced => raced')
        BY <3>4 DEF SetType, CountEdit
      <3> QED
        BY <2>1, <3>1, <3>2, <3>3, <3>4 DEF Edit
    <2>2. ChangeProgram => UNCHANGED <<queue, fxName, readVars>> /\ (raced => raced')
      BY DEF ChangeProgram, CountEdit
    <2>3. RecordToggle => UNCHANGED <<queue, fxName, readVars>> /\ (raced => raced')
      BY DEF RecordToggle, editVars
    <2> QED
      BY <2>1, <2>2, <2>3 DEF readVars
  <1>2. ~raced' => Found'
    BY <1>1 DEF ReaderInv, Found, LiveTable, Cur, TypeInv, CountInv
  <1>3. ASSUME NEW a \in Blocks, NEW w \in Whats, NEW v \in ValuesOf(w),
               CountEdit(Calm(a, w)), ~raced',
               \/ inbound' = inbound /\ outbound' = Append(outbound, Write(a, w, v))
               \/ outbound' = outbound /\ inbound' = Append(inbound, Frame(a, w, v))
        PROVE  \A b \in Blocks : Tracked(b)'
    <2>1. ~raced /\ Calm(a, w)
      BY <1>3 DEF CountEdit
    <2>2. /\ Write(a, w, v) \in Sent /\ Write(a, w, v).kind = "dt1"
          /\ Write(a, w, v).b = a /\ Write(a, w, v).w = w
      BY DEF Write, Sent, Values, ValuesOf
    <2>3. /\ Frame(a, w, v) \in Heard /\ Frame(a, w, v).kind = "data"
          /\ Frame(a, w, v).b = a /\ Frame(a, w, v).w = w
      BY DEF Frame, Heard, Values, ValuesOf
    <2>4. ASSUME NEW b \in Blocks PROVE Tracked(b)'
      <3>1. CASE inbound' = inbound /\ outbound' = Append(outbound, Write(a, w, v))
        BY <1>1, <2>1, <2>2, <3>1, TrackedAdded
      <3>2. CASE outbound' = outbound /\ inbound' = Append(inbound, Frame(a, w, v))
        BY <1>1, <2>1, <2>3, <3>2, TrackedAdded
      <3> QED
        BY <1>3, <3>1, <3>2
    <2> QED
      BY <2>4
  <1>4. ASSUME NEW a \in Blocks, Edit(a), ~raced' PROVE \A b \in Blocks : Tracked(b)'
    <2>1. ASSUME NEW w \in Whats, NEW v \in ValuesOf(w), PanelEdit(a, w, v)
          PROVE  \A b \in Blocks : Tracked(b)'
      BY <1>3, <1>4, <2>1 DEF PanelEdit
    <2>2. ASSUME NEW v \in Switch, Toggle(a, v) PROVE \A b \in Blocks : Tracked(b)'
      <3>1. "sw" \in Whats /\ v \in ValuesOf("sw")
        BY DEF Whats, ValuesOf
      <3> QED
        BY <1>3, <1>4, <2>2, <3>1 DEF Toggle
    <2>3. ASSUME NEW i \in 1..2, NEW v \in Vals, SetValue(a, i, v)
          PROVE  \A b \in Blocks : Tracked(b)'
      <3> DEFINE l == known[a].sliders[i].label
                 w == SettingIn(LiveTable(a), l)
      <3>1. /\ known[a] # NoEntry /\ Carries(LiveTable(a), l)
            /\ a \in FxBlocks => fxName[a] # None
            /\ CountEdit(Calm(a, w)) /\ outbound' = Append(outbound, Write(a, w, v))
            /\ inbound' = inbound
        BY <2>3 DEF SetValue
      <3>2. LiveTable(a) \subseteq Settings
        BY <3>1, LabelsAssumption DEF LiveTable, TypeInv, KnownInv, NameInv, Named
      <3>3. w \in Settings
        BY <3>1, <3>2 DEF Carries, SettingIn
      <3>4. w \in Whats /\ v \in ValuesOf(w)
        BY <3>3, NamesAssumption DEF Whats, ValuesOf
      <3> QED
        BY <1>3, <1>4, <3>1, <3>4
    <2>4. ASSUME NEW e \in Effects, SetType(a, e) PROVE \A b \in Blocks : Tracked(b)'
      <3>1. "type" \in Whats /\ e \in ValuesOf("type")
        BY DEF Whats, ValuesOf
      <3> QED
        BY <1>3, <1>4, <2>4, <3>1 DEF SetType
    <2> QED
      BY <1>4, <2>1, <2>2, <2>3, <2>4 DEF Edit
  <1>5. ASSUME ChangeProgram, ~raced', NEW b \in Blocks PROVE Tracked(b)'
    <2>1. ~raced /\ Calm(b, "type")
      BY <1>5 DEF ChangeProgram, CountEdit
    <2>2. TypeAt(outbound, b) = {} /\ TypeAt(inbound, b) = {}
      BY <2>1, TrackedCalm
    <2>3. outbound' = outbound /\ inbound' = Append(inbound, ProgramChange)
      BY <1>5 DEF ChangeProgram
    <2>4. ProgramChange \in Heard /\ ~(ProgramChange.b = b /\ ProgramChange.w = "type")
      BY NamesAssumption DEF Heard, ProgramChange
    <2>5. inbound \in Seq(Heard)
      BY DEF TypeInv, WireInv
    <2>6. TypeAt(inbound', b) = {}
      BY <2>2, <2>3, <2>4, <2>5, OtherAppended
    <2> QED
      BY <2>2, <2>3, <2>6, TrackedNone
  <1>6. ASSUME RecordToggle, ~raced', NEW b \in Blocks PROVE Tracked(b)'
    <2>1. ~raced /\ UNCHANGED <<outbound, inbound>>
      BY <1>6 DEF RecordToggle, unitVars, editVars
    <2>2. Busy(b)' => Busy(b)
      BY <1>1, <2>1 DEF Busy, ScanDue, Cur
    <2>3. AtType(b) => AtType(b)'
      BY <1>1 DEF AtType, Cur
    <2> QED
      BY <1>1, <2>1, <2>2, <2>3, TrackedKept DEF ReaderInv
  <1> QED
    BY <1>1, <1>2, <1>4, <1>5, <1>6 DEF ReaderInv

\* The unit serves a message, its type moving from one wire to the other, or a
\* request is lost.
LEMMA ReaderUnit ==
    ASSUME TypeInv, ReaderInv, Serve \/ LoseRequest
    PROVE  ReaderInv'
  <1> DEFINE m == Head(outbound)
  <1>1. /\ outbound # <<>> /\ outbound' = Tail(outbound)
        /\ UNCHANGED <<raced, fxName, queue, slot, pc, mode, todo, labels, due>>
    BY DEF Serve, LoseRequest, editVars, readVars
  <1>2. /\ outbound \in Seq(Sent) /\ inbound \in Seq(Heard) /\ m \in Sent
        /\ m.b \in Blocks /\ m.w \in Whats
    BY <1>1, HeadTail DEF TypeInv, WireInv, Sent
  <1>3. \A b : AtType(b)' <=> AtType(b)
    BY <1>1 DEF AtType, Cur
  <1>4. ~raced => Found'
    BY <1>1 DEF ReaderInv, Found, LiveTable, Cur
  <1>5. CASE LoseRequest
    <2>1. inbound' = inbound
      BY <1>5 DEF LoseRequest
    <2>2. \A b : Busy(b)' => Busy(b)
      BY <1>1, <2>1 DEF Busy, ScanDue, Cur
    <2>3. ASSUME ~raced, NEW b \in Blocks PROVE Tracked(b)'
      BY <1>1, <1>2, <1>3, <2>1, <2>2, <2>3, TrackedTail DEF ReaderInv
    <2> QED
      BY <1>1, <1>4, <2>3 DEF ReaderInv
  <1>6. CASE Serve
    <2>1. PICK v \in ValuesOf(m.w) : inbound' = Append(inbound, Frame(m.b, m.w, v))
      <3>1. mem[m.b][m.w] \in ValuesOf(m.w)
        BY <1>2 DEF TypeInv, MemInv, Memory
      <3>2. m.kind = "dt1" => m.v \in ValuesOf(m.w)
        BY <1>2 DEF Sent
      <3> QED
        BY <1>6, <3>1, <3>2 DEF Serve
    <2> DEFINE f == Frame(m.b, m.w, v)
    <2>2. f \in Heard /\ f.b = m.b /\ f.w = m.w /\ f # ProgramChange
      BY <1>2 DEF Frame, Heard, Values, ValuesOf, ProgramChange
    <2>3. inbound' = Append(inbound, f)
      BY <2>1
    <2> HIDE DEF f, m
    <2>4. On(inbound', ProgramChange) => On(inbound, ProgramChange)
      BY <1>2, <2>2, <2>3, OnAppend
    <2>5. \A b : Busy(b)' => Busy(b)
      BY <1>1, <2>4 DEF Busy, ScanDue, Cur
    <2>6. ASSUME NEW b
          PROVE  /\ \A i \in TypeAt(outbound', b) : /\ i \in Nat \ {0}
                                                    /\ i + 1 \in TypeAt(outbound, b)
                                                    /\ outbound'[i] = outbound[i + 1]
                 /\ 1 \in TypeAt(outbound, b) <=> m.b = b /\ m.w = "type"
      <3>1. \A i \in TypeAt(Tail(outbound), b) : /\ i + 1 \in TypeAt(outbound, b)
                                                 /\ Tail(outbound)[i] = outbound[i + 1]
        BY <1>1, <1>2, TypeTail
      <3>2. 1 \in TypeAt(outbound, b) <=> m.b = b /\ m.w = "type"
        BY <1>1, <1>2, TypeTail DEF m
      <3>3. \A i \in TypeAt(Tail(outbound), b) : i \in Nat \ {0}
        BY <1>1, <1>2, HeadTail DEF TypeAt
      <3> QED
        BY <1>1, <3>1, <3>2, <3>3
    <2>7. ASSUME ~raced, NEW b \in Blocks PROVE Tracked(b)'
      <3>1. Tracked(b)
        BY <2>7 DEF ReaderInv
      <3>2. CASE m.b = b /\ m.w = "type"
        <4>1. 1 \in TypeAt(outbound, b)
          BY <2>6, <3>2
        <4>2. TypeAt(outbound', b) = {} /\ TypeAt(inbound, b) = {}
          BY <2>6, <3>1, <4>1 DEF Tracked, Single
        <4>3. f.b = b /\ f.w = "type"
          BY <2>2, <3>2
        <4>4. TypeAt(inbound', b) = {Len(inbound) + 1}
          <5>1. TypeAt(Append(inbound, f), b) = TypeAt(inbound, b) \cup {Len(inbound) + 1}
            BY <1>2, <2>2, <4>3, TypeAppended
          <5> QED
            BY <2>3, <4>2, <5>1
        <4>5. Busy(b)' => AtType(b)' /\ slot'.v = None
          BY <1>1, <1>3, <2>5, <3>1, <4>1 DEF Tracked, Clear
        <4> QED
          BY <4>2, <4>4, <4>5 DEF Tracked, Single, ReadsType, Clear
      <3>3. CASE ~(m.b = b /\ m.w = "type")
        <4>1. ~(f.b = b /\ f.w = "type")
          BY <2>2, <3>3
        <4>2. TypeAt(inbound', b) = TypeAt(inbound, b)
          <5>1. TypeAt(Append(inbound, f), b) = TypeAt(inbound, b)
            BY <1>2, <2>2, <4>1, OtherAppended
          <5> QED
            BY <2>3, <5>1
        <4>3. Single(b)'
          BY <2>6, <3>1, <4>2 DEF Tracked, Single
        <4>4. ReadsType(b)'
          BY <1>3, <2>6, <3>1 DEF Tracked, ReadsType
        <4>5. Clear(b)'
          <5>1. slot' = slot /\ (AtType(b)' <=> AtType(b)) /\ (Busy(b)' => Busy(b))
            BY <1>1, <1>3, <2>5
          <5>2. /\ TypeAt(outbound', b) # {} => TypeAt(outbound, b) # {}
                /\ \A i \in TypeAt(outbound', b) : \E j \in TypeAt(outbound, b) :
                      outbound'[i] = outbound[j]
            BY <2>6
          <5> QED
            BY <3>1, <4>2, <5>1, <5>2 DEF Tracked, Clear
        <4> QED
          BY <4>3, <4>4, <4>5 DEF Tracked
      <3> QED
        BY <3>2, <3>3
    <2> QED
      BY <1>1, <1>4, <2>7 DEF ReaderInv
  <1> QED
    BY <1>5, <1>6

LEMMA ReaderStutter ==
    ASSUME ReaderInv, UNCHANGED vars
    PROVE  ReaderInv'
  BY DEF vars, unitVars, readVars, editVars, ReaderInv, Tracked, Single, ReadsType,
         Clear, TypeAt, AtType, Busy, ScanDue, On, Found, LiveTable, Cur

LEMMA ReaderStep == TypeInv /\ ReaderInv /\ [Next]_vars => ReaderInv'
  BY ReaderDispatch, ReaderWorker, ReaderRequest, ReaderRest, ReaderInstall,
     ReaderReceive, ReaderEdit, ReaderUnit, ReaderStutter DEF Next, Reader

\* The reading thread, be it the application's first scan or the worker, ends
\* with a KeyError only when an edit fell into a read of the same data or a stop
\* cut a scan short: a label is looked up in the table it was picked from, for
\* no TYPE of the block is on its way between the two.
THEOREM ReaderEnds == Spec => []ReaderEndsOnlyRaced
  <1>1. Spec => []TypeInv
    BY TypeInit, TypeStep, PTL DEF Spec
  <1>2. Spec => []ReaderInv
    BY <1>1, ReaderInit, ReaderStep, PTL DEF Spec
  <1>3. ReaderInv => ReaderEndsOnlyRaced
    BY DEF ReaderInv, ReaderEndsOnlyRaced
  <1> QED
    BY <1>2, <1>3, PTL

=============================================================================
