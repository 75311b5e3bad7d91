----------------------------- MODULE PatchSync -----------------------------
(***************************************************************************)
(* Keeping PatchState in step with the unit: the readers BlockSnapshot and *)
(* BlockReader, the writers and the unsolicited handler of the facade, and *)
(* the record of the known state they share.                               *)
(*                                                                         *)
(* One thread reads at a time: the application runs refresh_state, then    *)
(* start_refresh_thread hands reading to the worker, which takes one task  *)
(* of its queue after another; the application may stop it, and start it   *)
(* again when it has ended (module RefreshScheduler has its loop).  The    *)
(* inbound thread and the application's writes interleave with every step. *)
(* A section under PatchState's lock is one action; what a thread computes *)
(* from its own locals joins the action before it.                         *)
(*                                                                         *)
(* A block has a switch, a type and settings, two of which it may present  *)
(* as sliders, by their labels.  Which ones depends on the name, live in   *)
(* PatchState for an fx block; every effect has settings of its own, and   *)
(* settings of two effects may have the same label.                        *)
(***************************************************************************)
EXTENDS Integers, Sequences

CONSTANTS
    Blocks,
    FxBlocks,       \* the blocks of type "fx", with a live effect name
    ScanOrder,      \* the blocks in the order refresh_state reads them
    FxTypeOf,       \* FxTypeOf[b]: the fx type a block belongs to
    Effects,        \* names a TYPE can have
    Settings,       \* the settings of the blocks, sw and type aside
    Labels,         \* their labels
    LabelOf,        \* LabelOf[c]: the label of setting c
    FxTable,        \* FxTable[e]: the settings of an fx block with effect e
    BlockTable,     \* BlockTable[b]: the settings of a block of another type
    Vals,           \* values of a setting
    SlidersOf,      \* SlidersOf[b][e]: the two labels for name e, each or None
    SlidersUnnamed, \* SlidersUnnamed[b]: the same when the name is not given
    Patches,        \* patches of the unit: a memory each
    None,
    NoEntry,        \* no entry in PatchState._state
    MaxLosses,      \* bound: requests that are lost
    MaxEdits,       \* bound: edits at the unit and in the application, and
                    \* stops, together
    MaxStops        \* bound: calls of stop_refresh_thread

Switch == {"ON", "OFF"}
Whats  == {"sw", "type"} \cup Settings
ValuesOf(w) == IF w = "sw" THEN Switch ELSE IF w = "type" THEN Effects
               ELSE Vals
Memory == {m \in [Whats -> Switch \cup Effects \cup Vals] :
              \A w \in Whats : m[w] \in ValuesOf(w)}

\* Two labels; an FxBlock of PatchState; whether a setting with label l is
\* in a table.
Pairs == [1..2 -> Labels \cup {None}]
Entry == [sw : Switch \cup {None}, name : Effects \cup {None},
          sliders : [1..2 -> {None} \cup
                       [label : Labels, value : Vals \cup {None}]]]
Carries(table, l) == \E c \in table : LabelOf[c] = l

ASSUME BlocksAssumption ==
    /\ Blocks # {}
    /\ FxBlocks \subseteq Blocks
    /\ ScanOrder \in Seq(Blocks)
    /\ \A b \in Blocks : \E i \in 1..Len(ScanOrder) : ScanOrder[i] = b
ASSUME LabelsAssumption ==
    /\ LabelOf \in [Settings -> Labels]
    /\ FxTable \in [Effects -> SUBSET Settings]
    /\ BlockTable \in [Blocks \ FxBlocks -> SUBSET Settings]
    /\ SlidersOf \in [Blocks -> [Effects -> Pairs]]
    /\ SlidersUnnamed \in [Blocks -> Pairs]
    /\ \A b \in FxBlocks : SlidersUnnamed[b] = <<None, None>>
    /\ \A b \in FxBlocks : \A e \in Effects : \A i \in 1..2 :
          SlidersOf[b][e][i] # None => Carries(FxTable[e], SlidersOf[b][e][i])
    /\ \A b \in Blocks \ FxBlocks : \A i \in 1..2 :
          \A l \in {SlidersOf[b][e][i] : e \in Effects} \cup {SlidersUnnamed[b][i]} :
             l # None => Carries(BlockTable[b], l)
\* A table is a dictionary keyed by the labels.
ASSUME TablesAssumption ==
    /\ \A e \in Effects : \A c, d \in FxTable[e] : LabelOf[c] = LabelOf[d] => c = d
    /\ \A b \in Blocks \ FxBlocks :
          \A c, d \in BlockTable[b] : LabelOf[c] = LabelOf[d] => c = d
ASSUME NamesAssumption ==
    /\ Settings \cap {"sw", "type"} = {}
    /\ None \notin Blocks \cup Labels \cup Effects \cup Vals \cup Switch
    /\ None \notin [label : Labels, value : Vals \cup {None}]
    /\ NoEntry \notin Entry \cup Effects \cup {None}
ASSUME PatchesAssumption == Patches \subseteq [Blocks -> Memory]
ASSUME BoundsAssumption ==
    MaxLosses \in Nat /\ MaxEdits \in Nat /\ MaxStops \in Nat

\* True of every type but eq, whose rule looks at the name: the sliders of a
\* block that is no fx block do not depend on its name, given or not.
FixedSliders ==
    \A b \in Blocks \ FxBlocks : \A e \in Effects : SlidersOf[b][e] = SlidersUnnamed[b]

VARIABLES
    mem,        \* the unit's memory (external)
    outbound,   \* wire to the unit (external)
    inbound,    \* wire from the unit (external)
    edits,      \* edits so far
    known,      \* PatchState._state
    fxName,     \* PatchState._fx_names
    queue,      \* RefreshScheduler._queue: "full", or a block's sliders
    slot,       \* DeviceLink._pending: the address read, and its reply
    pc,         \* where the reading thread is
    mode,       \* what it runs: "scan" or "sliders"
    todo,       \* the blocks it still reads, the current one first
    rec,        \* the FxBlock it assembles
    labels,     \* the labels of its two sliders
    due,        \* the sliders it still resolves
    out,        \* the blocks of the current fx type it has assembled
    worker,     \* "running", "stopping" once _stopped is set, or "exited"
    stops,      \* stops so far
    losses,     \* requests lost so far
    toggling,   \* the application is between the two halves of a toggle
    raced       \* history: an edit fell into a read of the same data, or a
                \* stop cut a scan short, and no scan has begun since with
                \* nothing else under way

unitVars == <<mem, outbound, inbound>>
readVars == <<slot, pc, mode, todo, rec, labels, due, out, worker>>
editVars == <<edits, stops, losses, raced>>
vars == <<unitVars, editVars, known, fxName, queue, readVars, toggling>>

Blank == [sw |-> None, name |-> None, sliders |-> <<None, None>>]
NoRead == [b |-> None, w |-> None, v |-> None]

Read(b, w) == [kind |-> "rq1", b |-> b, w |-> w, v |-> None]
Write(b, w, v) == [kind |-> "dt1", b |-> b, w |-> w, v |-> v]
Frame(b, w, v) == [kind |-> "data", b |-> b, w |-> w, v |-> v]
ProgramChange == [kind |-> "program", b |-> None, w |-> None, v |-> None]

Full == [kind |-> "full", b |-> None]
Sliders(b) == [kind |-> "sliders", b |-> b]

Cur == Head(todo)
Ready == \A b \in Blocks : known[b] # NoEntry

-----------------------------------------------------------------------------
(* Slips this code could have had.  Nothing uses them: each shows that a    *)
(* property notices the slip.                                              *)

\* An exchange leaves its slot open.
SlotKept == slot
\* A TYPE echo schedules no re-read of the sliders.
ScheduledOnProgram(f) ==
    IF f.kind = "program" THEN Append(queue, Full) ELSE queue
\* A program change schedules nothing.
ScheduledOnType(f) ==
    IF f.kind = "data" /\ f.w = "type" THEN Append(queue, Sliders(f.b))
    ELSE queue
\* The scan does not record the names of fx blocks, or keeps the last one
\* when the unit does not tell.
NamesByEcho(b, name) == fxName
NamesKept(b, name) ==
    IF name = None /\ fxName[b] # NoEntry THEN fxName
    ELSE [fxName EXCEPT ![b] = name]

\* A start begins with an empty queue.
StartAfresh ==
    /\ worker = "exited" \/ (worker = "stopping" /\ pc = "dead")
    /\ worker' = "running"
    /\ pc' = "idle"
    /\ queue' = <<>>
    /\ UNCHANGED <<unitVars, editVars, known, fxName, slot, mode, todo, rec,
                   labels, due, out, toggling>>

-----------------------------------------------------------------------------
(* Helpers                                                                 *)

\* The slot is popped.
SlotClosed == NoRead

\* _process_data_from_unit: a program change re-reads everything, a TYPE
\* echo the sliders of its block.
Scheduled(f) ==
    IF f.kind = "program" THEN Append(queue, Full)
    ELSE IF f.w = "type" THEN Append(queue, Sliders(f.b))
    ELSE queue

\* set_fx_name
Names(b, name) == [fxName EXCEPT ![b] = name]

\* The slider policy for a block whose name is given, or not (None).
SliderLabels(b, name) ==
    IF name = None THEN SlidersUnnamed[b] ELSE SlidersOf[b][name]

\* The name BlockSnapshot resolves the sliders with: the live effect name of
\* an fx block, the name just read (none in a re-read) for any other.
NameOf(b) == IF b \in FxBlocks THEN fxName[b] ELSE rec.name

\* The settings a block has now, as far as the live effect name tells.
LiveTable(b) == IF b \in FxBlocks THEN FxTable[fxName[b]] ELSE BlockTable[b]

SettingIn(table, l) == CHOOSE c \in table : LabelOf[c] = l

\* The slider in hand, and whether it is found under the live effect name.
Turn == IF 1 \in due THEN 1 ELSE 2
InTable(b) == Carries(LiveTable(b), labels[Turn])

\* PatchState.apply on an entry.
Applied(entry, f) ==
    IF f.w = "sw" THEN [entry EXCEPT !.sw = f.v]
    ELSE IF f.w = "type" THEN [entry EXCEPT !.name = f.v]
    ELSE [entry EXCEPT !.sliders =
            [i \in 1..2 |->
                IF @[i] # None /\ @[i].label = LabelOf[f.w]
                THEN [@[i] EXCEPT !.value = f.v] ELSE @[i]]]

\* No message, task or call is under way.
Quiet == /\ outbound = <<>> /\ inbound = <<>> /\ queue = <<>>
         /\ pc = "idle" /\ toggling = NoRead

On(wire, m) == \E i \in 1..Len(wire) : wire[i] = m

-----------------------------------------------------------------------------
Init ==
    /\ mem \in Patches
    /\ outbound = <<>>
    /\ inbound = <<>>
    /\ edits = 0
    /\ known = [b \in Blocks |-> NoEntry]
    /\ fxName = [b \in FxBlocks |-> NoEntry]
    /\ queue = <<>>
    /\ slot = NoRead
    /\ pc = "sw"
    /\ mode = "scan"
    /\ todo = ScanOrder
    /\ rec = Blank
    /\ labels = <<None, None>>
    /\ due = {}
    /\ out = [b \in Blocks |-> NoEntry]
    /\ worker = "running"
    /\ stops = 0
    /\ losses = 0
    /\ toggling = NoRead
    /\ raced = FALSE

-----------------------------------------------------------------------------
(* The reading thread                                                      *)

\* Nothing else is under way when the next task begins.
Undisturbed == /\ outbound = <<>> /\ inbound = <<>>
               /\ Len(queue) = 1 /\ toggling = NoRead

\* The worker dispatches its next task, stopped or not: drain goes on until
\* the queue is empty.
Dispatched ==
    /\ pc = "idle"
    /\ worker # "exited"
    /\ queue # <<>>
    /\ queue' = Tail(queue)
    /\ rec' = Blank
    /\ UNCHANGED <<unitVars, edits, stops, losses, known, fxName, slot, labels, due, out, worker,
                   toggling>>

TakeFull ==
    /\ Dispatched
    /\ Head(queue).kind = "full"
    /\ worker = "running"
    /\ mode' = "scan"
    /\ todo' = ScanOrder
    /\ pc' = "sw"
    /\ raced' = (raced /\ ~Undisturbed)

TakeSliders ==
    /\ Dispatched
    /\ Head(queue).kind = "sliders"
    /\ mode' = "sliders"
    /\ todo' = <<Head(queue).b>>
    /\ pc' = "params"
    /\ UNCHANGED raced

\* A stopped scan returns before its first fx type: the task is lost.
SkipFull ==
    /\ Dispatched
    /\ Head(queue).kind = "full"
    /\ worker = "stopping"
    /\ raced' = TRUE
    /\ UNCHANGED <<mode, todo, pc>>

\* The request in hand, or a frame for it, is on a wire.
AnswerDue ==
    \/ On(outbound, Read(slot.b, slot.w))
    \/ \E v \in ValuesOf(slot.w) : On(inbound, Frame(slot.b, slot.w, v))

\* fetch_mem registers the address and sends the RQ1.
Ask(at, w, next) ==
    /\ pc = at
    /\ slot' = [NoRead EXCEPT !.b = Cur, !.w = w]
    /\ outbound' = Append(outbound, Read(Cur, w))
    /\ pc' = next
    /\ UNCHANGED <<mem, inbound, editVars, known, fxName, queue, mode, todo, rec,
                   labels, due, out, worker, toggling>>

\* It returns the reply, or None when the polls run out, which they do only
\* when no reply is to come.
Got(at) ==
    /\ pc = at
    /\ slot.v = None => ~AnswerDue
    /\ slot' = SlotClosed
    /\ UNCHANGED <<unitVars, editVars, known, fxName, queue, mode, todo, labels,
                   out, worker, toggling>>

AskSwitch == Ask("sw", "sw", "swWait")

GotSwitch ==
    /\ Got("swWait")
    /\ rec' = [rec EXCEPT !.sw = slot.v]
    /\ UNCHANGED due
    /\ pc' = "type"

AskType == Ask("type", "type", "typeWait")

GotType ==
    /\ Got("typeWait")
    /\ rec' = [rec EXCEPT !.name = slot.v]
    /\ UNCHANGED due
    /\ pc' = IF Cur \in FxBlocks THEN "name" ELSE "params"

\* snapshot records the name of an fx block through set_fx_name.
RecordName ==
    /\ pc = "name"
    /\ fxName' = Names(Cur, rec.name)
    /\ pc' = "params"
    /\ UNCHANGED <<unitVars, editVars, known, queue, slot, mode, todo, rec, labels, due,
                   out, worker, toggling>>

\* sliders_for picks the two labels (KeyError on a name never recorded).
PickParams ==
    /\ pc = "params"
    /\ IF NameOf(Cur) = NoEntry
       THEN pc' = "dead" /\ UNCHANGED <<labels, due>>
       ELSE /\ labels' = SliderLabels(Cur, NameOf(Cur))
            /\ due' = {i \in {1, 2} : labels'[i] # None}
            /\ pc' = IF due' = {} THEN "done" ELSE "range"
    /\ UNCHANGED <<unitVars, editVars, known, fxName, queue, slot, mode, todo,
                   rec, out, worker, toggling>>

\* _value_range looks the label up under the name it finds now; a table
\* without it raises KeyError out of the task.
ReadRange ==
    /\ pc = "range"
    /\ pc' = IF InTable(Cur) THEN "val" ELSE "dead"
    /\ UNCHANGED <<unitVars, editVars, known, fxName, queue, slot, mode, todo,
                   rec, labels, due, out, worker, toggling>>

\* read_fx resolves it once more; a table without it gives no slider.
AskValue ==
    /\ pc = "val"
    /\ InTable(Cur)
    /\ Ask("val", SettingIn(LiveTable(Cur), labels[Turn]), "valWait")

\* On to the other slider, if there is one.
Resolved ==
    /\ due' = due \ {Turn}
    /\ pc' = IF due' = {} THEN "done" ELSE "range"

NoAddress ==
    /\ pc = "val"
    /\ ~InTable(Cur)
    /\ Resolved
    /\ UNCHANGED <<unitVars, editVars, known, fxName, queue, slot, mode, todo,
                   rec, labels, out, worker, toggling>>

\* A missing value costs an fx block its slider.
GotValue ==
    /\ Got("valWait")
    /\ rec' = IF slot.v = None /\ Cur \in FxBlocks THEN rec
              ELSE [rec EXCEPT !.sliders[Turn] =
                       [label |-> labels[Turn], value |-> slot.v]]
    /\ Resolved

\* The last block of its fx type: the whole type is recorded, and the scan
\* goes on to the next type unless it is stopped.
LastOfType ==
    Len(todo) = 1 \/ FxTypeOf[todo[2]] # FxTypeOf[Cur]
CutShort == LastOfType /\ worker = "stopping"

\* A block of the scan is complete; record_scan installs its fx type.
NextBlock ==
    /\ pc = "done"
    /\ mode = "scan"
    /\ LET read == [out EXCEPT ![Cur] = rec] IN
       IF LastOfType
       THEN /\ known' = [b \in Blocks |-> IF read[b] # NoEntry THEN read[b]
                                          ELSE known[b]]
            /\ out' = [b \in Blocks |-> NoEntry]
       ELSE out' = read /\ UNCHANGED known
    /\ todo' = IF CutShort THEN <<>> ELSE Tail(todo)
    /\ raced' = (raced \/ (CutShort /\ Len(todo) # 1))
    /\ rec' = Blank
    /\ pc' = IF todo' = <<>> THEN "idle" ELSE "sw"
    /\ UNCHANGED <<unitVars, edits, stops, losses, fxName, queue, slot, mode, labels,
                   due, worker, toggling>>

\* The re-read of a block's sliders is complete: set_sliders.
SetSliders ==
    /\ pc = "done"
    /\ mode = "sliders"
    /\ known' = [known EXCEPT ![Cur].sliders = rec.sliders]
    /\ todo' = <<>>
    /\ rec' = Blank
    /\ pc' = "idle"
    /\ UNCHANGED <<unitVars, editVars, fxName, queue, slot, mode, labels, due, out,
                   worker, toggling>>

-----------------------------------------------------------------------------
(* The worker is stopped and started                                       *)

\* stop_refresh_thread, after the application's own scan.
Stop ==
    /\ Ready
    /\ worker = "running"
    /\ stops < MaxStops
    /\ edits + stops < MaxEdits
    /\ stops' = stops + 1
    /\ worker' = "stopping"
    /\ UNCHANGED <<unitVars, edits, losses, raced, known, fxName, queue, slot, pc,
                   mode, todo, rec, labels, due, out, toggling>>

\* _run finds _stopped set, whether or not drain has emptied the queue.
Exit ==
    /\ pc = "idle"
    /\ worker = "stopping"
    /\ worker' = "exited"
    /\ UNCHANGED <<unitVars, editVars, known, fxName, queue, slot, pc, mode, todo,
                   rec, labels, due, out, toggling>>

\* start_refresh_thread once the old worker has ended, by an exception or not:
\* a new one with locals of its own.
Start ==
    /\ worker = "exited" \/ (worker = "stopping" /\ pc = "dead")
    /\ worker' = "running"
    /\ pc' = "idle"
    /\ todo' = <<>>
    /\ rec' = Blank
    /\ out' = [b \in Blocks |-> NoEntry]
    /\ UNCHANGED <<unitVars, editVars, known, fxName, queue, slot, mode, labels,
                   due, toggling>>

-----------------------------------------------------------------------------
(* The inbound thread: the link's correlation, then                        *)
(* _process_data_from_unit with PatchState.apply                           *)

TakenAsReply(f) ==
    f.kind = "data" /\ slot.b = f.b /\ slot.w = f.w

Correlate ==
    /\ inbound # <<>>
    /\ TakenAsReply(Head(inbound))
    /\ slot' = [slot EXCEPT !.v = Head(inbound).v]
    /\ inbound' = Tail(inbound)
    /\ UNCHANGED <<mem, outbound, editVars, known, fxName, queue, pc, mode, todo,
                   rec, labels, due, out, worker, toggling>>

ProcessProgramChange ==
    /\ inbound # <<>>
    /\ Head(inbound).kind = "program"
    /\ queue' = Scheduled(Head(inbound))
    /\ inbound' = Tail(inbound)
    /\ UNCHANGED <<mem, outbound, editVars, known, fxName, readVars, toggling>>

\* Until every fx type has been scanned an echo is dropped.
Refuse ==
    /\ inbound # <<>>
    /\ Head(inbound).kind = "data"
    /\ ~TakenAsReply(Head(inbound))
    /\ ~Ready
    /\ inbound' = Tail(inbound)
    /\ UNCHANGED <<mem, outbound, editVars, known, fxName, queue, readVars,
                   toggling>>

Apply ==
    /\ inbound # <<>>
    /\ Head(inbound).kind = "data"
    /\ ~TakenAsReply(Head(inbound))
    /\ Ready
    /\ LET f == Head(inbound) IN
       /\ known' = [known EXCEPT ![f.b] = Applied(@, f)]
       /\ fxName' = IF f.w = "type" /\ f.b \in FxBlocks
                    THEN [fxName EXCEPT ![f.b] = f.v] ELSE fxName
       /\ queue' = Scheduled(f)
    /\ inbound' = Tail(inbound)
    /\ UNCHANGED <<mem, outbound, editVars, readVars, toggling>>

-----------------------------------------------------------------------------
(* Edits, at the unit's panel (external) and by the application.           *)

\* A read of everything, or of a block's slider, is under way or due.
ScanDue == \/ pc # "idle" /\ mode = "scan"
           \/ On(queue, Full) \/ On(inbound, ProgramChange)
RereadDue(b) ==
    \/ pc # "idle" /\ mode = "sliders" /\ Cur = b
    \/ On(queue, Sliders(b))
    \/ \E e \in Effects : On(inbound, Frame(b, "type", e))
                          \/ On(outbound, Write(b, "type", e))

\* A write whose echo could come in the middle of a read an edit leads to.
WriteDue(b) == \E i \in 1..Len(outbound) :
                  outbound[i].kind = "dt1" /\ outbound[i].b = b

\* An edit of what nothing reads, and no other write is half way through.
Calm(b, w) ==
    /\ ~ScanDue
    /\ w = "sw" \/ ~RereadDue(b)
    /\ w = "type" => ~WriteDue(b)
    /\ toggling.b # b

CountEdit(calm) ==
    /\ edits + stops < MaxEdits
    /\ edits' = edits + 1
    /\ raced' = (raced \/ ~calm)
    /\ UNCHANGED <<stops, losses>>

\* The settings a block of the unit has now.
UnitTable(b) ==
    IF b \in FxBlocks THEN FxTable[mem[b]["type"]] ELSE BlockTable[b]

\* A control of the panel: the unit announces the new value.
PanelEdit(b, w, v) ==
    /\ CountEdit(Calm(b, w))
    /\ w \in Settings => w \in UnitTable(b)
    /\ v # mem[b][w]
    /\ mem' = [mem EXCEPT ![b][w] = v]
    /\ inbound' = Append(inbound, Frame(b, w, v))
    /\ UNCHANGED <<outbound, known, fxName, queue, readVars, toggling>>

\* Another patch: the unit announces only that.
ChangeProgram ==
    /\ CountEdit(\A b \in Blocks : Calm(b, "type"))
    /\ mem' \in Patches \ {mem}
    /\ inbound' = Append(inbound, ProgramChange)
    /\ UNCHANGED <<outbound, known, fxName, queue, readVars, toggling>>

\* toggle_fx_state sends the DT1 ...
Toggle(b, v) ==
    /\ toggling = NoRead
    /\ CountEdit(Calm(b, "sw"))
    /\ outbound' = Append(outbound, Write(b, "sw", v))
    /\ toggling' = [b |-> b, w |-> "sw", v |-> v]
    /\ UNCHANGED <<mem, inbound, known, fxName, queue, readVars>>

\* ... and records it.  When the block was never scanned the call raises
\* KeyError to its caller: the write has been sent, nothing is recorded.
RecordToggle ==
    /\ toggling # NoRead
    /\ known' = IF known[toggling.b] = NoEntry THEN known
                ELSE [known EXCEPT ![toggling.b].sw = toggling.v]
    /\ toggling' = NoRead
    /\ UNCHANGED <<unitVars, editVars, fxName, queue, readVars>>

\* set_fx_value with the label of a slider it was shown; under an effect that
\* has no such setting the label has no address and the call raises.
SetValue(b, i, v) ==
    /\ known[b] # NoEntry
    /\ known[b].sliders[i] # None
    /\ LET l == known[b].sliders[i].label
           w == SettingIn(LiveTable(b), l)
       IN
       /\ b \in FxBlocks => fxName[b] # None
       /\ Carries(LiveTable(b), l)
       /\ CountEdit(Calm(b, w))
       /\ outbound' = Append(outbound, Write(b, w, v))
    /\ UNCHANGED <<mem, inbound, known, fxName, queue, readVars, toggling>>

\* set_fx_type_type
SetType(b, e) ==
    /\ CountEdit(Calm(b, "type"))
    /\ outbound' = Append(outbound, Write(b, "type", e))
    /\ UNCHANGED <<mem, inbound, known, fxName, queue, readVars, toggling>>

\* The unit (external) answers requests and echoes writes, in order.
Serve ==
    /\ outbound # <<>>
    /\ LET m == Head(outbound) IN
       IF m.kind = "dt1"
       THEN /\ mem' = [mem EXCEPT ![m.b][m.w] = m.v]
            /\ inbound' = Append(inbound, Frame(m.b, m.w, m.v))
       ELSE /\ inbound' = Append(inbound, Frame(m.b, m.w, mem[m.b][m.w]))
            /\ UNCHANGED mem
    /\ outbound' = Tail(outbound)
    /\ UNCHANGED <<editVars, known, fxName, queue, readVars, toggling>>

\* A request is lost.
LoseRequest ==
    /\ losses < MaxLosses
    /\ losses' = losses + 1
    /\ outbound # <<>>
    /\ Head(outbound).kind = "rq1"
    /\ outbound' = Tail(outbound)
    /\ UNCHANGED <<mem, inbound, edits, stops, raced, known, fxName, queue, readVars,
                   toggling>>

-----------------------------------------------------------------------------
Reader ==
    \/ TakeFull
    \/ TakeSliders
    \/ SkipFull
    \/ Exit
    \/ AskSwitch
    \/ GotSwitch
    \/ AskType
    \/ GotType
    \/ RecordName
    \/ PickParams
    \/ ReadRange
    \/ AskValue
    \/ NoAddress
    \/ GotValue
    \/ NextBlock
    \/ SetSliders

Receive == Correlate \/ ProcessProgramChange \/ Refuse \/ Apply

Edit(b) ==
    \/ \E w \in Whats : \E v \in ValuesOf(w) : PanelEdit(b, w, v)
    \/ \E v \in Switch : Toggle(b, v)
    \/ \E i \in 1..2 : \E v \in Vals : SetValue(b, i, v)
    \/ \E e \in Effects : SetType(b, e)

Next ==
    \/ Reader
    \/ Receive
    \/ \E b \in Blocks : Edit(b)
    \/ ChangeProgram
    \/ RecordToggle
    \/ Stop
    \/ Start
    \/ Serve
    \/ LoseRequest

Spec == Init /\ [][Next]_vars

\* The threads are scheduled, the unit answers and toggle_fx_state goes on to
\* its end.
FairSpec ==
    /\ Spec
    /\ WF_vars(Reader)
    /\ WF_vars(Receive)
    /\ WF_vars(Serve)
    /\ WF_vars(RecordToggle)

-----------------------------------------------------------------------------
(* Properties                                                              *)

Waits == {"swWait", "typeWait", "valWait"}

TypeOK ==
    /\ \A b \in Blocks : \A w \in Whats : mem[b][w] \in ValuesOf(w)
    /\ edits \in 0..MaxEdits
    /\ known \in [Blocks -> Entry \cup {NoEntry}]
    /\ fxName \in [FxBlocks -> Effects \cup {None, NoEntry}]
    /\ slot # NoRead <=> pc \in Waits
    /\ pc \in Waits => slot.b = Cur
    /\ mode \in {"scan", "sliders"}
    /\ mode = "sliders" => Len(todo) <= 1 /\ Ready
    /\ todo = <<>> <=> pc = "idle"
    /\ rec \in Entry
    /\ labels \in Pairs
    /\ due \subseteq {1, 2}
    /\ pc \in {"range", "val", "valWait"} => labels[Turn] # None
    /\ out \in [Blocks -> Entry \cup {NoEntry}]
    /\ worker \in {"running", "stopping", "exited"}
    /\ worker = "exited" => pc = "idle"
    /\ stops \in 0..MaxStops
    /\ losses \in 0..MaxLosses

\* What the unit would show for a block.
Shown(b) ==
    LET name == mem[b]["type"]
        labelled == SlidersOf[b][name]
    IN
    [sw |-> mem[b]["sw"], name |-> name,
     sliders |->
        [i \in 1..2 |->
            IF labelled[i] = None THEN None
            ELSE [label |-> labelled[i],
                  value |-> mem[b][SettingIn(UnitTable(b), labelled[i])]]]]

\* PatchState is what the unit holds, the effect names included.
Synced ==
    /\ \A b \in Blocks : known[b] = Shown(b)
    /\ \A b \in FxBlocks : fxName[b] = mem[b]["type"]

\* When nothing is under way, the known state is the unit's: every echo and
\* every program change has led to what it had to, and a scan that no edit
\* falls into repairs what earlier races have spoiled.
SyncedUnlessRaced == Quiet /\ ~raced => Synced

\* And that comes to pass once the edits end, while the worker runs.
Converges == <>[](~raced /\ worker = "running") => <>[]Synced

\* No edit that keeps clear of the reads, and no missing reply, ends the
\* reading thread with a KeyError.
ReaderEndsOnlyRaced == pc = "dead" => raced

\* With replies missing the known state may have gaps, but what it does
\* present is the unit's, under the right label.
NothingWrong ==
    Quiet /\ ~raced => \A b \in Blocks :
        /\ known[b].sw \in {None, mem[b]["sw"]}
        /\ known[b].name \in {None, mem[b]["type"]}
        /\ \A i \in 1..2 : known[b].sliders[i] # None =>
             /\ known[b].sliders[i].label = Shown(b).sliders[i].label
             /\ known[b].sliders[i].value \in {None, Shown(b).sliders[i].value}

\* The reading thread survives whatever is edited.
ReaderSurvives == pc # "dead"

=============================================================================
