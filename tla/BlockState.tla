----------------------------- MODULE BlockState -----------------------------
(***************************************************************************)
(* The known state against the unit's memory, block by block and with the  *)
(* names the code uses: the addresses of AddressMap, the reading of a      *)
(* block by BlockReader and BlockSnapshot with its two sliders, the entries*)
(* of PatchState and how an echo finds the one it belongs to.              *)
(*                                                                         *)
(* An operation is one action here, and the unit (external) answers and    *)
(* echoes within it; what its steps do when others come between them is    *)
(* the subject of PatchSync.  A refresh task waits in its queue, so that   *)
(* edits fall between an echo and the reading it leads to.                 *)
(*                                                                         *)
(* Settings here are one byte wide, so memory holds a value per address    *)
(* (RoundTrip has the wide ones).  The fx blocks have numbers for ids; the  *)
(* minimum and maximum of a slider go with its label and are left out.     *)
(***************************************************************************)
EXTENDS AddressMap, SequencesExt

CONSTANTS
    ScanOrder,      \* fx_types, in the order refresh_state takes them
    SliderParams,   \* NON_FX_SLIDER_PARAMS: fx type -> its two parameters
    FxSliderParams, \* FX_NAME_SLIDER_PARAMS: effect -> its two parameters
    Patches,        \* the patches of a unit, as the settings that are not 0
    Controls,       \* the settings edited: block, setting, effect and value
    Switches,       \* the SW settings toggled
    Strangers,      \* settings of the patch that are of no fx type
    Places,         \* AllPlaces, and
    Edits,          \* AllEdits, worked out once
    Asked,          \* the fx blocks get_one_fx_state is called for
    MaxEdits        \* bound: edits

SettingNames == UNION {{SettingTables[x][i].setting : i \in DOMAIN SettingTables[x]} :
                         x \in DOMAIN SettingTables}

\* The settings sliders are for, None among them.
Sliders == (UNION {Range(SliderParams[t]) : t \in DOMAIN SliderParams})
           \cup (UNION {Range(FxSliderParams[e]) : e \in DOMAIN FxSliderParams})
           \cup {"LEVEL1", "LEVEL", None}

ASSUME OrderAssumption == ScanOrder \in Seq(FxTypes) /\ Range(ScanOrder) = FxTypes
ASSUME CountsAssumption ==
    /\ IsFiniteSet(FxTypes)
    /\ "fx" \in FxTypes /\ FxBlockCount("fx") = 4
    /\ \A t \in FxTypes : FxBlockCount(t) \in 1..4
    /\ FxBlockCount("preamp") <= 2
ASSUME PolicyAssumption ==
    /\ FxTypes \ {"eq", "fx"} \subseteq DOMAIN SliderParams
    /\ DOMAIN FxSliderParams \subseteq DOMAIN TableSuffix
    /\ \A t \in DOMAIN SliderParams : DOMAIN SliderParams[t] = 1..2
    /\ \A e \in DOMAIN FxSliderParams : DOMAIN FxSliderParams[e] = 1..2
    /\ {"SW", "TYPE"} \subseteq SettingNames
    /\ Sliders \ {None} \subseteq SettingNames \ {"SW", "TYPE"}
ASSUME NoneAssumption ==
    /\ None \notin Nat
    /\ None \notin [label : Sliders, value : Nat \cup {None}]
    /\ None \notin FxTypes
ASSUME EditsAssumption == MaxEdits \in Nat /\ Asked \subseteq 1..4

VARIABLES
    memory,     \* the unit's memory (external)
    fx_count,   \* AddressMap._fx_types_count["fx"]
    state,      \* PatchState._state: the entries of each fx type scanned
    fx_names,   \* PatchState._fx_names: the effect of each block scanned
    queue,      \* RefreshScheduler._queue
    raised,     \* "reader" when an exception has ended the worker, "inbound"
                \* when the last message of the unit raised in its thread
    edits       \* edits so far

vars == <<memory, fx_count, state, fx_names, queue, raised, edits>>

Full == [kind |-> "full"]
SlidersTask(t, n) == [kind |-> "sliders", fx_type |-> t, n |-> n]

-----------------------------------------------------------------------------
(* BlockReader: one setting                                                *)

Count(t) == IF t = "fx" THEN fx_count ELSE FxBlockCount(t)

Blocks == {b \in FxTypes \X (1..4) : b[2] <= FxBlockCount(b[1])}
Effects == DOMAIN TableSuffix \cup {None}

\* The address and the table entry of every setting: Places.
AllPlaces ==
    LET At(b, s, e) == [address |-> BlockAddress(b[1], b[2], s, e),
                        entry |-> BlockEntry(b[1], b[2], s, e)]
    IN [b \in Blocks |-> [s \in SettingNames |-> [e \in Effects |-> At(b, s, e)]]]

ASSUME PlacesAssumption == Places = AllPlaces

Place(t, n, setting, fx_name) == Places[<<t, n>>][setting][fx_name]

\* What a read of a setting returns; None when the setting has no address or
\* the unit does not answer there.
Value(t, n, setting, fx_name) ==
    LET address == Place(t, n, setting, fx_name).address IN
    IF address \in DOMAIN memory THEN memory[address] ELSE None

\* read: every TYPE and SW value has a name.
ReadName(t, n, setting) ==
    LET raw == Value(t, n, setting, None) IN
    IF raw = None THEN None
    ELSE LabelForRaw(Place(t, n, setting, None).entry.values, raw)

\* read_value: the byte, or the label it has in the table of an effect.
ReadValue(t, n, param, fx_name) ==
    LET raw == Value(t, n, param, fx_name) IN
    IF t # "fx" \/ raw = None THEN raw
    ELSE LET label == LabelForRaw(Place(t, n, param, fx_name).entry.values, raw)
         IN IF label = None THEN raw ELSE label

\* Slip: the tables are named by their suffix alone.
FxTableBare(fx_name) == TableSuffix[fx_name]

FxTable(fx_name) == "PatchFx" \o TableSuffix[fx_name]

\* read_fx looks a value that came up in the effect's own table.
ReadRaises(t, n, setting, fx_name) ==
    /\ t = "fx"
    /\ Value(t, n, setting, fx_name) # None
    /\ FxTable(fx_name) \notin DOMAIN SettingTables

\* value_range: a block without an entry has no range, a setting that is
\* not in the table of its block raises.
RangeRaises(t, n, setting, fx_name) ==
    LET so == BlockSectionOption(t, n, fx_name) IN
    /\ Place(t, n, setting, fx_name).entry = None
    /\ OptionEntry(so.section, so.option) # None

-----------------------------------------------------------------------------
(* BlockSnapshot: a block                                                  *)

\* The two parameters of a block: name is the live effect name of an fx
\* block, else the name handed to sliders_for.
Params(t, name) ==
    IF t = "eq"
    THEN <<IF name = "PARAMETRIC" THEN "LEVEL1" ELSE "LEVEL", None>>
    ELSE IF t # "fx" THEN SliderParams[t]
    ELSE IF name \in DOMAIN FxSliderParams THEN FxSliderParams[name]
    ELSE <<None, None>>

EffectOf(t, name) == IF t = "fx" THEN name ELSE None

\* _resolve: a missing value leaves an fx block without the slider.
Resolve(t, n, param, fx_name) ==
    IF param = None THEN None
    ELSE LET value == ReadValue(t, n, param, fx_name) IN
         IF t = "fx" /\ value = None THEN None
         ELSE [label |-> param, value |-> value]

SlidersFor(t, n, name) ==
    [i \in 1..2 |-> Resolve(t, n, Params(t, name)[i], EffectOf(t, name))]

SlidersRaise(t, n, name) ==
    \E i \in 1..2 :
        LET param == Params(t, name)[i] IN
        /\ param # None
        /\ \/ RangeRaises(t, n, param, EffectOf(t, name))
           \/ ReadRaises(t, n, param, EffectOf(t, name))

BlockName(t, n) ==
    IF t \in {"ns", "delay"} THEN t \o NormalizedId(t, n)
    ELSE ReadName(t, n, "TYPE")

Snapshot(t, n) ==
    [fx_id |-> NormalizedId(t, n),
     state |-> ReadName(t, n, "SW"),
     name |-> BlockName(t, n),
     sliders |-> SlidersFor(t, n, BlockName(t, n))]

SnapshotAll(t) == [n \in 1..Count(t) |-> Snapshot(t, n)]

Raising(t) == {n \in 1..Count(t) : SlidersRaise(t, n, BlockName(t, n))}

\* Slip: an effect that is recorded is not recorded again.
RecordedOnce(ns) ==
    [n \in DOMAIN fx_names \cup ns |->
        IF n \in DOMAIN fx_names THEN fx_names[n] ELSE BlockName("fx", n)]

\* The effects recorded by set_fx_name while the blocks ns are read in turn,
\* up to one that raises.
Recorded(ns) ==
    LET read == {n \in ns : \A m \in Raising("fx") \cap ns : n <= m} IN
    [n \in DOMAIN fx_names \cup read |->
        IF n \in read THEN BlockName("fx", n) ELSE fx_names[n]]

-----------------------------------------------------------------------------
(* PatchState                                                              *)

Ready == Cardinality(DOMAIN state) = Cardinality(FxTypes)

DecodedId(d) == IF d.number = 0 THEN NoId ELSE <<"1", "2", "3", "4">>[d.number]

\* The entries of type t with those of this id replaced from entries.
Changed(st, t, id, entries) ==
    [st EXCEPT ![t] = [i \in DOMAIN st[t] |->
        IF st[t][i].fx_id = id THEN entries[i] ELSE st[t][i]]]

\* A slider with the label of the echo takes its value.
SliderEchoed(slider, d) ==
    IF slider # None /\ slider.label = d.setting
    THEN [slider EXCEPT !.value = d.raw] ELSE slider

\* Slip: a TYPE goes to the field of SW.
EntryEchoedMixed(entry, d) ==
    IF d.setting \in {"SW", "TYPE"} THEN [entry EXCEPT !.state = d.label]
    ELSE [entry EXCEPT !.sliders =
            [i \in 1..2 |-> SliderEchoed(entry.sliders[i], d)]]

EntryEchoed(entry, d) ==
    CASE d.setting = "SW" -> [entry EXCEPT !.state = d.label]
      [] d.setting = "TYPE" -> [entry EXCEPT !.name = d.label]
      [] OTHER -> [entry EXCEPT !.sliders =
                      [i \in 1..2 |-> SliderEchoed(entry.sliders[i], d)]]

\* Slip: an echo is folded in before the first scan is complete.
ReachesEarly(d) == d # None

\* Until every type is scanned an echo is refused; one of no fx type finds
\* no entries and raises.
Reaches(d) == d # None /\ Ready
Strays(d) == Reaches(d) /\ d.fx_type \notin DOMAIN state
Lands(d) ==
    /\ Reaches(d)
    /\ ~Strays(d)
    /\ \E i \in DOMAIN state[d.fx_type] : state[d.fx_type][i].fx_id = DecodedId(d)
TypeChanged(d) == Lands(d) /\ d.setting = "TYPE"

Applied(d) ==
    IF Lands(d)
    THEN Changed(state, d.fx_type, DecodedId(d),
                 [i \in DOMAIN state[d.fx_type] |->
                     EntryEchoed(state[d.fx_type][i], d)])
    ELSE state

\* Slip: an echo changes the name of the entry only.
NamesAfterScan(d) == fx_names

NamesAfter(d) ==
    IF TypeChanged(d) /\ d.fx_type = "fx"
    THEN [fx_names EXCEPT ![d.number] = d.label] ELSE fx_names

\* Slip: no re-read after a change of type.
ScheduledNever(d) == queue

\* _process_data_from_unit: a change of type schedules a re-read.
Scheduled(d) ==
    IF TypeChanged(d) THEN Append(queue, SlidersTask(d.fx_type, d.number))
    ELSE queue

\* set_fx: the one entry there is, or the entry of this id.
SetFx(st, t, id, value) ==
    Changed(st, t, IF Len(st[t]) = 1 THEN st[t][1].fx_id ELSE id,
            [i \in DOMAIN st[t] |-> [st[t][i] EXCEPT !.state = value]])

\* set_sliders
SetSliders(t, id, sliders) ==
    Changed(state, t, id,
            [i \in DOMAIN state[t] |-> [state[t][i] EXCEPT !.sliders = sliders]])

-----------------------------------------------------------------------------
(* The unit (external) has an address for every setting of its blocks; a    *)
(* GT-1000CORE has no fourth fx block.                                      *)

Addresses(core) ==
    (UNION {{AddressFor(s, k, x) :
              k \in {key \in PatchKeys : core => key.type # "fx" \/ key.id # "4"},
              x \in SettingNames} : s \in DOMAIN BaseAddresses}) \ {None}

Memories ==
    {[a \in Addresses(core) |->
        IF \E c \in p : BlockAddress(c.fx_type, c.n, c.setting, c.fx_name) = a
        THEN (CHOOSE c \in p :
                BlockAddress(c.fx_type, c.n, c.setting, c.fx_name) = a).raw
        ELSE 0] : p \in Patches, core \in BOOLEAN}

Init ==
    /\ memory \in Memories
    /\ fx_count = FxBlockCount("fx")
    /\ state = <<>>
    /\ fx_names = <<>>
    /\ queue = <<>>
    /\ raised = {}
    /\ edits = 0

IsCore == Place("fx", 4, "TYPE", None).address \notin DOMAIN memory

\* _apply_identity
ApplyIdentity ==
    /\ fx_count' = IF IsCore THEN 3 ELSE fx_count
    /\ UNCHANGED <<memory, state, fx_names, queue, raised, edits>>

\* refresh_state: each type is recorded when its blocks are read; the first
\* block that raises ends it.
Scanned(types) ==
    [t \in DOMAIN state \cup types |->
        IF t \in types THEN SnapshotAll(t) ELSE state[t]]

RefreshState ==
    \/ /\ \A t \in FxTypes : Raising(t) = {}
       /\ state' = Scanned(FxTypes)
       /\ fx_names' = Recorded(1..Count("fx"))
       /\ UNCHANGED raised
    \/ \E i \in DOMAIN ScanOrder :
          /\ Raising(ScanOrder[i]) # {}
          /\ \A j \in 1..(i - 1) : Raising(ScanOrder[j]) = {}
          /\ state' = Scanned({ScanOrder[j] : j \in 1..(i - 1)})
          /\ fx_names' = IF "fx" \in {ScanOrder[j] : j \in 1..i}
                         THEN Recorded(1..Count("fx")) ELSE fx_names
          /\ raised' = raised \cup {"reader"}

\* By the application, before the worker is started.
FirstRefresh ==
    /\ state = <<>>
    /\ "reader" \notin raised
    /\ RefreshState
    /\ UNCHANGED <<memory, fx_count, queue, edits>>

\* The worker takes the next task.
RunFull ==
    /\ queue # <<>>
    /\ "reader" \notin raised
    /\ Head(queue) = Full
    /\ queue' = Tail(queue)
    /\ RefreshState
    /\ UNCHANGED <<memory, fx_count, edits>>

\* _refresh_sliders gives no name: only an fx block has one, the live one.
RunSliders ==
    /\ queue # <<>>
    /\ "reader" \notin raised
    /\ Head(queue).kind = "sliders"
    /\ LET t == Head(queue).fx_type
           n == IF Head(queue).n = 0 THEN 1 ELSE Head(queue).n
           name == IF t = "fx" THEN fx_names[n] ELSE None
       IN IF SlidersRaise(t, n, name)
          THEN raised' = raised \cup {"reader"} /\ UNCHANGED state
          ELSE /\ state' = SetSliders(t, NormalizedId(t, n), SlidersFor(t, n, name))
               /\ UNCHANGED raised
    /\ queue' = Tail(queue)
    /\ UNCHANGED <<memory, fx_count, fx_names, edits>>

-----------------------------------------------------------------------------
(* Edits.  The unit takes the value and says so; Echo is what becomes of    *)
(* that, the entries aside.                                                *)

\* The address of each edit, and what decode makes of its echo: Edits.
AllEdits ==
    LET Address(c) == BlockAddress(c.fx_type, c.n, c.setting, c.fx_name)
    IN [c \in Controls \cup Switches \cup Strangers |->
           [address |-> Address(c), decoded |-> Decode(Address(c), <<c.raw>>)]]

ASSUME EchoesAssumption == Edits = AllEdits

\* DeviceLink swallows what a callback raises: its thread goes on.
Echo(d) ==
    /\ fx_names' = NamesAfter(d)
    /\ queue' = Scheduled(d)
    /\ raised' = (raised \ {"inbound"}) \cup (IF Strays(d) THEN {"inbound"} ELSE {})

Stored(c) ==
    LET address == Edits[c].address IN
    /\ edits < MaxEdits
    /\ edits' = edits + 1
    /\ address \in DOMAIN memory
    /\ memory' = [memory EXCEPT ![address] = c.raw]
    /\ UNCHANGED fx_count

Edited(c) ==
    /\ Stored(c)
    /\ Echo(Edits[c].decoded)
    /\ state' = Applied(Edits[c].decoded)

\* At the unit's panel, which has the settings of the loaded effect only.
PanelEdit(c) ==
    /\ c.fx_name # None => c.fx_name = ReadName(c.fx_type, c.n, "TYPE")
    /\ Edited(c)

\* At the panel too: the chain, or another setting of the patch itself.
PanelElsewhere(c) == Edited(c)

\* Another patch of the same unit.
ChangeProgram ==
    /\ edits < MaxEdits
    /\ edits' = edits + 1
    /\ memory' \in {m \in Memories \ {memory} : DOMAIN m = DOMAIN memory}
    /\ queue' = Append(queue, Full)
    /\ raised' = raised \ {"inbound"}
    /\ UNCHANGED <<fx_count, state, fx_names>>

\* The slider of c is on show; an fx block's setting is one of the effect
\* recorded for it.
Shown(c) ==
    /\ c.fx_type \in DOMAIN state
    /\ \E e \in Range(state[c.fx_type]), i \in 1..2 :
          /\ e.fx_id = NormalizedId(c.fx_type, c.n)
          /\ e.sliders[i] # None
          /\ e.sliders[i].label = c.setting
    /\ c.fx_type = "fx" => c.fx_name = fx_names[c.n]

\* set_fx_value with the label of a slider on show.
SetFxValue(c) ==
    /\ Shown(c)
    /\ Edited(c)

\* set_fx_type_type
SetFxTypeType(c) ==
    /\ c.setting = "TYPE"
    /\ c.fx_name = None
    /\ Edited(c)

\* toggle_fx_state; a block not scanned raises to the caller when the write
\* is done.
ToggleFxState(c) ==
    /\ Stored(c)
    /\ Echo(Edits[c].decoded)
    /\ state' = IF c.fx_type \in DOMAIN state
                THEN SetFx(Applied(Edits[c].decoded), c.fx_type,
                           NormalizedId(c.fx_type, c.n), c.label)
                ELSE state

\* get_one_fx_state of an fx block: it returns the block, and records its
\* effect on the way.
GetOneFxState(n) ==
    /\ n <= Count("fx")
    /\ n \notin Raising("fx")
    /\ fx_names' = Recorded({n})
    /\ UNCHANGED <<memory, fx_count, state, queue, raised, edits>>

-----------------------------------------------------------------------------
Next ==
    \/ ApplyIdentity
    \/ FirstRefresh
    \/ RunFull
    \/ RunSliders
    \/ \E c \in Controls : PanelEdit(c)
    \/ \E c \in Controls : SetFxValue(c)
    \/ \E c \in Controls : SetFxTypeType(c)
    \/ \E c \in Switches : ToggleFxState(c)
    \/ \E c \in Strangers : PanelElsewhere(c)
    \/ ChangeProgram
    \/ \E n \in Asked : GetOneFxState(n)

Spec == Init /\ [][Next]_vars

-----------------------------------------------------------------------------
(* What the properties ask of the tables, the patches and the edits; each of *)
(* the disagreements of MCEchoControls is a control that fails it.           *)

Settable == (UNION Patches) \cup Controls \cup Switches \cup Strangers

\* The values an address can hold, and the effects an fx block can have.
Raws(address) ==
    {0} \cup {c.raw : c \in {x \in Settable :
                 BlockAddress(x.fx_type, x.n, x.setting, x.fx_name) = address}}
Loadable(n) ==
    LET type == Place("fx", n, "TYPE", None) IN
    {None} \cup {LabelForRaw(type.entry.values, raw) : raw \in Raws(type.address)}

\* The sliders of every block and loadable effect are in its tables, and those
\* of an effect have no named values.
TablesComplete ==
    /\ \A c \in Settable : c.raw \in Nat
    /\ \A n \in 1..4 : \A e \in Loadable(n) :
          /\ e \in Effects
          /\ \A i \in 1..2 : Params("fx", e)[i] # None =>
                /\ ~RangeRaises("fx", n, Params("fx", e)[i], e)
                /\ "PatchFx" \o TableSuffix[e] \in DOMAIN SettingTables
                /\ LET entry == Place("fx", n, Params("fx", e)[i], e).entry IN
                      entry # None => DOMAIN entry.values = {}
    /\ \A b \in Blocks : b[1] # "fx" =>
          \A name \in {"PARAMETRIC", "GRAPHIC"}, i \in 1..2 :
             LET param == Params(b[1], name)[i] IN
             param # None => ~RangeRaises(b[1], b[2], param, None)
    /\ \A b \in Blocks : DOMAIN Places[b]["SW"][None].entry.values \subseteq {"ON", "OFF"}

\* A switch is one of a block: its echo is of an fx type.
SwitchesOfBlocks == \A c \in Switches : Edits[c].decoded.fx_type \in FxTypes

\* A block's setting that has an address of its own, and whose echo decodes to
\* it and to the value sent.
Faithful(c) ==
    LET d == Edits[c].decoded
        b == <<c.fx_type, c.n>>
    IN /\ b \in Blocks /\ c.setting \in SettingNames /\ c.fx_name \in Effects
       /\ \A p \in Blocks, s \in SettingNames, e \in Effects :
             Places[p][s][e].address = Edits[c].address =>
                p = b /\ s = c.setting /\ e = c.fx_name
       /\ d # None
       /\ d.fx_type = c.fx_type /\ d.setting = c.setting /\ d.raw = c.raw
       /\ d.label = LabelForRaw(Places[b][c.setting][c.fx_name].entry.values, c.raw)

Numbered(c) ==
    LET d == Edits[c].decoded IN
    /\ DecodedId(d) = NormalizedId(c.fx_type, c.n)
    /\ d.number = IF NormalizedId(c.fx_type, c.n) = NoId THEN 0 ELSE c.n

\* A preamp is switched by its letter and echoed by its number: then no entry
\* is found.
EchoesFollowed ==
    /\ \A c \in Controls :
          /\ Faithful(c) /\ Numbered(c)
          /\ c.fx_name # None <=> c.fx_type = "fx" /\ c.setting \notin {"SW", "TYPE"}
          /\ c.setting = "TYPE" => c.fx_type \notin {"ns", "delay", "eq"}
    /\ \A c \in Switches :
          /\ Faithful(c)
          /\ c.setting = "SW" /\ c.fx_name = None
          /\ c.label = Edits[c].decoded.label
          /\ \/ Numbered(c)
             \/ \A n \in 1..FxBlockCount(c.fx_type) :
                   DecodedId(Edits[c].decoded) # NormalizedId(c.fx_type, n)
    /\ \A c \in Strangers :
          /\ Edits[c].decoded # None => Edits[c].decoded.fx_type = None
          /\ \A p \in Blocks, s \in SettingNames, e \in Effects :
                Places[p][s][e].address # Edits[c].address

-----------------------------------------------------------------------------
(* Properties                                                              *)

TypeOK ==
    /\ fx_count \in {3, 4}
    /\ DOMAIN state \subseteq FxTypes
    /\ \A t \in DOMAIN state : \A i \in DOMAIN state[t] :
          LET e == state[t][i] IN
          /\ e.fx_id = NormalizedId(t, i)
          /\ e.state \in {"ON", "OFF", None}
          /\ \A k \in 1..2 : e.sliders[k] # None =>
                e.sliders[k].label \in Sliders \ {None}
    /\ DOMAIN fx_names \subseteq 1..4
    /\ \A i \in DOMAIN queue : queue[i] = Full \/ queue[i].fx_type \in FxTypes
    /\ raised \subseteq {"reader", "inbound"}
    /\ edits \in 0..MaxEdits

\* Echoes and the re-reads they lead to leave exactly what a scan of the
\* unit would install: with the queue empty every entry is its block's.
IncrementalIsScan ==
    Ready /\ queue = <<>> =>
        \A t \in FxTypes : \A n \in 1..Count(t) :
            n \in DOMAIN state[t] /\ state[t][n] = Snapshot(t, n)

\* The effect recorded for an fx block is the one loaded in it, unless a
\* program change is still to be followed.
LoadedEffect ==
    Ready /\ ~Contains(queue, Full) =>
        \A n \in DOMAIN fx_names : fx_names[n] = ReadName("fx", n, "TYPE")

\* Moving a slider moves the parameter of the effect that is loaded, even
\* while the slider shown is still that of the effect before.
ValueReaches ==
    ~Contains(queue, Full) =>
        \A c \in Controls : Shown(c) =>
            Edits[c].address =
                Place(c.fx_type, c.n, c.setting,
                      EffectOf(c.fx_type, ReadName(c.fx_type, c.n, "TYPE"))).address

\* No scan and no re-read raises: a block's sliders are read, or are None.
ReaderSurvives == "reader" \notin raised

\* An echo raises in the unit's thread only when it is of no fx type, and then
\* it leaves every entry, effect and task as it was; all others, those before
\* the first scan among them, are taken.
EchoesAbsorbed ==
    [][ edits' # edits /\ "inbound" \in raised' =>
          /\ \E c \in DOMAIN Edits :
                /\ Edits[c].decoded.fx_type \notin FxTypes
                /\ memory' = [memory EXCEPT ![Edits[c].address] = c.raw]
          /\ UNCHANGED <<state, fx_names, queue>> ]_vars

=============================================================================
